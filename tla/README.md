# A TLA+ development of svf-tree-sitter

svf-tree-sitter is a C frontend for SVF. It parses C files with tree-sitter, walks the
concrete syntax trees once, and writes what it sees into SVF's IR: the program assignment
graph (PAG), the interprocedural control-flow graph (ICFG) and the call graph. SVF's
pointer analysis then runs on the result. This directory holds TLA+ models of the command
`ts-svf` from its options to its exit code, of that walk, of the type registry and layout,
and of the scripts that judge the output; the TLC runs that check them on small programs;
and TLAPS proofs about them for all programs.

The program is sequential and persists nothing. What is hard here is a long recursion
over an open-ended input that works on shared mutable members: the current function, the
anchor of new statements, the return ValVar, a stack of scopes, struct tags on nodes and
tables that live across files. A handler is right only if all the handlers it can be
nested in leave that state as it expects. A test exercises one nesting; a model checker
exercises all of them up to a bound. And what the walk is for, a *sound* points-to
analysis, is a statement about every run of the C program, which no test looks at.

## 1. The system's parts

| Part | State | Operations | Modelled in |
|---|---|---|---|
| `main.cpp` | the options, the files, the exit code | read the options; parse, visit, verify, dump, solve | `CommandLine`, `Andersen` |
| `TSFrontend` | the list of parsed files, the SVFIR and ICFG | `addSourceFile`, `buildSVFIR`: for each file, both passes | `CommandLine`, `TSIRBuilder` |
| `TSIRBuilder` | `currentFunc`, `currentICFG`, `currentBB`, `currentRetVal`, `currentRetIsPtr`, `funcInfos`, `structFields`, `nodeStructTy` | prescan; `visitTranslationUnit`, `visitFunctionDef`, the declaration, statement and expression visitors, `lvalueAddress` | `TSIRBuilder`, `FunctionLifecycle` |
| `TSSymbolTable` | `globals`, the stack of `scopes` | enter, exit, insert, lookup | `TSIRBuilder` |
| `TSTypeBuilder` | `structs`, `typedefs`, the `StInfo` of each type, the next type id | parse a specifier, register a struct or a typedef | `TSTypeBuilder` (as a registry with sizes), `TSIRBuilder` (as the visitor needs it) |
| `SimpleDataLayout` | none | size, alignment, field offset (field index has no caller and is left out) | `SimpleDataLayout`, `StructLayout` |
| `GepHandler` | none | constant and variant Geps | `SVFIR`, `TSIRBuilder` |
| `TSICFGBuilder` | the ICFG | nodes and edges | `SVFIR`, `TSIRBuilder` |
| `SvfShim.h` | the PAG and ICFG | the `add*` methods of SVF that the frontend reaches | `SVFIR` |
| `SVFIRVerifier` | none | layer 1: the structural checks of `--verify` | `SVFIRVerifier` |
| `extract_pts.py`, `check_expected.py` | none | layer 2: compare with the `EXPECTED:` block | `TestSuite` (partly) |
| `run_compare.sh`, `extract_pts.py`, `compare_pts.py` | the tables of two tools | layer 3: compare with clang and wpa | `Layer3` (partly) |
| SVF core | external | the solver | `Andersen` (partly) |
| tree-sitter, build files | external | | not modelled |

**Interactions.** `main` reads its words one by one, parses every file, has
`buildSVFIR` (TSFrontend.cpp:49-72) visit each file to its end before it looks at the
next, and then verifies, dumps, solves and dumps again as the options say; each stage may
end the run. Within a file, `visitTranslationUnit` enters a scope, registers every
function definition (prescan: FunObj, entry and exit, a ValVar per formal, the return
ValVar), and then visits the top-level nodes in source order. A function body is visited
by mutual recursion; handlers talk to each other through return values (a PAG node id)
and through the members above. All of them write the graphs through the shim and the
symbol table through insert and lookup. `funcInfos`, `globals`, the typedefs and the field
tables survive from one file to the next; the scopes do not. The test scripts start
`ts-svf`, clang and wpa as processes joined by pipes, and look at their text and at exit
codes.

**Hard behaviours.** (a) The order of passes, files, bodies and top-level declarations
decides what a name or call finds. (b) Members are set by one visitor, read by another,
and reset by a third. (c) Operands are visited before the operator's own nodes exist, so
ids cross in the recursion. (d) Tags are propagated along loads, casts, sums and fields.
(e) Two classifications of "pointer", by syntax and by PAG type, must agree. (f) What
flows in C through several statements, calls and fields must flow in the graph, in every
order of execution. (g) A tool may die in a pipe, and a script that looks at the last
status goes on. The list of hazards in `PROJECT.json` gives a line of code for each.
Timeouts, retries and restarts do not arise: nothing is persisted and nothing waits.

**What makes each part correct.**
- Command: all or nothing is reported, never what the verifier rejects.
- Visitor: only well-formed statements; every object has one address; every value has one
  definition; a function's interface is used by calls and returns alone; the three graphs
  agree on each call; each registered function is visited once; statements stay in their
  function; and the points-to sets hold for every run of the C program.
- Symbol table: the lookup agrees with C's scopes.
- Types and layout: a field is found at its position in the struct's definition, which is
  its place in `StInfo`, in however many files the definition stands; objects have the
  fields and the size of their type. (Byte offsets are computed and used by nobody.)
- Frontend: calls find every function the program defines, whatever its file.
- Verifier: it accepts what the visitor emits.
- Layer 2: the visitor and the analysis produce the expected blocks of the test suite.
- Layer 3: a sound result passes, and what passes is sound.

## 2. The modules

| Module | What it is |
|---|---|
| `SVFIR` | The graphs and the shim's operations as pure operators, with their well-formedness (`IsPag`, `IsIcfg`) |
| `TSIRBuilder` | The visitor as a state machine: the core |
| `FunctionLifecycle` | What the two passes promise of a function: the abstract specification |
| `LifecycleRefinement` | The refinement mapping from `TSIRBuilder` to it, and the invariants it rests on |
| `VisitorInvariants` | What the visitor maintains between its handlers: the invariants that its properties rest on |
| `SVFIRVerifier` | `--verify` as a predicate on the PAG |
| `Andersen` | One round of the points-to solver, its fixpoint, and how it is reported |
| `Programs` | C programs as sequences of syntax-node visits (tokens), and the visitor's step for each token |
| `CommandLine` | `main` and `TSFrontend`: from the options to the exit code, over `Programs` and `TSIRBuilder` |
| `CMachine` | A C abstract machine that runs the same tokens, and what makes an analysis of them sound |
| `TestSuite` | The twenty programs of `src/tests` with their `EXPECTED:` blocks |
| `Soundness` | Three families of C programs for `CMachine` |
| `Divergences` | Eighteen C programs that the analysis gets wrong (section 6) |
| `SimpleDataLayout` | Three of the layout functions, beside the rules of the psABI |
| `StructLayout` | A struct that grows field by field, and what the layout functions and the flattening say of it |
| `TSTypeBuilder` | The type registry under the declarations that reach it, with what C says of each declaration in variables of its own (`members`, `plain`, `meaning`) |
| `Layer3` | The pipeline of `run_compare.sh` and the comparison by name |
| `MCTSIRBuilder`, `MCCommandLine`, `MCSimpleDataLayout`, `MCTSTypeBuilder`, `MCLayer3` | Constant values a `.cfg` cannot write |
| `TSIRBuilderProofs`, `LifecycleProofs` | Proofs: the graph operators, types and objects, the lifecycle and its refinement |
| `InterfaceProofs`, `SymbolProofs`, `PlaceProofs` | Proofs about the visitor: functions' interfaces; symbols, fields and pointers; scopes, the ICFG and calls |
| `CommandLineProofs`, `Layer3Proofs` | Proofs about the command, with what it inherits from the visitor, and about layer 3 |
| `TypeProofs` | Proofs about the layout and the type registry |

The proof modules form a chain, each extending the one before it, so a lemma about a
graph operator or a handler is proved once. The order is that of the tables above:
`TSIRBuilderProofs`, `LifecycleProofs`, `InterfaceProofs`, `SymbolProofs`,
`PlaceProofs`, `CommandLineProofs`; `Layer3Proofs` and `TypeProofs` stand alone.

### How a recursive visitor becomes a state machine

The visitor's steps are taken in the order in which the recursion performs them: operands
before operators, a block's statements between its `enterScope` and `exitScope`. The call
stack of the C++ program becomes two sequences:

- `stack` holds the operands whose visit has returned and whose caller has not used them
  yet. An operand is a node id with its syntactic form, and `as` says whether `visitExpr`
  (`"rvalue"`), `lvalueAddress` (`"lvalue"`) or either can have returned that id. So
  `x` has two transitions, one that loads and one that returns the slot, and a handler
  that calls `lvalueAddress` on its child accepts only the second.
- `frames` holds the enclosing compound statements, `for` statements and function bodies.
  Each frame carries `env`, a history variable: the C scope of the construct, which the
  visitor does not have, with the node that each declaration got. `NamesResolveAsInC`
  compares it with the symbol table.

`target` is the declarator whose initializer is being visited, `toBind` the formals that
have no slot yet, `pending` and `seen` the definitions of the file that are still to come
and those passed. All other variables are members of the C++ classes under their names.

The program is not an input. Where the syntax tree decides what comes next, `Next` offers
every possibility of the C grammar, so the behaviours are the visits of *all* programs
over the constants: names, signatures, struct bodies, and the set `Constructs` of the
syntactic constructs in use. A name in `Constructs` switches a construct on; it lets a
run look at many operations at depth instead of all at a shallow bound. Constructs that
C forbids at a place (a call in a global initializer, a second definition of a function
in one file, `return` outside a body) are excluded by guards, so that a violation is one
of a valid program.

### Correspondence with the code

| Code | Actions |
|---|---|
| `buildSVFIR`, `visitTranslationUnit` | `StartUnit`, `EndPrescan`, `EndUnit` |
| `prescanFunctionDef` | `PrescanFunctionDef` (with `Register`) |
| `visitTopLevelDecl` | `VisitStructSpecifier`, `VisitTypeDefinition` |
| `visitGlobalDecl` | `VisitGlobalDecl`, `VisitPrototype`, `EndInitializer` |
| `visitFunctionDef` | `VisitFunctionDef`, `BindFormal`, `EnterBody`, `LeaveFunctionDef` |
| `visitCompound`, `visitFor` | `EnterBlock`, `ExitBlock`, `VisitFor`, `VisitForClause`, `EndFor` |
| `visitLocalDecl` | `VisitLocalDecl`, `SkipFunctionPointer`, `EndInitializer` |
| `visitStmt`, `visitReturn` | `VisitExprStmt`, `VisitReturn` |
| `visitExpr`, `lvalueAddress` | `VisitIdentifier`, `VisitNumber`, `VisitString`, `VisitNull`, `VisitParenthesized`, `VisitAddressOf`, `VisitDeref`, `VisitLastChild` |
| `visitBinary`, `visitAssign`, `visitField`, `visitSubscript`, `visitCast` | `VisitBinary`, `VisitAssignIdentifier`, `VisitAssignThrough`, `VisitAssignParenthesized`, `VisitField`, `VisitSubscript`, `VisitCast` |
| `visitCall` | `VisitAllocation`, `VisitCall`, `VisitUnknownCall` |

`PROJECT.json` maps every definition to its lines. `if` and `while` add no state of their
own: the visitor visits the condition and then the branches as statements, which is what
`VisitExprStmt` followed by any statements describes.

**Abstractions.** Node ids count from 1 in order of creation. Names are strings taken as
opaque values. The text that a parameter or a field is known by is
computed from its declarator: `BoundName` is the name, unless a qualifier stands before it
(`int *const p` is bound as `const p`), and the name in a `FieldDecl` is what the stripping
leaves. A struct that a declaration, a typedef or a body shows with its members counts as
its tag, as for the code, which registers members only where the specifier stands alone.
Every arithmetic type is `IntTy`, every pointer `PtrTy`. An array's object
has the size of its element type in fields, as in the code. A `Gep`'s offset, a `Store`'s
ICFG node and a call statement's call node are one component, `arg`. ICFG nodes carry the
function whose block they lie in. SVF's duplicate suppression makes statements a set. A
cast's type child is a `type_descriptor`, for which `parseTypeFromNode` answers `int`, so
the C++ never tags a cast with a struct; since that rests on the grammar of an absent
submodule, `VisitCast` allows both outcomes.

### How a program is visited, and run

The runs of `TSIRBuilder` take all programs at once, each step an arbitrary one of the C
grammar. The other runs take given programs. A program is a sequence of *tokens*, one for
each syntax node in the order in which the visitor leaves it; `Programs` composes tokens
to expressions, statements and files that read like C (`Assign("p", Arrow(Val("r"),
"f"))`), and `Step(token)` is the action of `TSIRBuilder` for a token. A token whose
action is disabled stops the visit; in run `testsuite` that is a deadlock, and TLC reports it. `WellFormed(text)` is what
is assumed of a file: it is a sequence of tokens, they name what the constants declare, and the
last one ends the file. Whether they nest as C asks is not assumed: the guards of the visitor
decide that.

`CommandLine` wraps this: the words of the command line, the files (some of which cannot
be read), the visit of the tokens of all files in turn, the verdict, the reports, and the
solver round by round. `made` is a history variable: the PAG object that the visit of a
token has made.

`CMachine` gives the same tokens their meaning in C. When `ts-svf` has exited with 0, the
program starts: global initializers, then `main`, if all functions that it calls by name are
defined (`Linked`). Memory is a set of pairs of locations, "`l` holds the address of `t`"; a
location is the token that declares the object (or calls `malloc`), an instance, and a path
of members and elements. Numbers have no value: conditions and indices are chosen freely,
which covers every input of the program. What C leaves undefined, such as the use of a
pointer that was never set, stops the run. `SoundPointsTo` compares the two: every pair in
memory must be in the points-to solution of the PAG that the visit left, through `made`.
This is the question that layer 3 asks of clang and wpa, asked of the C program itself.

Tokens that the visitor passes over or never visits but a run follows (`branch`, `jump`,
`lost`) carry the control flow: the visitor is insensitive to it, the machine is not.
Control leaves a function by return alone (`Structured`).

### The lifecycle of a function

`FunctionLifecycle` says in sixty lines what `TSIRBuilder` says in nine hundred: functions
go from unknown to registered, visiting and visited, the first only in a prescan, the
others only in a main pass and one at a time; calls are recorded by the function being
visited to functions that are registered; a file is done when no registered function is
left. `LifecycleRefinement` reads the status of `f` off `funcInfos` (registered: it has an
entry; visited: `defined`) and `currentFunc`, and the calls off `callGraph`. All other steps of
the visitor are stutters.

## 3. The runs

| Run | Question | Bounds |
|---|---|---|
| `calls` | Do the three graphs agree on calls, forward and recursive, nested in arguments and returns, in blocks and loops? | two pointer functions with a formal, whose name may be qualified, in one file, 12 nodes, 3 temporaries |
| `scopes` | Does lookup follow C's scopes, is the symbol table that of the enclosing constructs, and do statements stay in their function? | 11 nodes, 4 nested frames, one name for locals and globals |
| `files` | Do two files leave each function with one body, its name, its address, every node with an anchor, and is the lifecycle implemented? | two files, 12 nodes, static functions of the same name; heap objects and arrays |
| `fields` | Is each field found at its position in the definition, with the definition in one file or in two, and do offsets stay inside the struct, through embedded structs, pointers, typedefs, dereferences? | two structs, four definitions of at most two fields (one a declarator list, one empty), two files, 10 nodes |
| `pointers` | Do addresses, dereferences, stores, sums and subscripts leave a PAG the verifier accepts? | one procedure, 8 nodes, 3 temporaries, 2 pending operands |
| `testsuite` | Does `ts-svf` reproduce every `EXPECTED:` block, keep its verdict on all command lines, visit every function and leave nothing open? | the twenty programs; all lines of up to four words |
| `soundness` | Does the solution hold for every run of the program? | the tests; up to 4 of 12 pointer statements, 3 of 13 struct statements, 4 of 8 call statements |
| `layout` | Where do the layout loops agree with the psABI, and does flattening keep the order? | structs of up to four fields of twelve types, padded structs among them |
| `types` | Does a variable's object have the fields and the size of its type? | two tags of up to two members in one or two field declarations or in the body of a declaration, one typedef name, 3 new types, all keyword types and two of the library's |
| `superset` | Is the comparison by name right, whatever the tools found and in whatever order they print? | two variables of one name, three targets, one of them a temporary |

`cast_sum` and `conditional` are expected to fail: see section 6.

`testsuite` is more than a check of the code: the statement counts and the points-to sets
were recorded from the C++ program, so a model that reproduces all twenty blocks to the
number, with the solver of `Andersen`, agrees with the program on them.

**Bounds of the visitor.** `MaxNodes` bounds the PAG, `MaxTemps` the temporaries an
expression may leave (the return ValVars are not counted), `MaxStack` the pending
operands, `MaxDepth` the nesting of frames, and `MaxUnits` the files. They appear in
guards only (`Room`, `RoomForTemps`, `CanPush`). Each run leaves room for what its question
needs: `calls` for two registered functions (five nodes each) and a call of a call;
`files` for two files that both define `p` and `q`; `scopes` for a parameterless body with
a block in a loop in a block (frames `fun`, `block`, `for`, `block`) and a shadowed
global; `fields` for a base, two field steps and the load between them (`p->g->f`);
`pointers` for three temporaries and two operands, so a sum of loaded operands. A handler
reads at most two operands besides a call's arguments, and refers to no node it was not
handed, looked up or has just made, so nesting deeper than two repeats a situation that
shallower nesting has shown.

**Bounds of the programs.** The signatures and struct bodies of the runs over given programs
are those that the programs declare. In `soundness` a program is a loop around its
statements, each of which an iteration may skip, so one program has the runs of all orders
of its statements, with repetitions. Four statements suffice for the longest chain the menus
of pointers and calls can build (take an address, store it through a pointer, move it, read
it back), three for the menu of structs (set a link, store through it, read it back).
`MaxCalls = 4` lets `loop` call itself once below `main`, and `MaxHeap = 2` gives two
objects to one `malloc`. The numbers of nodes and temporaries are large enough that they never stop a visit of a given program, which the deadlock check of `testsuite` confirms for the tests. Command
lines of four words hold two options and two files, or three options and a file.

**Bounds of types and tools.** `layout` has every alignment (1, 2, 4, 8) before and after every
other, and arrays and structs between, one that ends with padding, one around it and an
array of it among them. `types` grows the registry by three types (`MaxTypeId = 111`); two
tags and an anonymous struct fit, in any order. `MaxMembers = 2` tells one declarator from
two. In
`superset` both tools find any sets, die at any line or not at all, and print in any
order.

**Deadlock** is checked in `testsuite`, where `SuiteNext` makes the end of the command a
step: a visit that a guard of the visitor stops before the end of its program would be a
deadlock. Elsewhere the machines stop where they should: at the end, and the visitor also
where a bound is reached in the middle of an expression, the C machine also where the
behaviour of the program is undefined.

**Fairness.** `testsuite` assumes weak fairness of `LineNext`, the one step that
`ts-svf` can take next: the code is sequential and waits for nothing, so a step that is
enabled is taken. `RegisteredIsVisited` rests on it: the body pass reaches what the prescan
has registered. That the command ends at all is not a property: the code recurses
over a finite tree. No fairness is assumed of clang and wpa, and no liveness claimed of
layer 3.

## 4. Properties

The visitor, for all programs:
- `TypeOK`: types of all variables; in particular every remembered node id is that of an
  existing node of the right kind, a returned id is always a ValVar's, and a function body
  is visited only while `currentFunc` is registered.
- `EveryObjectHasAddr`: the object of every creator has exactly one AddrStmt.
- `DefinedOnce`: two statements that define one ValVar are bindings of one formal or
  returns of one function.
- `InterfaceFlow`: CallPE alone writes formals, only the entry store reads them; returns of
  the function alone write its return ValVar, RetPE alone reads it.
- `InterfaceInv`: no two formals or return ValVars are one node, and no symbol, operand or
  initializer target is one: no expression can reach them.
- `CallWiring`: for every call node there is one call graph edge, three ICFG edges, CallPE
  bindings of a prefix of the formals, and one RetPE, all of one caller and one callee.
- `StayInFunction`: no statement but CallPE and RetPE joins nodes of two functions.
- `BodyOnce`: entry, one body node and exit form a chain; between files every registered
  function has been visited.
- `ImplementsLifecycle`, `LifecycleInv`: the refinement of section 2, and the agreement of
  `frames`, `currentFunc`, `funcInfos` and `pending` that it rests on.
- `ForwardReferences`: no call of a function that the file defines is left a stub.
- `NamesResolveAsInC`: names resolve as C says.
- `PlaceInv`: the visitor knows where it is. The scopes are those of the frames that open
  one and hold what these declare, operands are pending only inside an initializer or a
  body, and the anchor is the body node of the function that is visited.
- `HeldOwned`: what is on the operand stack, in a scope or in an initializer belongs to the
  function that is visited, or to none.
- `AnchorSet`, `Anchored`: there is an anchor where one is needed, and every node but a FunObj
  hangs on an ICFG node (while no global follows a body).
- `FieldsFound`: each field of a definition is found at its position in it, though every file
  that repeats the definition appends it to the field table and replaces the `StInfo`.
- `OffsetsInStruct`: no constant offset reaches the size that SVF has for the struct its base
  is tagged with. (Whether the tag is the right one is asked by `ConstantOffsets`,
  `SoundPointsTo` and `ExpectedBlock`.)
- `PointersHeld`: the two classifications agree: what `isCPointerExpr` takes for a pointer by
  its syntax has a pointer type in the PAG, casts excepted.
- `VerifierAccepts`: layer 1 accepts the PAG after every step, not only at the end.

The visitor against the run of the program:
- `SoundPointsTo`: no run stores an address that the analysis does not predict.
- `CallsInCallGraph`: no run calls a function by name along an edge that the call graph lacks.
- `ConstantOffsets`: no field access falls back to a Gep of unknown offset.

The command and the scripts:
- `AllOrNothing`, `RejectedNeverReported`, `StageInv`.
- `VisitComplete`: after the last token nothing is open, and every registered function has been
  visited.
- `ExpectedBlock`, `RegisteredIsVisited`.
- `SoundPasses` (no false alarm although variables of one name share a line of the table),
  `PassShowsSuperset` (nothing unsound slips through while both tools live).

Types:
- `OffsetsFollowAbi`: `getFieldByteOffset` places no field behind the psABI's place, and exactly
  there when no field before it holds padding (which `getTypeSize` leaves out).
- `LeavesInOrder`: flattening loses no leaf and keeps those of each field together.
- `ObjectHasItsMembers`: a variable's object has a field per member, whichever name its type goes
  by, if the struct is defined on its own with one declarator to a field declaration; for any
  other struct, never more.
- `AnonymousStructsDistinct`: structs without a tag are never taken for one another.
- `ScalarSize`: pointers, enums and the keyword types but `long double` have the sizes of LP64.

`OffsetsFollowAbi` and `LeavesInOrder` speak of functions that the program does not use on
structs: it calls `buildStInfo` on builtin types and function types, `getFieldByteOffset` and `getArrayType` not
at all, and nothing in the repository reads the byte size of an object.

Each property of a passing run has a mutant in `PROJECT.json`: a definition of the model
changed as a slip in the code would change it, under which TLC finds the property
violated.

## 5. What is proved

Of the visitor, for every choice of names, signatures, struct bodies, constructs and bounds:

| Theorem | Statement | Needs |
|---|---|---|
| `TypeCorrect` | `[]TypeOK` | |
| `ObjectsAddressed` | `[]EveryObjectHasAddr` | |
| `ObjectsHaveFields` | `[]EveryObjectHasField` | no `"empty struct"` |
| `LifecycleHolds` | `[](TypeOK /\ LifecycleInv)` | |
| `RefinesLifecycle` | `ImplementsLifecycle`, the refinement itself | |
| `InterfacesUntouched` | `[]InterfaceInv` | |
| `InterfacesCarryValues` | `[]InterfaceFlow` | |
| `ValuesDefinedOnce` | `[]DefinedOnce` | |
| `ForwardReferencesResolve` | `[](unit <= 1 => ForwardReferences)` | |
| `FieldIndicesFollowStructs` | `[]FieldsFound` | no `"differing structs"` |
| `OffsetsHaveFields` | `[]OffsetsInTable` | |
| `OffsetsInsideStructs` | `[]OffsetsInStruct` | the same |
| `OperandsArePointers` | `[](PointersHeld /\ LiteralsInert)` | no `"literal address"`; no `"cast"` or no `"sum"` |
| `VerifierAlwaysAccepts` | `[]VerifierAccepts` | as `OperandsArePointers` |
| `VisitorKeepsItsPlace` | `[]PlaceInv` | |
| `NamesResolve` | `[]NamesResolveAsInC` | no `"for declaration"`, `"qualified parameter"`, `"function pointer"` |
| `HandlersHoldTheirOwn` | `[]HeldOwned` | |
| `StatementsStay` | `[]StayInFunction` | |
| `BodiesVisitedOnce` | `[]BodyOnce` | |
| `CallsWired` | `[]CallWiring` | |
| `AnchorStands` | `[]AnchorSet` | no `"global after body"` |
| `NodesAnchored` | `[]Anchored` | the same, and no `"pointer prototype"` |

Of the command, for every command line and all files of well-formed programs
(`CommandLineProofs`):

| Theorem | Statement | Needs |
|---|---|---|
| `StagesInOrder` | `LineSpec => []StageInv` | |
| `ReportsAllOrNothing` | `LineSpec => []AllOrNothing` | |
| `VerdictRespected` | `LineSpec => []RejectedNeverReported` | |
| `CommandVisits` | `LineSpec => Spec` | |
| `VisitsComplete` | `LineSpec => []VisitComplete` | |
| `NeverRejected` | `LineSpec => []~Rejected` | as `VerifierAlwaysAccepts` |
| `PointsIntoObjects` | `LineSpec => []PointsToSlots` | no `"empty struct"` |
| `ReportIsLeastSolution` | `LineSpec => [](NothingNeedless /\ ReportedSolved)` | |
| `CallsAreInCallGraph` | `MachineSpec => [](DefinedAhead => CallsInCallGraph)` | no `"static function"`; all files `Structured` |

Of layer 3, for any results of the tools, any number of variables and any names
(`Layer3Proofs`): `NoFalseAlarm` (`[]SoundPasses`) and `PassIsSuperset`
(`[]PassShowsSuperset`).

Of the types (`TypeProofs`): for all sets of types, nested to any depth, and structs of any
number of fields, and for all specifiers, tags, typedef names and orders of declarations:

| Theorem | Statement | Needs |
|---|---|---|
| `LayoutFollowsAbi` | `LayoutSpec => []OffsetsFollowAbi` | |
| `FlattenKeepsOrder` | `LayoutSpec => []LeavesInOrder` | |
| `TypesHold` | `Spec => []TypesInv`, the invariant of the registry | |
| `ObjectsHaveTheirMembers` | `Spec => []ObjectHasItsMembers` | |
| `AnonymousStructsStayDistinct` | `Spec => []AnonymousStructsDistinct` | |
| `ScalarsHaveTheirSize` | `Spec => []ScalarSize` | |

**Assumptions.** Those of `TSIRBuilder` are `NameAssumption` (variables and functions, and
struct tags and typedef names, do not collide, and none is the model value for "no name"),
`ShapeAssumption` (signatures and struct bodies have their shape, and a body names a field once)
and `BoundAssumption` (bounds are numbers). `CommandLine` adds `FileAssumption`: the files
on disk are `WellFormed`. `Soundness` adds `StructureAssumption`, that the programs it runs
are `Structured`, which is the hypothesis of `CallsAreInCallGraph`. TLC evaluates them in
every run. `Layer3` has none. `TypeAssumption` says that types are finite trees: `Depth`
gives each a number above those of its parts. `FieldAssumption` says which
sizes types store: those of C for scalars, and for arrays what `getArrayType` computes, so
many times the `getTypeSize` of the element. `SpecifierAssumption` says which
specifiers C allows, and that different numbers have different names; it excludes a tag
spelled `anon_struct_`*n*, which the registry would take for a nameless struct.

**Hypotheses.** What stands in the column "Needs" says that programs do not use a construct. None
can be dropped: for each the property fails with it, in a run of section 6 (`"cast"` with
`"sum"`, the prototype, two different definitions of a struct, the declaration in a `for`, the
qualified parameter, the pointer to a function); for globals below a body, because there is
no anchor to hang them on (TSIRBuilder.cpp:359); for `struct S {}`, because its StInfo has 0
fields (TSIRBuilder.cpp:167-173).
`"literal address"` stands for `*5`, `&5` and `(5).f`, which are not C. `ForwardReferences` is
claimed for the first file; a second file makes it false (section 6), which is also why
`CallsAreInCallGraph` says `DefinedAhead`. A `static` function of a name that an earlier file
defined is dropped with its body, so no edge starts at it. Each hypothesis
leaves all other constructs in.

**Types and objects.** `TypeOK` is inductive as stated; two of its conjuncts are there for
that reason and are facts about the code as well. `frames # <<>> => currentFunc \in DOMAIN
funcInfos` is what lets `LeaveFunctionDef` reach `funcInfos[currentFunc].exit` (the C++
dereferences the iterator without a test), and `currentRetIsPtr => currentRetVal # NullId`
is what lets `VisitReturn` copy to it. The first part of `TSIRBuilderProofs` shows of each
graph operator that it yields a well-formed graph and that the new graph *grows* from the
old one: `Grows(g, h)` says that nodes and statements of `g` are kept, that each new object
has a field and exactly one AddrStmt in `h`, and that no new AddrStmt takes the address of
an old object. Then there is one lemma per component of the state for steps that leave it
alone (`SymtabKept` to `GraphsKept`: ids stay valid because the graphs grow), one per way of
changing it (`BindLocalTyped`, `PushFrame`, `PushTyped`, ...), and one per action, which all
conclude `Preserved`: the next state is typed and the PAG has grown. `TypeCorrect` is its
first half. `ObjectsAddressed` and `ObjectsHaveFields` follow from the second: an old object
keeps its one AddrStmt and its size, a new one gets its own.

**The lifecycle.** What the mapping needs of a state is not in the types: that there is a
current function exactly while there are frames, that its `defined` flag is set already,
that the frames are those of one body, and that every registered function without a body is
still among the `pending` definitions of the file. `LifecycleInv` is these facts, and is
inductive together with `TypeOK`. The proof goes action by action; most actions leave
`funcInfos`, `currentFunc`, `frames` up to their inner part, `pending` and `callGraph`
alone, and one lemma serves for all. For the refinement each action is shown to be a step of
`FunctionLifecycle` or a stutter: `PrescanFunctionDef` is `Register` (or a stutter for a
known name), `VisitFunctionDef` is `Enter` (or passes over a second body), `VisitCall` is
`Call`, `LeaveFunctionDef` is `Leave`, and `EndUnit` is `Finish`, which is where
`UndefinedArePending` is used: no `pending` definition means no function without a body.

**Interfaces.** A return ValVar that a `Copy` could read, or a formal that a `Store` could
write, would break the flow between functions without any handler looking wrong. The
invariant is therefore about what the handlers have at hand: `Held` is every id on the
operand stack, in the symbol table or in an initializer's target, and no formal or return
ValVar is ever held (`InterfaceInv`). Each action builds its statements from held ids, from
new ids, or, in `BindFormal`, `VisitReturn` and `VisitCall` alone, from an interface. With
that, `InterfaceFlow` is a case analysis of the statements an action adds, and `DefinedOnce`
follows because all other statements define an id that is new.

**Symbols and fields.** In the first file the prescan has registered every function before
the first call, so a call that is left a stub (`FirstFileFirst`) names a function that the
file does not define. For the fields the invariant is `FieldsRepeat`: while the files agree
on a struct, its table is the definition over and over, as often as files have shown it. Its
last entries are then the first ones again, no name is new behind those, and the search,
which takes the first match, ends inside the first copy (`FieldIndicesFollowStructs`).
`OffsetsInTable` says what holds even where files differ, that an offset is an index which
the search finds; with `FieldsRepeat` it becomes `OffsetsInStruct`.

**Pointers and the verifier.** The verifier's checks are local to a statement, the reason
that they hold is not. `PointersHeld` says that symbols, formals, results and every operand
with a pointer's syntax are pointers in the PAG, and `LiteralsInert` that every statement
defines a pointer, from a pointer unless it is an `Addr`, a `Store` or a `CallPE`. The first
is what makes the second hold of a new statement, whose operands are on the stack; a
literal's value reaches no statement but a store, a call or, as the operand of a sum of
integers, none. With a cast of a literal in a sum the chain breaks, which is the run
`cast_sum`.

**Scopes.** `ScopesFollowFrames` is the heart of `PlaceInv`. There is an order-preserving
match between the scopes, but for the file's, and the frames that open one, and a matched
scope declares exactly what the frame's `env` does. The match holds whatever the program,
which is what popping needs; the contents agree unless a `for` declares a variable, a
parameter is bound to a text that is not its name, or a declarator is skipped
(`Unmirrored`), which is what names need. `NamesResolve` then follows, since the innermost scope
with a name is matched with the innermost frame that declares it.

**Bodies, calls and anchors.** `HeldOwned` (held ids are the current function's or nobody's)
is inductive with `PlaceInv` and `InterfaceInv`, and `StayInFunction` is its consequence for
statements. `BodyOnce` and `CallWiring` speak of ICFG nodes and edges that lie far back; the
proofs show of each action which nodes and edges are new, and that none of the new edges
starts or ends in the chain of another function or at another call's nodes (`IcfgOwned`).
`VisitCall` is the only action that makes call nodes, and its lemmas follow the loop over
the actuals: as many bindings as the shorter of the two lists. For `Anchored` an anchor is
needed wherever an expression is visited: in a body it is the body node, at file level it is
the global node until the first function has been passed (`AnchorSet`).

**The command.** `StageInv` is the strengthening: it says of each stage of `main` what has
been read, visited and written by then. `AllOrNothing` and `RejectedNeverReported` follow
because no report is written before the verdict and nothing is read after it.

**From the visitor to the command.** `CommandVisits` shows that a command's visit of the
tokens of its files is a behaviour of `TSIRBuilder`: the program that has been read consists
of well-formed files (`TextInv`), so each token names what the constants declare, and the
action of `Step(token)` is a disjunct of `Next`. So all theorems of the first table hold of
the graphs that `ts-svf` verifies, dumps and solves, for files of any length. Two
consequences are stated. `VisitsComplete` adds that the last token ends a file: then the
visitor is idle, and `LifecycleInv`, `PlaceInv` and one fact about initializers
(`InitializersInFiles`) leave nothing open. `NeverRejected` adds the verifier: `--verify`
turns none of these programs away.

**The analysis.** A round adds more facts the more it starts from (`RoundMonotone`), and
facts about cells and fields of the PAG lead to facts about cells and fields of the PAG
(`RoundStays`; this is where `EveryObjectHasField`, and so the absence of empty structs, and the
types of `TypeOK` are needed). So no
round finds what some solution lacks, and since `--dump-pts` sets `--ander` and waits for a
round that adds nothing, what it writes is a solution. The graph is the visitor's last one, as
`StageInv` says. Whether that solution covers the runs of the program is `SoundPointsTo`, which
is only model-checked.

**The calls that the program makes.** `CallsAreInCallGraph` relates the run of the program
to the visit of its text. The visitor keeps a list of `pending` functions and gives the n-th
body to the n-th function of the prescan; the C machine counts the same tokens in the text.
`SourceInv` ties the two: the function being visited is the one whose `fun` token has the
rank of the last `enter` token, so a `call` token, when it is visited, gets its edge from
the function in whose body it stands (`CallsRecorded`), and to the callee, whose FunObj the
prescan of this or of an earlier file has made. On the other side, `ControlInv` says that
each active call stays in the body of its function: branches and jumps do (`Structured`),
and calls and returns go by the same ranks. The program starts when `ts-svf` has exited with
0, and by then the visit has passed all its tokens (`RunIsVisited`); what is executed has
been visited, and the edge is there. Calls through a pointer have no edge at all (section
6).

**Layer 3.** The invariant relates `extract_pts.py`'s tables to what the tools found:
nothing is in a table that its tool does not find (`OnlyFindings`), and a tool that did not
die has left nothing out (`LinesRead`). With both, a superset on variables gives a
superset on merged names, and back.

**The layout.** Both sides, the code's loops and the psABI's rules, are recursive functions:
over the types, and for each struct over its fields. The provers cannot instantiate the
library's induction theorems, but they can instantiate a theorem about sets: every set of
numbers that is not empty has a least element (`LeastNumber`, from the well-foundedness of
`<`), so a set that holds what all smaller numbers hold has all of them (`Induction`), and
the same by the depth of a type (`TypeInduction`). From these follow that the recursive
functions are defined and obey their equations (`Recursion`, then `AlignmentRecurs`,
`SizeRecurs`, `AbiSizeRecurs`, `FlattenRecurs`, ...), and that the loops do what their
bodies say (`Iteration`, `PassFieldsLoop`, `AbiOffsetLoop`). The arithmetic is
`AlignToNext`: `alignTo` yields the least multiple that is not below, and it is monotone
(`AlignToMonotone`). With it `LoopFollowsAbi` takes the two loops through a struct side by
side, field by field: a size that leaves out padding makes the code's offset fall behind
the psABI's and never ahead, and sizes that agree keep the offsets equal. `ArrayFollowsAbi`
and `FieldTypesFollowAbi` carry it up the nesting of types. `FlattenLoop` and `JoinedBegins` say the same of sequences: what is flattened first
stays first. (tlapm expands a recursive function wrongly when its body is a `CASE`; so these
bodies are chains of IF, and the cases of scalars have operators of their own.)

**The registry.** `TypesInv` relates it to what C knows of the declarations so far.
`RegistryOk`: each struct in it has its name and no fields, the names without a tag are
numbered by type ids that are used up, so the next one is new. `TypedefsAgree`: a typedef
made before the struct is defined holds the very type that gets the StInfo later.
`StInfoOk`: the StInfo of a struct that was defined on its own has a field per field
declaration, which for a `plain` struct is one per member; `BodyAgrees` says it of a body
that is being visited. Since a struct type is looked up by name and never changes, all names
of a struct lead to the one StInfo, and `Declare` finds its length. For `ScalarSize`,
`SpecifierNames` compares the keywords that `parseTypeFromNode` looks for with what C says;
they agree on all keyword types but `long double`.

**Only model-checked.**
- `RegisteredIsVisited` needs fairness, and with it ENABLED; the absence of deadlock in `testsuite`
  is ENABLED itself.
- `ExpectedBlock` is a computation on twenty given programs.
- `SoundPointsTo` needs an induction over the runs of the C machine and the rounds of the solver, with
  an invariant that matches the operand stacks of both. It and `ConstantOffsets` are false for some
  programs (section 6), so a theorem would need a syntactic class of programs first.

## 6. Where the code disagrees with its documents

Two runs end with a counterexample:

- `cast_sum`: `int x = (long)1 + 2;` fails the program's own verifier. `isCPointerExpr`
  counts every cast as a pointer, so the sum becomes a Gep from a literal.
- `conditional`: after `p = c ? &a : &b;` the program may hold `&a` in `p`, and the analysis
  predicts `&b` alone. `visitExpr` takes the last child of an expression it does not know,
  and there is no fallback to a black hole.

`Divergences` holds seventeen more programs, selected by its constant `Case`. With that
constant changed in `conditional.cfg`, TLC finds the property violated that the table names, if it
is the invariant (`SoundPointsTo` where it names none):

| `Case` | What is lost | Line | Property |
|---|---|---|---|
| `"indirect call"` | arguments and results of calls through a pointer | TSIRBuilder.cpp:762 | |
| `"parenthesized left"` | the store of `(p) = &a` | TSIRBuilder.cpp:690 | |
| `"struct copy"` | all fields but the first of `t = s` | TSIRBuilder.cpp:669 | |
| `"union members"` | what one member wrote and another reads | TSIRBuilder.cpp:129 | |
| `"pointer field"` | the load of `s.f` in `s.f[0]` | TSIRBuilder.cpp:913 | |
| `"unbraced for"` | the `return` in `for (...) return x;` | TSIRBuilder.cpp:532 | |
| `"typedef return"` | the results of a function whose pointer result is a typedef | TSIRBuilder.cpp:228 | |
| `"shared global"` | a global declared in two files is two objects | TSIRBuilder.cpp:389 | |
| `"global initializer"` | the loads of a global whose initializer contains `[` | TSIRBuilder.cpp:392 | |
| `"deref field"` | the offset of `(*pp)->g` | TSIRBuilder.cpp:615 | `ConstantOffsets` |
| `"typedef struct"` | the fields of `typedef struct S { ... } T;` | TSIRBuilder.cpp:180 | `ConstantOffsets` |
| `"qualified parameter"` | the parameter of `int *id(int *const x)`, bound as `const x` | TSIRBuilder.cpp:293 | |
| `"function pointer"` | the variable that `void (*fp)(int *);` declares | TSIRBuilder.cpp:469 | |
| `"declarator list"` | all fields but the first of `int *f, *g;` in a struct | TSIRBuilder.cpp:142 | `ConstantOffsets` |
| `"declaration body"` | the fields of `struct S { ... } s;` | TSIRBuilder.cpp:128 | `ConstantOffsets` |
| `"spaced field"` | the field `int * g`, which is named " g" | TSIRBuilder.cpp:151 | `ConstantOffsets` |
| `"differing structs"` | the positions of the fields of a struct that two files define differently | TSIRBuilder.cpp:136 | `FieldsFound` |

The guards of the passing runs leave these constructs out; so they do with the following,
which the bounded runs showed when they were let in:
- a variable of a `struct S {}` is an object of no field (`"empty struct"` with `"global"`, or with
  `"local"` in a nested block, `EveryObjectHasField`);
- a call of a function that only a later file defines is a stub (`MaxUnits = 2` in `calls`,
  `ForwardReferences`);
- the prototype `T *f(...)` is taken for a global variable and replaces the function's
  symbol (`"pointer prototype"`; run `calls` lets it in, and the calls are wired all the same,
  by `funcInfos`);
- `for (int *x = ...)` declares `x` in the enclosing scope (`"for declaration"` with
  `"local"`, `NamesResolveAsInC`).

Further observations. The README of the repository (src/README.md:186-189) calls the field table
"parallel to the StInfo's flat field list": a struct that two files define has a table twice as
long, which is harmless while they agree (`FieldsFound`), and a struct with a declarator list
or an embedded struct has no flat list at all, but one entry per field declaration.
`getTypeSize` leaves out the padding at the end of a struct
(SimpleDataLayout.cpp:18-24) and says 0 for every struct the program registers, since struct
types never get their fields (TSTypeBuilder.cpp:55). SimpleDataLayout.h:16 documents the
result of `byteOffsetToFieldIdx` as a flattened index; the code counts fields, and nothing calls it.
`long double` is taken for `long` (TSTypeBuilder.cpp:91), `size_t`, `int64_t`, `intptr_t`, `int8_t` and
their like for `int` (TSTypeBuilder.cpp:97), and `typedef char *T` for a `char`
(TSIRBuilder.cpp:181); no analysis in the repository reads these sizes.
`run_compare.sh` sets no `pipefail`: a `ts-svf` that dies leaves a short table, and the
script may exit 0 without a superset, which is why `PassShowsSuperset` says `died = {}`.
Globals declared below a function body are anchored nowhere (TSIRBuilder.cpp:359). A
`static` function of a name that an earlier file defined is dropped with its body. Formals
of a struct that only a typedef of the same file names are not tagged, because the prescan
precedes the typedefs.

## 7. What is not modelled

- tree-sitter: the models start from syntax. The C grammar decides which steps `Next`
  offers, and which tokens a program has.
- Text: messages, the layout of dumps, the regular expressions of the scripts. Names are
  normalised by a given function (`NameOf` in `Layer3`).
- clang and wpa: layer 3 takes any result of theirs.
- SVF's solver beyond the inclusion constraints of the statements the frontend emits.
- `currentBB` for a call in a global initializer below a function: C does not allow one.
- `makePointer` and `byteOffsetToFieldIdx`, which have no caller. (`getFieldByteOffset` and
  `getArrayType` have none in this program either; the first is modelled as a pure function, the
  second by the sizes it stores in `StructLayout`'s types.)
- The types of functions: a declarator of a pointer to a function is skipped, as in the
  code, and has no type here. Anonymous members of structs, and a variable of a struct without a
  tag.
- Enum constants, and the constructs that the README of the repository lists as not done.
- Build files.

## 8. Plan

1. (done) `SVFIR`, `TSIRBuilder` and its runs; `TypeCorrect`, `ObjectsAddressed`.
2. (done) `FunctionLifecycle` and the refinement, checked and proved.
3. (done) `CommandLine` and `CMachine`: the command as a whole, and the soundness of its
   answer; `SimpleDataLayout`, `TSTypeBuilder`, `Layer3`.
4. (done) All safety invariants of the visitor's runs proved, and carried to the command.
5. (done) Of the analysis: a solution points to objects alone, and the least one is reported.
6. (done) `CallsInCallGraph`, with the C machine's control and the source between them.
7. (done) The layout and the registry: all six properties, by induction over fields and types.
8. Open: `SoundPointsTo` for a syntactic class of programs (no calls through pointers, no
   conditional expressions, no copies of structs), with an invariant that relates the operands of `CMachine` to
   the nodes on the visitor's `stack`.
