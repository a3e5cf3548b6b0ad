----------------------------- MODULE TSIRBuilder -----------------------------
(***************************************************************************)
(* The visitor that turns the concrete syntax trees of C files into SVFIR  *)
(* (src/src/TSIRBuilder.cpp, with TSSymbolTable, TSTypeBuilder and         *)
(* GepHandler, which it calls).                                            *)
(*                                                                         *)
(* The visitor is recursive; this machine takes its steps in the order in  *)
(* which the recursion performs them.  The value an inner visitExpr or     *)
(* lvalueAddress has returned and its caller has not used yet lies on      *)
(* stack, and the compound statements, for statements and function bodies  *)
(* that are being visited lie on frames.  The program is not given: at     *)
(* every point where the syntax tree decides what is visited next, Next    *)
(* offers each possibility the C grammar allows there, so the behaviours   *)
(* are the visits of all programs over the constants below.                *)
(***************************************************************************)
EXTENDS SVFIR, FiniteSets

CONSTANTS
  Vars,        \* names of variables, parameters and other identifiers
  Funs,        \* names of the functions that the program may define
  Structs,     \* struct tags
  Aliases,     \* names that typedef may introduce
  Fields,      \* field names
  Signatures,  \* what follows a function's name: [ret |-> BOOLEAN, params |-> Seq(Param)]
  StructDefs,  \* struct bodies: sequences of field declarations
  Constructs,  \* the syntactic constructs the programs use
  MaxUnits,    \* bound on the number of files
  MaxNodes,    \* bound on the number of PAG nodes
  MaxTemps,    \* bound on the temporaries that expressions leave in the PAG
  MaxStack,    \* bound on the operands an expression has pending
  MaxDepth     \* bound on the nesting of frames

\* The types that the visitor tells apart.  Every arithmetic type is IntTy,
\* every pointer type PtrTy (SVF's pointers are opaque).
IntTy == "int"
PtrTy == "ptr"
FunTy == "function"

\* What a type specifier can be in the source; pointers come from declarators.  A struct
\* with its body counts as its tag: parseTypeFromNode does not look into the body.
Specifiers == {IntTy} \cup Structs \cup Aliases
\* A parameter; qualified when a const or restrict stands before its name, as in int *const p.
Param == [name: Vars, spec: Specifiers, qualified: BOOLEAN]
\* A field_declaration: its first declarator, with the name that is left of its text (in
\* int * g the space is), and the names that the further ones declare.
FieldDecl == [name: Fields, spec: Specifiers, star: BOOLEAN, others: SUBSET Fields]

\* The text "const p", which is no identifier; one stands for all.
QualifiedText == "const"

ASSUME NameAssumption ==
  /\ Vars \cap Funs = {}
  /\ Vars \cup Funs \cup Structs \cup Aliases \cup Fields \subseteq STRING
  /\ Structs \cap (Aliases \cup {IntTy, PtrTy, FunTy, None}) = {}
  /\ IntTy \notin Aliases /\ {None, QualifiedText} \cap (Vars \cup Funs) = {}
ASSUME ShapeAssumption ==
  /\ Signatures \subseteq [ret: BOOLEAN, params: Seq(Param)]
  /\ StructDefs \subseteq Seq(FieldDecl)
  \* C names a field once.
  /\ \A def \in StructDefs : \A i, j \in DOMAIN def : def[i].name = def[j].name => i = j
ASSUME BoundAssumption ==
  {MaxUnits, MaxNodes, MaxTemps, MaxStack, MaxDepth} \subseteq Nat

VARIABLES
  pag,             \* the program assignment graph
  icfg,            \* the interprocedural control-flow graph
  callGraph,       \* direct edges of the call graph
  globals,         \* TSSymbolTable::globals
  scopes,          \* TSSymbolTable::scopes, innermost last
  typedefs,        \* TSTypeBuilder::typedefs
  structFields,    \* FieldMeta of each struct, in declared order
  stInfo,          \* number of fields in the StInfo of the structs that have one
  nodeStructTy,    \* the struct type a PAG node is tagged with
  funcInfos,       \* what prescanFunctionDef recorded of each function
  currentFunc,     \* the function whose body is visited, "" outside
  currentICFG,     \* where statements are anchored, 0 for nullptr
  currentBB,       \* the basic block of new ICFG nodes
  currentRetVal,   \* the ValVar a return statement copies to
  currentRetIsPtr,
  unit,            \* the number of the file
  phase,           \* "idle" between files, "prescan" or "main" inside one
  pending,         \* the file's function definitions not yet met by the main pass
  seen,            \* the structs and functions whose bodies the file has shown
  frames,          \* enclosing constructs whose visit has not returned
  toBind,          \* formals of the entered function that have no slot yet
  stack,           \* operands whose enclosing expression is still being visited
  target,          \* the declarator whose initializer is being visited
  stubbed          \* names of callees for which a call was left a stub

graphs == <<pag, icfg, callGraph>>
symtab == <<globals, scopes>>
types == <<typedefs, structFields, stInfo>>
current == <<currentFunc, currentICFG, currentBB, currentRetVal, currentRetIsPtr>>
file == <<unit, phase, pending, seen>>
cursor == <<frames, toBind, stack, target>>
vars == <<graphs, symtab, types, nodeStructTy, funcInfos, current, file, cursor, stubbed>>

-----------------------------------------------------------------------------
(* Symbols, types and tags *)

NoSymbols == [x \in {} |-> None]
Bind(m, x, v) == [y \in DOMAIN m \cup {x} |-> IF y = x THEN v ELSE m[y]]

\* Mutant: the outermost scope wins.
LookupOutermost(x) ==
  LET here == {i \in 1..Len(scopes) : x \in DOMAIN scopes[i]}
  IN  {scopes[i][x] : i \in {j \in here : \A k \in here : j <= k}}
        \cup {globals[y] : y \in {z \in DOMAIN globals : here = {} /\ z = x}}
\* lookup returns a pointer: {} is nullptr, a singleton the symbol found.
Lookup(x) ==
  LET here == {i \in 1..Len(scopes) : x \in DOMAIN scopes[i]}
  IN  {scopes[i][x] : i \in {j \in here : \A k \in here : k <= j}}
        \cup {globals[y] : y \in {z \in DOMAIN globals : here = {} /\ z = x}}

\* Mutant: the scope is left on the table.
ExitScopeKept == UNCHANGED scopes
EnterScope == scopes' = Append(scopes, NoSymbols)
ExitScope == scopes' = SubSeq(scopes, 1, Len(scopes) - 1)

ParseType(spec) ==
  CASE spec \in Structs -> spec
    [] spec \in DOMAIN typedefs -> typedefs[spec]
    [] OTHER -> IntTy

AsStruct(ty) == IF ty \in Structs THEN ty ELSE None
FlattenedFields(ty) == IF ty \in DOMAIN stInfo THEN stInfo[ty] ELSE 1

TagStruct(tags, id, sty) == IF id = NullId \/ sty = None THEN tags ELSE Bind(tags, id, sty)
NodeStruct(id) == IF id \in DOMAIN nodeStructTy THEN nodeStructTy[id] ELSE None

\* Mutant: the last field of that name is found.
FieldMetaIdxLast(sty, f) ==
  {i \in 1..Len(structFields[sty]) :
     /\ structFields[sty][i].name = f
     /\ \A j \in (i + 1)..Len(structFields[sty]) : structFields[sty][j].name # f}
\* The position of field f in struct sty: {} when findFieldMetaIdx returns -1.
FieldMetaIdx(sty, f) ==
  {i \in 1..Len(structFields[sty]) :
     /\ structFields[sty][i].name = f
     /\ \A j \in 1..(i - 1) : structFields[sty][j].name # f}

Room(n) == LastId(pag) + n <= MaxNodes
Temps == {i \in Ids(pag) : pag.node[i].kind = "val" /\ pag.node[i].name = None}
RoomForTemps(n) ==
  Room(n) /\ Cardinality(Temps) - Cardinality(DOMAIN funcInfos) + n <= MaxTemps
Uses(construct) == construct \in Constructs

-----------------------------------------------------------------------------
(* Where the traversal stands *)

\* Operands.  as tells which of visitExpr and lvalueAddress can have returned
\* the operand's id: the two agree on every form without a case in lvalueAddress.
Rvalue == {"rvalue"}
Lvalue == {"lvalue"}
Either == Rvalue \cup Lvalue
Operand(form, name, id, as) == [form |-> form, name |-> name, id |-> id, as |-> as]

IsRvalue(e) == "rvalue" \in e.as
IsLvalue(e) == "lvalue" \in e.as

\* stack[Arg(1)] is the operand visited last, stack[Arg(2)] the one before it.
Arg(n) == Len(stack) + 1 - n
Below(n) == SubSeq(stack, 1, Len(stack) - n)
Push(n, e) == stack' = Append(Below(n), e)

NoTarget == [val |-> NullId, text |-> {"*", "["}]
Top == frames[Len(frames)].kind
InBody == frames # <<>> /\ Top \in {"block", "for", "loop"}

\* An expression may go on here: its enclosing statement or initializer is open.
Visiting == target # NoTarget \/ InBody
CanPush == Visiting /\ Len(stack) < MaxStack
AtTopLevel == phase = "main" /\ frames = <<>> /\ target = NoTarget
AtStatement == InBody /\ stack = <<>> /\ target = NoTarget
\* A whole expression of the enclosing statement has been visited.
ExprVisited == InBody /\ target = NoTarget /\ Len(stack) = 1 /\ IsRvalue(stack[1])

\* A C program dereferences no literal and takes no address or field of one, unless it
\* casts one to a pointer type.
Dereferenced(e) == pag.node[e.id].ptr \/ Uses("literal address")

-----------------------------------------------------------------------------
(* Translation units *)

Init ==
  /\ pag = EmptyPag
  /\ icfg = EmptyIcfg
  /\ callGraph = {}
  /\ globals = NoSymbols /\ scopes = <<>>
  /\ typedefs = NoSymbols
  /\ structFields = [s \in Structs |-> <<>>] /\ stInfo = [s \in {} |-> 0]
  /\ nodeStructTy = [i \in {} |-> None]
  /\ funcInfos = [f \in {} |-> None]
  /\ currentFunc = None /\ currentICFG = NullId /\ currentBB = None
  /\ currentRetVal = NullId /\ currentRetIsPtr = FALSE
  /\ unit = 0 /\ phase = "idle" /\ pending = <<>> /\ seen = {}
  /\ frames = <<>> /\ toBind = <<>> /\ stack = <<>> /\ target = NoTarget
  /\ stubbed = {}

\* Mutant: the anchor is set for the first file only.
AnchorOnce == currentICFG' = IF unit = 0 THEN GlobalNode ELSE currentICFG
AnchorGlobally == currentICFG' = GlobalNode

\* The next file's tree: visitTranslationUnit up to its two passes.
StartUnit ==
  /\ phase = "idle" /\ unit < MaxUnits
  /\ unit' = unit + 1 /\ phase' = "prescan" /\ seen' = {}
  /\ AnchorGlobally
  /\ EnterScope
  /\ UNCHANGED <<graphs, globals, types, nodeStructTy, funcInfos, currentFunc, currentBB,
                 currentRetVal, currentRetIsPtr, pending, cursor, stubbed>>

Symbol(ty, obj, val, isFunction, isArray) ==
  [type |-> ty, objId |-> obj, valId |-> val, isFunction |-> isFunction, isArray |-> isArray]

\* A parameter's name is its declarator's text without the stars in front, so that a
\* qualifier stays in it.
BoundName(param) == IF param.qualified THEN QualifiedText ELSE param.name

\* What the prescan leaves behind for one function that was not known yet: its
\* FunObj with an address, a ValVar per formal, and the return ValVar.
Register(f, sig) ==
  LET blocks == AddIcfgNode(AddIcfgNode(icfg, "entry", f), "exit", f)
      entry  == LastId(icfg) + 1
      exit   == LastId(icfg) + 2
      obj    == LastId(pag) + 1
      named  == AddVal(AddNode(pag, Node("fun", TRUE, NullId, None, 1)), GlobalNode, f)
      addr   == AddStmt(named, "Addr", obj, obj + 1, 0)
      bound  == AddVals(addr, entry, [i \in DOMAIN sig.params |-> BoundName(sig.params[i])])
      whole  == AddVal(bound, exit, None)
      formals == [i \in DOMAIN sig.params |->
                    [val  |-> obj + 1 + i,
                     name |-> BoundName(sig.params[i]),
                     source |-> sig.params[i].name,
                     sty  |-> AsStruct(ParseType(sig.params[i].spec))]]
  IN  /\ pag' = whole
      /\ icfg' = blocks
      /\ globals' = Bind(globals, f, Symbol(FunTy, obj, obj + 1, TRUE, FALSE))
      /\ funcInfos' = Bind(funcInfos, f,
           [funObjId |-> obj, entry |-> entry, exit |-> exit, retVal |-> LastId(whole),
            formals |-> formals, defined |-> FALSE, retIsPtr |-> sig.ret])

\* One function_definition met by the pre-pass.  A name that is registered
\* already, which only another file's definition can have done, is skipped.
PrescanFunctionDef(f, sig) ==
  /\ phase = "prescan"
  /\ f \notin {pending[i] : i \in DOMAIN pending}
  /\ pending' = Append(pending, f)
  /\ \/ /\ f \in DOMAIN funcInfos /\ Uses("static function")
        /\ UNCHANGED <<pag, icfg, globals, funcInfos>>
     \/ /\ f \notin DOMAIN funcInfos
        /\ Room(Len(sig.params) + 3)
        /\ \A i \in DOMAIN sig.params : sig.params[i].qualified => Uses("qualified parameter")
        /\ Register(f, sig)
  /\ UNCHANGED <<callGraph, scopes, types, nodeStructTy, current, unit, phase, seen, cursor,
                 stubbed>>

EndPrescan ==
  /\ phase = "prescan" /\ phase' = "main"
  /\ UNCHANGED <<graphs, symtab, types, nodeStructTy, funcInfos, current, unit, pending, seen,
                 cursor, stubbed>>

EndUnit ==
  /\ AtTopLevel /\ pending = <<>>
  /\ phase' = "idle"
  /\ ExitScope
  /\ UNCHANGED <<graphs, globals, types, nodeStructTy, funcInfos, current, unit, pending, seen,
                 cursor, stubbed>>

FieldMeta(decl) ==
  [name |-> decl.name, pointee |-> AsStruct(ParseType(decl.spec)), isPointer |-> decl.star]
\* The further declarators of a field_declaration are not looked at.
\* Mutant: pointer fields are left out of the table.
FieldMetasOfData(def) ==
  LET data == SelectSeq(def, LAMBDA d : ~d.star) IN [i \in DOMAIN data |-> FieldMeta(data[i])]
FieldMetas(def) == [i \in DOMAIN def |-> FieldMeta(def[i])]

\* C embeds structs that are complete, and so no struct in itself.
Embeddable(ty, s) == ty \in Structs => ty # s /\ (ty \in DOMAIN stInfo \/ Uses("body in declaration"))
\* What the files before this one have shown of the struct.
SameStruct(s, def) == FieldMetas(def) = SubSeq(structFields[s], 1, stInfo[s])

\* A struct definition of its own, at top level: the field table of the struct is
\* extended, its StInfo replaced.  The body of a struct in a declaration, a typedef
\* or a function changes neither.
VisitStructSpecifier(s, def) ==
  /\ AtTopLevel /\ Uses("struct")
  /\ s \notin seen /\ seen' = seen \cup {s}
  /\ \A i \in DOMAIN def : ~def[i].star => Embeddable(ParseType(def[i].spec), s)
  /\ s \in DOMAIN stInfo =>
       Uses("differing structs") \/ (Uses("struct in two files") /\ SameStruct(s, def))
  /\ def = <<>> => Uses("empty struct")
  /\ (\E i \in DOMAIN def : def[i].others # {}) => Uses("declarator list")
  /\ stInfo' = Bind(stInfo, s, Len(def))
  /\ structFields' = [structFields EXCEPT ![s] = @ \o FieldMetas(def)]
  /\ UNCHANGED <<graphs, symtab, typedefs, nodeStructTy, funcInfos, current, unit, phase, pending,
                 cursor, stubbed>>

\* typedef spec alias;  the stars of typedef spec *alias are dropped.
VisitTypeDefinition(alias, spec) ==
  /\ AtTopLevel /\ Uses("typedef")
  /\ typedefs' = Bind(typedefs, alias, ParseType(spec))
  /\ UNCHANGED <<graphs, symtab, structFields, stInfo, nodeStructTy, funcInfos, current, file,
                 cursor, stubbed>>

-----------------------------------------------------------------------------
(* Function bodies and blocks *)

\* frames records the constructs that enclose the point of the visit.  env is
\* the C scope of the construct: what the source declares in it, and where the
\* visitor put it.
Frame(kind) == [kind |-> kind, env |-> [x \in {} |-> NullId]]
Declared(fs, x, id) == [fs EXCEPT ![Len(fs)].env = Bind(@, x, id)]
Enclosing == SubSeq(frames, 1, Len(frames) - 1)

\* Mutant: a parameter's symbol is the formal, not the address of its slot.
BindLocalToFormal(x, ty, isArray) ==
  LET val == IF toBind # <<>> THEN Head(toBind).val ELSE LastId(pag) + 2
  IN  scopes' = [scopes EXCEPT ![Len(scopes)] =
        Bind(@, x, Symbol(ty, LastId(pag) + 1, val, FALSE, isArray))]
\* createLocal: slot and address in the PAG, symbol in the innermost scope.
BindLocal(x, ty, isArray) ==
  scopes' = [scopes EXCEPT ![Len(scopes)] =
    Bind(@, x, Symbol(ty, LastId(pag) + 1, LastId(pag) + 2, FALSE, isArray))]
CreateLocal(x, ty, isArray) ==
  /\ pag' = AddObject(pag, "stack", currentICFG, x, FlattenedFields(ty))
  /\ BindLocal(x, ty, isArray)

\* Mutants: nothing remembers that a body was visited; being registered counts for it.
AlreadyDefinedNever(f) == FALSE
AlreadyDefinedOnRegister(f) == f \in DOMAIN funcInfos
AlreadyDefined(f) == funcInfos[f].defined
\* Mutant: the mark is forgotten.
MarkVisitedNever(f) == UNCHANGED funcInfos
MarkVisited(f) == funcInfos' = [funcInfos EXCEPT ![f].defined = TRUE]

\* A function_definition in the main pass, up to the visit of its parameters.
VisitFunctionDef ==
  /\ AtTopLevel /\ pending # <<>>
  /\ pending' = Tail(pending) /\ seen' = seen \cup {Head(pending)}
  /\ LET f == Head(pending)
         fi == funcInfos[f]
         body == LastId(icfg) + 1
     IN \/ /\ AlreadyDefined(f)
           /\ UNCHANGED <<icfg, scopes, funcInfos, current, frames, toBind>>
        \/ /\ ~AlreadyDefined(f)
           /\ MarkVisited(f)
           /\ currentFunc' = f /\ currentBB' = f
           /\ currentRetVal' = fi.retVal /\ currentRetIsPtr' = fi.retIsPtr
           /\ icfg' = AddIcfgEdge(AddIcfgNode(icfg, "intra", f), "seq", fi.entry, body)
           /\ currentICFG' = body
           /\ EnterScope
           /\ frames' = <<Frame("params")>> /\ toBind' = fi.formals
  /\ UNCHANGED <<pag, callGraph, globals, types, nodeStructTy, unit, phase, stack, target,
                 stubbed>>

\* The parameter loop of visitFunctionDef: a stack slot that holds the formal.
BindFormal ==
  /\ toBind # <<>> /\ toBind' = Tail(toBind) /\ Room(2)
  /\ LET formal == Head(toBind)
         slot == LastId(pag) + 2
         made == AddObject(pag, "stack", currentICFG, formal.name, 1)
     IN  /\ pag' = AddStmt(made, "Store", formal.val, slot, currentICFG)
         /\ BindLocal(formal.name, PtrTy, FALSE)
         /\ nodeStructTy' = TagStruct(TagStruct(nodeStructTy, slot, formal.sty),
                                      formal.val, formal.sty)
         /\ frames' = Declared(frames, formal.source, slot)
  /\ UNCHANGED <<icfg, callGraph, globals, types, funcInfos, current, file, stack, target, stubbed>>

\* visitFunctionDef has bound the parameters and visits the body's compound.
EnterBody ==
  /\ frames # <<>> /\ Top = "params" /\ toBind = <<>>
  /\ EnterScope
  /\ frames' = <<[frames[1] EXCEPT !.kind = "fun"], Frame("block")>>
  /\ UNCHANGED <<graphs, globals, types, nodeStructTy, funcInfos, current, file, toBind, stack,
                 target, stubbed>>

\* The body has been visited: the rest of visitFunctionDef.  currentBB stays.
LeaveFunctionDef ==
  /\ frames # <<>> /\ Top = "fun"
  /\ icfg' = AddIcfgEdge(icfg, "seq", currentICFG, funcInfos[currentFunc].exit)
  /\ ExitScope
  /\ frames' = <<>>
  /\ currentFunc' = None /\ currentICFG' = NullId
  /\ currentRetVal' = NullId /\ currentRetIsPtr' = FALSE
  /\ UNCHANGED <<pag, callGraph, globals, types, nodeStructTy, funcInfos, currentBB, file, toBind,
                 stack, target, stubbed>>

\* visitCompound, before and after its statements.
EnterBlock ==
  /\ AtStatement /\ Uses("block") /\ Len(frames) < MaxDepth
  /\ EnterScope
  /\ frames' = Append(frames, Frame("block"))
  /\ UNCHANGED <<graphs, globals, types, nodeStructTy, funcInfos, current, file, toBind, stack,
                 target, stubbed>>

\* A braced for body ends the visit of its for statement.
ExitBlock ==
  /\ AtStatement /\ Top = "block"
  /\ ExitScope
  /\ LET parent == Enclosing[Len(Enclosing)].kind
     IN  frames' = IF parent = "fun" \/ parent = "block" THEN Enclosing
                   ELSE SubSeq(frames, 1, Len(frames) - 2)
  /\ UNCHANGED <<graphs, globals, types, nodeStructTy, funcInfos, current, file, toBind, stack,
                 target, stubbed>>

\* visitFor opens no scope: what its init clause declares goes to the enclosing
\* one.  The frame is a "for" until its first expression, then a "loop".
VisitFor ==
  /\ AtStatement /\ Uses("for") /\ Top = "block" /\ Len(frames) < MaxDepth
  /\ frames' = Append(frames, Frame("for"))
  /\ UNCHANGED <<graphs, symtab, types, nodeStructTy, funcInfos, current, file, toBind, stack,
                 target, stubbed>>

\* A child of the for statement that is neither a declaration nor a compound goes
\* to visitExpr, a body statement too: its value is dropped, even a return's.
VisitForClause ==
  /\ ExprVisited /\ Top \in {"for", "loop"}
  /\ stack' = <<>>
  /\ frames' = [frames EXCEPT ![Len(frames)].kind = "loop"]
  /\ UNCHANGED <<graphs, symtab, types, nodeStructTy, funcInfos, current, file, toBind, target,
                 stubbed>>

EndFor ==
  /\ AtStatement /\ Top \in {"for", "loop"}
  /\ frames' = Enclosing
  /\ UNCHANGED <<graphs, symtab, types, nodeStructTy, funcInfos, current, file, toBind, stack,
                 target, stubbed>>

-----------------------------------------------------------------------------
(* Declarations and statements *)

Declarators == [star: BOOLEAN, bracket: BOOLEAN]
DeclaredType(spec, d) == IF d.star THEN PtrTy ELSE ParseType(spec)

\* A declarator of a local declaration, and the begin of its initializer.
VisitLocalDecl(x, spec, d, init) ==
  /\ AtStatement /\ Room(2)
  /\ (Top = "block" /\ Uses("local")) \/ (Top = "for" /\ Uses("for declaration"))
  /\ (d.bracket => Uses("array")) /\ (init => Uses("initializer"))
  /\ x \notin DOMAIN frames[Len(frames)].env
  /\ Len(frames) = 2 => x \notin DOMAIN frames[1].env
  /\ CreateLocal(x, DeclaredType(spec, d), d.bracket)
  /\ nodeStructTy' = TagStruct(nodeStructTy, LastId(pag) + 2, AsStruct(ParseType(spec)))
  /\ frames' = Declared(frames, x, LastId(pag) + 2)
  /\ target' = IF init THEN [val |-> LastId(pag) + 2, text |-> {"*", "["}] ELSE NoTarget
  /\ UNCHANGED <<icfg, callGraph, globals, types, funcInfos, current, file, toBind, stack, stubbed>>

\* void (*x)(void);  is a function_declarator, none of the kinds that visitLocalDecl and
\* visitGlobalDecl know: C declares x, and the symbol table learns nothing.  (The same at
\* top level changes nothing at all.)
SkipFunctionPointer(x) ==
  /\ AtStatement /\ Top = "block" /\ Uses("function pointer")
  /\ x \notin DOMAIN frames[Len(frames)].env
  /\ Len(frames) = 2 => x \notin DOMAIN frames[1].env
  /\ frames' = Declared(frames, x, NullId)
  /\ UNCHANGED <<graphs, symtab, types, nodeStructTy, funcInfos, current, file, toBind, stack,
                 target, stubbed>>

\* A declarator of a global declaration.  d is what its text shows, and the text
\* includes the initializer, which may only show what d does.
VisitGlobalDecl(x, spec, d, init) ==
  /\ AtTopLevel /\ Room(2)
  /\ x \in Vars =>
       /\ IF seen \cap Funs = {} THEN Uses("global") ELSE Uses("global after body")
       /\ x \notin DOMAIN globals \/ Uses("tentative definition")
  /\ (d.bracket => Uses("array")) /\ (init => Uses("initializer"))
  /\ pag' = AddObject(pag, "global", currentICFG, x, FlattenedFields(DeclaredType(spec, d)))
  /\ globals' = Bind(globals, x,
       Symbol(DeclaredType(spec, d), LastId(pag) + 1, LastId(pag) + 2, FALSE, d.bracket))
  /\ nodeStructTy' = TagStruct(nodeStructTy, LastId(pag) + 2, AsStruct(ParseType(spec)))
  /\ target' = IF ~init THEN NoTarget
                ELSE [val  |-> LastId(pag) + 2,
                      text |-> {c \in {"*", "["} : IF c = "*" THEN d.star ELSE d.bracket}]
  /\ UNCHANGED <<icfg, callGraph, scopes, types, funcInfos, current, file, frames, toBind, stack,
                 stubbed>>

\* The prototype of a function that returns a pointer is a pointer_declarator,
\* which visitGlobalDecl takes for a variable of that name.
VisitPrototype(f) ==
  /\ Uses("pointer prototype")
  /\ VisitGlobalDecl(f, IntTy, [star |-> TRUE, bracket |-> FALSE], FALSE)

\* The initializer has been visited: store it, in visitLocalDecl or visitGlobalDecl.
EndInitializer ==
  /\ target # NoTarget /\ Len(stack) = 1 /\ IsRvalue(stack[1])
  /\ pag' = AddStmt(pag, "Store", stack[1].id, target.val, currentICFG)
  /\ stack' = <<>> /\ target' = NoTarget
  /\ UNCHANGED <<icfg, callGraph, symtab, types, nodeStructTy, funcInfos, current, file, frames,
                 toBind, stubbed>>

\* An expression statement, or the condition of an if or while statement, whose
\* branches are then visited as the statements that follow.
VisitExprStmt ==
  /\ ExprVisited /\ Top = "block"
  /\ stack' = <<>>
  /\ UNCHANGED <<graphs, symtab, types, nodeStructTy, funcInfos, current, file, frames, toBind,
                 target, stubbed>>

\* Mutant: the copy goes the wrong way.
ReturnFlowSwapped(v) ==
  IF currentRetIsPtr /\ pag.node[v].ptr THEN AddStmt(pag, "Copy", currentRetVal, v, 0) ELSE pag
\* A return statement's value reaches the callee's return ValVar, if it has one.
ReturnFlow(v) ==
  IF currentRetIsPtr /\ pag.node[v].ptr THEN AddStmt(pag, "Copy", v, currentRetVal, 0) ELSE pag
VisitReturn ==
  /\ ExprVisited /\ Top = "block" /\ Uses("return")
  /\ pag' = ReturnFlow(stack[1].id)
  /\ stack' = <<>>
  /\ UNCHANGED <<icfg, callGraph, symtab, types, nodeStructTy, funcInfos, current, file, frames,
                 toBind, target, stubbed>>

-----------------------------------------------------------------------------
(* Expressions *)

\* What no expression handler but visitCall changes.
control == <<callGraph, symtab, types, funcInfos, current, file, frames, toBind, target>>

\* A handler that replaces the last n operands by a fresh temporary, which the
\* statement op defines from the node src and sty is the struct type of.
Yield(n, form, name, as, op, src, arg, sty) ==
  /\ RoomForTemps(1)
  /\ pag' = Emit(pag, op, src, arg, currentICFG)
  /\ nodeStructTy' = TagStruct(nodeStructTy, LastId(pag) + 1, sty)
  /\ Push(n, Operand(form, name, LastId(pag) + 1, as))
  /\ UNCHANGED icfg

\* The same for a Gep from base and a Load from the place it yields; the struct
\* types are those of the place and of the value in it.
YieldLoaded(n, form, op, base, arg, placeSty, valueSty) ==
  LET place == LastId(pag) + 1
      gep == Emit(pag, op, base, arg, currentICFG)
  IN  /\ RoomForTemps(2)
      /\ pag' = Emit(gep, "Load", place, 0, currentICFG)
      /\ nodeStructTy' = TagStruct(TagStruct(nodeStructTy, place, placeSty), place + 1, valueSty)
      /\ Push(n, Operand(form, None, place + 1, Rvalue))
      /\ UNCHANGED icfg

\* A field or an element, as lvalueAddress finds its place and as visitExpr loads it.
YieldPlace(n, form, op, base, arg, placeSty, valueSty) ==
  \/ Yield(n, form, None, Lvalue, op, base, arg, placeSty)
  \/ YieldLoaded(n, form, op, base, arg, placeSty, valueSty)

\* freshValVar for an operand that no statement defines.
YieldFresh(n, form, name, as) ==
  /\ RoomForTemps(1)
  /\ pag' = AddVal(pag, currentICFG, None)
  /\ Push(n, Operand(form, name, LastId(pag) + 1, as))
  /\ UNCHANGED <<icfg, nodeStructTy>>

\* A handler that returns a node it has at hand.
Return(n, form, name, id, as) ==
  /\ Push(n, Operand(form, name, id, as))
  /\ UNCHANGED <<pag, icfg, nodeStructTy>>

\* An identifier, as visitExpr loads it and as lvalueAddress takes its address.
VisitIdentifier(x) ==
  /\ CanPush /\ (x \in Funs => Uses("function name"))
  /\ \/ /\ Lookup(x) = {} /\ Uses("unknown name")
        /\ YieldFresh(0, "identifier", x, Either)
     \/ \E sym \in Lookup(x) :
          \/ /\ sym.isFunction \/ sym.isArray
             /\ Return(0, "identifier", x, sym.valId, Either)
          \/ /\ ~(sym.isFunction \/ sym.isArray)
             /\ Constructs \cap {"address", "field", "parentheses"} # {}
             /\ Return(0, "identifier", x, sym.valId, Lvalue)
          \/ /\ ~(sym.isFunction \/ sym.isArray)
             /\ Yield(0, "identifier", x, Rvalue, "Load", sym.valId, 0, NodeStruct(sym.valId))
  /\ UNCHANGED <<control, stubbed>>

\* A number or character literal: the only ValVars that are not pointers.
VisitNumber ==
  /\ CanPush /\ Uses("literal") /\ RoomForTemps(1)
  /\ pag' = AddNode(pag, Node("val", FALSE, currentICFG, None, 0))
  /\ Push(0, Operand("literal", None, LastId(pag) + 1, Either))
  /\ UNCHANGED <<icfg, nodeStructTy, control, stubbed>>

VisitString ==
  /\ CanPush /\ Uses("string") /\ RoomForTemps(2)
  /\ pag' = AddObject(pag, "const", currentICFG, None, 1)
  /\ Push(0, Operand("string", None, LastId(pag) + 2, Either))
  /\ UNCHANGED <<icfg, nodeStructTy, control, stubbed>>

\* null, and an expression without operands that visitExpr does not know.
VisitNull ==
  /\ CanPush /\ Uses("null")
  /\ YieldFresh(0, "other", None, Either)
  /\ UNCHANGED <<control, stubbed>>

\* (e): both visitors look through the parentheses.
VisitParenthesized ==
  /\ Visiting /\ stack # <<>> /\ Uses("parentheses")
  /\ LET e == stack[Arg(1)]
     IN  e.form # "parenthesized" /\ Return(1, "parenthesized", None, e.id, e.as)
  /\ UNCHANGED <<control, stubbed>>

\* &e is the address lvalueAddress finds for e.
VisitAddressOf ==
  /\ Visiting /\ stack # <<>> /\ Uses("address")
  /\ LET e == stack[Arg(1)]
     IN  /\ IsLvalue(e) /\ Dereferenced(e)
         /\ e.form \in {"identifier", "deref", "field", "subscript", "parenthesized"}
         /\ Return(1, "address", None, e.id, Either)
  /\ UNCHANGED <<control, stubbed>>

\* *e as a value, and as the place it denotes.
VisitDeref ==
  /\ Visiting /\ stack # <<>> /\ Uses("deref") /\ "*" \in target.text
  /\ LET e == stack[Arg(1)]
     IN  /\ IsRvalue(e) /\ Dereferenced(e)
         /\ \/ Yield(1, "deref", None, Rvalue, "Load", e.id, 0, None)
            \/ Return(1, "deref", None, e.id, Lvalue)
  /\ UNCHANGED <<control, stubbed>>

\* The expressions whose last child alone is visited: -e, !e, e++ and the like, and
\* comma, conditional and initializer-list expressions, whose other children are lost.
VisitLastChild ==
  /\ Visiting /\ stack # <<>> /\ Uses("last child")
  /\ IsRvalue(stack[Arg(1)])
  /\ Return(1, "other", None, stack[Arg(1)].id, Either)
  /\ UNCHANGED <<control, stubbed>>

\* Mutants: every operand counts as a pointer; the declared type is not looked up.
IsCPointerExprEager(e) == TRUE
IsCPointerExprBySyntax(e) == e.form \in {"field", "subscript", "cast", "deref", "address"}
\* isCPointerExpr of visitBinary: a pointer by its declaration or by its syntax.
IsCPointerExpr(e) ==
  \/ e.form = "identifier" /\ \E sym \in Lookup(e.name) : sym.type = PtrTy
  \/ e.form \in {"field", "subscript", "cast", "deref", "address"}

\* l op r.  A sum with a pointer operand is the address of element 0 of what it
\* points to; the value of any other binary expression is dropped.
VisitBinary(additive) ==
  /\ Visiting /\ Len(stack) >= 2
  /\ LET l == stack[Arg(2)]
         r == stack[Arg(1)]
         base == IF IsCPointerExpr(l) THEN l.id ELSE r.id
     IN  /\ IsRvalue(l) /\ IsRvalue(r)
         /\ \/ /\ additive /\ Uses("sum") /\ (IsCPointerExpr(l) \/ IsCPointerExpr(r))
               /\ Yield(2, "binary", None, Either, "Gep", base, 0, NodeStruct(base))
            \/ /\ IF additive THEN Uses("sum") ELSE Uses("other binary")
               /\ ~(additive /\ (IsCPointerExpr(l) \/ IsCPointerExpr(r)))
               /\ YieldFresh(2, "binary", None, Either)
  /\ UNCHANGED <<control, stubbed>>

\* Mutant: the store goes the wrong way.
AssignedBackwards(n, dsts) ==
  LET rhs == stack[Arg(n + 1)]
  IN  /\ IsRvalue(rhs)
      /\ pag' = AddStmts(pag, {Stmt("Store", d, rhs.id, currentICFG) : d \in dsts})
      /\ Push(n + 1, Operand("assign", None, rhs.id, Either))
      /\ UNCHANGED <<icfg, nodeStructTy, control, stubbed>>
\* An assignment has visited its right side first; n operands lie above it.
Assigned(n, dsts) ==
  LET rhs == stack[Arg(n + 1)]
  IN  /\ IsRvalue(rhs)
      /\ pag' = AddStmts(pag, {Stmt("Store", rhs.id, d, currentICFG) : d \in dsts})
      /\ Push(n + 1, Operand("assign", None, rhs.id, Either))
      /\ UNCHANGED <<icfg, nodeStructTy, control, stubbed>>

\* x = e: x itself is not visited.
VisitAssignIdentifier(x) ==
  /\ InBody /\ Len(stack) >= 1 /\ Uses("assign")
  /\ Lookup(x) # {} \/ Uses("unknown name")
  /\ Assigned(0, {sym.valId : sym \in Lookup(x)})

\* *p = e visits p, and s.f = e, p->f = e and a[i] = e the address of the left side.
VisitAssignThrough ==
  /\ InBody /\ Len(stack) >= 2 /\ Uses("assign")
  /\ LET l == stack[Arg(1)]
     IN  /\ IsLvalue(l) /\ l.form \in {"deref", "field", "subscript"}
         /\ Assigned(1, {l.id})

\* (x) = e: no case of visitAssign, the left side is dropped unvisited.
VisitAssignParenthesized ==
  /\ InBody /\ Len(stack) >= 1 /\ Uses("assign") /\ Uses("parentheses")
  /\ Assigned(0, {})

\* Mutant: fields are counted from 1.
FlatFldIdxFromOne(i) == i
FlatFldIdx(i) == i - 1

\* e.f or e->f.  sty is the struct type base is tagged with.
VisitField(f, arrow) ==
  /\ Visiting /\ stack # <<>> /\ Uses("field")
  /\ LET e == stack[Arg(1)]
         sty == NodeStruct(e.id)
         known == IF sty = None THEN {} ELSE FieldMetaIdx(sty, f)
     IN  /\ IF arrow THEN IsRvalue(e) ELSE IsLvalue(e)
         /\ Dereferenced(e)
         /\ \/ \E i \in known :
                 LET meta == structFields[sty][i]
                 IN  YieldPlace(1, "field", "Gep", e.id, FlatFldIdx(i),
                                IF meta.isPointer THEN None ELSE meta.pointee,
                                IF meta.isPointer THEN meta.pointee ELSE None)
            \/ known = {} /\ YieldPlace(1, "field", "VarGep", e.id, 0, None, None)
  /\ UNCHANGED <<control, stubbed>>

\* a[i], with every element at offset 0.  A base that is an identifier is visited
\* as a value, which for an array is its address; any other base as a place.
VisitSubscript ==
  /\ Visiting /\ Len(stack) >= 2 /\ Uses("subscript") /\ "[" \in target.text
  /\ LET a == stack[Arg(2)]
         sty == NodeStruct(a.id)
     IN  /\ IF a.form = "identifier" THEN IsRvalue(a) ELSE IsLvalue(a)
         /\ Dereferenced(a) /\ IsRvalue(stack[Arg(1)])
         /\ YieldPlace(2, "subscript", "Gep", a.id, 0, sty, sty)
  /\ UNCHANGED <<control, stubbed>>

\* malloc and its kin: a heap object.  The arguments are not visited.
VisitAllocation ==
  /\ InBody /\ CanPush /\ Uses("malloc") /\ RoomForTemps(2)
  /\ pag' = AddObject(pag, "heap", currentICFG, None, 1)
  /\ Push(0, Operand("call", None, LastId(pag) + 2, Either))
  /\ UNCHANGED <<icfg, nodeStructTy, control, stubbed>>

\* The last n operands, in the order they were visited, are the arguments.
Argument(n, i) == stack[Len(stack) - n + i]
ArgumentsVisited(n) ==
  /\ InBody /\ Uses("call") /\ n <= Len(stack) /\ Len(stack) - n < MaxStack
  /\ \A i \in 1..n : IsRvalue(Argument(n, i))

\* Mutant: without a pre-pass only the functions above the call are known.
CallableBackward(f) == f \in DOMAIN funcInfos /\ funcInfos[f].defined
\* The callee is in funcInfos under the text of the call's function.
Callable(f) == f \in DOMAIN funcInfos

\* Mutant: the result comes from the caller's own return ValVar.
CallFlowOwnReturn(fi, n, call) ==
  LET passed == {i \in 1..n : i <= Len(fi.formals)}
      bound == AddStmts(pag,
        {Stmt("CallPE", Argument(n, i).id, fi.formals[i].val, call) : i \in passed})
  IN  Emit(bound, "RetPE", currentRetVal, call, currentICFG)
\* CallPE for each argument that has a formal; RetPE into a fresh temporary.
CallFlow(fi, n, call) ==
  LET passed == {i \in 1..n : i <= Len(fi.formals)}
      bound == AddStmts(pag,
        {Stmt("CallPE", Argument(n, i).id, fi.formals[i].val, call) : i \in passed})
  IN  Emit(bound, "RetPE", fi.retVal, call, currentICFG)

\* A call of a registered function: call and return nodes hang off the current
\* ICFG node, and the arguments flow into as many formals as there are.
VisitCall(f, n) ==
  /\ ArgumentsVisited(n) /\ RoomForTemps(1)
  /\ Callable(f)
  /\ LET fi == funcInfos[f]
         call == LastId(icfg) + 1
         ret == LastId(icfg) + 2
         nodes == AddIcfgNode(AddIcfgNode(icfg, "call", currentBB), "ret", currentBB)
         before == AddIcfgEdge(nodes, "seq", currentICFG, call)
     IN  /\ icfg' = AddIcfgEdge(AddIcfgEdge(before, "call", call, fi.entry), "ret", fi.exit, ret)
         /\ callGraph' = callGraph \cup {[call |-> call, caller |-> currentFunc, callee |-> f]}
         /\ pag' = CallFlow(fi, n, call)
  /\ Push(n, Operand("call", None, LastId(pag) + 1, Either))
  /\ UNCHANGED <<symtab, types, nodeStructTy, funcInfos, current, file, frames, toBind, target,
                 stubbed>>

\* Any other call: a library function, a function pointer (f = None) or a function
\* that is not registered yet.
VisitUnknownCall(f, n) ==
  /\ ArgumentsVisited(n) /\ Uses("unknown call")
  /\ ~Callable(f)
  /\ YieldFresh(n, "call", None, Either)
  /\ stubbed' = stubbed \cup ({f} \cap Funs)
  /\ UNCHANGED control

\* (T)e.  The type child of a cast is a type_descriptor, for which parseTypeFromNode
\* answers IntTy; the model does not rest on that and lets it find a struct as well.
VisitCast(spec) ==
  /\ Visiting /\ stack # <<>> /\ Uses("cast")
  /\ LET e == stack[Arg(1)]
         sty == AsStruct(ParseType(spec))
     IN  /\ IsRvalue(e)
         /\ \/ /\ pag.node[e.id].ptr
               /\ Yield(1, "cast", None, Either, "Copy", e.id, 0,
                        IF sty # None THEN sty ELSE NodeStruct(e.id))
            \/ /\ ~pag.node[e.id].ptr
               /\ Return(1, "cast", None, e.id, Either)
  /\ UNCHANGED <<control, stubbed>>

-----------------------------------------------------------------------------
UnitStep ==
  \/ StartUnit
  \/ \E f \in Funs, sig \in Signatures : PrescanFunctionDef(f, sig)
  \/ EndPrescan
  \/ EndUnit
  \/ \E s \in Structs, def \in StructDefs : VisitStructSpecifier(s, def)
  \/ \E alias \in Aliases, spec \in Specifiers : VisitTypeDefinition(alias, spec)
  \/ \E x \in Vars, spec \in Specifiers, d \in Declarators, init \in BOOLEAN :
       VisitGlobalDecl(x, spec, d, init)
  \/ \E f \in Funs : VisitPrototype(f)

BodyStep ==
  \/ VisitFunctionDef \/ BindFormal \/ EnterBody \/ LeaveFunctionDef
  \/ EnterBlock \/ ExitBlock
  \/ VisitFor \/ VisitForClause \/ EndFor
  \/ \E x \in Vars, spec \in Specifiers, d \in Declarators, init \in BOOLEAN :
       VisitLocalDecl(x, spec, d, init)
  \/ \E x \in Vars : SkipFunctionPointer(x)
  \/ EndInitializer
  \/ VisitExprStmt \/ VisitReturn

ExprStep ==
  \/ \E x \in Vars \cup Funs : VisitIdentifier(x)
  \/ VisitNumber \/ VisitString \/ VisitNull
  \/ VisitParenthesized \/ VisitAddressOf \/ VisitDeref \/ VisitLastChild
  \/ \E additive \in BOOLEAN : VisitBinary(additive)
  \/ \E x \in Vars : VisitAssignIdentifier(x)
  \/ VisitAssignThrough \/ VisitAssignParenthesized
  \/ \E f \in Fields, arrow \in BOOLEAN : VisitField(f, arrow)
  \/ VisitSubscript
  \/ VisitAllocation
  \/ \E f \in Funs, n \in 0..MaxStack : VisitCall(f, n)
  \/ \E f \in Funs \cup {None}, n \in 0..MaxStack : VisitUnknownCall(f, n)
  \/ \E spec \in Specifiers : VisitCast(spec)

Next == UnitStep \/ BodyStep \/ ExprStep

Spec == Init /\ [][Next]_vars

-----------------------------------------------------------------------------
(* Type correctness *)

Names == Vars \cup Funs \cup {None, QualifiedText}
SymbolType ==
  [type: {IntTy, PtrTy, FunTy} \cup Structs, objId: Objects(pag), valId: Vals(pag),
   isFunction: BOOLEAN, isArray: BOOLEAN]
\* name is what the visitor binds the formal to, source what the program calls it.
FormalType ==
  {formal \in [val: Vals(pag), name: Vars \cup {QualifiedText}, source: Vars,
               sty: Structs \cup {None}] :
     formal.name # formal.source => Uses("qualified parameter")}
FuncInfoType ==
  [funObjId: Objects(pag), entry: Ids(icfg), exit: Ids(icfg), retVal: Vals(pag),
   formals: Seq(FormalType), defined: BOOLEAN, retIsPtr: BOOLEAN]
FieldMetaType == [name: Fields, pointee: Structs \cup {None}, isPointer: BOOLEAN]
FrameKinds == {"params", "fun", "block", "for", "loop"}
Forms == {"identifier", "literal", "string", "other", "parenthesized", "address", "deref",
          "binary", "assign", "field", "subscript", "call", "cast"}
OperandType == [form: Forms, name: Names, id: Vals(pag), as: {Rvalue, Lvalue, Either}]
TargetType == [val: {NullId} \cup Vals(pag), text: SUBSET {"*", "["}]

\* A partial map from names in S to values in T; a sequence.
IsTable(m, S, T) == DOMAIN m \subseteq S /\ m \in [DOMAIN m -> T]
IsSequence(s) == s \in Seq({s[i] : i \in DOMAIN s})
IsFrame(fr, ids) ==
  /\ fr = [kind |-> fr.kind, env |-> fr.env]
  /\ fr.kind \in FrameKinds /\ IsTable(fr.env, Vars, ids)

GraphsOK ==
  /\ IsIcfg(icfg, Funs \cup {None})
  /\ IsPag(pag, icfg, Names)
  /\ callGraph \subseteq [call: Ids(icfg), caller: Funs \cup {None}, callee: DOMAIN funcInfos]
SymtabOK ==
  /\ IsTable(globals, Vars \cup Funs, SymbolType)
  /\ IsSequence(scopes) /\ \A i \in DOMAIN scopes : IsTable(scopes[i], Vars \cup {QualifiedText}, SymbolType)
TypesOK ==
  /\ IsTable(typedefs, Aliases, {IntTy} \cup Structs)
  /\ structFields \in [Structs -> Seq(FieldMetaType)] /\ IsTable(stInfo, Structs, Nat)
TagsOK == IsTable(nodeStructTy, Vals(pag), Structs)
FuncsOK == IsTable(funcInfos, Funs, FuncInfoType)
CurrentOK ==
  /\ currentFunc \in DOMAIN funcInfos \cup {None} /\ currentBB \in DOMAIN funcInfos \cup {None}
  /\ frames # <<>> => currentFunc \in DOMAIN funcInfos
  /\ currentICFG \in {NullId} \cup Ids(icfg)
  /\ currentRetVal \in {NullId} \cup Vals(pag) /\ currentRetIsPtr \in BOOLEAN
  /\ currentRetIsPtr => currentRetVal # NullId
FileOK ==
  /\ unit \in Nat /\ phase \in {"idle", "prescan", "main"}
  /\ pending \in Seq(DOMAIN funcInfos) /\ seen \subseteq Structs \cup Funs
FramesOK ==
  /\ IsSequence(frames) /\ \A i \in DOMAIN frames : IsFrame(frames[i], {NullId} \cup Vals(pag))
  /\ toBind \in Seq(FormalType)
StackOK == stack \in Seq(OperandType)
TargetOK == target \in TargetType /\ (target.val = NullId <=> target = NoTarget)

\* Every component of the state has its type, and every node id that the visitor
\* remembers, in a symbol, a FuncInfo, a tag, a statement or an operand, is the id
\* of a node of the right kind that exists: what visitExpr and lvalueAddress return
\* is a ValVar, never an object, and SVF is never handed an id not allocated.
TypeOK ==
  /\ GraphsOK /\ SymtabOK /\ TypesOK /\ TagsOK /\ FuncsOK
  /\ CurrentOK /\ FileOK /\ FramesOK /\ StackOK /\ TargetOK /\ stubbed \subseteq Funs

-----------------------------------------------------------------------------
(* Safety of the emitted IR *)

\* Each object is the source of exactly one AddrStmt, whichever of createLocal,
\* createGlobal, prescanFunctionDef, visitString and visitCall made it: the analysis
\* can reach it, and its address is in one ValVar alone.
EveryObjectHasAddr ==
  \A o \in Objects(pag) : \E s \in Stmts(pag, "Addr") :
    s.src = o /\ \A t \in Stmts(pag, "Addr") : t.src = o => t = s

\* A ValVar has one definition: two statements that define the same one are the
\* bindings of a formal at two calls or two return statements of one function.
\* Temporaries are never reused across the recursion of the visitor.
DefinedOnce ==
  \A s, t \in pag.stmt :
    s.dst = t.dst /\ "Store" \notin {s.op, t.op} =>
      \/ s = t
      \/ \E f \in DOMAIN funcInfos :
           \/ /\ s.op = "CallPE" /\ t.op = "CallPE"
              /\ \E i \in DOMAIN funcInfos[f].formals : s.dst = funcInfos[f].formals[i].val
           \/ /\ s.op = "Copy" /\ t.op = "Copy"
              /\ s.dst = funcInfos[f].retVal

\* Formals and return ValVars are a function's interface: values enter a formal by
\* CallPE alone and leave it only for its own stack slot, and values enter the
\* return ValVar by return statements of that function alone and leave it by RetPE.
InterfaceFlow ==
  \A f \in DOMAIN funcInfos : \A s \in pag.stmt :
    LET fi == funcInfos[f]
        formals == {fi.formals[i].val : i \in DOMAIN fi.formals}
    IN  /\ s.dst \in formals => s.op = "CallPE"
        /\ s.src \in formals => s.op = "Store" /\ pag.node[s.dst].name = pag.node[s.src].name
        /\ s.dst = fi.retVal => s.op = "Copy" /\ fi.retIsPtr
        /\ s.src = fi.retVal => s.op = "RetPE"

\* The function a node is anchored in, None for global and unanchored nodes.
OwnerOf(i) ==
  IF pag.node[i].at = NullId THEN None ELSE icfg.node[pag.node[i].at].bb

\* A statement other than CallPE and RetPE never relates nodes of two functions:
\* scopes, the anchor and the return ValVar are all back to the caller's, or to
\* none, when the visit of a body has ended.
StayInFunction ==
  \A s \in pag.stmt :
    s.op \notin {"CallPE", "RetPE"} =>
      None \in {OwnerOf(s.src), OwnerOf(s.dst)} \/ OwnerOf(s.src) = OwnerOf(s.dst)

\* The PAG, the ICFG and the call graph tell the same story of every call: one
\* caller, one callee, the callee's entry and exit, a binding of its first formals
\* without a gap, and its return ValVar.
CallWiring ==
  \A call \in {i \in Ids(icfg) : icfg.node[i].kind = "call"} :
    LET ret == call + 1
        edges == {e \in icfg.edge : {e.from, e.to} \cap {call, ret} # {}}
        binds == {s \in pag.stmt : s.op = "CallPE" /\ s.arg = call}
        rets == {s \in pag.stmt : s.op = "RetPE" /\ s.arg = call}
    IN  \E g \in callGraph :
          LET fi == funcInfos[g.callee]
              caller == icfg.node[call].bb
          IN  /\ \A h \in callGraph : h.call = call => h = g
              /\ g.call = call /\ g.caller = caller
              /\ icfg.node[ret] = [kind |-> "ret", bb |-> caller]
              /\ [kind |-> "call", from |-> call, to |-> fi.entry] \in edges
              /\ [kind |-> "ret", from |-> fi.exit, to |-> ret] \in edges
              /\ \E before \in Ids(icfg) :
                   /\ icfg.node[before] = [kind |-> "intra", bb |-> caller]
                   /\ [kind |-> "seq", from |-> before, to |-> call] \in edges
              /\ Cardinality(edges) = 3
              /\ \E s \in rets : rets = {s} /\ s.src = fi.retVal /\ OwnerOf(s.dst) = caller
              /\ {s.dst : s \in binds} = {fi.formals[i].val : i \in 1..Cardinality(binds)}

\* Between files every function that was registered has had its body visited, once,
\* and its entry, body and exit form a chain.
BodyOnce ==
  \A f \in DOMAIN funcInfos :
    LET fi == funcInfos[f]
        body == {i \in Ids(icfg) : icfg.node[i] = [kind |-> "intra", bb |-> f]}
    IN  /\ phase = "idle" => fi.defined
        /\ IF ~fi.defined THEN body = {}
           ELSE \E b \in body :
             /\ body = {b}
             /\ [kind |-> "seq", from |-> fi.entry, to |-> b] \in icfg.edge
             /\ ([kind |-> "seq", from |-> b, to |-> fi.exit] \in icfg.edge) <=> (currentFunc # f)

\* Forward references work: no call was left a stub for want of a function that
\* the program defines.
ForwardReferences == stubbed \cap DOMAIN funcInfos = {}

\* Every node but a FunObj hangs on an ICFG node.
Anchored == \A i \in Ids(pag) : pag.node[i].kind # "fun" => pag.node[i].at # NullId

\* What the C rules make of name x here: the innermost construct that declares it.
CLookup(x) ==
  LET here == {i \in DOMAIN frames : x \in DOMAIN frames[i].env}
  IN  {frames[i].env[x] : i \in {j \in here : \A k \in here : k <= j}}
        \cup {globals[y].valId : y \in {z \in DOMAIN globals : here = {} /\ z = x}}

\* The symbol table finds what C's scope rules find, at every point of a body and for
\* every name that the program may use there.
NamesResolveAsInC ==
  InBody => \A x \in Vars : CLookup(x) # {} => CLookup(x) = {sym.valId : sym \in Lookup(x)}

\* A constant offset stays inside the struct its base is tagged with, as SVF sees that
\* struct, though every file that shows the struct lengthens the table where it is looked up.
OffsetsInStruct ==
  \A s \in Stmts(pag, "Gep") :
    s.arg # 0 => NodeStruct(s.src) \in DOMAIN stInfo /\ s.arg < stInfo[NodeStruct(s.src)]

\* The definition of a struct that was visited last is the end of its field table.
ShownBody(s) ==
  SubSeq(structFields[s], Len(structFields[s]) - stInfo[s] + 1, Len(structFields[s]))

\* Each field of a struct is found at its position in the struct's definition, which is
\* its index in the StInfo, in whichever and however many files the definition stands.
FieldsFound ==
  \A s \in DOMAIN stInfo : \A i \in 1..stInfo[s] :
    FieldMetaIdx(s, ShownBody(s)[i].name) = {i}
=============================================================================
