------------------------------ MODULE CMachine ------------------------------
(***************************************************************************)
(* The run of the program that ts-svf has analysed: an interpreter of its  *)
(* tokens by the rules of C.  Data is left out but for pointers: a number  *)
(* has no value, a condition and an index are chosen freely, and memory    *)
(* is the set of facts "location l holds the address of location t".  What *)
(* C leaves undefined (a null or indeterminate pointer that is used) stops *)
(* the run.                                                                *)
(***************************************************************************)
EXTENDS CommandLine

CONSTANTS
  ArrayFields,  \* names of struct fields that are arrays
  UnionFields,  \* names of fields that share their place in a union
  MaxCalls,     \* bound on the depth of calls
  MaxHeap       \* bound on the heap objects from one malloc

VARIABLES
  pc,          \* the token that is executed next, 0 before the program starts
  memory,      \* the pointers in memory: pairs of locations
  operands,    \* the values and places of the expressions that are being evaluated
  calls,       \* the active calls
  statics,     \* the variables at file scope
  allocated,   \* how many objects each malloc has made
  called       \* the calls by name made so far: pairs of functions

machine == <<pc, memory, operands, calls, statics, allocated, called>>

-----------------------------------------------------------------------------
(* Locations and values *)

\* The object that the declaration, definition or malloc at token pos makes, the
\* instance of it (the depth of the call, the count of the malloc), and the way from
\* the whole object down to a member or element.
Location(p, instance) == [pos |-> p, instance |-> instance, path |-> <<>>]
Into(l, step) == [l EXCEPT !.path = Append(@, step)]
Member(l, f) == Into(l, IF f \in UnionFields THEN "union" ELSE f)
Elements == {"0", "1"}
IsElement(l) == l.path # <<>> /\ l.path[Len(l.path)] \in Elements
IsArrayField(l) == l.path # <<>> /\ l.path[Len(l.path)] \in ArrayFields
\* Where a pointer into an array may be moved.
Siblings(l) ==
  IF IsElement(l) THEN {[l EXCEPT !.path[Len(l.path)] = i] : i \in Elements} ELSE {l}

Within(l, whole) ==
  /\ l.pos = whole.pos /\ l.instance = whole.instance
  /\ Len(l.path) >= Len(whole.path) /\ SubSeq(l.path, 1, Len(whole.path)) = whole.path

\* A value is the set of the pointers in it, each with its way into the value: none in
\* a number, one in a pointer, and as many as it has pointer members in a struct.
NoValue == {}
Pointer(l) == {<<<<>>, l>>}
Targets(v) == {p[2] : p \in {q \in v : q[1] = <<>>}}
Load(l) ==
  {<<SubSeq(m[1].path, Len(l.path) + 1, Len(m[1].path)), m[2]>> :
     m \in {n \in memory : Within(n[1], l)}}
Stored(l, v) ==
  {m \in memory : ~Within(m[1], l)} \cup {<<[l EXCEPT !.path = @ \o p[1]], p[2]>> : p \in v}

\* An operand is a place (an lvalue) or a value.  What is read of an array is the
\* address of its first element.
PlaceOf(l) == [place |-> {l}, value |-> NoValue]
ValueOf(v) == [place |-> {}, value |-> v]
Contents(l) == ValueOf(IF IsArrayField(l) THEN Pointer(Into(l, "0")) ELSE Load(l))
As(as, l) == IF as = "lvalue" THEN PlaceOf(l) ELSE Contents(l)

-----------------------------------------------------------------------------
(* The program *)

Here == IF program[pc][1] = "lost" THEN program[pc][2] ELSE program[pc]
At(kinds) == pc \in 1..Len(program) /\ Here[1] \in kinds
Positions(kind) == {p \in 1..Len(program) : program[p][1] = kind}
\* The n-th function that the files define has the n-th body.
Rank(kind, p) == Cardinality({q \in Positions(kind) : q <= p})
NthOf(kind, n) == CHOOSE p \in Positions(kind) : Rank(kind, p) = n
DefinitionOf(f) == CHOOSE p \in Positions("fun") : program[p][2] = f
EntryOf(def) == NthOf("enter", Rank("fun", def))

\* C is structured: control never leaves a function but by return.  (No subtree that the
\* visitor drops holds a call or a function definition.)
Structured(text) ==
  \A k \in DOMAIN text :
    LET t == IF text[k][1] = "lost" THEN text[k][2] ELSE text[k]
    IN  /\ text[k][1] = "lost" => t[1] \notin {"call", "enter"}
        /\ t[1] \in {"branch", "jump"} =>
             /\ t[2] \in Int /\ k + t[2] \in DOMAIN text
             /\ \A l \in k..(k + t[2]) \cup (k + t[2])..k : text[l][1] \notin {"enter", "leave"}

Calling == calls # <<>>
Current == calls[Len(calls)]
\* The variable that a name means here: its location, and whether it is an array.
Scopes == IF Calling THEN Current.env ELSE <<>>
Variable(x) ==
  LET here == {i \in DOMAIN Scopes : x \in DOMAIN Scopes[i]}
  IN  IF here = {} THEN statics[x]
      ELSE Scopes[CHOOSE i \in here : \A j \in here : j <= i][x]
ValueOfName(x) ==
  IF x \in Funs THEN ValueOf(Pointer(Location(DefinitionOf(x), 0)))
  ELSE IF Variable(x).array THEN ValueOf(Pointer(Into(Variable(x).at, "0")))
  ELSE Contents(Variable(x).at)

Nth(n) == operands[Len(operands) + 1 - n]
Drop(n) == SubSeq(operands, 1, Len(operands) - n)
Continue == pc' = pc + 1

-----------------------------------------------------------------------------
(* Expressions *)

Expressions ==
  {"val", "place", "num", "malloc", "&", "*", "field", "[]", "binary", "()", "cast", "last"}
Arity(kind) ==
  CASE kind \in {"val", "place", "num", "malloc"} -> 0
    [] kind \in {"[]", "binary"} -> 2
    [] OTHER -> 1

\* What a[i] may denote: a is an array in place, or a pointer into one.
Indexed(a) ==
  UNION {IF IsArrayField(l) THEN {Into(l, i) : i \in Elements}
         ELSE UNION {Siblings(t) : t \in Targets(Load(l))} : l \in a.place}
    \cup UNION {Siblings(t) : t \in Targets(a.value)}

\* The operands that the expression may leave for those it takes: none where C
\* leaves the result undefined.
Outcomes(t) ==
  CASE t[1] = "val" -> {ValueOfName(t[2])}
    [] t[1] = "place" -> {PlaceOf(Variable(t[2]).at)}
    [] t[1] = "num" -> {ValueOf(NoValue)}
    [] t[1] = "malloc" -> {ValueOf(Pointer(Location(pc, allocated[pc] + 1)))}
    [] t[1] = "&" -> {ValueOf(Pointer(l)) : l \in Nth(1).place}
    [] t[1] = "*" -> {As(t[2], l) : l \in Targets(Nth(1).value)}
    [] t[1] = "field" ->
         {As(t[4], Member(l, t[2])) : l \in IF t[3] THEN Targets(Nth(1).value) ELSE Nth(1).place}
    [] t[1] = "[]" -> {As(t[2], l) : l \in Indexed(Nth(2))}
    [] t[1] = "binary" ->
         LET moved == UNION {Siblings(l) : l \in Targets(Nth(1).value) \cup Targets(Nth(2).value)}
         IN  IF t[2] /\ moved # {} THEN {ValueOf(Pointer(l)) : l \in moved} ELSE {ValueOf(NoValue)}
    [] t[1] \in {"()", "cast", "last"} -> {Nth(1)}

Evaluate ==
  /\ At(Expressions)
  /\ Here[1] = "malloc" => allocated[pc] < MaxHeap
  /\ \E e \in Outcomes(Here) : operands' = Append(Drop(Arity(Here[1])), e)
  /\ allocated' = IF Here[1] = "malloc" THEN [allocated EXCEPT ![pc] = @ + 1] ELSE allocated
  /\ Continue
  /\ UNCHANGED <<memory, calls, statics, called>>

\* x = e, and the assignments whose left side has been evaluated before or after e.
Perform ==
  /\ At({"=", "=*", "(="})
  /\ LET left == CASE Here[1] = "=" -> {Variable(Here[2]).at}
                   [] Here[1] = "=*" -> Nth(1).place
                   [] Here[1] = "(=" -> Nth(2).place
         right == IF Here[1] = "=*" THEN Nth(2) ELSE Nth(1)
     IN  /\ \E l \in left : memory' = Stored(l, right.value)
         /\ operands' = Append(Drop(IF Here[1] = "=" THEN 1 ELSE 2), right)
  /\ Continue
  /\ UNCHANGED <<calls, statics, allocated, called>>

-----------------------------------------------------------------------------
(* Declarations, statements and calls *)

\* A variable comes into being without a value.  Its initializer finds its place
\* among the operands.
Declarator(flags, at) == [at |-> at, array |-> flags \in {"[]", "*[]"}]
DeclareVariable ==
  /\ At({"local", "local*", "global"})
  /\ LET x == Here[2]
         known == Here[1] = "global" /\ x \in DOMAIN statics
         var == IF known THEN statics[x]
                ELSE Declarator(Here[4], Location(pc, Len(calls)))
     IN  /\ IF Calling
            THEN /\ calls' = [calls EXCEPT ![Len(calls)].env[Len(Scopes)] = Bind(@, x, var)]
                 /\ UNCHANGED statics
            ELSE statics' = Bind(statics, x, var) /\ UNCHANGED calls
         /\ memory' = IF known THEN memory ELSE Stored(var.at, NoValue)
         /\ operands' = IF Here[5] THEN Append(operands, PlaceOf(var.at)) ELSE operands
  /\ Continue
  /\ UNCHANGED <<allocated, called>>

Initialize ==
  /\ At({"init"})
  /\ \E l \in Nth(2).place : memory' = Stored(l, Nth(1).value)
  /\ operands' = Drop(2)
  /\ Continue
  /\ UNCHANGED <<calls, statics, allocated, called>>

\* The end of a full expression.
Discard ==
  /\ At({";", "clause"})
  /\ operands' = Drop(1) /\ Continue
  /\ UNCHANGED <<memory, calls, statics, allocated, called>>

\* Control: a condition may have either value.
Transfer ==
  /\ \/ At({"branch"}) /\ pc' \in {pc + 1, pc + Here[2]}
     \/ At({"jump"}) /\ pc' = pc + Here[2]
  /\ UNCHANGED <<memory, operands, calls, statics, allocated, called>>

OpenScope ==
  /\ At({"{", "for", "body"}) /\ Continue
  /\ calls' = [calls EXCEPT ![Len(calls)].env = Append(@, NoSymbols)]
  /\ UNCHANGED <<memory, operands, statics, allocated, called>>
CloseScope ==
  /\ At({"}", "endfor"}) /\ Continue
  /\ calls' = [calls EXCEPT ![Len(calls)].env = SubSeq(@, 1, Len(@) - 1)]
  /\ UNCHANGED <<memory, operands, statics, allocated, called>>

\* A call of the function whose definition is the token def, with n arguments.
Invoke(def, n) ==
  /\ Len(calls) < MaxCalls
  /\ calls' = Append(calls,
       [def |-> def, env |-> <<NoSymbols>>, back |-> pc + 1,
        args |-> [i \in 1..n |-> Nth(n + 1 - i).value]])
  /\ pc' = EntryOf(def)
DirectCall ==
  /\ At({"call"})
  /\ Invoke(DefinitionOf(Here[2]), Here[3]) /\ operands' = Drop(Here[3])
  /\ called' = called \cup {<<program[Current.def][2], Here[2]>>}
  /\ UNCHANGED <<memory, statics, allocated>>
IndirectCall ==
  /\ At({"call*"})
  /\ \E f \in Targets(Nth(Here[2] + 1).value) :
       f.pos \in Positions("fun") /\ Invoke(f.pos, Here[2])
  /\ operands' = Drop(Here[2] + 1)
  /\ UNCHANGED <<memory, statics, allocated, called>>

\* A parameter is a variable that holds the argument of its position.
Enter ==
  /\ At({"enter"}) /\ Calling /\ Continue
  /\ UNCHANGED <<memory, operands, calls, statics, allocated, called>>
BindParameter ==
  /\ At({"bind"})
  /\ LET params == program[Current.def][3].params
         x == params[Len(params) + 1 - Len(Current.args)].name
         at == Location(pc, Len(calls))
     IN  /\ memory' = Stored(at, Head(Current.args))
         /\ calls' = [calls EXCEPT
              ![Len(calls)].env[1] = Bind(@, x, Declarator("", at)),
              ![Len(calls)].args = Tail(@)]
  /\ Continue
  /\ UNCHANGED <<operands, statics, allocated, called>>

\* return e, or the end of the body: the variables of the call are gone.
EndCall ==
  /\ At({"return", "leave"}) /\ Calling
  /\ operands' = IF Here[1] = "return" THEN Append(Drop(1), ValueOf(Nth(1).value))
                 ELSE Append(operands, ValueOf(NoValue))
  /\ memory' = {m \in memory : ~(/\ m[1].instance = Len(calls)
                                 /\ program[m[1].pos][1] \in {"local", "local*", "bind"})}
  /\ pc' = Current.back /\ calls' = SubSeq(calls, 1, Len(calls) - 1)
  /\ UNCHANGED <<statics, allocated, called>>

-----------------------------------------------------------------------------
(* The start of the program *)

\* ts-svf --verify --dump-pts with all the files, lib.c before main.c.
Dump(files) ==
  [args |-> <<"--verify", "--dump-pts">>
              \o SelectSeq(<<"lib.c", "main.c">>, LAMBDA path : path \in DOMAIN files),
   disk |-> files]
OnlyMain(text) == [path \in {"main.c"} |-> text]
LibAndMain(lib, main) == [path \in {"lib.c", "main.c"} |-> IF path = "lib.c" THEN lib ELSE main]

MachineInit ==
  /\ LineInit
  /\ pc = 0 /\ memory = {} /\ operands = <<>> /\ calls = <<>> /\ called = {}
  /\ statics = NoSymbols /\ allocated = [p \in {} |-> 0]

\* Every function that is called by name is defined somewhere, and main is.
Linked ==
  {"main"} \cup {program[p][2] : p \in Positions("call")}
    \subseteq {program[p][2] : p \in Positions("fun")}
Begin ==
  /\ pc = 0 /\ exitCode = 0 /\ Linked
  /\ pc' = 1 /\ allocated' = [p \in Positions("malloc") |-> 0]
  /\ UNCHANGED <<memory, operands, calls, statics, called>>

\* The variables at file scope are initialised first, and then main is called.
SkipDefinition ==
  /\ ~Calling
  /\ \/ At({"file", "fun", "scanned", "struct", "typedef", "eof"}) /\ Continue
     \/ At({"enter"}) /\ pc' = NthOf("leave", Rank("enter", pc)) + 1
  /\ UNCHANGED <<memory, operands, calls, statics, allocated, called>>
CallMain ==
  /\ pc = Len(program) + 1 /\ ~Calling
  /\ Invoke(DefinitionOf("main"), 0)
  /\ UNCHANGED <<memory, operands, statics, allocated, called>>

Execute ==
  \/ Begin \/ SkipDefinition \/ CallMain
  \/ Evaluate \/ Perform \/ DeclareVariable \/ Initialize \/ Discard \/ Transfer
  \/ OpenScope \/ CloseScope \/ DirectCall \/ IndirectCall \/ Enter \/ BindParameter \/ EndCall

MachineNext ==
  \/ LineNext /\ UNCHANGED machine
  \/ Execute /\ UNCHANGED <<vars, frontend>>

\* Both programs run on: the visitor, and the program that it has visited.
MachineSpec ==
  MachineInit /\ [][MachineNext]_<<vars, frontend, machine>> /\ WF_<<vars, frontend>>(LineNext)

-----------------------------------------------------------------------------
(* Soundness *)

\* The pairs of objects of which the analysis says that one, or a field of it, may
\* hold the address of the other.
MayHold == {<<f[1][1], f[2][1]>> : f \in solution}
\* The PAG object for what a token declares, none for what the visitor skips.
MadeAt(p) == IF p \in DOMAIN made THEN made[p] ELSE NullId

\* Every address that the program ever stores anywhere is one that the analysis of
\* the emitted SVFIR predicts: what flows in C through assignments, dereferences,
\* fields, elements, arguments and results flows in the PAG too.  (Layer 3 asks the
\* same of the results of clang and wpa.)
SoundPointsTo == \A m \in memory : <<MadeAt(m[1].pos), MadeAt(m[2].pos)>> \in MayHold

\* Every call by name that the program makes is an edge of the call graph, from the function
\* whose body makes it.  (So it is where DefinedAhead holds, whatever the order of the
\* definitions in a file.)
CallsInCallGraph ==
  \A c \in called : \E e \in callGraph : e.caller = c[1] /\ e.callee = c[2]

\* Every function is defined in the file of its caller or in one named before it.
DefinedAhead ==
  \A p \in Positions("call") : \E q \in Positions("fun") : q < p /\ program[q][2] = program[p][2]

\* No field access has fallen back to a Gep of unknown offset.
ConstantOffsets == exitCode = 0 => Stmts(pag, "VarGep") = {}

-----------------------------------------------------------------------------
(* What CallsInCallGraph rests on *)

\* Tokens of a kind are counted without a gap.
Counted(kind) ==
  \A n \in 1..Rank(kind, pos) : \E p \in Positions(kind) : p <= pos /\ Rank(kind, p) = n

\* What has been visited is a sequence of definitions, each entered and then left, and
\* none before the prescan has met it.
BodiesNested ==
  \A p \in 0..pos :
    /\ Rank("enter", p) - Rank("leave", p) \in {0, 1}
    /\ Rank("enter", p) <= Rank("fun", p)

\* The n-th body is visited as that of the n-th function: where the visitor stands in
\* its list of pending functions is where it stands in the program.
BodiesInOrder ==
  /\ Rank("enter", pos) = Rank("leave", pos) + (IF currentFunc = None THEN 0 ELSE 1)
  /\ Len(pending) = Rank("fun", pos) - Rank("enter", pos)
  /\ \A p \in Positions("fun") : p <= pos =>
       /\ program[p][2] \in DOMAIN funcInfos
       /\ Rank("fun", p) > Rank("enter", pos) =>
            pending[Rank("fun", p) - Rank("enter", pos)] = program[p][2]
       /\ Rank("fun", p) = Rank("enter", pos) /\ currentFunc # None => currentFunc = program[p][2]

\* Of every call that has been visited there is an edge from the function in whose body
\* it stands, if the callee is defined ahead of it.
CallsRecorded ==
  \A p \in Positions("call") : p <= pos =>
    /\ Rank("enter", p) = Rank("leave", p) + 1
    /\ (\E q \in Positions("fun") : q < p /\ program[q][2] = program[p][2]) =>
         \A q \in Positions("fun") : q <= pos /\ Rank("fun", q) = Rank("enter", p) =>
           \E e \in callGraph : e.caller = program[q][2] /\ e.callee = program[p][2]

\* No pending function has been visited, and none is pending twice.
PendingFresh ==
  \A i \in DOMAIN pending :
    /\ ~funcInfos[pending[i]].defined
    /\ \A j \in DOMAIN pending : pending[i] = pending[j] => i = j

SourceInv ==
  /\ Counted("enter") /\ Counted("leave")
  /\ BodiesNested /\ BodiesInOrder /\ CallsRecorded

\* Token p is in the body of the function whose definition is the token def; at file
\* level, before or after a body.
Inside(p, def) ==
  p \in Nat \ {0} /\ Rank("enter", p) = Rank("fun", def) /\ Rank("leave", p - 1) = Rank("fun", def) - 1
AtFileLevel(p) == p \in Nat \ {0} /\ Rank("enter", p - 1) = Rank("leave", p - 1)

\* Each active call is in the body of its function, and returns into that of the one
\* below it.
InCall(n, p) == IF n = 0 THEN AtFileLevel(p) ELSE Inside(p, calls[n].def)
ControlInv ==
  /\ pc \in Nat /\ IsSequence(calls)
  /\ pc = 0 => calls = <<>> /\ called = {}
  /\ pc # 0 => exitCode = 0 /\ Linked /\ InCall(Len(calls), pc)
  /\ \A n \in DOMAIN calls :
       /\ calls[n] = [def |-> calls[n].def, env |-> calls[n].env, back |-> calls[n].back,
                      args |-> calls[n].args]
       /\ calls[n].def \in Positions("fun") /\ InCall(n - 1, calls[n].back)
=============================================================================
