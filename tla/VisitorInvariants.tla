-------------------------- MODULE VisitorInvariants --------------------------
(***************************************************************************)
(* What the safety properties of TSIRBuilder rest on: the facts that the   *)
(* visitor maintains between its handlers and that no property states by   *)
(* itself.  Together with TypeOK and LifecycleInv they are inductive.      *)
(***************************************************************************)
EXTENDS LifecycleRefinement

-----------------------------------------------------------------------------
(* The interfaces of functions *)

\* The ids that the handlers have at hand for a statement's operands: what is on
\* the stack, in the symbol table or the target of an initializer.
StackIds == {stack[i].id : i \in DOMAIN stack}
GlobalIds == {globals[x].valId : x \in DOMAIN globals}
ScopeIds == UNION {{scopes[i][x].valId : x \in DOMAIN scopes[i]} : i \in DOMAIN scopes}
TargetIds == IF target = NoTarget THEN {} ELSE {target.val}
Held == StackIds \cup GlobalIds \cup ScopeIds \cup TargetIds

Formals(f) == {funcInfos[f].formals[i].val : i \in DOMAIN funcInfos[f].formals}
Interface(f) == Formals(f) \cup {funcInfos[f].retVal}

\* No two formals or return ValVars are one node.
InterfacesApart ==
  /\ \A f \in DOMAIN funcInfos :
       /\ funcInfos[f].retVal \notin Formals(f)
       /\ \A i, j \in DOMAIN funcInfos[f].formals :
            funcInfos[f].formals[i].val = funcInfos[f].formals[j].val => i = j
  /\ \A f, g \in DOMAIN funcInfos : f # g => Interface(f) \cap Interface(g) = {}

\* No expression can name a formal or a return ValVar: a parameter's symbol is its
\* slot, and the visitor hands no interface node to an operand.
InterfacesUnheld == \A f \in DOMAIN funcInfos : Held \cap Interface(f) = {}

\* A formal has the name it is bound to and hangs on the function's entry, the return
\* ValVar on its exit.
InterfaceNodes ==
  \A f \in DOMAIN funcInfos :
    LET fi == funcInfos[f]
    IN  /\ icfg.node[fi.entry] = [kind |-> "entry", bb |-> f]
        /\ icfg.node[fi.exit] = [kind |-> "exit", bb |-> f]
        /\ pag.node[fi.retVal].at = fi.exit
        /\ \A i \in DOMAIN fi.formals :
             /\ pag.node[fi.formals[i].val].name = fi.formals[i].name
             /\ pag.node[fi.formals[i].val].at = fi.entry

\* The return ValVar that is current, and the formals still to be bound, are those
\* of the function that is visited.
CurrentInterface ==
  /\ currentRetVal # NullId =>
       /\ currentFunc # None
       /\ currentRetVal = funcInfos[currentFunc].retVal
       /\ currentRetIsPtr = funcInfos[currentFunc].retIsPtr
  /\ toBind # <<>> => frames # <<>> /\ Top = "params"
  /\ \A i \in DOMAIN toBind : \E j \in DOMAIN funcInfos[currentFunc].formals :
       toBind[i] = funcInfos[currentFunc].formals[j]

InterfaceInv == InterfacesApart /\ InterfacesUnheld /\ InterfaceNodes /\ CurrentInterface

-----------------------------------------------------------------------------
(* Where the visitor stands in the ICFG and in the source *)

\* Statements are anchored in the function that is visited: in its one body node,
\* or outside functions in a node of none.
AnchorOwned ==
  /\ icfg.node[GlobalNode] = [kind |-> "global", bb |-> None]
  /\ currentFunc = None => currentICFG \in {NullId, GlobalNode}
  /\ currentFunc # None =>
       /\ currentICFG # NullId /\ currentBB = currentFunc
       /\ icfg.node[currentICFG] = [kind |-> "intra", bb |-> currentFunc]

\* Operands are pending only inside an initializer or a body, and no initializer is
\* open around a body.
OperandsEnclosed ==
  /\ ~Visiting => stack = <<>>
  /\ frames # <<>> /\ Top \in Outermost => target = NoTarget

\* The scopes are the file's, which stays empty, and one for each frame that opens
\* one: opened[k] is the frame of scope k.
Opening == {"params", "fun", "block"}
Opens(opened) ==
  /\ \A k, l \in DOMAIN opened : k < l => opened[k] < opened[l]
  /\ \A i \in DOMAIN frames : frames[i].kind \in Opening <=> \E k \in DOMAIN opened : opened[k] = i

\* Every scope but the file's declares what its frame does, and the other frames
\* declare nothing: so it is unless a for statement declares a variable, a parameter is
\* bound to a text that is not its name, or a declarator is skipped.
Unmirrored == Constructs \cap {"for declaration", "qualified parameter", "function pointer"} # {}
Mirrors(opened) ==
  /\ \A k \in DOMAIN opened :
       LET env == frames[opened[k]].env
       IN  /\ DOMAIN scopes[k] = DOMAIN env
           /\ \A x \in DOMAIN env : scopes[k][x].valId = env[x]
  /\ \A i \in DOMAIN frames : frames[i].kind \notin Opening => DOMAIN frames[i].env = {}
ScopesFollowFrames ==
  /\ phase = "idle" <=> scopes = <<>>
  /\ scopes # <<>> => DOMAIN scopes[1] = {}
  /\ \E opened \in [2..Len(scopes) -> DOMAIN frames] :
       Opens(opened) /\ (Unmirrored \/ Mirrors(opened))

PlaceInv == AnchorOwned /\ OperandsEnclosed /\ ScopesFollowFrames

\* What the handlers have at hand was made at file level or by the function that is
\* visited, and what all functions can name at file level.
HeldOwned ==
  /\ \A i \in Held : OwnerOf(i) \in {None, currentFunc}
  /\ \A i \in GlobalIds : OwnerOf(i) = None

\* The anchor is the file's until the file's first function, and an initializer is
\* never visited without one.
AnchorSet ==
  /\ phase # "idle" /\ seen \cap Funs = {} => currentICFG = GlobalNode
  /\ target # NoTarget => currentICFG # NullId

\* Only registered functions have body nodes, and only call nodes that exist bind
\* arguments and results.
IcfgOwned ==
  /\ \A i \in Ids(icfg) : icfg.node[i].kind = "intra" => icfg.node[i].bb \in DOMAIN funcInfos
  /\ \A s \in pag.stmt : s.op \in {"CallPE", "RetPE"} => s.arg \in Ids(icfg)

-----------------------------------------------------------------------------
(* Functions, calls and fields *)

\* A call that is left a stub waits for another file: in the first one, all functions
\* are registered before the first call.
FirstFileFirst ==
  /\ unit = 0 => phase = "idle"
  /\ unit = 0 \/ (unit = 1 /\ phase = "prescan") => stubbed = {}
  /\ unit <= 1 => ForwardReferences

\* The index of a field, as findFieldMetaIdx finds it in the field table of sty.
IsFieldIdx(sty, i) == \E f \in Fields : i \in FieldMetaIdx(sty, f)

\* A constant offset is that of a field which the table still finds there, even where
\* the table has the fields of two files' structs.
OffsetsInTable ==
  \A s \in Stmts(pag, "Gep") :
    s.arg # 0 => NodeStruct(s.src) # None /\ IsFieldIdx(NodeStruct(s.src), s.arg + 1)

\* While the files agree on the definition of a struct, its table is the definition over
\* and over: the last fields are the first ones again, and no name is new behind them.
FieldsRepeat ==
  \A s \in Structs :
    LET row == structFields[s]
    IN  IF s \notin DOMAIN stInfo THEN row = <<>>
        ELSE LET n == stInfo[s]
             IN  /\ n <= Len(row)
                 /\ \A i, j \in 1..n : row[i].name = row[j].name => i = j
                 /\ \A i \in 1..n : row[Len(row) - n + i] = row[i]
                 /\ \A k \in 1..Len(row) : \E i \in 1..n : row[k] = row[i]

-----------------------------------------------------------------------------
(* Pointers *)

\* What a symbol, a declarator or a function's interface stands for is a pointer, and
\* so is every operand of the forms that visitBinary takes for one, but for a cast.
PointerForms == {"identifier", "deref", "field", "subscript", "address"}
Tables == GlobalIds \cup ScopeIds \cup TargetIds
PointersHeld ==
  /\ \A i \in Tables : pag.node[i].ptr
  /\ \A f \in DOMAIN funcInfos : \A i \in Interface(f) : pag.node[i].ptr
  /\ \A k \in DOMAIN stack :
       /\ stack[k].form \in PointerForms => pag.node[stack[k].id].ptr
       /\ stack[k].form = "cast" => Uses("cast")

\* The value of a literal is stored or passed as it is, and used for nothing else.
LiteralsInert ==
  \A s \in pag.stmt :
    pag.node[s.dst].ptr /\ (s.op \in {"Addr", "Store", "CallPE"} \/ pag.node[s.src].ptr)
=============================================================================
