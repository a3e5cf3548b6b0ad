--------------------------- MODULE InterfaceProofs ---------------------------
(***************************************************************************)
(* What the visitor's statements connect, for every program: DefinedOnce   *)
(* and InterfaceFlow.  Every step is first shown to add statements of five *)
(* shapes only (Flows); the properties follow from the shapes.             *)
(***************************************************************************)
EXTENDS VisitorInvariants, LifecycleProofs

-----------------------------------------------------------------------------
(* What a step may add to the PAG *)

New == Fresh(pag, pag')
Added == pag'.stmt \ pag.stmt

\* Between nodes that a handler has at hand or makes; it defines what it makes.
LocalFlow(s) ==
  /\ s.op \notin {"CallPE", "RetPE"}
  /\ {s.src, s.dst} \subseteq Held \cup New
  /\ s.op = "Store" \/ s.dst \in New

\* A formal into a new slot of its name.
BindFlow(s) ==
  /\ s.op = "Store" /\ s.dst \in New
  /\ \E i \in DOMAIN toBind :
       s.src = toBind[i].val /\ pag'.node[s.dst].name = toBind[i].name

\* An operand into the return ValVar of the function that is visited.
ResultFlow(s) == s.op = "Copy" /\ s.src \in Held /\ s.dst = currentRetVal /\ currentRetIsPtr

\* An operand into a formal, and a return ValVar into a new temporary, at a new call node.
AddsCall == \E f \in Funs, n \in 0..MaxStack : VisitCall(f, n)
ArgumentFlow(s) ==
  /\ AddsCall /\ s.op = "CallPE" /\ s.src \in Held /\ s.arg = LastId(icfg) + 1
  /\ \E f \in DOMAIN funcInfos : s.dst \in Formals(f)
CallResultFlow(s) ==
  /\ AddsCall /\ s.op = "RetPE" /\ s.dst \in New /\ s.arg = LastId(icfg) + 1
  /\ \E f \in DOMAIN funcInfos : s.src = funcInfos[f].retVal

\* New statements do not define one ValVar twice.
DefinesOnce == \A s, t \in Added : s.dst = t.dst /\ s.dst \in New /\ "Store" \notin {s.op, t.op} => s = t

\* A constant offset is that of a field which the table finds for the base's struct.
OffsetsFound ==
  \A s \in Added : s.op = "Gep" /\ s.arg # 0 =>
    NodeStruct(s.src) # None /\ IsFieldIdx(NodeStruct(s.src), s.arg + 1)

\* Only the formals that are being bound are tagged after they were made.
TagsStay ==
  \A i \in Ids(pag) : NodeStruct(i)' = NodeStruct(i) \/ \E j \in DOMAIN toBind : i = toBind[j].val

\* The PAG of a step that hangs what it makes on the anchor.
Additions ==
  /\ \A i \in New : pag'.node[i].at = currentICFG
  /\ \A s \in Added : LocalFlow(s)
  /\ DefinesOnce /\ OffsetsFound /\ TagsStay

\* Functions keep their interfaces, whether or not their bodies have been visited.
SameInterfaces ==
  /\ DOMAIN funcInfos' = DOMAIN funcInfos
  /\ \A f \in DOMAIN funcInfos : \E b \in BOOLEAN :
       funcInfos'[f] = [funcInfos[f] EXCEPT !.defined = b]

Flows ==
  /\ \A i \in New : pag'.node[i].at = currentICFG
  /\ \A s \in Added : \/ LocalFlow(s) \/ BindFlow(s) \/ ResultFlow(s)
                      \/ ArgumentFlow(s) \/ CallResultFlow(s)
  /\ DefinesOnce /\ OffsetsFound /\ TagsStay
  /\ Held' \subseteq Held \cup New
  /\ SameInterfaces

LEMMA HeldCases ==
  ASSUME NEW i
  PROVE  i \in Held <=> \/ \E k \in DOMAIN stack : i = stack[k].id
                        \/ \E x \in DOMAIN globals : i = globals[x].valId
                        \/ \E k \in DOMAIN scopes : \E x \in DOMAIN scopes[k] : i = scopes[k][x].valId
                        \/ target # NoTarget /\ i = target.val
BY DEF Held, StackIds, GlobalIds, ScopeIds, TargetIds

LEMMA HeldCasesPrime ==
  ASSUME NEW i
  PROVE  i \in Held' <=> \/ \E k \in DOMAIN stack' : i = stack'[k].id
                         \/ \E x \in DOMAIN globals' : i = globals'[x].valId
                         \/ \E k \in DOMAIN scopes' : \E x \in DOMAIN scopes'[k] : i = scopes'[k][x].valId
                         \/ target' # NoTarget /\ i = target'.val
BY DEF Held, StackIds, GlobalIds, ScopeIds, TargetIds

\* What the symbol table finds is held.
LEMMA LookupHeld ==
  ASSUME TypeOK, NEW x, NEW sym \in Lookup(x)
  PROVE  sym.valId \in Held
<1>1. \A k : k \in 1..Len(scopes) <=> k \in DOMAIN scopes
  BY SequenceFacts DEF TypeOK, SymtabOK
<1>2. \/ \E k \in DOMAIN scopes : x \in DOMAIN scopes[k] /\ sym = scopes[k][x]
      \/ \E y \in DOMAIN globals : sym = globals[y]
  BY <1>1 DEF Lookup
<1>3. QED
  BY <1>2, HeldCases

\* So is every operand.
LEMMA OperandHeld ==
  ASSUME TypeOK, NEW n \in 1..Len(stack)
  PROVE  stack[Arg(n)].id \in Held
<1>1. Len(stack) \in Nat /\ DOMAIN stack = 1..Len(stack)
  BY LenProperties DEF TypeOK, StackOK
<1>2. Arg(n) \in DOMAIN stack
  BY <1>1 DEF Arg
<1>3. QED
  BY <1>2, HeldCases

\* What is held are ValVars.
LEMMA HeldTyped ==
  ASSUME TypeOK
  PROVE  Held \subseteq Vals(pag)
<1> SUFFICES ASSUME NEW i \in Held
             PROVE  i \in Vals(pag)
  OBVIOUS
<1>1. ASSUME NEW k \in DOMAIN stack
      PROVE  stack[k].id \in Vals(pag)
  <2>1. stack \in Seq(OperandType) /\ k \in 1..Len(stack)
    BY LenProperties DEF TypeOK, StackOK
  <2>2. stack[k] \in OperandType
    BY <2>1, ElementOfSeq
  <2>3. QED
    BY <2>2 DEF OperandType
<1>2. \A x \in DOMAIN globals : globals[x].valId \in Vals(pag)
  BY DEF TypeOK, SymtabOK, IsTable, SymbolType
<1>3. \A k \in DOMAIN scopes : \A x \in DOMAIN scopes[k] : scopes[k][x].valId \in Vals(pag)
  BY DEF TypeOK, SymtabOK, IsTable, SymbolType
<1>4. target # NoTarget => target.val \in Vals(pag)
  BY DEF TypeOK, TargetOK, TargetType
<1>5. QED
  BY <1>1, <1>2, <1>3, <1>4, HeldCases

\* The formals and the return ValVar of a function are ValVars.
LEMMA InterfaceTyped ==
  ASSUME TypeOK, NEW f \in DOMAIN funcInfos
  PROVE  /\ Interface(f) \subseteq Vals(pag) /\ funcInfos[f].retVal \in Vals(pag)
         /\ \A i \in DOMAIN funcInfos[f].formals : funcInfos[f].formals[i] \in FormalType
<1>1. funcInfos[f].formals \in Seq(FormalType) /\ funcInfos[f].retVal \in Vals(pag)
  BY FuncInfoTyped DEF FuncInfoType
<1>2. \A i \in DOMAIN funcInfos[f].formals : funcInfos[f].formals[i] \in FormalType
  BY <1>1, LenProperties, ElementOfSeq
<1>3. QED
  BY <1>1, <1>2 DEF Interface, Formals, FormalType

-----------------------------------------------------------------------------
(* Expressions *)

LEMMA PushHolds ==
  ASSUME TypeOK, NEW n \in 0..Len(stack), NEW e, Push(n, e)
  PROVE  \A i \in DOMAIN stack' : stack'[i] = e \/ \E j \in DOMAIN stack : stack'[i] = stack[j]
<1> DEFINE rest == Below(n)
           R == {stack[j] : j \in DOMAIN stack}
<1>1. Len(stack) \in Nat /\ DOMAIN stack = 1..Len(stack)
  BY LenProperties DEF TypeOK, StackOK
<1>2. \A j \in 1..(Len(stack) - n) : stack[j] \in R
  BY <1>1
<1>3. rest \in Seq(R)
  BY <1>1, <1>2, SubSeqProperties DEF Below
<1> HIDE DEF R, rest
<1>4. rest \in Seq(R \cup {e}) /\ e \in R \cup {e}
  BY <1>3, SeqMonotonic
<1>5. stack' \in Seq(R \cup {e})
  BY <1>4, AppendProperties DEF Push, rest
<1>6. \A i \in DOMAIN stack' : stack'[i] \in R \cup {e}
  BY <1>5, LenProperties, ElementOfSeq
<1>7. QED
  BY <1>6 DEF R

\* Functions whose record does not change.
LEMMA InterfacesUnchanged ==
  ASSUME TypeOK, UNCHANGED funcInfos
  PROVE  SameInterfaces
<1>1. \A f \in DOMAIN funcInfos : funcInfos[f] = [funcInfos[f] EXCEPT !.defined = funcInfos[f].defined]
  BY FuncInfoTyped DEF FuncInfoType
<1>2. \A f \in DOMAIN funcInfos : funcInfos[f].defined \in BOOLEAN
  BY FuncInfoTyped DEF FuncInfoType
<1>3. QED
  BY <1>1, <1>2 DEF SameInterfaces

\* The operand that a handler leaves is all that it adds to what is held.
LEMMA PushKeepsHeld ==
  ASSUME TypeOK, UNCHANGED <<globals, scopes, target>>, NEW n \in 0..Len(stack), NEW e, Push(n, e),
         e.id \in Held \cup New
  PROVE  Held' \subseteq Held \cup New
<1>1. \A i \in DOMAIN stack' : stack'[i].id = e.id \/ \E j \in DOMAIN stack : stack'[i].id = stack[j].id
  BY PushHolds
<1> SUFFICES ASSUME NEW i \in Held'
             PROVE  i \in Held \cup New
  OBVIOUS
<1>2. CASE \E k \in DOMAIN stack' : i = stack'[k].id
  BY <1>1, <1>2, HeldCases
<1>3. CASE ~ \E k \in DOMAIN stack' : i = stack'[k].id
  BY <1>3, HeldCases, HeldCasesPrime
<1>4. QED
  BY <1>2, <1>3

\* What an expression handler has to show.
LEMMA ExprFlow ==
  ASSUME TypeOK, UNCHANGED control, NEW n \in 0..Len(stack), NEW e, Push(n, e),
         e.id \in Held \cup New, Additions
  PROVE  Flows
<1>1. UNCHANGED <<globals, scopes, target, funcInfos>>
  BY DEF control, symtab
<1>2. QED
  BY <1>1, PushKeepsHeld, InterfacesUnchanged DEF Flows, Additions

\* Tags: a new node gets one, or none does.
LEMMA TagOfOld ==
  ASSUME NEW i, NEW id, i # id, NEW tags, NEW sty
  PROVE  LET t == TagStruct(tags, id, sty)
         IN  (i \in DOMAIN t <=> i \in DOMAIN tags) /\ (i \in DOMAIN tags => t[i] = tags[i])
BY DEF TagStruct, Bind

LEMMA TagsStayFresh ==
  ASSUME NEW sty, NEW id, id \notin Ids(pag), nodeStructTy' = TagStruct(nodeStructTy, id, sty)
  PROVE  TagsStay
<1>1. \A i \in Ids(pag) : NodeStruct(i)' = NodeStruct(i)
  BY TagOfOld DEF NodeStruct
<1>2. QED
  BY <1>1 DEF TagsStay

LEMMA TagsStayUnchanged ==
  ASSUME UNCHANGED nodeStructTy
  PROVE  TagsStay
BY DEF TagsStay, NodeStruct

\* What a temporary is made from has an id of its own.
LEMMA NextIsNew ==
  ASSUME TypeOK
  PROVE  LastId(pag) \in Nat /\ LastId(pag) + 1 \notin Ids(pag) /\ LastId(pag) + 2 \notin Ids(pag)
BY LenProperties DEF TypeOK, GraphsOK, IsPag, LastId, Ids

\* The offset of a Gep is that of a field of the base's struct, where it has one.
FieldOffset(op, src, arg) ==
  op = "Gep" /\ arg # 0 => NodeStruct(src) # None /\ IsFieldIdx(NodeStruct(src), arg + 1)

LEMMA YieldFlow ==
  ASSUME TypeOK, UNCHANGED control, NEW n \in 0..Len(stack), NEW form, NEW name, NEW as,
         NEW op \in StmtOps \ {"Addr", "CallPE", "RetPE"}, NEW src \in Held, NEW arg,
         NEW sty, FieldOffset(op, src, arg),
         Yield(n, form, name, as, op, src, arg, sty)
  PROVE  Flows
<1> DEFINE t == LastId(pag) + 1
           s == Stmt(op, src, t, arg)
           e == Operand(form, name, t, as)
<1>1. /\ pag' = Emit(pag, op, src, arg, currentICFG)
      /\ nodeStructTy' = TagStruct(nodeStructTy, t, sty)
      /\ Push(n, e)
  BY DEF Yield
<1>2. pag'.stmt = pag.stmt \cup {s} /\ New = {t} /\ pag'.node[t] = ValNode(currentICFG, None)
  BY <1>1, AnchorTyped, EmitAdds DEF TypeOK, GraphsOK, New
<1>3. TagsStay
  BY <1>1, NextIsNew, TagsStayFresh
<1>4. s.op = op /\ s.src = src /\ s.dst = t /\ s.arg = arg
  BY DEF Stmt
<1>5. e.id = t
  BY DEF Operand
<1>6. ValNode(currentICFG, None).at = currentICFG
  BY DEF ValNode, Node
<1> HIDE DEF s, t, e
<1>7. Added \subseteq {s}
  BY <1>2 DEF Added
<1>8. LocalFlow(s) /\ DefinesOnce
  BY <1>2, <1>4, <1>7 DEF LocalFlow, DefinesOnce
<1>9. OffsetsFound
  BY <1>4, <1>7 DEF OffsetsFound, FieldOffset
<1>10. Additions
  BY <1>2, <1>3, <1>6, <1>7, <1>8, <1>9 DEF Additions
<1>11. QED
  BY <1>1, <1>2, <1>5, <1>10, ExprFlow

\* A node more, and no statement.
LEMMA NodeFlow ==
  ASSUME TypeOK, UNCHANGED <<control, nodeStructTy>>, NEW n \in 0..Len(stack), NEW e,
         NEW v \in PagNode(icfg, Names), v.at = currentICFG,
         pag' = AddNode(pag, v), Push(n, e), e.id = LastId(pag) + 1
  PROVE  Flows
<1>1. pag'.stmt = pag.stmt /\ New = {LastId(pag) + 1} /\ pag'.node[LastId(pag) + 1] = v
  BY AddNodeAdds DEF TypeOK, GraphsOK, New
<1>2. Added = {} /\ TagsStay
  BY <1>1, TagsStayUnchanged DEF Added
<1>3. Additions
  BY <1>1, <1>2 DEF Additions, DefinesOnce, OffsetsFound
<1>4. QED
  BY <1>1, <1>3, ExprFlow

LEMMA YieldFreshFlow ==
  ASSUME TypeOK, UNCHANGED control, NEW n \in 0..Len(stack), NEW form, NEW name, NEW as,
         YieldFresh(n, form, name, as)
  PROVE  Flows
<1> DEFINE v == ValNode(currentICFG, None)
           e == Operand(form, name, LastId(pag) + 1, as)
<1>1. pag' = AddNode(pag, v) /\ Push(n, e) /\ UNCHANGED nodeStructTy
  BY DEF YieldFresh, AddVal
<1>2. v \in PagNode(icfg, Names) /\ v.at = currentICFG /\ e.id = LastId(pag) + 1
  BY AnchorTyped DEF PagNode, ValNode, Node, Operand
<1> HIDE DEF v, e
<1>3. QED
  BY <1>1, <1>2, NodeFlow

LEMMA ReturnsFlow ==
  ASSUME TypeOK, UNCHANGED control, NEW n \in 0..Len(stack), NEW form, NEW name, NEW id \in Held,
         NEW as, Return(n, form, name, id, as)
  PROVE  Flows
<1> DEFINE e == Operand(form, name, id, as)
<1>1. Push(n, e) /\ UNCHANGED <<pag, nodeStructTy>> /\ e.id = id
  BY DEF Return, Operand
<1> HIDE DEF e
<1>2. New = {} /\ Added = {}
  BY <1>1 DEF New, Fresh, Added
<1>3. Additions
  BY <1>1, <1>2, TagsStayUnchanged DEF Additions, DefinesOnce, OffsetsFound
<1>4. QED
  BY <1>1, <1>3, ExprFlow

\* A handler that makes an object and returns its address.
LEMMA ObjectFlow ==
  ASSUME TypeOK, UNCHANGED <<control, nodeStructTy>>, NEW kind \in ObjKinds, NEW e,
         pag' = AddObject(pag, kind, currentICFG, None, 1),
         Push(0, e), e.id = LastId(pag) + 2
  PROVE  Flows
<1> DEFINE o == LastId(pag) + 1
           s == Stmt("Addr", o, o + 1, 0)
<1>1. /\ pag'.stmt = pag.stmt \cup {s} /\ New = {o, o + 1}
      /\ pag'.node[o].at = currentICFG /\ pag'.node[o + 1] = ValNode(currentICFG, None)
  <2>1. IsPag(pag, icfg, Names) /\ None \in Names /\ currentICFG \in {NullId} \cup Ids(icfg) /\ 1 \in Nat
    BY AnchorTyped DEF TypeOK, GraphsOK
  <2>2. QED
    BY <2>1, AddObjectAdds DEF New
<1>2. s.op = "Addr" /\ s.src = o /\ s.dst = o + 1
  BY DEF Stmt
<1>3. e.id = o + 1
  BY NextIsNew
<1>4. ValNode(currentICFG, None).at = currentICFG
  BY DEF ValNode, Node
<1> HIDE DEF o, s
<1>5. Added \subseteq {s} /\ TagsStay
  BY <1>1, TagsStayUnchanged DEF Added
<1>6. LocalFlow(s) /\ DefinesOnce /\ OffsetsFound
  BY <1>1, <1>2, <1>5 DEF LocalFlow, DefinesOnce, OffsetsFound
<1>7. Additions
  BY <1>1, <1>4, <1>5, <1>6 DEF Additions
<1>8. 0 \in 0..Len(stack)
  BY StackNotEmpty
<1>9. QED
  BY <1>1, <1>3, <1>7, <1>8, ExprFlow

\* A place that is loaded: two temporaries, and the statement of each.
LEMMA LoadedAdds ==
  ASSUME TypeOK, NEW n, NEW form, NEW op \in StmtOps \ {"Addr", "CallPE", "RetPE"},
         NEW base \in Vals(pag), NEW arg \in Nat, NEW placeSty, NEW valueSty,
         YieldLoaded(n, form, op, base, arg, placeSty, valueSty)
  PROVE  LET p == LastId(pag) + 1
         IN  /\ pag'.stmt = pag.stmt \cup {Stmt(op, base, p, arg), Stmt("Load", p, p + 1, 0)}
             /\ New = {p, p + 1} /\ pag'.node[p] = ValNode(currentICFG, None)
             /\ pag'.node[p + 1] = ValNode(currentICFG, None)
<1> DEFINE p == LastId(pag) + 1
           gep == Emit(pag, op, base, arg, currentICFG)
           s == Stmt(op, base, p, arg)
           l == Stmt("Load", p, p + 1, 0)
<1>1. pag' = Emit(gep, "Load", p, 0, currentICFG)
  BY DEF YieldLoaded
<1>2. IsPag(pag, icfg, Names) /\ None \in Names /\ currentICFG \in {NullId} \cup Ids(icfg)
  BY AnchorTyped DEF TypeOK, GraphsOK
<1>3. /\ IsPag(gep, icfg, Names) /\ LastId(gep) = p /\ Grows(pag, gep)
      /\ gep.stmt = pag.stmt \cup {s} /\ Fresh(pag, gep) = {p}
      /\ gep.node[p] = ValNode(currentICFG, None)
  BY <1>2, EmitFacts, EmitAdds
<1> HIDE DEF gep
<1>4. /\ pag'.stmt = gep.stmt \cup {l} /\ Fresh(gep, pag') = {p + 1}
      /\ pag'.node[p + 1] = ValNode(currentICFG, None)
  BY <1>1, <1>2, <1>3, EmitAdds
<1>5. Grows(gep, pag')
  <2>1. p \in Vals(gep) /\ "Load" \in StmtOps \ {"Addr"} /\ 0 \in Nat
    BY <1>3, NextIsNew DEF Vals, Ids, LastId, ValNode, Node, StmtOps
  <2>2. QED
    BY <1>1, <1>2, <1>3, <2>1, EmitFacts
<1>6. Ids(gep) \subseteq Ids(pag') /\ Ids(pag) \subseteq Ids(gep)
  BY <1>3, <1>5, GrowsKinds
<1>7. p \in Ids(gep) /\ p \in Nat /\ p \notin Ids(pag) /\ p + 1 \notin Ids(pag)
  BY <1>3, NextIsNew DEF Fresh
<1>8. New = {p, p + 1} /\ pag'.node[p] = ValNode(currentICFG, None)
  BY <1>3, <1>4, <1>5, <1>6, <1>7 DEF New, Fresh, Grows
<1>9. QED
  BY <1>3, <1>4, <1>8

\* A field or an element, addressed or loaded.
LEMMA PlaceFlow ==
  ASSUME TypeOK, UNCHANGED control, NEW n \in 0..Len(stack), NEW form,
         NEW op \in StmtOps \ {"Addr", "CallPE", "RetPE"}, NEW base \in Held, NEW arg \in Nat,
         NEW placeSty, NEW valueSty, FieldOffset(op, base, arg),
         YieldPlace(n, form, op, base, arg, placeSty, valueSty)
  PROVE  Flows
<1> DEFINE p == LastId(pag) + 1
           s == Stmt(op, base, p, arg)
           l == Stmt("Load", p, p + 1, 0)
           e == Operand(form, None, p + 1, Rvalue)
<1>1. CASE Yield(n, form, None, Lvalue, op, base, arg, placeSty)
  BY <1>1, YieldFlow
<1>2. CASE YieldLoaded(n, form, op, base, arg, placeSty, valueSty)
  <2>1. /\ nodeStructTy' = TagStruct(TagStruct(nodeStructTy, p, placeSty), p + 1, valueSty)
        /\ Push(n, e) /\ e.id = p + 1
    BY <1>2 DEF YieldLoaded, Operand
  <2> HIDE DEF e
  <2>2. p \in Nat /\ p \notin Ids(pag) /\ p + 1 \notin Ids(pag)
    BY NextIsNew
  <2>3. /\ pag'.stmt = pag.stmt \cup {s, l} /\ New = {p, p + 1}
        /\ pag'.node[p] = ValNode(currentICFG, None) /\ pag'.node[p + 1] = ValNode(currentICFG, None)
    <3>1. base \in Vals(pag)
      BY HeldTyped
    <3>2. QED
      BY <1>2, <3>1, LoadedAdds
  <2>4. TagsStay
    <3>1. \A i \in Ids(pag) : i # p /\ i # p + 1
      BY <2>2
    <3>2. \A i \in Ids(pag) : NodeStruct(i)' = NodeStruct(i)
      <4> SUFFICES ASSUME NEW i \in Ids(pag)
                   PROVE  NodeStruct(i)' = NodeStruct(i)
        OBVIOUS
      <4> DEFINE once == TagStruct(nodeStructTy, p, placeSty)
      <4>1. (i \in DOMAIN once <=> i \in DOMAIN nodeStructTy)
            /\ (i \in DOMAIN nodeStructTy => once[i] = nodeStructTy[i])
        BY <3>1, TagOfOld
      <4>2. nodeStructTy' = TagStruct(once, p + 1, valueSty)
        BY <2>1
      <4> HIDE DEF once
      <4>3. (i \in DOMAIN nodeStructTy' <=> i \in DOMAIN once)
            /\ (i \in DOMAIN once => nodeStructTy'[i] = once[i])
        BY <3>1, <4>2, TagOfOld
      <4>4. QED
        BY <4>1, <4>3 DEF NodeStruct
    <3>3. QED
      BY <3>2 DEF TagsStay
  <2>5. /\ s.op = op /\ s.src = base /\ s.dst = p /\ s.arg = arg
        /\ l.op = "Load" /\ l.src = p /\ l.dst = p + 1
        /\ ValNode(currentICFG, None).at = currentICFG
    BY DEF Stmt, ValNode, Node
  <2> HIDE DEF s, l
  <2>6. Added \subseteq {s, l} /\ p # p + 1
    BY <2>2, <2>3 DEF Added
  <2> HIDE DEF p
  <2>7. LocalFlow(s) /\ LocalFlow(l)
    BY <2>3, <2>5 DEF LocalFlow
  <2>8. DefinesOnce
    BY <2>5, <2>6 DEF DefinesOnce
  <2>9. OffsetsFound
    BY <2>5, <2>6 DEF OffsetsFound, FieldOffset
  <2>10. Additions
    BY <2>3, <2>4, <2>5, <2>6, <2>7, <2>8, <2>9 DEF Additions
  <2>11. Push(n, e) /\ e.id \in Held \cup New
    BY <2>1, <2>3
  <2>12. QED
    BY <2>10, <2>11, ExprFlow
<1>3. QED
  BY <1>1, <1>2 DEF YieldPlace

\* Stores of one operand through others.
LEMMA AssignedFlow ==
  ASSUME TypeOK, NEW n \in Nat, n + 1 \in 1..Len(stack), NEW dsts \in SUBSET Held, Assigned(n, dsts)
  PROVE  Flows
<1> DEFINE rhs == stack[Arg(n + 1)]
           S == {Stmt("Store", rhs.id, d, currentICFG) : d \in dsts}
           e == Operand("assign", None, rhs.id, Either)
<1>1. /\ pag' = AddStmts(pag, S) /\ Push(n + 1, e) /\ e.id = rhs.id
      /\ UNCHANGED <<nodeStructTy, control>>
  BY DEF Assigned, Operand
<1>2. n + 1 \in 0..Len(stack) /\ rhs.id \in Held
  BY OperandTyped, OperandHeld
<1> HIDE DEF rhs, e
<1>3. \A s \in S : s.op = "Store" /\ s.src = rhs.id /\ s.dst \in Held
  BY DEF Stmt
<1> HIDE DEF S
<1>4. Added \subseteq S /\ New = {}
  BY <1>1, AddStmtsAdds DEF TypeOK, GraphsOK, New, Added
<1>5. \A s \in Added : LocalFlow(s)
  BY <1>2, <1>3, <1>4 DEF LocalFlow
<1>6. Additions
  BY <1>1, <1>3, <1>4, <1>5, TagsStayUnchanged DEF Additions, DefinesOnce, OffsetsFound
<1>7. QED
  BY <1>1, <1>2, <1>6, ExprFlow

LEMMA IdentifierFlow ==
  ASSUME TypeOK, NEW x \in Vars \cup Funs, VisitIdentifier(x)
  PROVE  Flows
<1>1. UNCHANGED control /\ 0 \in 0..Len(stack)
  BY StackNotEmpty DEF VisitIdentifier
<1>2. CASE YieldFresh(0, "identifier", x, Either)
  BY <1>1, <1>2, YieldFreshFlow
<1>3. ASSUME NEW sym \in Lookup(x), NEW as, Return(0, "identifier", x, sym.valId, as)
      PROVE  Flows
  BY <1>1, <1>3, LookupHeld, ReturnsFlow
<1>4. ASSUME NEW sym \in Lookup(x),
             Yield(0, "identifier", x, Rvalue, "Load", sym.valId, 0, NodeStruct(sym.valId))
      PROVE  Flows
  <2>1. "Load" \in StmtOps \ {"Addr", "CallPE", "RetPE"} /\ FieldOffset("Load", sym.valId, 0)
    BY DEF StmtOps, FieldOffset
  <2>2. QED
    BY <1>1, <1>4, <2>1, LookupHeld, YieldFlow
<1>5. QED
  BY <1>2, <1>3, <1>4 DEF VisitIdentifier

LEMMA LeafFlow ==
  ASSUME TypeOK, VisitNumber \/ VisitString \/ VisitNull \/ VisitAllocation
  PROVE  Flows
<1>1. UNCHANGED control /\ 0 \in 0..Len(stack)
  BY StackNotEmpty DEF VisitNumber, VisitString, VisitNull, VisitAllocation
<1>2. CASE VisitNumber
  <2> DEFINE v == Node("val", FALSE, currentICFG, None, 0)
             e == Operand("literal", None, LastId(pag) + 1, Either)
  <2>1. pag' = AddNode(pag, v) /\ Push(0, e) /\ UNCHANGED nodeStructTy
    BY <1>2 DEF VisitNumber
  <2>2. v \in PagNode(icfg, Names) /\ v.at = currentICFG /\ e.id = LastId(pag) + 1
    BY AnchorTyped DEF PagNode, Node, Operand
  <2> HIDE DEF v, e
  <2>3. QED
    BY <1>1, <2>1, <2>2, NodeFlow
<1>3. CASE VisitString
  <2> DEFINE e == Operand("string", None, LastId(pag) + 2, Either)
  <2>1. pag' = AddObject(pag, "const", currentICFG, None, 1) /\ Push(0, e) /\ UNCHANGED nodeStructTy
    BY <1>3 DEF VisitString
  <2>2. e.id = LastId(pag) + 2 /\ "const" \in ObjKinds
    BY DEF Operand, ObjKinds
  <2> HIDE DEF e
  <2>3. QED
    BY <1>1, <2>1, <2>2, ObjectFlow
<1>4. CASE VisitAllocation
  <2> DEFINE e == Operand("call", None, LastId(pag) + 2, Either)
  <2>1. pag' = AddObject(pag, "heap", currentICFG, None, 1) /\ Push(0, e) /\ UNCHANGED nodeStructTy
    BY <1>4 DEF VisitAllocation
  <2>2. e.id = LastId(pag) + 2 /\ "heap" \in ObjKinds
    BY DEF Operand, ObjKinds
  <2> HIDE DEF e
  <2>3. QED
    BY <1>1, <2>1, <2>2, ObjectFlow
<1>5. CASE VisitNull
  BY <1>1, <1>5, YieldFreshFlow DEF VisitNull
<1>6. QED
  BY <1>2, <1>3, <1>4, <1>5

\* The handlers of one operand.
LEMMA UnaryFlow ==
  ASSUME TypeOK, \/ VisitParenthesized \/ VisitAddressOf \/ VisitDeref \/ VisitLastChild
                 \/ \E spec \in Specifiers : VisitCast(spec)
  PROVE  Flows
<1> DEFINE e == stack[Arg(1)]
<1>1. UNCHANGED control /\ stack # <<>>
  BY DEF VisitParenthesized, VisitAddressOf, VisitDeref, VisitLastChild, VisitCast
<1>2. 1 \in 1..Len(stack)
  BY <1>1, StackNotEmpty
<1>3. 1 \in 0..Len(stack) /\ e.id \in Held
  BY <1>2, OperandTyped, OperandHeld
<1>4. ASSUME NEW form, NEW name, NEW as, Return(1, form, name, e.id, as)
      PROVE  Flows
  BY <1>1, <1>3, <1>4, ReturnsFlow
<1>5. ASSUME NEW form, NEW name, NEW as, NEW op \in {"Load", "Copy"}, NEW sty,
             Yield(1, form, name, as, op, e.id, 0, sty)
      PROVE  Flows
  <2>1. op \in StmtOps \ {"Addr", "CallPE", "RetPE"} /\ FieldOffset(op, e.id, 0)
    BY DEF StmtOps, FieldOffset
  <2>2. QED
    BY <1>1, <1>3, <1>5, <2>1, YieldFlow
<1>6. CASE VisitParenthesized \/ VisitAddressOf \/ VisitLastChild
  BY <1>4, <1>6 DEF VisitParenthesized, VisitAddressOf, VisitLastChild
<1>7. CASE VisitDeref
  BY <1>4, <1>5, <1>7 DEF VisitDeref
<1>8. CASE \E spec \in Specifiers : VisitCast(spec)
  BY <1>4, <1>5, <1>8 DEF VisitCast
<1>9. QED
  BY <1>6, <1>7, <1>8

LEMMA BinaryFlow ==
  ASSUME TypeOK, NEW additive, VisitBinary(additive)
  PROVE  Flows
<1> DEFINE l == stack[Arg(2)]
           r == stack[Arg(1)]
           base == IF IsCPointerExpr(l) THEN l.id ELSE r.id
<1>1. UNCHANGED control /\ 1 \in 1..Len(stack) /\ 2 \in 1..Len(stack)
  BY StackNotEmpty DEF VisitBinary
<1>2. 2 \in 0..Len(stack) /\ base \in Held
  BY <1>1, OperandTyped, OperandHeld
<1>3. \/ Yield(2, "binary", None, Either, "Gep", base, 0, NodeStruct(base))
      \/ YieldFresh(2, "binary", None, Either)
  BY DEF VisitBinary
<1> HIDE DEF base
<1>4. "Gep" \in StmtOps \ {"Addr", "CallPE", "RetPE"} /\ FieldOffset("Gep", base, 0)
  BY DEF StmtOps, FieldOffset
<1>5. QED
  BY <1>1, <1>2, <1>3, <1>4, YieldFlow, YieldFreshFlow

LEMMA AssignFlow ==
  ASSUME TypeOK, \/ \E x \in Vars : VisitAssignIdentifier(x)
                 \/ VisitAssignThrough
                 \/ VisitAssignParenthesized
  PROVE  Flows
<1>1. ASSUME NEW x \in Vars, VisitAssignIdentifier(x)
      PROVE  Flows
  <2>1. 0 + 1 \in 1..Len(stack)
    <3>1. Len(stack) >= 1
      BY <1>1 DEF VisitAssignIdentifier
    <3>2. QED
      BY <3>1, StackNotEmpty
  <2>2. {sym.valId : sym \in Lookup(x)} \in SUBSET Held
    BY LookupHeld
  <2>3. QED
    BY <1>1, <2>1, <2>2, AssignedFlow DEF VisitAssignIdentifier
<1>2. CASE VisitAssignThrough
  <2>1. 1 + 1 \in 1..Len(stack) /\ 1 \in 1..Len(stack)
    BY <1>2, StackNotEmpty DEF VisitAssignThrough
  <2>2. {stack[Arg(1)].id} \in SUBSET Held
    BY <2>1, OperandHeld
  <2>3. QED
    BY <1>2, <2>1, <2>2, AssignedFlow DEF VisitAssignThrough
<1>3. CASE VisitAssignParenthesized
  <2>1. 0 + 1 \in 1..Len(stack) /\ {} \in SUBSET Held
    BY <1>3, StackNotEmpty DEF VisitAssignParenthesized
  <2>2. QED
    BY <1>3, <2>1, AssignedFlow DEF VisitAssignParenthesized
<1>4. QED
  BY <1>1, <1>2, <1>3

LEMMA FieldFlow ==
  ASSUME TypeOK, NEW f \in Fields, NEW arrow, VisitField(f, arrow)
  PROVE  Flows
<1> DEFINE e == stack[Arg(1)]
           sty == NodeStruct(e.id)
           known == IF sty = None THEN {} ELSE FieldMetaIdx(sty, f)
<1>1. UNCHANGED control /\ 1 \in 1..Len(stack)
  BY StackNotEmpty DEF VisitField
<1>2. 1 \in 0..Len(stack) /\ e.id \in Held
  BY <1>1, OperandTyped, OperandHeld
<1>3. \/ \E i \in known, p, v \in Structs \cup {None} :
           YieldPlace(1, "field", "Gep", e.id, FlatFldIdx(i), p, v)
      \/ YieldPlace(1, "field", "VarGep", e.id, 0, None, None)
  <2>1. \/ \E i \in known :
             LET meta == structFields[sty][i]
             IN  YieldPlace(1, "field", "Gep", e.id, FlatFldIdx(i),
                            IF meta.isPointer THEN None ELSE meta.pointee,
                            IF meta.isPointer THEN meta.pointee ELSE None)
        \/ YieldPlace(1, "field", "VarGep", e.id, 0, None, None)
    BY DEF VisitField
  <2>2. ASSUME NEW i \in known
        PROVE  structFields[sty][i].pointee \in Structs \cup {None}
    <3>1. sty \in Structs /\ i \in 1..Len(structFields[sty])
      BY <2>2, NodeStructTyped DEF FieldMetaIdx
    <3>2. structFields[sty][i] \in FieldMetaType
      BY <3>1, ElementOfSeq DEF TypeOK, TypesOK
    <3>3. QED
      BY <3>2 DEF FieldMetaType
  <2> HIDE DEF known, sty, e
  <2>3. QED
    BY <2>1, <2>2
<1>4. ASSUME NEW i \in known
      PROVE  FlatFldIdx(i) \in Nat /\ FieldOffset("Gep", e.id, FlatFldIdx(i))
  <2>1. sty \in Structs /\ i \in 1..Len(structFields[sty]) /\ sty # None
    BY <1>4, NodeStructTyped DEF FieldMetaIdx
  <2>2. Len(structFields[sty]) \in Nat
    BY <2>1, LenProperties DEF TypeOK, TypesOK
  <2>3. FlatFldIdx(i) + 1 = i
    BY <2>1, <2>2 DEF FlatFldIdx
  <2>4. IsFieldIdx(sty, FlatFldIdx(i) + 1)
    BY <1>4, <2>1, <2>3 DEF IsFieldIdx
  <2>5. QED
    BY <2>1, <2>2, <2>4 DEF FlatFldIdx, FieldOffset
<1>5. /\ "Gep" \in StmtOps \ {"Addr", "CallPE", "RetPE"}
      /\ "VarGep" \in StmtOps \ {"Addr", "CallPE", "RetPE"} /\ FieldOffset("VarGep", e.id, 0)
  BY DEF StmtOps, FieldOffset
<1> HIDE DEF e, known
<1>6. QED
  BY <1>1, <1>2, <1>3, <1>4, <1>5, PlaceFlow

LEMMA SubscriptFlow ==
  ASSUME TypeOK, VisitSubscript
  PROVE  Flows
<1> DEFINE a == stack[Arg(2)]
<1>1. UNCHANGED control /\ 2 \in 1..Len(stack)
  BY StackNotEmpty DEF VisitSubscript
<1>2. 2 \in 0..Len(stack) /\ a.id \in Held
  BY <1>1, OperandTyped, OperandHeld
<1>3. YieldPlace(2, "subscript", "Gep", a.id, 0, NodeStruct(a.id), NodeStruct(a.id))
  BY DEF VisitSubscript
<1> HIDE DEF a
<1>4. "Gep" \in StmtOps \ {"Addr", "CallPE", "RetPE"} /\ FieldOffset("Gep", a.id, 0)
  BY DEF StmtOps, FieldOffset
<1>5. QED
  BY <1>1, <1>2, <1>3, <1>4, PlaceFlow

LEMMA UnknownCallFlow ==
  ASSUME TypeOK, NEW f, NEW n \in 0..MaxStack, VisitUnknownCall(f, n)
  PROVE  Flows
<1>1. UNCHANGED control /\ ArgumentsVisited(n) /\ YieldFresh(n, "call", None, Either)
  BY DEF VisitUnknownCall
<1>2. n \in 0..Len(stack)
  BY <1>1, ArgumentsTyped
<1>3. QED
  BY <1>1, <1>2, YieldFreshFlow

\* A call's operands are held, and its statements are of the two shapes of a call.
\* The statements of a call: one for each argument that has a formal, and the result.
CallArguments(f, n) ==
  {Stmt("CallPE", Argument(n, i).id, funcInfos[f].formals[i].val, LastId(icfg) + 1) :
     i \in {k \in 1..n : k <= Len(funcInfos[f].formals)}}
CallResult(f) == Stmt("RetPE", funcInfos[f].retVal, LastId(pag) + 1, LastId(icfg) + 1)

LEMMA CallStatements ==
  ASSUME TypeOK, NEW f \in Funs, NEW n \in 0..MaxStack, VisitCall(f, n)
  PROVE  /\ f \in DOMAIN funcInfos /\ n \in 0..Len(stack)
         /\ \A i \in 1..n : Argument(n, i).id \in Held
         /\ \A s \in CallArguments(f, n) : s.op = "CallPE" /\ s.src \in Held
                                          /\ s.arg = LastId(icfg) + 1 /\ s.dst \in Formals(f)
         /\ New = {LastId(pag) + 1} /\ pag'.node[LastId(pag) + 1] = ValNode(currentICFG, None)
         /\ pag'.stmt = pag.stmt \cup CallArguments(f, n) \cup {CallResult(f)}
<1> DEFINE fi == funcInfos[f]
           call == LastId(icfg) + 1
           t == LastId(pag) + 1
           S == CallArguments(f, n)
           bound == AddStmts(pag, S)
           r == CallResult(f)
<1>1. f \in DOMAIN funcInfos /\ ArgumentsVisited(n) /\ pag' = CallFlow(fi, n, call)
  BY DEF VisitCall, Callable
<1>2. n \in 0..Len(stack) /\ \A i \in 1..n : Argument(n, i).id \in Held
  <2>1. Len(stack) \in Nat /\ DOMAIN stack = 1..Len(stack)
    BY LenProperties DEF TypeOK, StackOK
  <2>2. n \in 0..Len(stack)
    BY <1>1, ArgumentsTyped
  <2>3. ASSUME NEW i \in 1..n
        PROVE  Argument(n, i).id \in Held
    <3>1. Len(stack) - n + i \in DOMAIN stack
      BY <2>1, <2>2
    <3>2. QED
      BY <3>1, HeldCases DEF Argument
  <2>4. QED
    BY <2>2, <2>3
<1>3. /\ fi.formals \in Seq(FormalType) /\ DOMAIN fi.formals = 1..Len(fi.formals)
      /\ fi.retVal \in Vals(pag) /\ Len(fi.formals) \in Nat
  BY <1>1, FuncInfoTyped, LenProperties DEF FuncInfoType
<1>4. \A i \in {k \in 1..n : k <= Len(fi.formals)} : i \in 1..n /\ i \in DOMAIN fi.formals
  BY <1>2, <1>3
<1>5. \A s \in S : s.op = "CallPE" /\ s.src \in Held /\ s.arg = call /\ s.dst \in Formals(f)
  BY <1>2, <1>4 DEF Stmt, Formals, CallArguments
<1>6. \A i \in {k \in 1..n : k <= Len(fi.formals)} :
        fi.formals[i] \in FormalType /\ Argument(n, i).id \in Vals(pag)
  BY <1>2, <1>3, <1>4, ElementOfSeq, HeldTyped
<1>7. IsPag(pag, icfg, Names) /\ None \in Names /\ currentICFG \in {NullId} \cup Ids(icfg) /\ call \in Nat
  BY AnchorTyped, LenProperties DEF TypeOK, GraphsOK, IsIcfg, LastId
<1>8. \A s \in S : IsStmt(pag, s) /\ s.op # "Addr"
  <2>1. \A i \in {k \in 1..n : k <= Len(fi.formals)} : fi.formals[i].val \in Vals(pag)
    BY <1>6, FormalTyped
  <2>2. ASSUME NEW src \in Vals(pag), NEW dst \in Vals(pag)
        PROVE  IsStmt(pag, Stmt("CallPE", src, dst, call))
    BY <1>7, <2>2 DEF Stmt, IsStmt, StmtOps, Vals
  <2>3. \A i \in {k \in 1..n : k <= Len(fi.formals)} :
          IsStmt(pag, Stmt("CallPE", Argument(n, i).id, fi.formals[i].val, call))
    BY <1>6, <2>1, <2>2
  <2>4. \A s \in S : IsStmt(pag, s)
    BY <2>3 DEF CallArguments
  <2>5. QED
    BY <1>5, <2>4
<1>9. pag' = Emit(bound, "RetPE", fi.retVal, call, currentICFG)
  BY <1>1 DEF CallFlow, CallArguments
<1> HIDE DEF fi, call, S
<1>10. /\ IsPag(bound, icfg, Names) /\ LastId(bound) = LastId(pag)
       /\ bound.node = pag.node /\ bound.stmt = pag.stmt \cup S
  BY <1>7, <1>8, AddStmtsFacts, AddStmtsAdds
<1>11. Ids(bound) = Ids(pag)
  BY <1>10 DEF Ids, LastId
<1> HIDE DEF bound
<1>12. /\ pag'.stmt = bound.stmt \cup {Stmt("RetPE", fi.retVal, t, call)} /\ Fresh(bound, pag') = {t}
       /\ pag'.node[t] = ValNode(currentICFG, None)
  BY <1>7, <1>9, <1>10, EmitAdds
<1>13. New = {t}
  BY <1>10, <1>11, <1>12 DEF New, Fresh
<1>14. pag'.stmt = pag.stmt \cup S \cup {r}
  BY <1>10, <1>12 DEF CallResult, fi, call
<1>15. QED
  BY <1>1, <1>2, <1>5, <1>12, <1>13, <1>14 DEF S, call

LEMMA CallFlowFlow ==
  ASSUME TypeOK, NEW f \in Funs, NEW n \in 0..MaxStack, VisitCall(f, n)
  PROVE  Flows
<1>1. PICK t, S, r, e : t = LastId(pag) + 1 /\ S = CallArguments(f, n) /\ r = CallResult(f)
                        /\ e = Operand("call", None, t, Either)
  OBVIOUS
<1>2. UNCHANGED <<symtab, nodeStructTy, funcInfos, target>> /\ Push(n, e) /\ e.id = t
  BY <1>1 DEF VisitCall, Operand
<1>3. UNCHANGED <<globals, scopes>>
  BY <1>2 DEF symtab
<1>4. /\ f \in DOMAIN funcInfos /\ n \in 0..Len(stack)
      /\ \A s \in S : s.op = "CallPE" /\ s.src \in Held /\ s.arg = LastId(icfg) + 1 /\ s.dst \in Formals(f)
      /\ New = {t} /\ pag'.node[t] = ValNode(currentICFG, None)
      /\ pag'.stmt = pag.stmt \cup S \cup {r}
  BY <1>1, CallStatements
<1>5. Added \subseteq S \cup {r}
  BY <1>4 DEF Added
<1>6. r.op = "RetPE" /\ r.src = funcInfos[f].retVal /\ r.dst = t /\ r.arg = LastId(icfg) + 1
  BY <1>1 DEF CallResult, Stmt
<1>7. \A i \in New : pag'.node[i].at = currentICFG
  BY <1>4 DEF ValNode, Node
<1>8. CallResultFlow(r) /\ \A s \in S : ArgumentFlow(s)
  <2>1. AddsCall
    BY DEF AddsCall
  <2>2. QED
    BY <1>4, <1>6, <2>1 DEF ArgumentFlow, CallResultFlow
<1>9. DefinesOnce
  <2>1. \A s \in S : s.dst \in Ids(pag)
    BY <1>4, InterfaceTyped DEF Vals, Interface
  <2>2. \A s \in Added : s.dst \in New => s = r
    BY <1>5, <2>1 DEF New, Fresh
  <2>3. QED
    BY <2>2 DEF DefinesOnce
<1>10. OffsetsFound
  BY <1>4, <1>5, <1>6 DEF OffsetsFound
<1>11. TagsStay /\ SameInterfaces
  BY <1>2, TagsStayUnchanged, InterfacesUnchanged
<1>12. e.id \in Held \cup New
  BY <1>2, <1>4
<1>13. Held' \subseteq Held \cup New
  BY <1>2, <1>3, <1>4, <1>12, PushKeepsHeld
<1>14. QED
  BY <1>5, <1>7, <1>8, <1>9, <1>10, <1>11, <1>13 DEF Flows

LEMMA ExprStepFlows ==
  ASSUME TypeOK, ExprStep
  PROVE  Flows
<1>1. ASSUME NEW x \in Vars \cup Funs, VisitIdentifier(x)
      PROVE  Flows
  BY <1>1, IdentifierFlow
<1>2. ASSUME VisitNumber \/ VisitString \/ VisitNull \/ VisitAllocation
      PROVE  Flows
  BY <1>2, LeafFlow
<1>3. ASSUME \/ VisitParenthesized \/ VisitAddressOf \/ VisitDeref \/ VisitLastChild
             \/ \E spec \in Specifiers : VisitCast(spec)
      PROVE  Flows
  BY <1>3, UnaryFlow
<1>4. ASSUME NEW additive \in BOOLEAN, VisitBinary(additive)
      PROVE  Flows
  BY <1>4, BinaryFlow
<1>5. ASSUME \/ \E x \in Vars : VisitAssignIdentifier(x)
             \/ VisitAssignThrough
             \/ VisitAssignParenthesized
      PROVE  Flows
  BY <1>5, AssignFlow
<1>6. ASSUME NEW f \in Fields, NEW arrow \in BOOLEAN, VisitField(f, arrow)
      PROVE  Flows
  BY <1>6, FieldFlow
<1>7. ASSUME VisitSubscript
      PROVE  Flows
  BY <1>7, SubscriptFlow
<1>8. ASSUME NEW f \in Funs, NEW n \in 0..MaxStack, VisitCall(f, n)
      PROVE  Flows
  BY <1>8, CallFlowFlow
<1>9. ASSUME NEW f \in Funs \cup {None}, NEW n \in 0..MaxStack, VisitUnknownCall(f, n)
      PROVE  Flows
  BY <1>9, UnknownCallFlow
<1>10. QED
  BY <1>1, <1>2, <1>3, <1>4, <1>5, <1>6, <1>7, <1>8, <1>9 DEF ExprStep

-----------------------------------------------------------------------------
(* Statements, declarations and units *)

\* A step that leaves the PAG alone and holds nothing new.
LEMMA QuietFlow ==
  ASSUME TypeOK, UNCHANGED <<pag, nodeStructTy>>, SameInterfaces, Held' \subseteq Held
  PROVE  Flows
<1>1. New = {} /\ Added = {}
  BY DEF New, Fresh, Added
<1>2. QED
  BY <1>1, TagsStayUnchanged DEF Flows, DefinesOnce, OffsetsFound

\* A scope more has no symbols, and a scope less leaves those of the others.
LEMMA SymbolsStay ==
  ASSUME TypeOK, EnterScope \/ (ExitScope \/ UNCHANGED scopes)
  PROVE  \A k \in DOMAIN scopes' : \A x \in DOMAIN scopes'[k] :
           k \in DOMAIN scopes /\ x \in DOMAIN scopes[k] /\ scopes'[k][x] = scopes[k][x]
<1>1. IsSequence(scopes) /\ Len(scopes) \in Nat
  BY SequenceFacts DEF TypeOK, SymtabOK
<1>2. \A k \in DOMAIN scopes' : scopes'[k] = NoSymbols \/ (k \in DOMAIN scopes /\ scopes'[k] = scopes[k])
  <2>1. CASE EnterScope
    BY <1>1, <2>1, AppendFacts DEF EnterScope
  <2>2. CASE ExitScope
    <3>1. Len(scopes) - 1 \in Int /\ Len(scopes) - 1 <= Len(scopes)
      BY <1>1
    <3>2. QED
      BY <1>1, <2>2, <3>1, PrefixFacts DEF ExitScope
  <2>3. CASE UNCHANGED scopes
    BY <2>3
  <2>4. QED
    BY <2>1, <2>2, <2>3
<1>3. QED
  BY <1>2 DEF NoSymbols

\* The same for one that keeps the symbols it had, or fewer.
LEMMA ScopeFlow ==
  ASSUME TypeOK, UNCHANGED <<pag, nodeStructTy, funcInfos, globals, target>>,
         stack' = stack \/ stack' = <<>>,
         EnterScope \/ (ExitScope \/ UNCHANGED scopes)
  PROVE  Flows
<1>1. \A k \in DOMAIN scopes' : \A x \in DOMAIN scopes'[k] :
        k \in DOMAIN scopes /\ x \in DOMAIN scopes[k] /\ scopes'[k][x] = scopes[k][x]
  BY SymbolsStay
<1>2. \A k \in DOMAIN stack' : k \in DOMAIN stack /\ stack'[k] = stack[k]
  OBVIOUS
<1>3. Held' \subseteq Held
  <2> SUFFICES ASSUME NEW i \in Held'
               PROVE  i \in Held
    OBVIOUS
  <2>1. QED
    BY <1>1, <1>2, HeldCases, HeldCasesPrime
<1>4. QED
  BY <1>3, QuietFlow, InterfacesUnchanged

\* One statement between nodes at hand, which ends the visit of an operand.
LEMMA EndFlow ==
  ASSUME TypeOK, UNCHANGED <<nodeStructTy, funcInfos, globals, scopes>>,
         stack' = <<>>, target' = target \/ target' = NoTarget,
         NEW s, pag' = AddStmts(pag, {s}), LocalFlow(s) \/ ResultFlow(s), s.op # "Gep"
  PROVE  Flows
<1>1. New = {} /\ Added \subseteq {s}
  BY AddStmtsAdds DEF TypeOK, GraphsOK, New, Added
<1>2. DefinesOnce /\ OffsetsFound
  BY <1>1 DEF DefinesOnce, OffsetsFound
<1>3. Held' \subseteq Held
  BY HeldCases, HeldCasesPrime
<1>4. QED
  BY <1>1, <1>2, <1>3, TagsStayUnchanged, InterfacesUnchanged DEF Flows

\* A new variable: an object, its address, and a symbol.
LEMMA DeclaredHolds ==
  ASSUME TypeOK, NEW id, UNCHANGED stack,
         \A x \in DOMAIN globals' : globals'[x].valId = id \/ (x \in DOMAIN globals /\ globals'[x] = globals[x]),
         \A k \in DOMAIN scopes' : \A x \in DOMAIN scopes'[k] :
           scopes'[k][x].valId = id \/ (k \in DOMAIN scopes /\ x \in DOMAIN scopes[k] /\ scopes'[k][x] = scopes[k][x]),
         target' = target \/ target' = NoTarget \/ target'.val = id
  PROVE  Held' \subseteq Held \cup {id}
<1> SUFFICES ASSUME NEW i \in Held'
             PROVE  i \in Held \cup {id}
  OBVIOUS
<1>1. CASE \E k \in DOMAIN stack' : i = stack'[k].id
  BY <1>1, HeldCases
<1>2. CASE \E x \in DOMAIN globals' : i = globals'[x].valId
  BY <1>2, HeldCases
<1>3. CASE \E k \in DOMAIN scopes' : \E x \in DOMAIN scopes'[k] : i = scopes'[k][x].valId
  BY <1>3, HeldCases
<1>4. CASE target' # NoTarget /\ i = target'.val
  BY <1>4, HeldCases
<1>5. QED
  BY <1>1, <1>2, <1>3, <1>4, HeldCasesPrime

\* A declaration of a variable with its object, address and tag.
LEMMA DeclarationFlows ==
  ASSUME TypeOK, NEW kind \in ObjKinds, NEW x \in Names, NEW ty, NEW sty,
         pag' = AddObject(pag, kind, currentICFG, x, FlattenedFields(ty)),
         nodeStructTy' = TagStruct(nodeStructTy, LastId(pag) + 2, sty),
         UNCHANGED funcInfos, Held' \subseteq Held \cup {LastId(pag) + 2}
  PROVE  Flows
<1> DEFINE o == LastId(pag) + 1
           s == Stmt("Addr", o, o + 1, 0)
<1>1. /\ pag'.stmt = pag.stmt \cup {s} /\ New = {o, o + 1}
      /\ pag'.node[o].at = currentICFG /\ pag'.node[o + 1] = ValNode(currentICFG, x)
  <2>1. IsPag(pag, icfg, Names) /\ currentICFG \in {NullId} \cup Ids(icfg)
    BY AnchorTyped DEF TypeOK, GraphsOK
  <2>2. QED
    BY <2>1, FlattenedNat, AddObjectAdds DEF New
<1>2. s.op = "Addr" /\ s.src = o /\ s.dst = o + 1
  BY DEF Stmt
<1>3. LastId(pag) + 2 = o + 1
  BY NextIsNew
<1>4. ValNode(currentICFG, x).at = currentICFG
  BY DEF ValNode, Node
<1>5. TagsStay
  BY NextIsNew, TagsStayFresh
<1> HIDE DEF o, s
<1>6. Added \subseteq {s}
  BY <1>1 DEF Added
<1>7. LocalFlow(s) /\ DefinesOnce /\ OffsetsFound
  BY <1>1, <1>2, <1>6 DEF LocalFlow, DefinesOnce, OffsetsFound
<1>8. QED
  BY <1>1, <1>3, <1>4, <1>5, <1>6, <1>7, InterfacesUnchanged DEF Flows

\* The symbol that Bind adds to a table.
LEMMA BindHolds ==
  ASSUME NEW m, NEW x, NEW v, NEW y \in DOMAIN Bind(m, x, v)
  PROVE  Bind(m, x, v)[y] = v \/ (y \in DOMAIN m /\ Bind(m, x, v)[y] = m[y])
BY DEF Bind

LEMMA BindLocalHolds ==
  ASSUME TypeOK, NEW x, NEW ty, NEW isArray, BindLocal(x, ty, isArray)
  PROVE  \A k \in DOMAIN scopes' : \A y \in DOMAIN scopes'[k] :
           \/ scopes'[k][y].valId = LastId(pag) + 2
           \/ k \in DOMAIN scopes /\ y \in DOMAIN scopes[k] /\ scopes'[k][y] = scopes[k][y]
<1> DEFINE n == Len(scopes)
           sym == Symbol(ty, LastId(pag) + 1, LastId(pag) + 2, FALSE, isArray)
           inner == Bind(scopes[n], x, sym)
<1>1. IsSequence(scopes) /\ scopes' = [scopes EXCEPT ![n] = inner]
  BY DEF TypeOK, SymtabOK, BindLocal
<1>2. sym.valId = LastId(pag) + 2
  BY DEF Symbol
<1> HIDE DEF sym
<1>3. \A y \in DOMAIN inner : inner[y] = sym \/ (y \in DOMAIN scopes[n] /\ inner[y] = scopes[n][y])
  BY BindHolds
<1> HIDE DEF inner, n
<1>4. /\ DOMAIN scopes' = DOMAIN scopes
      /\ \A k \in DOMAIN scopes' : (scopes'[k] = inner /\ k = n) \/ scopes'[k] = scopes[k]
  BY <1>1, ReplaceFacts
<1>5. QED
  BY <1>2, <1>3, <1>4

LEMMA GlobalDeclFlows ==
  ASSUME TypeOK, NEW x \in Vars \cup Funs, NEW spec, NEW d, NEW init, VisitGlobalDecl(x, spec, d, init)
  PROVE  Flows
<1> DEFINE ty == DeclaredType(spec, d)
           sym == Symbol(ty, LastId(pag) + 1, LastId(pag) + 2, FALSE, d.bracket)
<1>1. /\ pag' = AddObject(pag, "global", currentICFG, x, FlattenedFields(ty))
      /\ globals' = Bind(globals, x, sym)
      /\ nodeStructTy' = TagStruct(nodeStructTy, LastId(pag) + 2, AsStruct(ParseType(spec)))
      /\ target' = NoTarget \/ target'.val = LastId(pag) + 2
      /\ UNCHANGED <<funcInfos, scopes, stack>>
  BY DEF VisitGlobalDecl
<1>2. "global" \in ObjKinds /\ x \in Names
  BY DEF ObjKinds, Names
<1>3. sym.valId = LastId(pag) + 2
  BY DEF Symbol
<1> HIDE DEF ty, sym
<1>4. \A y \in DOMAIN globals' : globals'[y].valId = LastId(pag) + 2 \/ (y \in DOMAIN globals /\ globals'[y] = globals[y])
  BY <1>1, <1>3, BindHolds
<1>5. Held' \subseteq Held \cup {LastId(pag) + 2}
  BY <1>1, <1>4, DeclaredHolds
<1>6. QED
  BY <1>1, <1>2, <1>5, DeclarationFlows

LEMMA LocalDeclFlows ==
  ASSUME TypeOK, NEW x \in Vars, NEW spec, NEW d, NEW init, VisitLocalDecl(x, spec, d, init)
  PROVE  Flows
<1> DEFINE ty == DeclaredType(spec, d)
<1>1. /\ pag' = AddObject(pag, "stack", currentICFG, x, FlattenedFields(ty))
      /\ BindLocal(x, ty, d.bracket)
      /\ nodeStructTy' = TagStruct(nodeStructTy, LastId(pag) + 2, AsStruct(ParseType(spec)))
      /\ target' = NoTarget \/ target'.val = LastId(pag) + 2
      /\ UNCHANGED <<funcInfos, globals, stack>>
  BY DEF VisitLocalDecl, CreateLocal
<1>2. "stack" \in ObjKinds /\ x \in Names
  BY DEF ObjKinds, Names
<1> HIDE DEF ty
<1>3. Held' \subseteq Held \cup {LastId(pag) + 2}
  BY <1>1, BindLocalHolds, DeclaredHolds
<1>4. QED
  BY <1>1, <1>2, <1>3, DeclarationFlows

LEMMA BindFormalFlows ==
  ASSUME TypeOK, BindFormal
  PROVE  Flows
<1> DEFINE formal == Head(toBind)
           name == formal.name
           o == LastId(pag) + 1
           made == AddObject(pag, "stack", currentICFG, name, 1)
           s == Stmt("Addr", o, o + 1, 0)
           t == Stmt("Store", formal.val, o + 1, currentICFG)
<1>1. /\ toBind # <<>> /\ pag' = AddStmts(made, {Stmt("Store", formal.val, LastId(pag) + 2, currentICFG)})
      /\ BindLocal(formal.name, PtrTy, FALSE)
      /\ nodeStructTy' = TagStruct(TagStruct(nodeStructTy, LastId(pag) + 2, formal.sty),
                                   formal.val, formal.sty)
      /\ UNCHANGED <<funcInfos, globals, stack, target>>
  BY DEF BindFormal, AddStmt
<1>2. formal \in FormalType /\ 1 \in DOMAIN toBind /\ formal = toBind[1]
  BY <1>1, HeadTailProperties DEF TypeOK, FramesOK
<1>3. name \in Names
  BY <1>2 DEF FormalType, Names
<1>4. LastId(pag) + 2 = o + 1
  BY NextIsNew
<1> HIDE DEF formal, name
<1>5. /\ made.stmt = pag.stmt \cup {s} /\ Fresh(pag, made) = {o, o + 1}
      /\ made.node[o].at = currentICFG /\ made.node[o + 1] = ValNode(currentICFG, name)
  <2>1. IsPag(pag, icfg, Names) /\ currentICFG \in {NullId} \cup Ids(icfg) /\ 1 \in Nat /\ "stack" \in ObjKinds
    BY AnchorTyped DEF TypeOK, GraphsOK, ObjKinds
  <2>2. QED
    BY <1>3, <2>1, AddObjectAdds
<1>6. IsPag(made, icfg, Names)
  BY <1>3, ObjectAtAnchor DEF ObjKinds
<1>7. s.op = "Addr" /\ s.src = o /\ s.dst = o + 1
  BY DEF Stmt
<1>8. t.op = "Store" /\ t.src = formal.val /\ t.dst = o + 1
  BY DEF Stmt
<1>9. ValNode(currentICFG, name).at = currentICFG /\ ValNode(currentICFG, name).name = formal.name
  BY DEF ValNode, Node, name
<1>10. TagsStay
  <2> DEFINE tags == TagStruct(nodeStructTy, LastId(pag) + 2, formal.sty)
  <2> SUFFICES ASSUME NEW i \in Ids(pag), i # formal.val
               PROVE  NodeStruct(i)' = NodeStruct(i)
    BY <1>2 DEF TagsStay
  <2>1. i # LastId(pag) + 2
    BY NextIsNew
  <2>2. (i \in DOMAIN tags <=> i \in DOMAIN nodeStructTy) /\ (i \in DOMAIN nodeStructTy => tags[i] = nodeStructTy[i])
    BY <2>1, TagOfOld
  <2> HIDE DEF tags
  <2>3. (i \in DOMAIN nodeStructTy' <=> i \in DOMAIN tags) /\ (i \in DOMAIN tags => nodeStructTy'[i] = tags[i])
    BY <1>1, TagOfOld DEF tags
  <2>4. QED
    BY <2>2, <2>3 DEF NodeStruct
<1>11. Held' \subseteq Held \cup {LastId(pag) + 2}
  BY <1>1, BindLocalHolds, DeclaredHolds
<1> HIDE DEF o, s, t, made
<1>12. pag'.node = made.node /\ pag'.stmt = made.stmt \cup {t}
  BY <1>1, <1>4, <1>6, AddStmtsAdds DEF t
<1>13. New = {o, o + 1} /\ Added \subseteq {s, t}
  BY <1>5, <1>12 DEF New, Fresh, Ids, Added
<1>14. LocalFlow(s) /\ BindFlow(t) /\ DefinesOnce /\ OffsetsFound
  <2>1. LocalFlow(s)
    BY <1>7, <1>13 DEF LocalFlow
  <2>2. BindFlow(t)
    BY <1>2, <1>5, <1>8, <1>9, <1>12, <1>13 DEF BindFlow
  <2>3. DefinesOnce /\ OffsetsFound
    BY <1>7, <1>8, <1>13 DEF DefinesOnce, OffsetsFound
  <2>4. QED
    BY <2>1, <2>2, <2>3
<1>15. \A i \in New : pag'.node[i].at = currentICFG
  BY <1>5, <1>9, <1>12, <1>13
<1>16. Held' \subseteq Held \cup New
  BY <1>4, <1>11, <1>13
<1>17. QED
  BY <1>1, <1>10, <1>13, <1>14, <1>15, <1>16, InterfacesUnchanged DEF Flows

LEMMA OneOperandHeld ==
  ASSUME TypeOK, Len(stack) = 1
  PROVE  stack[1].id \in Held
<1>1. DOMAIN stack = 1..Len(stack)
  BY LenProperties DEF TypeOK, StackOK
<1>2. 1 \in DOMAIN stack
  BY <1>1
<1>3. QED
  BY <1>2, HeldCases

LEMMA EndInitializerFlows ==
  ASSUME TypeOK, EndInitializer
  PROVE  Flows
<1> DEFINE s == Stmt("Store", stack[1].id, target.val, currentICFG)
<1>1. /\ pag' = AddStmts(pag, {s}) /\ stack' = <<>> /\ target' = NoTarget
      /\ target # NoTarget /\ Len(stack) = 1
      /\ UNCHANGED <<nodeStructTy, funcInfos, globals, scopes>>
  BY DEF EndInitializer, AddStmt, symtab
<1>2. s.op = "Store" /\ s.src = stack[1].id /\ s.dst = target.val
  BY DEF Stmt
<1> HIDE DEF s
<1>3. stack[1].id \in Held /\ target.val \in Held
  BY <1>1, OneOperandHeld, HeldCases
<1>4. LocalFlow(s)
  BY <1>2, <1>3 DEF LocalFlow
<1>5. QED
  BY <1>1, <1>2, <1>4, EndFlow

LEMMA ReturnFlows ==
  ASSUME TypeOK, VisitReturn
  PROVE  Flows
<1> DEFINE v == stack[1].id
           s == Stmt("Copy", v, currentRetVal, 0)
<1>1. /\ pag' = IF currentRetIsPtr /\ pag.node[v].ptr THEN AddStmts(pag, {s}) ELSE pag
      /\ stack' = <<>> /\ Len(stack) = 1
      /\ UNCHANGED <<nodeStructTy, funcInfos, globals, scopes, target>>
  BY DEF VisitReturn, ReturnFlow, AddStmt, ExprVisited, symtab
<1>2. s.op = "Copy" /\ s.src = v /\ s.dst = currentRetVal
  BY DEF Stmt
<1> HIDE DEF s
<1>3. v \in Held
  BY <1>1, OneOperandHeld
<1>4. CASE currentRetIsPtr /\ pag.node[v].ptr
  <2>1. ResultFlow(s)
    BY <1>2, <1>3, <1>4 DEF ResultFlow
  <2>2. QED
    BY <1>1, <1>2, <1>4, <2>1, EndFlow
<1>5. CASE ~(currentRetIsPtr /\ pag.node[v].ptr)
  BY <1>1, <1>5, ScopeFlow
<1>6. QED
  BY <1>4, <1>5

LEMMA FunctionDefFlows ==
  ASSUME TypeOK, VisitFunctionDef
  PROVE  Flows
<1> DEFINE f == Head(pending)
<1>1. /\ pending # <<>>
      /\ UNCHANGED <<pag, globals, nodeStructTy, stack, target>>
      /\ \/ UNCHANGED <<scopes, funcInfos>>
         \/ funcInfos' = [funcInfos EXCEPT ![f].defined = TRUE] /\ EnterScope
  BY DEF VisitFunctionDef, MarkVisited
<1>2. CASE UNCHANGED <<scopes, funcInfos>>
  BY <1>1, <1>2, ScopeFlow
<1>3. CASE funcInfos' = [funcInfos EXCEPT ![f].defined = TRUE] /\ EnterScope
  <2>1. SameInterfaces
    <3>1. \A g \in DOMAIN funcInfos : funcInfos[g] = [funcInfos[g] EXCEPT !.defined = funcInfos[g].defined]
      BY FuncInfoTyped DEF FuncInfoType
    <3>2. \A g \in DOMAIN funcInfos : funcInfos[g].defined \in BOOLEAN
      BY FuncInfoTyped DEF FuncInfoType
    <3> HIDE DEF f
    <3>3. QED
      BY <1>3, <3>1, <3>2 DEF SameInterfaces
  <2>2. \A k \in DOMAIN scopes' : \A x \in DOMAIN scopes'[k] :
          k \in DOMAIN scopes /\ x \in DOMAIN scopes[k] /\ scopes'[k][x] = scopes[k][x]
    BY <1>3, SymbolsStay
  <2>3. Held' \subseteq Held
    <3> SUFFICES ASSUME NEW i \in Held'
                 PROVE  i \in Held
      OBVIOUS
    <3>1. QED
      BY <1>1, <2>2, HeldCases, HeldCasesPrime
  <2>4. QED
    BY <1>1, <2>1, <2>3, QuietFlow
<1>4. QED
  BY <1>1, <1>2, <1>3

LEMMA BodyStepFlows ==
  ASSUME TypeOK, BodyStep
  PROVE  Flows
<1>1. ASSUME VisitFunctionDef \/ BindFormal
      PROVE  Flows
  BY <1>1, FunctionDefFlows, BindFormalFlows
<1>2. ASSUME EnterBody \/ LeaveFunctionDef \/ EnterBlock \/ ExitBlock
      PROVE  Flows
  <2>1. /\ UNCHANGED <<pag, nodeStructTy, funcInfos, globals, target, stack>>
        /\ EnterScope \/ (ExitScope \/ UNCHANGED scopes)
    BY <1>2 DEF EnterBody, LeaveFunctionDef, EnterBlock, ExitBlock, graphs
  <2>2. QED
    BY <2>1, ScopeFlow
<1>3. ASSUME VisitFor \/ VisitForClause \/ EndFor \/ VisitExprStmt
      PROVE  Flows
  <2>1. /\ UNCHANGED <<pag, nodeStructTy, funcInfos, globals, scopes, target>>
        /\ stack' = stack \/ stack' = <<>>
    BY <1>3 DEF VisitFor, VisitForClause, EndFor, VisitExprStmt, graphs, symtab
  <2>2. QED
    BY <2>1, ScopeFlow
<1>4. ASSUME NEW x \in Vars, NEW spec \in Specifiers, NEW d \in Declarators, NEW init \in BOOLEAN,
             VisitLocalDecl(x, spec, d, init)
      PROVE  Flows
  BY <1>4, LocalDeclFlows
<1>5. ASSUME EndInitializer \/ VisitReturn
      PROVE  Flows
  BY <1>5, EndInitializerFlows, ReturnFlows
<1>6. ASSUME NEW x \in Vars, SkipFunctionPointer(x)
      PROVE  Flows
  <2>1. UNCHANGED <<pag, nodeStructTy, funcInfos, globals, scopes, target, stack>>
    BY <1>6 DEF SkipFunctionPointer, graphs, symtab
  <2>2. QED
    BY <2>1, ScopeFlow
<1>7. QED
  BY <1>1, <1>2, <1>3, <1>4, <1>5, <1>6 DEF BodyStep

\* Every step is one of these, but for the registration of a function.
LEMMA StepFlows ==
  ASSUME TypeOK, [Next]_vars
  PROVE  \/ Flows
         \/ \E f \in Funs, sig \in Signatures : f \notin DOMAIN funcInfos /\ PrescanFunctionDef(f, sig)
<1>1. CASE ExprStep
  BY <1>1, ExprStepFlows
<1>2. CASE BodyStep
  BY <1>2, BodyStepFlows
<1>3. CASE UNCHANGED vars
  BY <1>3, ScopeFlow DEF vars, graphs, symtab, cursor
<1>4. CASE UnitStep
  <2>1. ASSUME StartUnit \/ EndPrescan \/ EndUnit
        PROVE  Flows
    <3>1. /\ UNCHANGED <<pag, nodeStructTy, funcInfos, globals, target, stack>>
          /\ EnterScope \/ (ExitScope \/ UNCHANGED scopes)
      BY <2>1 DEF StartUnit, EndPrescan, EndUnit, graphs, symtab, cursor
    <3>2. QED
      BY <3>1, ScopeFlow
  <2>2. ASSUME NEW f \in Funs, NEW sig \in Signatures, PrescanFunctionDef(f, sig), f \in DOMAIN funcInfos
        PROVE  Flows
    <3>1. UNCHANGED <<pag, nodeStructTy, funcInfos, globals, scopes, target, stack>>
      BY <2>2 DEF PrescanFunctionDef, cursor
    <3>2. QED
      BY <3>1, ScopeFlow
  <2>3. ASSUME \/ \E s \in Structs, def \in StructDefs : VisitStructSpecifier(s, def)
               \/ \E alias \in Aliases, spec \in Specifiers : VisitTypeDefinition(alias, spec)
        PROVE  Flows
    <3>1. UNCHANGED <<pag, nodeStructTy, funcInfos, globals, scopes, target, stack>>
      BY <2>3 DEF VisitStructSpecifier, VisitTypeDefinition, graphs, symtab, cursor
    <3>2. QED
      BY <3>1, ScopeFlow
  <2>4. ASSUME NEW x \in Vars, NEW spec \in Specifiers, NEW d \in Declarators, NEW init \in BOOLEAN,
               VisitGlobalDecl(x, spec, d, init)
        PROVE  Flows
    BY <2>4, GlobalDeclFlows
  <2>5. ASSUME NEW f \in Funs, VisitPrototype(f)
        PROVE  Flows
    BY <2>5, GlobalDeclFlows DEF VisitPrototype
  <2>6. QED
    BY <1>4, <2>1, <2>2, <2>3, <2>4, <2>5 DEF UnitStep
<1>5. QED
  BY <1>1, <1>2, <1>3, <1>4 DEF Next

-----------------------------------------------------------------------------
(* The registration of a function *)

\* The interface is made of the last nodes of the new PAG: the formals in their order on
\* the new entry node, and the return ValVar on the new exit node.
Registers(f) ==
  LET obj == LastId(pag) + 1
      fi  == funcInfos'[f]
  IN  /\ f \notin DOMAIN funcInfos /\ DOMAIN funcInfos' = DOMAIN funcInfos \cup {f}
      /\ \A g \in DOMAIN funcInfos : funcInfos'[g] = funcInfos[g]
      /\ ~fi.defined /\ fi.funObjId = obj
      /\ globals' = Bind(globals, f, Symbol(FunTy, obj, obj + 1, TRUE, FALSE))
      /\ pag'.stmt = pag.stmt \cup {Stmt("Addr", obj, obj + 1, 0)}
      /\ pag'.node[obj].kind = "fun" /\ pag'.node[obj + 1] = ValNode(GlobalNode, f)
      /\ DOMAIN fi.formals = 1..Len(fi.formals) /\ Len(fi.formals) \in Nat
      /\ \A i \in DOMAIN fi.formals :
           /\ fi.formals[i].val = obj + 1 + i
           /\ pag'.node[fi.formals[i].val] = ValNode(fi.entry, fi.formals[i].name)
      /\ fi.retVal = LastId(pag') /\ LastId(pag') = obj + 2 + Len(fi.formals)
      /\ pag'.node[fi.retVal] = ValNode(fi.exit, None)
      /\ Extends(icfg, icfg') /\ icfg'.edge = icfg.edge /\ LastId(icfg') = LastId(icfg) + 2
      /\ fi.entry = LastId(icfg) + 1 /\ icfg'.node[fi.entry] = [kind |-> "entry", bb |-> f]
      /\ fi.exit = LastId(icfg) + 2 /\ icfg'.node[fi.exit] = [kind |-> "exit", bb |-> f]

\* The entry and the exit node.
LEMMA BlocksAdded ==
  ASSUME NEW c, NEW names, IsIcfg(c, names), NEW f \in names,
         NEW d, d = AddIcfgNode(AddIcfgNode(c, "entry", f), "exit", f)
  PROVE  /\ Extends(c, d) /\ d.edge = c.edge /\ LastId(d) = LastId(c) + 2
         /\ d.node[LastId(c) + 1] = [kind |-> "entry", bb |-> f]
         /\ d.node[LastId(c) + 2] = [kind |-> "exit", bb |-> f]
<1> DEFINE b == AddIcfgNode(c, "entry", f)
<1>1. "entry" \in IcfgKinds /\ "exit" \in IcfgKinds
  BY DEF IcfgKinds
<1>2. /\ IsIcfg(b, names) /\ Extends(c, b) /\ b.edge = c.edge
      /\ LastId(c) \in Nat /\ LastId(b) = LastId(c) + 1
      /\ b.node[LastId(c) + 1] = [kind |-> "entry", bb |-> f]
  BY <1>1, AddIcfgNodeFacts, AddIcfgNodeAdds
<1>3. d = AddIcfgNode(b, "exit", f)
  OBVIOUS
<1> HIDE DEF b
<1>4. /\ Extends(b, d) /\ d.edge = b.edge /\ LastId(d) = LastId(b) + 1
      /\ d.node[LastId(b) + 1] = [kind |-> "exit", bb |-> f]
  BY <1>1, <1>2, <1>3, AddIcfgNodeFacts, AddIcfgNodeAdds
<1>5. LastId(c) + 1 \in Ids(b) /\ LastId(b) + 1 = LastId(c) + 2
  BY <1>2 DEF Ids, LastId
<1>6. QED
  BY <1>2, <1>4, <1>5, ExtendsTrans DEF Extends

\* The formals, and the return ValVar behind them.
RowAdds(g, h, entry, exit, row) ==
  /\ h.stmt = g.stmt /\ LastId(g) \in Nat /\ LastId(h) = LastId(g) + Len(row) + 1
  /\ \A i \in 1..Len(row) : h.node[LastId(g) + i] = ValNode(entry, row[i])
  /\ h.node[LastId(h)] = ValNode(exit, None)
  /\ \A i \in Ids(g) : h.node[i] = g.node[i]

LEMMA RowAdded ==
  ASSUME NEW g, NEW c, IsPag(g, c, Names), NEW entry \in Ids(c), NEW exit \in Ids(c),
         NEW row \in Seq(Names), NEW h, h = AddVal(AddVals(g, entry, row), exit, None)
  PROVE  RowAdds(g, h, entry, exit, row)
<1> DEFINE bound == AddVals(g, entry, row)
           n == ValNode(exit, None)
<1>1. /\ IsPag(bound, c, Names) /\ bound.stmt = g.stmt
      /\ LastId(g) \in Nat /\ LastId(bound) = LastId(g) + Len(row)
      /\ \A i \in 1..Len(row) : bound.node[LastId(g) + i] = ValNode(entry, row[i])
      /\ \A i \in Ids(g) : bound.node[i] = g.node[i]
  BY AddValsFacts, AddValsAdds DEF Grows
<1>2. n \in PagNode(c, Names)
  BY DEF PagNode, ValNode, Node, Names
<1>3. h = AddNode(bound, n)
  BY DEF AddVal
<1> HIDE DEF bound, n
<1>4. /\ LastId(h) = LastId(bound) + 1 /\ h.stmt = bound.stmt /\ h.node[LastId(bound) + 1] = n
      /\ \A i \in Ids(bound) : h.node[i] = bound.node[i]
  <2>1. IsPag(bound, c, Names)
    BY <1>1
  <2>2. /\ LastId(AddNode(bound, n)) = LastId(bound) + 1
        /\ AddNode(bound, n).stmt = bound.stmt
        /\ AddNode(bound, n).node[LastId(bound) + 1] = n
        /\ \A i \in Ids(bound) : AddNode(bound, n).node[i] = bound.node[i]
    BY ONLY <2>1, <1>2, AddNodeFacts
  <2>3. QED
    BY ONLY <2>2, <1>3
<1>5. Len(row) \in Nat
  BY LenProperties
<1>6. Ids(g) \subseteq Ids(bound) /\ \A i \in 1..Len(row) : LastId(g) + i \in Ids(bound)
  BY <1>1, <1>5 DEF Ids, LastId
<1>7. QED
  BY <1>1, <1>4, <1>6 DEF n, RowAdds

\* The FunObj, its address and the AddrStmt.
LEMMA FunctionAdded ==
  ASSUME NEW g, NEW c, IsPag(g, c, Names), GlobalNode \in Ids(c), NEW f \in Funs,
         NEW h, h = AddStmt(AddVal(AddNode(g, Node("fun", TRUE, NullId, None, 1)), GlobalNode, f),
                            "Addr", LastId(g) + 1, LastId(g) + 2, 0)
  PROVE  /\ h.stmt = g.stmt \cup {Stmt("Addr", LastId(g) + 1, LastId(g) + 2, 0)}
         /\ h.node[LastId(g) + 1].kind = "fun" /\ h.node[LastId(g) + 2] = ValNode(GlobalNode, f)
<1> DEFINE o == Node("fun", TRUE, NullId, None, 1)
           v == ValNode(GlobalNode, f)
           a == AddNode(g, o)
           w == AddNode(a, v)
           s == Stmt("Addr", LastId(g) + 1, LastId(g) + 2, 0)
<1>1. o \in PagNode(c, Names) /\ v \in PagNode(c, Names) /\ o.kind = "fun"
  BY DEF PagNode, Node, ValNode, Names, ObjKinds
<1>2. h = AddStmts(w, {s})
  BY DEF AddVal, AddStmt
<1> HIDE DEF o, v, s
<1>3. /\ IsPag(a, c, Names) /\ LastId(g) \in Nat /\ LastId(a) = LastId(g) + 1
      /\ a.node[LastId(g) + 1] = o /\ a.stmt = g.stmt
  BY <1>1, AddNodeFacts
<1> HIDE DEF a
<1>4. /\ IsPag(w, c, Names) /\ w.node[LastId(a) + 1] = v /\ w.stmt = a.stmt
      /\ \A i \in Ids(a) : w.node[i] = a.node[i]
  BY <1>1, <1>3, AddNodeFacts
<1> HIDE DEF w
<1>5. LastId(g) + 1 \in Ids(a) /\ LastId(a) + 1 = LastId(g) + 2
  BY <1>3 DEF Ids, LastId
<1>6. h.node = w.node /\ h.stmt = w.stmt \cup {s}
  BY ONLY <1>2, <1>4, AddStmtsAdds
<1>7. QED
  BY <1>1, <1>3, <1>4, <1>5, <1>6 DEF v, s

LEMMA RegistersAll ==
  ASSUME TypeOK, NEW f \in Funs, NEW sig \in Signatures, f \notin DOMAIN funcInfos,
         PrescanFunctionDef(f, sig)
  PROVE  Registers(f)
<1> DEFINE blocks == AddIcfgNode(AddIcfgNode(icfg, "entry", f), "exit", f)
           entry == LastId(icfg) + 1
           exit == LastId(icfg) + 2
           obj == LastId(pag) + 1
           named == AddVal(AddNode(pag, Node("fun", TRUE, NullId, None, 1)), GlobalNode, f)
           addr == AddStmt(named, "Addr", obj, obj + 1, 0)
           row == [i \in DOMAIN sig.params |-> BoundName(sig.params[i])]
           whole == AddVal(AddVals(addr, entry, row), exit, None)
           formals == [i \in DOMAIN sig.params |->
                         [val  |-> obj + 1 + i,
                          name |-> BoundName(sig.params[i]),
                          source |-> sig.params[i].name,
                          sty  |-> AsStruct(ParseType(sig.params[i].spec))]]
           info == [funObjId |-> obj, entry |-> entry, exit |-> exit, retVal |-> LastId(whole),
                    formals |-> formals, defined |-> FALSE, retIsPtr |-> sig.ret]
           sym == Symbol(FunTy, obj, obj + 1, TRUE, FALSE)
<1>1. /\ pag' = whole /\ icfg' = blocks
      /\ globals' = Bind(globals, f, sym) /\ funcInfos' = Bind(funcInfos, f, info)
  BY DEF PrescanFunctionDef, Register
<1>2. /\ Extends(icfg, blocks) /\ blocks.edge = icfg.edge /\ LastId(blocks) = LastId(icfg) + 2
      /\ blocks.node[entry] = [kind |-> "entry", bb |-> f]
      /\ blocks.node[exit] = [kind |-> "exit", bb |-> f]
      /\ IsPag(pag, blocks, Names) /\ GlobalNode \in Ids(blocks)
      /\ entry \in Ids(blocks) /\ exit \in Ids(blocks)
  <2>1. IsIcfg(icfg, Funs \cup {None}) /\ IsPag(pag, icfg, Names)
    BY DEF TypeOK, GraphsOK
  <2>2. /\ IsIcfg(blocks, Funs \cup {None}) /\ Covers(icfg, blocks)
        /\ entry \in Ids(blocks) /\ exit \in Ids(blocks)
    BY RegisterBlocks
  <2>3. IsPag(pag, blocks, Names) /\ GlobalNode \in Ids(blocks)
    BY <2>1, <2>2, IsPagCovers DEF IsIcfg
  <2> HIDE DEF blocks
  <2>4. blocks = AddIcfgNode(AddIcfgNode(icfg, "entry", f), "exit", f)
    BY DEF blocks
  <2>5. QED
    BY <2>1, <2>2, <2>3, <2>4, BlocksAdded
<1>3. /\ Len(sig.params) \in Nat /\ DOMAIN sig.params = 1..Len(sig.params)
      /\ \A i \in DOMAIN sig.params : BoundName(sig.params[i]) \in Vars \cup {QualifiedText}
  <2>1. sig.params \in Seq(Param)
    BY ShapeAssumption
  <2>2. Len(sig.params) \in Nat /\ DOMAIN sig.params = 1..Len(sig.params)
    BY <2>1, LenProperties
  <2>3. \A i \in DOMAIN sig.params : sig.params[i] \in Param
    BY <2>1, <2>2, ElementOfSeq
  <2>4. QED
    BY <2>2, <2>3 DEF Param, BoundName
<1>4. /\ row \in Seq(Names) /\ Len(row) = Len(sig.params)
      /\ \A i \in DOMAIN sig.params : row[i] = BoundName(sig.params[i])
  <2>1. row \in [1..Len(sig.params) -> Names]
    BY <1>3 DEF Names
  <2>2. \A i \in DOMAIN sig.params : row[i] = BoundName(sig.params[i])
    OBVIOUS
  <2> HIDE DEF row
  <2>3. QED
    BY <1>3, <2>1, <2>2, RowIsSeq
<1>5. /\ DOMAIN formals = 1..Len(formals) /\ Len(formals) = Len(sig.params)
      /\ \A i \in DOMAIN formals :
           formals[i].val = obj + 1 + i /\ formals[i].name = BoundName(sig.params[i])
  <2>1. formals \in Seq({formals[i] : i \in DOMAIN formals})
    BY <1>3, SeqDef
  <2>2. DOMAIN formals = 1..Len(sig.params)
    BY <1>3
  <2>3. \A i \in DOMAIN formals :
           formals[i].val = obj + 1 + i /\ formals[i].name = BoundName(sig.params[i])
    BY <1>3
  <2> HIDE DEF formals
  <2>4. QED
    BY <1>3, <2>1, <2>2, <2>3, LenProperties
<1>6. /\ info.funObjId = obj /\ info.entry = entry /\ info.exit = exit
      /\ info.retVal = LastId(whole) /\ info.formals = formals /\ ~info.defined
  OBVIOUS
<1> HIDE DEF blocks, row, formals
<1>7. LastId(pag) \in Nat /\ obj + 1 = LastId(pag) + 2
  BY NextIsNew
<1>8. /\ IsPag(addr, blocks, Names) /\ LastId(addr) = obj + 1
      /\ addr.stmt = pag.stmt \cup {Stmt("Addr", obj, obj + 1, 0)}
      /\ addr.node[obj].kind = "fun" /\ addr.node[obj + 1] = ValNode(GlobalNode, f)
  <2>1. addr = AddStmt(AddVal(AddNode(pag, Node("fun", TRUE, NullId, None, 1)), GlobalNode, f),
                       "Addr", LastId(pag) + 1, LastId(pag) + 2, 0)
    BY <1>7
  <2> HIDE DEF addr
  <2>2. IsPag(addr, blocks, Names) /\ LastId(addr) = LastId(pag) + 2
    BY <1>2, <2>1, RegisterObject
  <2>3. /\ addr.stmt = pag.stmt \cup {Stmt("Addr", LastId(pag) + 1, LastId(pag) + 2, 0)}
        /\ addr.node[LastId(pag) + 1].kind = "fun"
        /\ addr.node[LastId(pag) + 2] = ValNode(GlobalNode, f)
    BY <1>2, <2>1, FunctionAdded
  <2>4. QED
    BY <1>7, <2>2, <2>3
<1> HIDE DEF addr, whole, entry, exit
<1>81. whole = AddVal(AddVals(addr, entry, row), exit, None)
  BY DEF whole
<1>82. RowAdds(addr, whole, entry, exit, row)
  <2>1. /\ IsPag(addr, blocks, Names) /\ entry \in Ids(blocks) /\ exit \in Ids(blocks)
        /\ row \in Seq(Names)
    BY <1>2, <1>4, <1>8
  <2>2. QED
    BY ONLY <2>1, <1>81, RowAdded
<1>9. /\ whole.stmt = addr.stmt /\ LastId(addr) \in Nat
      /\ LastId(whole) = LastId(addr) + Len(row) + 1
      /\ \A i \in 1..Len(row) : whole.node[LastId(addr) + i] = ValNode(entry, row[i])
      /\ whole.node[LastId(whole)] = ValNode(exit, None)
      /\ \A i \in Ids(addr) : whole.node[i] = addr.node[i]
  BY ONLY <1>82 DEF RowAdds
<1>10. obj \in Ids(addr) /\ obj + 1 \in Ids(addr)
  BY <1>7, <1>8 DEF Ids, LastId
<1>11. \A i \in DOMAIN formals : whole.node[formals[i].val] = ValNode(entry, formals[i].name)
  BY <1>3, <1>4, <1>5, <1>8, <1>9
<1>12. LastId(whole) = obj + 2 + Len(formals) /\ Len(formals) \in Nat
  <2>1. obj \in Nat
    BY <1>7
  <2> HIDE DEF obj
  <2>2. LastId(whole) = obj + 1 + Len(sig.params) + 1
    <3>1. /\ LastId(whole) = LastId(addr) + Len(row) + 1 /\ LastId(addr) = obj + 1
          /\ Len(row) = Len(sig.params)
      BY <1>4, <1>8, <1>9
    <3>2. QED
      BY ONLY <3>1
  <2>3. Len(formals) = Len(sig.params) /\ Len(formals) \in Nat
    BY <1>3, <1>5
  <2>4. \A o, n \in Nat : o + 1 + n + 1 = o + 2 + n
    OBVIOUS
  <2>5. QED
    BY ONLY <2>1, <2>2, <2>3, <2>4, Zenon
<1> HIDE DEF info
<1>13. /\ DOMAIN funcInfos' = DOMAIN funcInfos \cup {f} /\ funcInfos'[f] = info
       /\ \A g \in DOMAIN funcInfos : funcInfos'[g] = funcInfos[g]
  BY <1>1 DEF Bind
<1>14. /\ pag'.stmt = pag.stmt \cup {Stmt("Addr", obj, obj + 1, 0)}
       /\ pag'.node[obj].kind = "fun" /\ pag'.node[obj + 1] = ValNode(GlobalNode, f)
  BY <1>1, <1>8, <1>9, <1>10
<1>15. /\ info.retVal = LastId(pag') /\ LastId(pag') = obj + 2 + Len(formals)
       /\ pag'.node[info.retVal] = ValNode(exit, None)
  BY <1>1, <1>6, <1>9, <1>12
<1>16. /\ Extends(icfg, icfg') /\ icfg'.edge = icfg.edge /\ LastId(icfg') = LastId(icfg) + 2
       /\ icfg'.node[info.entry] = [kind |-> "entry", bb |-> f]
       /\ icfg'.node[info.exit] = [kind |-> "exit", bb |-> f]
  BY <1>1, <1>2, <1>6
<1>17. info.entry = LastId(icfg) + 1 /\ info.exit = LastId(icfg) + 2
  BY <1>6 DEF entry, exit
<1>18. \A i \in DOMAIN info.formals :
         /\ info.formals[i].val = obj + 1 + i
         /\ pag'.node[info.formals[i].val] = ValNode(info.entry, info.formals[i].name)
  BY <1>1, <1>5, <1>6, <1>11
<1> HIDE DEF sym, obj
<1>19. QED
  BY <1>1, <1>5, <1>6, <1>12, <1>13, <1>14, <1>15, <1>16, <1>17, <1>18 DEF Registers, obj, sym

LEMMA RegistersHold ==
  ASSUME TypeOK, NEW f \in Funs, NEW sig \in Signatures, PrescanFunctionDef(f, sig), Registers(f)
  PROVE  Held' \subseteq Held \cup {LastId(pag) + 2}
<1> DEFINE sym == Symbol(FunTy, LastId(pag) + 1, LastId(pag) + 1 + 1, TRUE, FALSE)
<1>1. globals' = Bind(globals, f, sym) /\ UNCHANGED <<scopes, stack, target>>
  BY DEF Registers, PrescanFunctionDef, cursor
<1>2. sym.valId = LastId(pag) + 2
  BY NextIsNew DEF Symbol
<1> HIDE DEF sym
<1>3. \A y \in DOMAIN globals' : globals'[y].valId = LastId(pag) + 2 \/ (y \in DOMAIN globals /\ globals'[y] = globals[y])
  BY <1>1, <1>2, BindHolds
<1>4. QED
  BY <1>1, <1>3, DeclaredHolds

-----------------------------------------------------------------------------
(* What a step may add to the ICFG *)

EntersBody(f) ==
  /\ Extends(icfg, icfg') /\ LastId(icfg') = LastId(icfg) + 1
  /\ icfg'.node[LastId(icfg) + 1] = [kind |-> "intra", bb |-> f]
  /\ icfg'.edge = icfg.edge \cup
       {[kind |-> "seq", from |-> funcInfos[f].entry, to |-> LastId(icfg) + 1]}

LeavesBody(f) ==
  /\ Extends(icfg, icfg') /\ icfg'.node = icfg.node
  /\ icfg'.edge = icfg.edge \cup
       (IF currentICFG = NullId THEN {}
        ELSE {[kind |-> "seq", from |-> currentICFG, to |-> funcInfos[f].exit]})

MakesCall(f) ==
  LET call == LastId(icfg) + 1
      ret  == LastId(icfg) + 2
  IN  /\ Extends(icfg, icfg') /\ LastId(icfg') = LastId(icfg) + 2
      /\ icfg'.node[call] = [kind |-> "call", bb |-> currentBB]
      /\ icfg'.node[ret] = [kind |-> "ret", bb |-> currentBB]
      /\ icfg'.edge = icfg.edge
           \cup (IF currentICFG = NullId THEN {}
                 ELSE {[kind |-> "seq", from |-> currentICFG, to |-> call]})
           \cup {[kind |-> "call", from |-> call, to |-> funcInfos[f].entry],
                 [kind |-> "ret", from |-> funcInfos[f].exit, to |-> ret]}

LEMMA BodyAdded ==
  ASSUME TypeOK, NEW f \in DOMAIN funcInfos,
         icfg' = AddIcfgEdge(AddIcfgNode(icfg, "intra", f), "seq", funcInfos[f].entry,
                             LastId(icfg) + 1)
  PROVE  EntersBody(f)
<1> DEFINE b == AddIcfgNode(icfg, "intra", f)
           entry == funcInfos[f].entry
           body == LastId(icfg) + 1
<1>1. IsIcfg(icfg, Funs \cup {None}) /\ f \in Funs \cup {None} /\ "intra" \in IcfgKinds
  BY DEF TypeOK, GraphsOK, FuncsOK, IsTable, IcfgKinds
<1>2. entry \in Ids(icfg)
  BY FuncInfoTyped DEF FuncInfoType
<1>3. icfg' = AddIcfgEdge(b, "seq", entry, body)
  OBVIOUS
<1>4. /\ IsIcfg(b, Funs \cup {None}) /\ Extends(icfg, b) /\ b.edge = icfg.edge
      /\ LastId(icfg) \in Nat /\ LastId(b) = LastId(icfg) + 1
      /\ b.node[body] = [kind |-> "intra", bb |-> f]
  BY <1>1, AddIcfgNodeFacts, AddIcfgNodeAdds
<1> HIDE DEF b
<1>5. body \in Ids(b) /\ entry \in Ids(b) /\ entry # NullId
  BY <1>2, <1>4 DEF Ids, LastId, NullId
<1> HIDE DEF entry
<1>6. /\ Extends(b, icfg') /\ icfg'.node = b.node
      /\ icfg'.edge = b.edge \cup {[kind |-> "seq", from |-> entry, to |-> body]}
  BY <1>3, <1>4, <1>5, AddIcfgEdgeAdds
<1>7. LastId(icfg') = LastId(icfg) + 1
  BY <1>4, <1>6 DEF LastId
<1>8. QED
  BY <1>4, <1>6, <1>7, ExtendsTrans DEF EntersBody, entry

LEMMA ExitAdded ==
  ASSUME TypeOK, NEW f \in DOMAIN funcInfos,
         icfg' = AddIcfgEdge(icfg, "seq", currentICFG, funcInfos[f].exit)
  PROVE  LeavesBody(f)
<1>1. IsIcfg(icfg, Funs \cup {None}) /\ currentICFG \in {NullId} \cup Ids(icfg)
  BY AnchorTyped DEF TypeOK, GraphsOK
<1>2. funcInfos[f].exit \in Ids(icfg)
  BY FuncInfoTyped DEF FuncInfoType
<1>3. QED
  BY <1>1, <1>2, AddIcfgEdgeAdds DEF LeavesBody

LEMMA CallAdded ==
  ASSUME TypeOK, NEW f \in Funs, NEW n, VisitCall(f, n)
  PROVE  MakesCall(f)
<1> DEFINE fi == funcInfos[f]
           call == LastId(icfg) + 1
           ret == LastId(icfg) + 2
           b == AddIcfgNode(icfg, "call", currentBB)
           c == AddIcfgNode(b, "ret", currentBB)
           d == AddIcfgEdge(c, "seq", currentICFG, call)
           e == AddIcfgEdge(d, "call", call, fi.entry)
<1>1. icfg' = AddIcfgEdge(e, "ret", fi.exit, ret) /\ f \in DOMAIN funcInfos
  BY DEF VisitCall, Callable
<1>2. IsIcfg(icfg, Funs \cup {None}) /\ currentBB \in Funs \cup {None} /\ currentICFG \in {NullId} \cup Ids(icfg)
  BY AnchorTyped DEF TypeOK, GraphsOK, CurrentOK, FuncsOK, IsTable
<1>3. fi.entry \in Ids(icfg) /\ fi.exit \in Ids(icfg)
  BY <1>1, FuncInfoTyped DEF FuncInfoType
<1>4. {"call", "ret"} \subseteq IcfgKinds /\ {"seq", "call", "ret"} \subseteq EdgeKinds
  BY DEF IcfgKinds, EdgeKinds
<1>5. /\ IsIcfg(b, Funs \cup {None}) /\ Extends(icfg, b) /\ b.edge = icfg.edge
      /\ LastId(icfg) \in Nat /\ LastId(b) = call
      /\ b.node[call] = [kind |-> "call", bb |-> currentBB]
  BY <1>2, <1>4, AddIcfgNodeFacts, AddIcfgNodeAdds
<1> HIDE DEF b
<1>6. /\ IsIcfg(c, Funs \cup {None}) /\ Extends(b, c) /\ c.edge = icfg.edge
      /\ LastId(c) = ret /\ c.node[ret] = [kind |-> "ret", bb |-> currentBB]
  <2>1. /\ IsIcfg(c, Funs \cup {None}) /\ Extends(b, c) /\ c.edge = b.edge
        /\ LastId(c) = LastId(b) + 1
        /\ c.node[LastId(b) + 1] = [kind |-> "ret", bb |-> currentBB]
    BY <1>2, <1>4, <1>5, AddIcfgNodeFacts, AddIcfgNodeAdds
  <2>2. LastId(b) + 1 = ret
    BY <1>5
  <2>3. QED
    BY <1>5, <2>1, <2>2
<1> HIDE DEF c
<1>7. /\ Ids(icfg) \subseteq Ids(c) /\ call \in Ids(c) /\ ret \in Ids(c)
      /\ c.node[call] = [kind |-> "call", bb |-> currentBB]
  <2>1. /\ Ids(icfg) \subseteq Ids(b) /\ Ids(b) \subseteq Ids(c)
        /\ \A i \in Ids(b) : c.node[i] = b.node[i]
    BY <1>5, <1>6, CoversIds DEF Extends
  <2>2. call \in Nat \ {0} /\ ret \in Nat \ {0}
    BY <1>5
  <2>3. call \in Ids(b) /\ ret \in Ids(c)
    BY <1>5, <1>6, <2>2 DEF Ids, LastId
  <2>4. QED
    BY <1>5, <2>1, <2>3
<1>8. Extends(icfg, c)
  BY <1>5, <1>6, ExtendsTrans
<1> HIDE DEF call, ret, fi
<1>9. /\ IsIcfg(d, Funs \cup {None}) /\ Extends(c, d) /\ d.node = c.node
      /\ d.edge = icfg.edge \cup (IF currentICFG = NullId THEN {}
                                  ELSE {[kind |-> "seq", from |-> currentICFG, to |-> call]})
  <2>1. currentICFG \in {NullId} \cup Ids(c) /\ call \in Ids(c) /\ "seq" \in EdgeKinds
    BY <1>2, <1>4, <1>7
  <2>2. IsIcfg(c, Funs \cup {None}) /\ c.edge = icfg.edge
    BY <1>6
  <2>3. IsIcfg(d, Funs \cup {None})
    BY ONLY <2>1, <2>2, AddIcfgEdgeFacts
  <2>4. /\ Extends(c, d) /\ d.node = c.node
        /\ d.edge = c.edge \cup (IF currentICFG = NullId THEN {}
                                 ELSE {[kind |-> "seq", from |-> currentICFG, to |-> call]})
    BY ONLY <2>1, <2>2, AddIcfgEdgeAdds
  <2>5. QED
    BY ONLY <2>2, <2>3, <2>4
<1> HIDE DEF d
<1>10. Ids(d) = Ids(c) /\ NullId \notin Ids(c)
  BY <1>9 DEF Ids, NullId
<1>11. /\ IsIcfg(e, Funs \cup {None}) /\ Extends(d, e) /\ e.node = d.node
       /\ e.edge = d.edge \cup {[kind |-> "call", from |-> call, to |-> fi.entry]}
  <2>1. call \in Ids(d) /\ fi.entry \in Ids(d) /\ call # NullId
    BY <1>3, <1>7, <1>10
  <2>2. QED
    BY <1>4, <1>9, <2>1, AddIcfgEdgeFacts, AddIcfgEdgeAdds
<1> HIDE DEF e
<1>12. /\ Extends(e, icfg') /\ icfg'.node = e.node
       /\ icfg'.edge = e.edge \cup {[kind |-> "ret", from |-> fi.exit, to |-> ret]}
  <2>1. Ids(e) = Ids(c)
    BY <1>10, <1>11 DEF Ids
  <2>2. ret \in Ids(e) /\ fi.exit \in Ids(e) /\ fi.exit # NullId
    BY <1>3, <1>7, <1>10, <2>1
  <2>3. QED
    BY <1>1, <1>11, <2>2, AddIcfgEdgeAdds
<1>13. Extends(icfg, icfg')
  BY <1>8, <1>9, <1>11, <1>12, ExtendsTrans
<1>14. icfg'.node = c.node /\ LastId(icfg') = ret
  BY <1>6, <1>9, <1>11, <1>12 DEF LastId
<1>15. QED
  BY <1>6, <1>7, <1>9, <1>11, <1>12, <1>13, <1>14 DEF MakesCall, call, ret, fi

\* The ICFG grows by the blocks of a function, by its body, by the way out of it, or by a call.
LEMMA StepIcfg ==
  ASSUME TypeOK, [Next]_vars
  PROVE  \/ UNCHANGED icfg
         \/ \E f \in Funs, sig \in Signatures :
              f \notin DOMAIN funcInfos /\ PrescanFunctionDef(f, sig) /\ Registers(f)
         \/ VisitFunctionDef /\ ~AlreadyDefined(Head(pending)) /\ EntersBody(Head(pending))
         \/ LeaveFunctionDef /\ LeavesBody(currentFunc)
         \/ \E f \in Funs, n \in 0..MaxStack : VisitCall(f, n) /\ MakesCall(f)
<1>1. CASE ExprStep
  <2>1. ASSUME NEW f \in Funs, NEW n \in 0..MaxStack, VisitCall(f, n)
        PROVE  MakesCall(f)
    BY <2>1, CallAdded
  <2>2. CASE ~ \E f \in Funs, n \in 0..MaxStack : VisitCall(f, n)
    BY <1>1, <2>2 DEF ExprStep, VisitIdentifier, VisitNumber, VisitString, VisitNull, VisitParenthesized,
       VisitAddressOf, VisitDeref, VisitLastChild, VisitBinary, VisitAssignIdentifier, VisitAssignThrough,
       VisitAssignParenthesized, Assigned, VisitField, YieldPlace, YieldLoaded, VisitSubscript, VisitAllocation,
       VisitUnknownCall, VisitCast, Yield, YieldFresh, Return
  <2>3. QED
    BY <2>1, <2>2
<1>2. CASE BodyStep
  <2>1. ASSUME VisitFunctionDef
        PROVE  \/ UNCHANGED icfg
               \/ ~AlreadyDefined(Head(pending)) /\ EntersBody(Head(pending))
    <3>1. Head(pending) \in DOMAIN funcInfos
      BY <2>1, HeadTailProperties DEF VisitFunctionDef, MarkVisited, TypeOK, FileOK
    <3>2. QED
      BY <2>1, <3>1, BodyAdded DEF VisitFunctionDef, MarkVisited
  <2>2. ASSUME LeaveFunctionDef
        PROVE  LeavesBody(currentFunc)
    BY <2>2, ExitAdded DEF LeaveFunctionDef, TypeOK, CurrentOK
  <2>3. CASE ~VisitFunctionDef /\ ~LeaveFunctionDef
    BY <1>2, <2>3 DEF BodyStep, BindFormal, EnterBody, EnterBlock, ExitBlock, VisitFor, VisitForClause,
       EndFor, VisitLocalDecl, SkipFunctionPointer, EndInitializer, VisitExprStmt, VisitReturn, graphs
  <2>4. QED
    BY <2>1, <2>2, <2>3
<1>3. CASE UnitStep
  <2>1. ASSUME NEW f \in Funs, NEW sig \in Signatures, PrescanFunctionDef(f, sig)
        PROVE  UNCHANGED icfg \/ (f \notin DOMAIN funcInfos /\ Registers(f))
    BY <2>1, RegistersAll DEF PrescanFunctionDef
  <2>2. CASE ~ \E f \in Funs, sig \in Signatures : PrescanFunctionDef(f, sig)
    BY <1>3, <2>2 DEF UnitStep, StartUnit, EndPrescan, EndUnit, VisitStructSpecifier, VisitTypeDefinition,
       VisitGlobalDecl, VisitPrototype, graphs
  <2>3. QED
    BY <2>1, <2>2
<1>4. CASE UNCHANGED vars
  BY <1>4 DEF vars, graphs
<1>5. QED
  BY <1>1, <1>2, <1>3, <1>4 DEF Next

LEMMA StepExtends ==
  ASSUME TypeOK, [Next]_vars
  PROVE  Extends(icfg, icfg')
<1>1. UNCHANGED icfg => Extends(icfg, icfg')
  BY ExtendsRefl DEF TypeOK, GraphsOK
<1>2. QED
  BY <1>1, StepIcfg DEF Registers, EntersBody, LeavesBody, MakesCall

-----------------------------------------------------------------------------
(* The interfaces of functions *)

\* What a step leaves of the functions that were registered before it.
KeepsFunctions ==
  \A g \in DOMAIN funcInfos :
    /\ g \in DOMAIN funcInfos'
    /\ funcInfos'[g].entry = funcInfos[g].entry /\ funcInfos'[g].exit = funcInfos[g].exit
    /\ funcInfos'[g].retVal = funcInfos[g].retVal /\ funcInfos'[g].formals = funcInfos[g].formals
    /\ funcInfos'[g].retIsPtr = funcInfos[g].retIsPtr
    /\ funcInfos'[g].funObjId = funcInfos[g].funObjId

LEMMA SameInterfacesKeep ==
  ASSUME TypeOK, SameInterfaces
  PROVE  KeepsFunctions
<1> SUFFICES ASSUME NEW g \in DOMAIN funcInfos
             PROVE  /\ g \in DOMAIN funcInfos'
                    /\ funcInfos'[g].entry = funcInfos[g].entry /\ funcInfos'[g].exit = funcInfos[g].exit
                    /\ funcInfos'[g].retVal = funcInfos[g].retVal /\ funcInfos'[g].formals = funcInfos[g].formals
                    /\ funcInfos'[g].retIsPtr = funcInfos[g].retIsPtr
                    /\ funcInfos'[g].funObjId = funcInfos[g].funObjId
  BY DEF KeepsFunctions
<1>1. PICK b \in BOOLEAN : funcInfos'[g] = [funcInfos[g] EXCEPT !.defined = b]
  BY DEF SameInterfaces
<1>2. funcInfos[g] \in FuncInfoType
  BY FuncInfoTyped
<1>3. QED
  BY <1>1, <1>2 DEF SameInterfaces, FuncInfoType

LEMMA StepKeepsFunctions ==
  ASSUME TypeOK, [Next]_vars
  PROVE  KeepsFunctions
<1>1. Flows => KeepsFunctions
  BY SameInterfacesKeep DEF Flows
<1>2. ASSUME NEW f, Registers(f)
      PROVE  KeepsFunctions
  BY <1>2 DEF Registers, KeepsFunctions
<1>3. QED
  BY <1>1, <1>2, StepFlows, RegistersAll

\* The formals keep their ids, and so do the interfaces.
LEMMA InterfaceKept ==
  ASSUME KeepsFunctions, NEW g \in DOMAIN funcInfos
  PROVE  Formals(g)' = Formals(g) /\ Interface(g)' = Interface(g)
BY DEF KeepsFunctions, Formals, Interface

LEMMA FlowsKeepInterfaces ==
  ASSUME TypeOK, InterfaceInv, Flows, Grows(pag, pag'), Extends(icfg, icfg')
  PROVE  InterfacesApart' /\ InterfacesUnheld' /\ InterfaceNodes'
<1>1. KeepsFunctions /\ DOMAIN funcInfos' = DOMAIN funcInfos
  BY SameInterfacesKeep DEF Flows, SameInterfaces
<1>2. InterfacesApart'
  BY <1>1, InterfaceKept DEF InterfaceInv, InterfacesApart, KeepsFunctions
<1>3. InterfacesUnheld'
  <2>1. \A f \in DOMAIN funcInfos : Interface(f) \subseteq Ids(pag)
    BY InterfaceTyped DEF Vals
  <2>2. Held' \subseteq Held \cup New /\ New \cap Ids(pag) = {}
    BY DEF Flows, New, Fresh
  <2>3. QED
    BY <1>1, <2>1, <2>2, InterfaceKept DEF InterfaceInv, InterfacesUnheld
<1>4. InterfaceNodes'
  <2>1. ASSUME NEW f \in DOMAIN funcInfos
        PROVE  LET fi == funcInfos'[f]
               IN  /\ icfg'.node[fi.entry] = [kind |-> "entry", bb |-> f]
                   /\ icfg'.node[fi.exit] = [kind |-> "exit", bb |-> f]
                   /\ pag'.node[fi.retVal].at = fi.exit
                   /\ \A i \in DOMAIN fi.formals :
                        /\ pag'.node[fi.formals[i].val].name = fi.formals[i].name
                        /\ pag'.node[fi.formals[i].val].at = fi.entry
    <3>1. funcInfos[f].entry \in Ids(icfg) /\ funcInfos[f].exit \in Ids(icfg)
      BY FuncInfoTyped DEF FuncInfoType
    <3>2. funcInfos[f].retVal \in Ids(pag) /\ \A i \in DOMAIN funcInfos[f].formals : funcInfos[f].formals[i].val \in Ids(pag)
      BY InterfaceTyped DEF FormalType, Vals
    <3>3. LET fi == funcInfos[f]
          IN  /\ icfg'.node[fi.entry] = [kind |-> "entry", bb |-> f]
              /\ icfg'.node[fi.exit] = [kind |-> "exit", bb |-> f]
              /\ pag'.node[fi.retVal].at = fi.exit
              /\ \A i \in DOMAIN fi.formals :
                   /\ pag'.node[fi.formals[i].val].name = fi.formals[i].name
                   /\ pag'.node[fi.formals[i].val].at = fi.entry
      BY <3>1, <3>2 DEF InterfaceInv, InterfaceNodes, Grows, Extends
    <3>4. QED
      BY <1>1, <3>3 DEF KeepsFunctions
  <2>2. QED
    BY <1>1, <2>1 DEF InterfaceNodes
<1>5. QED
  BY <1>2, <1>3, <1>4

\* The ids of a new interface are new.
LEMMA NewInterface ==
  ASSUME TypeOK, NEW f, Registers(f)
  PROVE  /\ f \in DOMAIN funcInfos'
         /\ \A i \in Interface(f)' : i \notin Ids(pag) /\ i # LastId(pag) + 1 /\ i # LastId(pag) + 2
         /\ funcInfos'[f].retVal \notin Formals(f)'
         /\ \A i, j \in DOMAIN funcInfos'[f].formals :
              funcInfos'[f].formals[i].val = funcInfos'[f].formals[j].val => i = j
<1> DEFINE fi == funcInfos'[f]
           n == Len(fi.formals)
<1>1. LastId(pag) \in Nat
  BY NextIsNew
<1>2. /\ f \in DOMAIN funcInfos' /\ DOMAIN fi.formals = 1..n /\ n \in Nat
      /\ \A i \in DOMAIN fi.formals : fi.formals[i].val = LastId(pag) + 2 + i
      /\ fi.retVal = LastId(pag) + 3 + n
  BY <1>1 DEF Registers
<1>3. \A i \in Interface(f)' : i = fi.retVal \/ \E j \in 1..n : i = LastId(pag) + 2 + j
  BY <1>2 DEF Interface, Formals
<1> HIDE DEF fi, n
<1>4. \A i \in Interface(f)' : i \in Nat /\ i > LastId(pag) + 2
  BY <1>1, <1>2, <1>3
<1>5. \A i \in Interface(f)' : i \notin Ids(pag) /\ i # LastId(pag) + 1 /\ i # LastId(pag) + 2
  BY <1>1, <1>4 DEF Ids, LastId
<1>6. fi.retVal \notin Formals(f)'
  BY <1>1, <1>2 DEF Formals, fi
<1>7. \A i, j \in DOMAIN fi.formals : fi.formals[i].val = fi.formals[j].val => i = j
  BY <1>1, <1>2
<1>8. QED
  BY <1>2, <1>5, <1>6, <1>7 DEF fi

LEMMA RegistersInterfaces ==
  ASSUME TypeOK, InterfaceInv, NEW f, Registers(f), Held' \subseteq Held \cup {LastId(pag) + 2},
         Grows(pag, pag')
  PROVE  InterfacesApart' /\ InterfacesUnheld' /\ InterfaceNodes'
<1>1. KeepsFunctions /\ DOMAIN funcInfos' = DOMAIN funcInfos \cup {f} /\ f \notin DOMAIN funcInfos
  BY DEF Registers, KeepsFunctions
<1>2. \A g \in DOMAIN funcInfos : Interface(g) \subseteq Ids(pag)
  BY InterfaceTyped DEF Vals
<1>3. InterfacesApart'
  <2>1. \A g \in DOMAIN funcInfos : Interface(f)' \cap Interface(g)' = {}
    BY <1>1, <1>2, NewInterface, InterfaceKept
  <2>2. \A g, h \in DOMAIN funcInfos' : g # h => Interface(g)' \cap Interface(h)' = {}
    BY <1>1, <2>1, InterfaceKept DEF InterfaceInv, InterfacesApart
  <2>3. \A g \in DOMAIN funcInfos' :
          /\ funcInfos'[g].retVal \notin Formals(g)'
          /\ \A i, j \in DOMAIN funcInfos'[g].formals :
               funcInfos'[g].formals[i].val = funcInfos'[g].formals[j].val => i = j
    BY <1>1, NewInterface, InterfaceKept DEF InterfaceInv, InterfacesApart, KeepsFunctions
  <2>4. QED
    BY <2>2, <2>3 DEF InterfacesApart
<1>4. InterfacesUnheld'
  <2>1. Held \subseteq Ids(pag)
    BY HeldTyped DEF Vals
  <2>2. Held' \cap Interface(f)' = {}
    BY <2>1, NewInterface
  <2>3. ASSUME NEW g \in DOMAIN funcInfos
        PROVE  Held' \cap Interface(g)' = {}
    BY <1>1, <1>2, NextIsNew, InterfaceKept DEF InterfaceInv, InterfacesUnheld
  <2>4. QED
    BY <1>1, <2>2, <2>3 DEF InterfacesUnheld
<1>5. InterfaceNodes'
  <2>1. ASSUME NEW g \in DOMAIN funcInfos
        PROVE  LET fi == funcInfos'[g]
               IN  /\ icfg'.node[fi.entry] = [kind |-> "entry", bb |-> g]
                   /\ icfg'.node[fi.exit] = [kind |-> "exit", bb |-> g]
                   /\ pag'.node[fi.retVal].at = fi.exit
                   /\ \A i \in DOMAIN fi.formals :
                        /\ pag'.node[fi.formals[i].val].name = fi.formals[i].name
                        /\ pag'.node[fi.formals[i].val].at = fi.entry
    <3>1. funcInfos[g].entry \in Ids(icfg) /\ funcInfos[g].exit \in Ids(icfg)
      BY FuncInfoTyped DEF FuncInfoType
    <3>2. funcInfos[g].retVal \in Ids(pag) /\ \A i \in DOMAIN funcInfos[g].formals : funcInfos[g].formals[i].val \in Ids(pag)
      BY InterfaceTyped DEF FormalType, Vals
    <3>3. funcInfos'[g] = funcInfos[g] /\ Extends(icfg, icfg')
      BY DEF Registers
    <3>4. QED
      BY <3>1, <3>2, <3>3 DEF InterfaceInv, InterfaceNodes, Grows, Extends
  <2>2. /\ icfg'.node[funcInfos'[f].entry] = [kind |-> "entry", bb |-> f]
        /\ icfg'.node[funcInfos'[f].exit] = [kind |-> "exit", bb |-> f]
        /\ pag'.node[funcInfos'[f].retVal].at = funcInfos'[f].exit
    BY DEF Registers, ValNode, Node
  <2>3. ASSUME NEW i \in DOMAIN funcInfos'[f].formals
        PROVE  /\ pag'.node[funcInfos'[f].formals[i].val].name = funcInfos'[f].formals[i].name
               /\ pag'.node[funcInfos'[f].formals[i].val].at = funcInfos'[f].entry
    <3>1. pag'.node[funcInfos'[f].formals[i].val] = ValNode(funcInfos'[f].entry, funcInfos'[f].formals[i].name)
      BY DEF Registers
    <3>2. QED
      BY <3>1 DEF ValNode, Node
  <2>4. QED
    BY <1>1, <2>1, <2>2, <2>3 DEF InterfaceNodes
<1>6. QED
  BY <1>3, <1>4, <1>5

\* A step that keeps what is current, and its formals or the frame of their function.
LEMMA CurrentKeptBy ==
  ASSUME TypeOK, InterfaceInv, KeepsFunctions,
         UNCHANGED <<currentFunc, currentRetVal, currentRetIsPtr, toBind>>,
         toBind # <<>> => UNCHANGED frames
  PROVE  CurrentInterface'
<1>1. ASSUME currentRetVal # NullId
      PROVE  /\ currentFunc # None /\ currentRetVal = funcInfos'[currentFunc].retVal
             /\ currentRetIsPtr = funcInfos'[currentFunc].retIsPtr
  <2>1. /\ currentFunc # None /\ currentRetVal = funcInfos[currentFunc].retVal
        /\ currentRetIsPtr = funcInfos[currentFunc].retIsPtr
    BY <1>1 DEF InterfaceInv, CurrentInterface
  <2>2. currentFunc \in DOMAIN funcInfos
    BY <2>1 DEF TypeOK, CurrentOK
  <2>3. QED
    BY <2>1, <2>2 DEF KeepsFunctions
<1>2. ASSUME toBind # <<>>
      PROVE  frames' # <<>> /\ Top'  = "params"
  BY <1>2 DEF InterfaceInv, CurrentInterface, Top
<1>3. ASSUME NEW i \in DOMAIN toBind
      PROVE  \E j \in DOMAIN funcInfos'[currentFunc].formals :
               toBind[i] = funcInfos'[currentFunc].formals[j]
  <2>1. toBind # <<>>
    BY <1>3 DEF TypeOK, FramesOK
  <2>2. currentFunc \in DOMAIN funcInfos
    BY <2>1 DEF InterfaceInv, CurrentInterface, TypeOK, CurrentOK
  <2>3. QED
    BY <2>2 DEF InterfaceInv, CurrentInterface, KeepsFunctions
<1>4. QED
  BY <1>1, <1>2, <1>3 DEF CurrentInterface

\* In a body no formal is left to be bound.
LEMMA InnerBound ==
  ASSUME InterfaceInv, Top # "params"
  PROVE  toBind = <<>>
BY DEF InterfaceInv, CurrentInterface

LEMMA FunctionDefCurrent ==
  ASSUME TypeOK, InterfaceInv, KeepsFunctions, VisitFunctionDef
  PROVE  CurrentInterface'
<1> DEFINE f == Head(pending)
           fi == funcInfos[f]
<1>1. \/ UNCHANGED <<current, frames, toBind>>
      \/ /\ currentFunc' = f /\ currentRetVal' = fi.retVal /\ currentRetIsPtr' = fi.retIsPtr
         /\ frames' = <<Frame("params")>> /\ toBind' = fi.formals
  BY DEF VisitFunctionDef, MarkVisited
<1>2. f \in DOMAIN funcInfos
  BY HeadTailProperties DEF VisitFunctionDef, MarkVisited, TypeOK, FileOK
<1>3. f # None
  BY <1>2, FuncInfoTyped, NameAssumption
<1>4. CASE UNCHANGED <<current, frames, toBind>>
  BY <1>4, CurrentKeptBy DEF current
<1>5. CASE /\ currentFunc' = f /\ currentRetVal' = fi.retVal /\ currentRetIsPtr' = fi.retIsPtr
           /\ frames' = <<Frame("params")>> /\ toBind' = fi.formals
  <2>1. frames' # <<>> /\ Top' = "params"
    BY <1>5 DEF Top, Frame
  <2> HIDE DEF f
  <2>2. QED
    BY <1>2, <1>3, <1>5, <2>1 DEF CurrentInterface, KeepsFunctions
<1>6. QED
  BY <1>1, <1>4, <1>5

LEMMA BindFormalCurrent ==
  ASSUME TypeOK, LifecycleInv, InterfaceInv, KeepsFunctions, BindFormal
  PROVE  CurrentInterface'
<1> DEFINE n == Len(frames)
           fr == [frames[n] EXCEPT !.env = Bind(@, Head(toBind).source, LastId(pag) + 2)]
<1>1. /\ toBind # <<>> /\ toBind' = Tail(toBind)
      /\ frames' = [frames EXCEPT ![n] = fr]
      /\ UNCHANGED <<currentFunc, currentRetVal, currentRetIsPtr>>
  BY DEF BindFormal, Declared, current
<1>2. frames # <<>> /\ Top = "params"
  BY <1>1 DEF InterfaceInv, CurrentInterface
<1>3. n \in DOMAIN frames /\ IsSequence(frames) /\ n \in Nat
  BY <1>2, FramesSequence
<1>4. fr.kind = frames[n].kind
  <2>1. IsFrame(frames[n], {NullId} \cup Vals(pag))
    BY <1>3 DEF TypeOK, FramesOK
  <2>2. QED
    BY <2>1 DEF IsFrame
<1> HIDE DEF n, fr
<1>5. Len(frames') = n /\ frames'[n] = fr /\ frames' # <<>>
  BY <1>1, <1>3, <1>4, ReplaceFacts, NestedNonempty DEF n
<1>6. Top' = "params"
  BY <1>2, <1>4, <1>5 DEF Top, n
<1>7. currentFunc \in DOMAIN funcInfos
  BY <1>2 DEF TypeOK, CurrentOK
<1>8. ASSUME NEW i \in DOMAIN toBind'
      PROVE  \E j \in DOMAIN funcInfos[currentFunc].formals :
               toBind'[i] = funcInfos[currentFunc].formals[j]
  <2>1. toBind \in Seq(FormalType) /\ Tail(toBind) \in Seq(FormalType)
    BY <1>1, HeadTailProperties DEF TypeOK, FramesOK
  <2>2. /\ Len(toBind) \in Nat /\ DOMAIN toBind = 1..Len(toBind)
        /\ Len(Tail(toBind)) = Len(toBind) - 1 /\ DOMAIN Tail(toBind) = 1..Len(Tail(toBind))
        /\ \A k \in 1..Len(Tail(toBind)) : Tail(toBind)[k] = toBind[k + 1]
    BY <1>1, <2>1, HeadTailProperties, LenProperties
  <2>3. i + 1 \in DOMAIN toBind /\ toBind'[i] = toBind[i + 1]
    BY <1>1, <1>8, <2>2
  <2>4. QED
    BY <2>3 DEF InterfaceInv, CurrentInterface
<1>9. funcInfos' = funcInfos
  BY DEF BindFormal
<1>10. currentRetVal # NullId => /\ currentFunc # None
                                 /\ currentRetVal = funcInfos[currentFunc].retVal
                                 /\ currentRetIsPtr = funcInfos[currentFunc].retIsPtr
  BY DEF InterfaceInv, CurrentInterface
<1>11. QED
  BY <1>1, <1>5, <1>6, <1>8, <1>9, <1>10 DEF CurrentInterface

LEMMA LeaveCurrent ==
  ASSUME TypeOK, InterfaceInv, LeaveFunctionDef
  PROVE  CurrentInterface'
<1>1. toBind = <<>>
  BY InnerBound DEF LeaveFunctionDef
<1>2. toBind' = <<>> /\ currentRetVal' = NullId
  BY <1>1 DEF LeaveFunctionDef
<1>3. DOMAIN toBind' = {}
  BY <1>2
<1>4. QED
  BY <1>2, <1>3 DEF CurrentInterface

LEMMA StepCurrent ==
  ASSUME TypeOK, LifecycleInv, InterfaceInv, [Next]_vars
  PROVE  CurrentInterface'
<1>1. KeepsFunctions
  BY StepKeepsFunctions
<1>2. ASSUME UNCHANGED <<currentFunc, currentRetVal, currentRetIsPtr, toBind>>,
             UNCHANGED frames \/ Top # "params"
      PROVE  CurrentInterface'
  BY <1>1, <1>2, InnerBound, CurrentKeptBy
<1>3. CASE ExprStep
  <2>1. UNCHANGED current /\ UNCHANGED <<frames, toBind>>
    <3>1. ASSUME control' = control
          PROVE  UNCHANGED current /\ UNCHANGED <<frames, toBind>>
      BY <3>1 DEF control
    <3>2. ASSUME NEW f \in Funs, NEW n \in 0..MaxStack, VisitCall(f, n)
          PROVE  UNCHANGED current /\ UNCHANGED <<frames, toBind>>
      BY <3>2 DEF VisitCall
    <3>3. QED
      BY <1>3, <3>1, <3>2 DEF ExprStep, VisitIdentifier, VisitNumber, VisitString, VisitNull,
         VisitParenthesized, VisitAddressOf, VisitDeref, VisitLastChild, VisitBinary,
         VisitAssignIdentifier, VisitAssignThrough, VisitAssignParenthesized, Assigned, VisitField,
         VisitSubscript, VisitAllocation, VisitUnknownCall, VisitCast
  <2>2. QED
    BY <1>2, <2>1 DEF current
<1>4. CASE UnitStep
  <2>1. /\ UNCHANGED <<currentFunc, currentRetVal, currentRetIsPtr>>
        /\ UNCHANGED <<frames, toBind>>
    BY <1>4 DEF UnitStep, StartUnit, PrescanFunctionDef, EndPrescan, EndUnit, VisitStructSpecifier,
       VisitTypeDefinition, VisitGlobalDecl, VisitPrototype, current, cursor
  <2>2. QED
    BY <1>2, <2>1
<1>5. CASE BodyStep
  <2>1. ASSUME VisitFunctionDef
        PROVE  CurrentInterface'
    BY <1>1, <2>1, FunctionDefCurrent
  <2>2. ASSUME BindFormal
        PROVE  CurrentInterface'
    BY <1>1, <2>2, BindFormalCurrent
  <2>3. ASSUME EnterBody
        PROVE  CurrentInterface'
    BY <1>1, <2>3, CurrentKeptBy DEF EnterBody, current
  <2>4. ASSUME LeaveFunctionDef
        PROVE  CurrentInterface'
    BY <2>4, LeaveCurrent
  <2>5. ASSUME \/ EnterBlock \/ ExitBlock \/ VisitFor \/ VisitForClause \/ EndFor
               \/ \E x \in Vars, spec \in Specifiers, d \in Declarators, init \in BOOLEAN :
                    VisitLocalDecl(x, spec, d, init)
               \/ \E x \in Vars : SkipFunctionPointer(x)
               \/ VisitExprStmt \/ VisitReturn
        PROVE  CurrentInterface'
    <3>1. UNCHANGED current /\ UNCHANGED toBind /\ InBody
      BY <2>5 DEF SkipFunctionPointer, EnterBlock, ExitBlock, VisitFor, VisitForClause, EndFor, VisitLocalDecl, VisitExprStmt,
         VisitReturn, AtStatement, ExprVisited
    <3>2. Top # "params"
      BY <3>1 DEF InBody
    <3>3. QED
      BY <1>2, <3>1, <3>2 DEF current
  <2>6. ASSUME EndInitializer
        PROVE  CurrentInterface'
    BY <1>2, <2>6 DEF EndInitializer, current
  <2>7. QED
    BY <1>5, <2>1, <2>2, <2>3, <2>4, <2>5, <2>6 DEF BodyStep
<1>6. CASE UNCHANGED vars
  BY <1>2, <1>6 DEF vars, current, cursor
<1>7. QED
  BY <1>3, <1>4, <1>5, <1>6 DEF Next

\* The interfaces stay what they are, apart and out of reach of every expression.
LEMMA StepKeepsInterfaces ==
  ASSUME TypeOK, LifecycleInv, InterfaceInv, [Next]_vars
  PROVE  InterfaceInv'
<1>1. Grows(pag, pag') /\ Extends(icfg, icfg') /\ CurrentInterface'
  BY StepPreserves, StepExtends, StepCurrent DEF Preserved
<1>2. CASE Flows
  BY <1>1, <1>2, FlowsKeepInterfaces DEF InterfaceInv
<1>3. ASSUME NEW f \in Funs, NEW sig \in Signatures, f \notin DOMAIN funcInfos, PrescanFunctionDef(f, sig)
      PROVE  InterfaceInv'
  BY <1>1, <1>3, RegistersAll, RegistersHold, RegistersInterfaces DEF InterfaceInv
<1>4. QED
  BY <1>2, <1>3, StepFlows

-----------------------------------------------------------------------------
(* Values through interfaces *)

\* What a new statement defines, unless it is a store.
DefinesNew(s) == s.dst \in New
DefinesResult(s) == s.op = "Copy" /\ \E g \in DOMAIN funcInfos : s.dst = funcInfos[g].retVal
DefinesFormal(s) == s.op = "CallPE" /\ \E g \in DOMAIN funcInfos : s.dst \in Formals(g)

\* The return ValVar of the function that is visited.
LEMMA CurrentResult ==
  ASSUME TypeOK, InterfaceInv, currentRetIsPtr
  PROVE  /\ currentFunc \in DOMAIN funcInfos /\ currentRetVal = funcInfos[currentFunc].retVal
         /\ funcInfos[currentFunc].retIsPtr
<1>1. currentRetVal # NullId
  BY DEF TypeOK, CurrentOK
<1>2. QED
  BY <1>1 DEF InterfaceInv, CurrentInterface, TypeOK, CurrentOK

LEMMA AddedDefines ==
  ASSUME TypeOK, InterfaceInv, Flows, NEW s \in Added, s.op # "Store"
  PROVE  DefinesNew(s) \/ DefinesResult(s) \/ DefinesFormal(s)
<1>1. CASE LocalFlow(s) \/ BindFlow(s) \/ CallResultFlow(s)
  BY <1>1 DEF LocalFlow, BindFlow, CallResultFlow, DefinesNew
<1>2. CASE ResultFlow(s)
  BY <1>2, CurrentResult DEF ResultFlow, DefinesResult
<1>3. CASE ArgumentFlow(s)
  BY <1>3 DEF ArgumentFlow, DefinesFormal
<1>4. QED
  BY <1>1, <1>2, <1>3 DEF Flows

\* The statements of a function's interface, as InterfaceFlow demands them of one statement.
Conforms(s, f) ==
  /\ s.dst \in Formals(f) => s.op = "CallPE"
  /\ s.src \in Formals(f) => s.op = "Store" /\ pag.node[s.dst].name = pag.node[s.src].name
  /\ s.dst = funcInfos[f].retVal => s.op = "Copy" /\ funcInfos[f].retIsPtr
  /\ s.src = funcInfos[f].retVal => s.op = "RetPE"

LEMMA InterfaceFlowMeans ==
  InterfaceFlow <=> \A f \in DOMAIN funcInfos : \A s \in pag.stmt : Conforms(s, f)
BY DEF InterfaceFlow, Conforms, Formals

\* No two functions share a formal or a return ValVar, nor does one use it for both.
LEMMA InterfaceOf ==
  ASSUME InterfaceInv, NEW f \in DOMAIN funcInfos, NEW g \in DOMAIN funcInfos
  PROVE  /\ \A i \in Formals(f) : i # funcInfos[g].retVal
         /\ funcInfos[f].retVal = funcInfos[g].retVal => f = g
BY DEF InterfaceInv, InterfacesApart, Interface

LEMMA AddedConforms ==
  ASSUME TypeOK, InterfaceInv, Flows, NEW s \in Added, NEW f \in DOMAIN funcInfos, Grows(pag, pag')
  PROVE  Conforms(s, f)'
<1> DEFINE fi == funcInfos[f]
<1>1. /\ Formals(f)' = Formals(f) /\ funcInfos'[f].retVal = fi.retVal
      /\ funcInfos'[f].retIsPtr = fi.retIsPtr
  BY SameInterfacesKeep, InterfaceKept DEF Flows, KeepsFunctions
<1>2. \A i \in Held \cup New : i \notin Formals(f) /\ i # fi.retVal
  BY InterfaceTyped DEF InterfaceInv, InterfacesUnheld, Interface, New, Fresh, Vals
<1>3. SUFFICES /\ s.dst \in Formals(f) => s.op = "CallPE"
               /\ s.src \in Formals(f) => s.op = "Store" /\ pag'.node[s.dst].name = pag'.node[s.src].name
               /\ s.dst = fi.retVal => s.op = "Copy" /\ fi.retIsPtr
               /\ s.src = fi.retVal => s.op = "RetPE"
  BY <1>1 DEF Conforms
<1>4. CASE LocalFlow(s)
  BY <1>2, <1>4 DEF LocalFlow
<1>5. CASE BindFlow(s)
  <2>1. s.op = "Store" /\ s.dst \in New
    BY <1>5 DEF BindFlow
  <2>2. PICK i \in DOMAIN toBind : s.src = toBind[i].val /\ pag'.node[s.dst].name = toBind[i].name
    BY <1>5 DEF BindFlow
  <2>3. currentFunc \in DOMAIN funcInfos
    BY <2>2 DEF InterfaceInv, CurrentInterface, TypeOK, CurrentOK, FramesOK
  <2>4. PICK j \in DOMAIN funcInfos[currentFunc].formals : toBind[i] = funcInfos[currentFunc].formals[j]
    BY <2>2 DEF InterfaceInv, CurrentInterface
  <2>5. s.src \in Formals(currentFunc) /\ s.src \in Ids(pag)
    BY <2>2, <2>3, <2>4, InterfaceTyped DEF Formals, Interface, Vals
  <2>6. pag'.node[s.src].name = toBind[i].name
    <3>1. pag'.node[s.src] = pag.node[s.src]
      BY <2>5 DEF Grows
    <3>2. pag.node[funcInfos[currentFunc].formals[j].val].name = funcInfos[currentFunc].formals[j].name
      BY <2>3 DEF InterfaceInv, InterfaceNodes
    <3>3. QED
      BY <2>2, <2>4, <3>1, <3>2
  <2>7. s.src # fi.retVal
    BY <2>3, <2>5, InterfaceOf
  <2>8. QED
    BY <1>2, <2>1, <2>2, <2>6, <2>7
<1>6. CASE ResultFlow(s)
  <2>1. /\ currentFunc \in DOMAIN funcInfos /\ s.dst = funcInfos[currentFunc].retVal
        /\ funcInfos[currentFunc].retIsPtr /\ s.op = "Copy" /\ s.src \in Held
    BY <1>6, CurrentResult DEF ResultFlow
  <2>2. QED
    BY <1>2, <2>1, InterfaceOf
<1>7. CASE ArgumentFlow(s)
  BY <1>2, <1>7, InterfaceOf DEF ArgumentFlow
<1>8. CASE CallResultFlow(s)
  BY <1>2, <1>8, InterfaceOf DEF CallResultFlow
<1>9. QED
  BY <1>4, <1>5, <1>6, <1>7, <1>8 DEF Flows

\* What conforms goes on to do so.
LEMMA OldConforms ==
  ASSUME TypeOK, KeepsFunctions, Grows(pag, pag'), NEW s \in pag.stmt, NEW f \in DOMAIN funcInfos,
         Conforms(s, f)
  PROVE  Conforms(s, f)'
<1>1. s.src \in Ids(pag) /\ s.dst \in Ids(pag)
  BY DEF TypeOK, GraphsOK, IsPag, IsStmt, Vals
<1>2. pag'.node[s.src] = pag.node[s.src] /\ pag'.node[s.dst] = pag.node[s.dst]
  BY <1>1 DEF Grows
<1>3. Formals(f)' = Formals(f)
  BY InterfaceKept
<1>4. QED
  BY <1>2, <1>3 DEF Conforms, KeepsFunctions

LEMMA StepKeepsFlow ==
  ASSUME TypeOK, LifecycleInv, InterfaceInv, InterfaceFlow, [Next]_vars
  PROVE  InterfaceFlow'
<1>1. Grows(pag, pag') /\ KeepsFunctions
  BY StepPreserves, StepKeepsFunctions DEF Preserved
<1>2. \A f \in DOMAIN funcInfos : \A s \in pag.stmt : Conforms(s, f)'
  BY <1>1, InterfaceFlowMeans, OldConforms
<1>3. CASE Flows
  <2>1. \A f \in DOMAIN funcInfos : \A s \in Added : Conforms(s, f)'
    BY <1>1, <1>3, AddedConforms
  <2>2. \A f \in DOMAIN funcInfos' : \A s \in pag'.stmt : Conforms(s, f)'
    BY <1>2, <1>3, <2>1 DEF Flows, SameInterfaces, Added
  <2>3. QED
    BY <2>2 DEF InterfaceFlow, Conforms, Formals
<1>4. ASSUME NEW f \in Funs, NEW sig \in Signatures, f \notin DOMAIN funcInfos, PrescanFunctionDef(f, sig)
      PROVE  InterfaceFlow'
  <2>8. PICK a : a = Stmt("Addr", LastId(pag) + 1, LastId(pag) + 2, 0)
    OBVIOUS
  <2>1. Registers(f)
    BY <1>4, RegistersAll
  <2>2. pag'.stmt = pag.stmt \cup {a} /\ DOMAIN funcInfos' = DOMAIN funcInfos \cup {f}
    <3>1. LastId(pag) + 1 + 1 = LastId(pag) + 2
      BY NextIsNew
    <3>2. QED
      BY <2>1, <2>8, <3>1 DEF Registers
  <2>3. a.src = LastId(pag) + 1 /\ a.dst = LastId(pag) + 2
    BY <2>8 DEF Stmt
  <2>4. ASSUME NEW s \in pag'.stmt
        PROVE  Conforms(s, f)'
    <3>1. s \in pag.stmt => s.src \in Ids(pag) /\ s.dst \in Ids(pag)
      BY DEF TypeOK, GraphsOK, IsPag, IsStmt, Vals
    <3>2. s.src \notin Interface(f)' /\ s.dst \notin Interface(f)'
      BY <2>1, <2>2, <2>3, <3>1, NewInterface
    <3>3. QED
      BY <3>2 DEF Conforms, Interface
  <2>5. ASSUME NEW g \in DOMAIN funcInfos
        PROVE  Conforms(a, g)'
    <3>1. Formals(g)' \subseteq Ids(pag) /\ funcInfos'[g].retVal \in Ids(pag)
      BY <1>1, InterfaceTyped, InterfaceKept DEF Interface, Vals, KeepsFunctions
    <3>2. a.src \notin Ids(pag) /\ a.dst \notin Ids(pag)
      BY <2>3, NextIsNew
    <3>3. a.src \notin Formals(g)' /\ a.dst \notin Formals(g)'
          /\ a.src # funcInfos'[g].retVal /\ a.dst # funcInfos'[g].retVal
      BY <3>1, <3>2
    <3>4. QED
      BY <3>3 DEF Conforms
  <2>6. \A g \in DOMAIN funcInfos' : \A s \in pag'.stmt : Conforms(s, g)'
    BY <1>2, <2>2, <2>4, <2>5
  <2>7. QED
    BY <2>6 DEF InterfaceFlow, Conforms, Formals
<1>5. QED
  BY <1>3, <1>4, StepFlows

-----------------------------------------------------------------------------
(* One definition for each ValVar *)

\* The two statements define one formal or one return ValVar.
Excused(s, t) ==
  \E f \in DOMAIN funcInfos :
    \/ s.op = "CallPE" /\ t.op = "CallPE" /\ s.dst \in Formals(f)
    \/ s.op = "Copy" /\ t.op = "Copy" /\ s.dst = funcInfos[f].retVal

LEMMA DefinedOnceMeans ==
  DefinedOnce <=> \A s, t \in pag.stmt :
                    s.dst = t.dst /\ "Store" \notin {s.op, t.op} => s = t \/ Excused(s, t)
BY DEF DefinedOnce, Excused, Formals

\* A new statement and any other that defines the same ValVar.
LEMMA AddedDefinesOnce ==
  ASSUME TypeOK, InterfaceInv, Flows, InterfaceFlow', NEW s \in Added, NEW t \in pag'.stmt,
         s.dst = t.dst, s.op # "Store", t.op # "Store"
  PROVE  s = t \/ (Excused(s, t)' /\ Excused(t, s)')
<1>1. KeepsFunctions
  BY SameInterfacesKeep DEF Flows
<1>2. CASE DefinesNew(s)
  <2>1. t \in Added
    BY <1>2 DEF DefinesNew, New, Fresh, Added, TypeOK, GraphsOK, IsPag, IsStmt, Vals
  <2>2. QED
    BY <1>2, <2>1 DEF DefinesNew, Flows, DefinesOnce
<1>3. CASE DefinesResult(s)
  <2>1. PICK g \in DOMAIN funcInfos : s.dst = funcInfos[g].retVal
    BY <1>3 DEF DefinesResult
  <2>2. g \in DOMAIN funcInfos' /\ t.dst = funcInfos'[g].retVal
    BY <1>1, <2>1 DEF KeepsFunctions
  <2>3. t.op = "Copy"
    BY <2>2 DEF InterfaceFlow
  <2>4. QED
    BY <1>3, <2>2, <2>3 DEF Excused, DefinesResult
<1>4. CASE DefinesFormal(s)
  <2>1. PICK g \in DOMAIN funcInfos : s.dst \in Formals(g)
    BY <1>4 DEF DefinesFormal
  <2>2. g \in DOMAIN funcInfos' /\ t.dst \in Formals(g)'
    BY <1>1, <2>1, InterfaceKept DEF KeepsFunctions
  <2>3. t.op = "CallPE"
    BY <2>2 DEF InterfaceFlow, Formals
  <2>4. QED
    BY <1>4, <2>2, <2>3 DEF Excused, DefinesFormal
<1>5. QED
  BY <1>2, <1>3, <1>4, AddedDefines

LEMMA StepKeepsDefinedOnce ==
  ASSUME TypeOK, LifecycleInv, InterfaceInv, InterfaceFlow, DefinedOnce, [Next]_vars
  PROVE  DefinedOnce'
<1>1. KeepsFunctions /\ InterfaceFlow'
  BY StepKeepsFunctions, StepKeepsFlow
<1>2. ASSUME NEW s \in pag.stmt, NEW t \in pag.stmt, Excused(s, t)
      PROVE  Excused(s, t)'
  <2>1. PICK f \in DOMAIN funcInfos :
          \/ s.op = "CallPE" /\ t.op = "CallPE" /\ s.dst \in Formals(f)
          \/ s.op = "Copy" /\ t.op = "Copy" /\ s.dst = funcInfos[f].retVal
    BY <1>2 DEF Excused
  <2>2. f \in DOMAIN funcInfos' /\ Formals(f)' = Formals(f) /\ funcInfos'[f].retVal = funcInfos[f].retVal
    BY <1>1, InterfaceKept DEF KeepsFunctions
  <2>3. QED
    BY <2>1, <2>2 DEF Excused
<1>3. ASSUME NEW s \in pag.stmt, NEW t \in pag.stmt, s.dst = t.dst, s.op # "Store", t.op # "Store"
      PROVE  s = t \/ Excused(s, t)'
  BY <1>2, <1>3, DefinedOnceMeans
<1>4. CASE Flows
  <2>1. ASSUME NEW s \in pag'.stmt, NEW t \in pag'.stmt, s.dst = t.dst, s.op # "Store", t.op # "Store"
        PROVE  s = t \/ Excused(s, t)'
    BY <1>1, <1>3, <1>4, <2>1, AddedDefinesOnce DEF Added
  <2>2. QED
    BY <2>1 DEF DefinedOnce, Excused, Formals
<1>5. ASSUME NEW f \in Funs, NEW sig \in Signatures, f \notin DOMAIN funcInfos, PrescanFunctionDef(f, sig)
      PROVE  DefinedOnce'
  <2> DEFINE a == Stmt("Addr", LastId(pag) + 1, LastId(pag) + 2, 0)
  <2>1. Registers(f)
    BY <1>5, RegistersAll
  <2>2. pag'.stmt = pag.stmt \cup {a}
    <3>1. LastId(pag) + 1 + 1 = LastId(pag) + 2
      BY NextIsNew
    <3>2. QED
      BY <2>1, <3>1 DEF Registers
  <2>3. a.dst = LastId(pag) + 2
    BY DEF Stmt
  <2> HIDE DEF a
  <2>4. \A s \in pag.stmt : s.dst # a.dst
    BY <2>3, NextIsNew DEF TypeOK, GraphsOK, IsPag, IsStmt, Vals
  <2>5. ASSUME NEW s \in pag'.stmt, NEW t \in pag'.stmt, s.dst = t.dst, s.op # "Store", t.op # "Store"
        PROVE  s = t \/ Excused(s, t)'
    BY <1>3, <2>2, <2>4, <2>5
  <2>6. QED
    BY <2>5 DEF DefinedOnce, Excused, Formals
<1>6. QED
  BY <1>4, <1>5, StepFlows

-----------------------------------------------------------------------------
(* The theorems *)

\* What the visitor maintains of interfaces and of the statements at them.
FlowInv == InterfaceInv /\ InterfaceFlow /\ DefinedOnce

LEMMA InitFlow ==
  ASSUME Init
  PROVE  FlowInv
<1>1. DOMAIN funcInfos = {} /\ pag.stmt = {}
  BY DEF Init, EmptyPag
<1>2. currentRetVal = NullId /\ toBind = <<>>
  BY DEF Init
<1>3. InterfaceInv
  BY <1>1, <1>2 DEF InterfaceInv, InterfacesApart, InterfacesUnheld, InterfaceNodes, CurrentInterface
<1>4. QED
  BY <1>1, <1>3 DEF FlowInv, InterfaceFlow, DefinedOnce

\* For every program over the constants: formals and return ValVars of different
\* functions are apart, no expression has one at hand, and values pass them as
\* InterfaceFlow and DefinedOnce say.
THEOREM FlowsThroughInterfaces == Spec => [](TypeOK /\ LifecycleInv /\ FlowInv)
<1>1. Init => FlowInv
  BY InitFlow
<1>2. TypeOK /\ LifecycleInv /\ FlowInv /\ [Next]_vars => FlowInv'
  BY StepKeepsInterfaces, StepKeepsFlow, StepKeepsDefinedOnce DEF FlowInv
<1>3. QED
  BY <1>1, <1>2, LifecycleHolds, PTL DEF Spec

\* No two functions share a formal or a return ValVar, and no symbol, operand or
\* initializer names one: a parameter's symbol is the address of its slot.
THEOREM InterfacesUntouched == Spec => []InterfaceInv
BY FlowsThroughInterfaces, PTL DEF FlowInv

\* Values enter a formal by CallPE alone and leave it for its own slot, enter a
\* return ValVar by the function's returns and leave it by RetPE (visitFunctionDef,
\* visitReturn and visitCall over what prescanFunctionDef made).
THEOREM InterfacesCarryValues == Spec => []InterfaceFlow
BY FlowsThroughInterfaces, PTL DEF FlowInv

\* No ValVar has two definitions, but for formals and return ValVars: freshValVar is
\* called for every value an expression makes.
THEOREM ValuesDefinedOnce == Spec => []DefinedOnce
BY FlowsThroughInterfaces, PTL DEF FlowInv
=============================================================================
