----------------------------- MODULE PlaceProofs -----------------------------
(***************************************************************************)
(* Where the visitor stands, for every program: the anchor is in the       *)
(* function that is visited, operands lie inside an initializer or a body, *)
(* and scopes follow the frames of the source.  From this follow           *)
(* StayInFunction, Anchored, BodyOnce and CallWiring, and that names       *)
(* resolve as in C.                                                        *)
(***************************************************************************)
EXTENDS SymbolProofs, FiniteSetTheorems, FunctionTheorems

-----------------------------------------------------------------------------
(* The anchor *)

\* What moves the anchor, and what becomes of it.
LEMMA StepAnchor ==
  ASSUME TypeOK, [Next]_vars
  PROVE  \/ UNCHANGED current
         \/ StartUnit
         \/ VisitFunctionDef /\ ~AlreadyDefined(Head(pending))
         \/ LeaveFunctionDef
<1>1. CASE ExprStep
  BY <1>1, ExprStepControls
<1>2. CASE UnitStep
  BY <1>2 DEF UnitStep, PrescanFunctionDef, EndPrescan, EndUnit, VisitStructSpecifier,
     VisitTypeDefinition, VisitGlobalDecl, VisitPrototype
<1>3. CASE BodyStep
  <2>1. VisitFunctionDef => UNCHANGED current \/ ~AlreadyDefined(Head(pending))
    BY DEF VisitFunctionDef, MarkVisited
  <2>2. QED
    BY <1>3, <2>1 DEF BodyStep, BindFormal, EnterBody, EnterBlock, ExitBlock, VisitFor,
       SkipFunctionPointer, VisitForClause, EndFor, VisitLocalDecl, EndInitializer, VisitExprStmt, VisitReturn
<1>4. CASE UNCHANGED vars
  BY <1>4 DEF vars
<1>5. QED
  BY <1>1, <1>2, <1>3, <1>4 DEF Next

\* The function definition that is entered.
LEMMA EnteredFunction ==
  ASSUME TypeOK, LifecycleInv, VisitFunctionDef, ~AlreadyDefined(Head(pending))
  PROVE  LET f == Head(pending)
         IN  /\ f \in DOMAIN funcInfos /\ f # None /\ ~funcInfos[f].defined
             /\ currentFunc = None /\ currentFunc' = f /\ currentBB' = f
             /\ currentICFG' = LastId(icfg) + 1 /\ EntersBody(f)
             /\ frames = <<>> /\ target = NoTarget
             /\ frames' = <<Frame("params")>> /\ EnterScope /\ seen' = seen \cup {f}
             /\ DOMAIN funcInfos' = DOMAIN funcInfos /\ funcInfos'[f].defined
             /\ \A g \in DOMAIN funcInfos : g # f => funcInfos'[g] = funcInfos[g]
<1> DEFINE f == Head(pending)
<1>1. f \in DOMAIN funcInfos
  BY HeadTailProperties DEF VisitFunctionDef, MarkVisited, TypeOK, FileOK
<1>2. f # None
  BY <1>1, NameAssumption DEF TypeOK, FuncsOK, IsTable
<1>3. /\ funcInfos' = [funcInfos EXCEPT ![f].defined = TRUE]
      /\ currentFunc' = f /\ currentBB' = f /\ currentICFG' = LastId(icfg) + 1
      /\ icfg' = AddIcfgEdge(AddIcfgNode(icfg, "intra", f), "seq", funcInfos[f].entry, LastId(icfg) + 1)
      /\ frames = <<>> /\ target = NoTarget
      /\ frames' = <<Frame("params")>> /\ EnterScope /\ seen' = seen \cup {f}
  BY DEF VisitFunctionDef, MarkVisited, AtTopLevel
<1>4. funcInfos[f] \in FuncInfoType
  BY <1>1, FuncInfoTyped
<1>5. [funcInfos[f] EXCEPT !.defined = TRUE].defined
  BY <1>4 DEF FuncInfoType
<1>6. currentFunc = None
  BY <1>3 DEF LifecycleInv, CurrentIsVisited
<1>7. EntersBody(f)
  BY <1>1, <1>3, BodyAdded
<1>8. ~funcInfos[f].defined
  BY DEF AlreadyDefined
<1> HIDE DEF f
<1>9. /\ DOMAIN funcInfos' = DOMAIN funcInfos /\ funcInfos'[f].defined
      /\ \A g \in DOMAIN funcInfos : g # f => funcInfos'[g] = funcInfos[g]
  BY <1>1, <1>3, <1>5
<1>10. QED
  BY <1>1, <1>2, <1>3, <1>6, <1>7, <1>8, <1>9 DEF f

\* Nodes stay what they are, and so do their owners.
LEMMA OwnersStay ==
  ASSUME TypeOK, Grows(pag, pag'), Extends(icfg, icfg'), NEW i \in Ids(pag)
  PROVE  OwnerOf(i)' = OwnerOf(i)
<1>1. pag'.node[i] = pag.node[i]
  BY DEF Grows
<1>2. pag.node[i].at \in {NullId} \cup Ids(icfg)
  <2>1. pag.node \in Seq(PagNode(icfg, Names)) /\ Ids(pag) = DOMAIN pag.node
    BY LenProperties DEF TypeOK, GraphsOK, IsPag, Ids, LastId
  <2>2. pag.node[i] \in PagNode(icfg, Names)
    BY <2>1, LenProperties
  <2>3. QED
    BY <2>2 DEF PagNode
<1>3. pag.node[i].at # NullId => icfg'.node[pag.node[i].at] = icfg.node[pag.node[i].at]
  BY <1>2 DEF Extends
<1>4. QED
  BY <1>1, <1>3 DEF OwnerOf

LEMMA StepAnchorOwned ==
  ASSUME TypeOK, LifecycleInv, AnchorOwned, [Next]_vars
  PROVE  AnchorOwned'
<1>1. Extends(icfg, icfg') /\ GlobalNode \in Ids(icfg)
  BY StepExtends DEF TypeOK, GraphsOK, IsIcfg
<1>2. icfg'.node[GlobalNode] = [kind |-> "global", bb |-> None]
  BY <1>1 DEF Extends, AnchorOwned
<1>3. CASE UNCHANGED current
  <2>1. currentICFG # NullId => icfg'.node[currentICFG] = icfg.node[currentICFG]
    BY <1>1 DEF Extends, TypeOK, CurrentOK
  <2>2. QED
    BY <1>2, <1>3, <2>1 DEF AnchorOwned, current
<1>4. ASSUME StartUnit
      PROVE  AnchorOwned'
  <2>1. currentFunc' = None /\ currentICFG' = GlobalNode
    BY <1>4 DEF StartUnit, AnchorGlobally, LifecycleInv, CurrentIsVisited
  <2>2. QED
    BY <1>2, <2>1 DEF AnchorOwned
<1>5. ASSUME VisitFunctionDef, ~AlreadyDefined(Head(pending))
      PROVE  AnchorOwned'
  <2> DEFINE f == Head(pending)
  <2>1. /\ currentFunc' = f /\ currentBB' = f /\ f # None
        /\ currentICFG' = LastId(icfg) + 1 /\ EntersBody(f)
    BY <1>5, EnteredFunction
  <2>2. LastId(icfg) \in Nat
    BY LenProperties DEF TypeOK, GraphsOK, IsIcfg, LastId
  <2> HIDE DEF f
  <2>3. QED
    BY <1>2, <2>1, <2>2 DEF AnchorOwned, EntersBody, NullId
<1>6. ASSUME LeaveFunctionDef
      PROVE  AnchorOwned'
  BY <1>2, <1>6 DEF AnchorOwned, LeaveFunctionDef
<1>7. QED
  BY <1>3, <1>4, <1>5, <1>6, StepAnchor

-----------------------------------------------------------------------------
(* Sequences that grow and shrink *)

LEMMA AppendShape ==
  ASSUME NEW s, NEW e, IsSequence(s)
  PROVE  LET t == Append(s, e)
         IN  /\ IsSequence(t) /\ Len(t) = Len(s) + 1 /\ DOMAIN t = 1..(Len(s) + 1)
             /\ \A i \in DOMAIN s : t[i] = s[i]
             /\ t[Len(s) + 1] = e
<1> DEFINE t == Append(s, e)
           R == {s[i] : i \in DOMAIN s} \cup {e}
<1>1. s \in Seq(R) /\ e \in R
  BY SeqMonotonic DEF IsSequence
<1>2. Len(s) \in Nat /\ DOMAIN s = 1..Len(s)
  BY SequenceFacts
<1> HIDE DEF R
<1>3. /\ t \in Seq(R) /\ Len(t) = Len(s) + 1
      /\ \A i \in 1..Len(s) : t[i] = s[i]
      /\ t[Len(s) + 1] = e
  BY <1>1, AppendProperties
<1>4. IsSequence(t)
  BY AppendFacts
<1> HIDE DEF t
<1>5. DOMAIN t = 1..(Len(s) + 1)
  BY <1>3, LenProperties
<1>6. QED
  BY <1>2, <1>3, <1>4, <1>5 DEF t

LEMMA PrefixShape ==
  ASSUME NEW s, IsSequence(s), NEW n \in Nat, n <= Len(s)
  PROVE  LET t == SubSeq(s, 1, n)
         IN  /\ IsSequence(t) /\ Len(t) = n /\ DOMAIN t = 1..n
             /\ \A i \in 1..n : i \in DOMAIN s /\ t[i] = s[i]
<1> DEFINE t == SubSeq(s, 1, n)
           R == {s[i] : i \in DOMAIN s}
<1>1. Len(s) \in Nat /\ DOMAIN s = 1..Len(s)
  BY SequenceFacts
<1>2. \A i \in 1..n : i \in DOMAIN s /\ s[i] \in R
  BY <1>1
<1>3. IsSequence(t)
  BY PrefixFacts
<1> HIDE DEF R
<1>4. /\ t \in Seq(R)
      /\ Len(t) = IF 1 <= n THEN n - 1 + 1 ELSE 0
      /\ \A i \in 1..(n - 1 + 1) : t[i] = s[1 + i - 1]
  BY <1>2, SubSeqProperties
<1> HIDE DEF t
<1>5. Len(t) = n /\ DOMAIN t = 1..n
  BY <1>4, LenProperties
<1>6. QED
  BY <1>2, <1>3, <1>4, <1>5 DEF t

\* A declaration in the innermost frame.
LEMMA DeclaredFrames ==
  ASSUME TypeOK, LifecycleInv, frames # <<>>, NEW x, NEW id, frames' = Declared(frames, x, id)
  PROVE  /\ Len(frames') = Len(frames) /\ DOMAIN frames' = DOMAIN frames /\ frames' # <<>>
         /\ \A i \in DOMAIN frames : frames'[i].kind = frames[i].kind
         /\ \A i \in DOMAIN frames : i # Len(frames) => frames'[i] = frames[i]
         /\ frames'[Len(frames)].env = Bind(frames[Len(frames)].env, x, id)
<1> DEFINE n == Len(frames)
           fr == [frames[n] EXCEPT !.env = Bind(frames[n].env, x, id)]
<1>1. IsSequence(frames) /\ n \in Nat /\ DOMAIN frames = 1..n /\ n # 0
  BY FramesSequence
<1>2. n \in DOMAIN frames
  BY <1>1
<1>3. frames[n] = [kind |-> frames[n].kind, env |-> frames[n].env]
  BY <1>2 DEF TypeOK, FramesOK, IsFrame
<1>4. fr.kind = frames[n].kind /\ fr.env = Bind(frames[n].env, x, id)
  BY <1>3
<1>5. frames' = [frames EXCEPT ![n] = fr]
  BY DEF Declared
<1> HIDE DEF fr
<1>6. IsSequence(frames') /\ Len(frames') = n /\ DOMAIN frames' = DOMAIN frames
  <2> DEFINE t == [frames EXCEPT ![n] = fr]
  <2>1. IsSequence(t) /\ Len(t) = n /\ DOMAIN t = DOMAIN frames
    BY <1>1, ReplaceFacts
  <2> HIDE DEF t
  <2>2. frames' = t
    BY <1>5 DEF t
  <2>3. QED
    BY <2>1, <2>2
<1>7. frames'[n] = fr /\ \A i \in DOMAIN frames : i # n => frames'[i] = frames[i]
  BY <1>2, <1>5
<1>8. frames' # <<>>
  BY <1>1, <1>6, NestedNonempty
<1>9. QED
  BY <1>4, <1>6, <1>7, <1>8

-----------------------------------------------------------------------------
(* Operands and initializers *)

LEMMA ExprVisits ==
  ASSUME ExprStep
  PROVE  Visiting
BY DEF ExprStep, VisitIdentifier, VisitNumber, VisitString, VisitNull, VisitParenthesized,
   VisitAddressOf, VisitDeref, VisitLastChild, VisitBinary, VisitAssignIdentifier,
   VisitAssignThrough, VisitAssignParenthesized, VisitField, VisitSubscript, VisitAllocation,
   VisitCall, VisitUnknownCall, VisitCast, CanPush, ArgumentsVisited, Visiting

LEMMA StepOperandsEnclosed ==
  ASSUME TypeOK, LifecycleInv, InterfaceInv, OperandsEnclosed, [Next]_vars
  PROVE  OperandsEnclosed'
<1>1. ASSUME UNCHANGED <<frames, target>>, stack' = stack \/ Visiting \/ stack' = <<>>
      PROVE  OperandsEnclosed'
  BY <1>1 DEF OperandsEnclosed, Visiting, InBody, Top
<1>2. ASSUME stack' = <<>>, frames' # <<>> /\ Top' \in Outermost => target' = NoTarget
      PROVE  OperandsEnclosed'
  BY <1>2 DEF OperandsEnclosed
<1>3. CASE ExprStep
  BY <1>1, <1>3, ExprStepControls, ExprVisits
<1>4. CASE UnitStep
  <2>1. ASSUME NEW x, NEW spec, NEW d, NEW init, VisitGlobalDecl(x, spec, d, init)
        PROVE  OperandsEnclosed'
    <3>1. stack = <<>> /\ UNCHANGED <<frames, stack>> /\ frames = <<>>
      BY <2>1 DEF VisitGlobalDecl, AtTopLevel, OperandsEnclosed, Visiting, InBody
    <3>2. QED
      BY <1>2, <3>1
  <2>2. ASSUME UNCHANGED cursor
        PROVE  OperandsEnclosed'
    BY <1>1, <2>2 DEF cursor
  <2>3. QED
    BY <1>4, <2>1, <2>2 DEF UnitStep, StartUnit, PrescanFunctionDef, EndPrescan, EndUnit,
       VisitStructSpecifier, VisitTypeDefinition, VisitPrototype
<1>5. CASE BodyStep
  <2>1. ASSUME VisitFunctionDef
        PROVE  OperandsEnclosed'
    <3>1. UNCHANGED <<stack, target>> /\ stack = <<>> /\ target = NoTarget
      BY <2>1 DEF VisitFunctionDef, MarkVisited, AtTopLevel, OperandsEnclosed, Visiting, InBody
    <3>2. QED
      BY <1>2, <3>1
  <2>2. ASSUME BindFormal \/ EnterBody \/ LeaveFunctionDef
        PROVE  OperandsEnclosed'
    <3>1. frames # <<>> /\ Top \in Outermost /\ UNCHANGED <<stack, target>>
      BY <2>2 DEF BindFormal, EnterBody, LeaveFunctionDef, InterfaceInv, CurrentInterface, Outermost
    <3>2. target = NoTarget /\ ~InBody
      BY <3>1 DEF OperandsEnclosed, InBody, Outermost
    <3>3. stack = <<>>
      BY <3>2 DEF OperandsEnclosed, Visiting
    <3>4. QED
      BY <1>2, <3>1, <3>2, <3>3
  <2>3. ASSUME EnterBlock \/ ExitBlock \/ VisitFor \/ EndFor
        PROVE  OperandsEnclosed'
    <3>1. stack' = <<>> /\ target' = NoTarget
      BY <2>3 DEF EnterBlock, ExitBlock, VisitFor, EndFor, AtStatement
    <3>2. QED
      BY <1>2, <3>1
  <2>4. ASSUME VisitForClause \/ VisitExprStmt \/ VisitReturn \/ EndInitializer
        PROVE  OperandsEnclosed'
    <3>1. stack' = <<>> /\ target' = NoTarget
      BY <2>4 DEF VisitForClause, VisitExprStmt, VisitReturn, EndInitializer, ExprVisited
    <3>2. QED
      BY <1>2, <3>1
  <2>5. ASSUME NEW x \in Vars, NEW spec \in Specifiers, NEW d \in Declarators, NEW init \in BOOLEAN,
               VisitLocalDecl(x, spec, d, init)
        PROVE  OperandsEnclosed'
    <3>1. /\ frames # <<>> /\ Top \notin Outermost /\ stack' = <<>>
          /\ frames' = Declared(frames, x, LastId(pag) + 2)
      BY <2>5 DEF VisitLocalDecl, AtStatement, InBody, Outermost
    <3>2. /\ Len(frames') = Len(frames) /\ Len(frames) \in DOMAIN frames
          /\ \A i \in DOMAIN frames : frames'[i].kind = frames[i].kind
      <4>1. Len(frames) \in DOMAIN frames
        BY <3>1, FramesSequence
      <4>2. QED
        BY <3>1, <4>1, DeclaredFrames
    <3>3. Top' = Top
      BY <3>2 DEF Top
    <3>4. QED
      BY <1>2, <3>1, <3>3
  <2>6. ASSUME NEW x \in Vars, SkipFunctionPointer(x)
        PROVE  OperandsEnclosed'
    <3>1. stack' = <<>> /\ target' = NoTarget
      BY <2>6 DEF SkipFunctionPointer, AtStatement
    <3>2. QED
      BY <1>2, <3>1
  <2>7. QED
    BY <1>5, <2>1, <2>2, <2>3, <2>4, <2>5, <2>6 DEF BodyStep
<1>6. CASE UNCHANGED vars
  BY <1>1, <1>6 DEF vars, cursor
<1>7. QED
  BY <1>3, <1>4, <1>5, <1>6 DEF Next

-----------------------------------------------------------------------------
(* Scopes and frames *)

\* opened tells the frame of each scope.
Follows(opened) ==
  /\ opened \in [2..Len(scopes) -> DOMAIN frames]
  /\ Opens(opened) /\ (Unmirrored \/ Mirrors(opened))

LEMMA FollowsMeans ==
  ScopesFollowFrames <=> /\ phase = "idle" <=> scopes = <<>>
                         /\ scopes # <<>> => DOMAIN scopes[1] = {}
                         /\ \E opened : Follows(opened)
BY DEF ScopesFollowFrames, Follows

LEMMA ScopesSequence ==
  ASSUME TypeOK
  PROVE  /\ IsSequence(scopes) /\ Len(scopes) \in Nat /\ DOMAIN scopes = 1..Len(scopes)
         /\ scopes = <<>> <=> Len(scopes) = 0
<1>1. IsSequence(scopes) /\ Len(scopes) \in Nat /\ DOMAIN scopes = 1..Len(scopes)
  BY SequenceFacts DEF TypeOK, SymtabOK
<1>2. scopes = <<>> <=> Len(scopes) = 0
  BY <1>1, NestedNonempty
<1>3. QED
  BY <1>1, <1>2

\* Outside functions there is the file's scope alone.
LEMMA FileScope ==
  ASSUME TypeOK, ScopesFollowFrames, frames = <<>>, phase # "idle"
  PROVE  Len(scopes) = 1 /\ DOMAIN scopes[1] = {}
<1>1. scopes # <<>> /\ DOMAIN scopes[1] = {}
  BY DEF ScopesFollowFrames
<1>2. PICK opened : opened \in [2..Len(scopes) -> DOMAIN frames]
  BY DEF ScopesFollowFrames
<1>3. DOMAIN frames = {}
  OBVIOUS
<1>4. 2..Len(scopes) = {}
  BY <1>2, <1>3
<1> DEFINE n == Len(scopes)
<1>5. n \in Nat /\ n # 0 /\ 2..n = {}
  BY <1>1, <1>4, ScopesSequence
<1> HIDE DEF n
<1>6. 2 \notin 2..n
  BY <1>5
<1>7. n = 1
  BY <1>5, <1>6
<1>8. QED
  BY <1>1, <1>7 DEF n

\* Inside, the innermost frame that opens a scope has the innermost scope.
LEMMA InnermostScope ==
  ASSUME TypeOK, LifecycleInv, NEW opened, Follows(opened), frames # <<>>
  PROVE  /\ Len(scopes) >= 2 /\ Len(frames) >= 1
         /\ \A k \in 2..Len(scopes) :
              /\ opened[k] \in 1..Len(frames) /\ frames[opened[k]].kind \in Opening
              /\ opened[k] = Len(frames) => k = Len(scopes)
         /\ Top \in Opening => opened[Len(scopes)] = Len(frames)
<1>1. /\ Len(frames) \in Nat /\ DOMAIN frames = 1..Len(frames) /\ Len(frames) # 0
      /\ frames[1].kind \in Opening
  BY FramesSequence DEF Nested, Opening
<1>2. Len(scopes) \in Nat
  BY ScopesSequence
<1>3. /\ opened \in [2..Len(scopes) -> 1..Len(frames)]
      /\ \A k, l \in 2..Len(scopes) : k < l => opened[k] < opened[l]
      /\ \A i \in 1..Len(frames) : frames[i].kind \in Opening <=> \E k \in 2..Len(scopes) : opened[k] = i
  BY <1>1 DEF Follows, Opens
<1>4. 2..Len(scopes) # {}
  BY <1>1, <1>3
<1>5. Len(scopes) >= 2
  BY <1>2, <1>4
<1>6. ASSUME NEW k \in 2..Len(scopes)
      PROVE  /\ opened[k] \in 1..Len(frames) /\ frames[opened[k]].kind \in Opening
             /\ opened[k] = Len(frames) => k = Len(scopes)
  <2>1. opened[k] \in 1..Len(frames) /\ frames[opened[k]].kind \in Opening
    BY <1>3
  <2>2. ASSUME opened[k] = Len(frames), k # Len(scopes)
        PROVE  FALSE
    <3>1. k < Len(scopes) /\ Len(scopes) \in 2..Len(scopes)
      BY <1>2, <1>5, <2>2
    <3>2. opened[k] < opened[Len(scopes)] /\ opened[Len(scopes)] \in 1..Len(frames)
      BY <1>3, <3>1
    <3>3. QED
      BY <1>1, <2>2, <3>2
  <2>3. QED
    BY <2>1, <2>2
<1>7. ASSUME Top \in Opening
      PROVE  opened[Len(scopes)] = Len(frames)
  <2>1. Len(frames) \in 1..Len(frames)
    BY <1>1
  <2>2. PICK k \in 2..Len(scopes) : opened[k] = Len(frames)
    BY <1>3, <1>7, <2>1 DEF Top
  <2>3. QED
    BY <1>6, <2>2
<1>8. QED
  BY <1>1, <1>5, <1>6, <1>7

\* A function's parameters have one scope.
LEMMA OutermostScope ==
  ASSUME TypeOK, LifecycleInv, NEW opened, Follows(opened), frames # <<>>, Top \in Outermost
  PROVE  Len(frames) = 1 /\ Len(scopes) = 2 /\ opened[2] = 1
<1>1. Len(frames) = 1
  BY FramesSequence DEF Top, Nested
<1>2. Len(scopes) \in Nat /\ Len(scopes) >= 2
  BY ScopesSequence, InnermostScope
<1>3. \A k \in 2..Len(scopes) : opened[k] = 1
  BY <1>1, InnermostScope
<1> DEFINE n == Len(scopes)
<1>4. /\ n \in Nat /\ n >= 2 /\ DOMAIN opened = 2..n
      /\ \A k \in 2..n : opened[k] = 1
      /\ \A k, l \in DOMAIN opened : k < l => opened[k] < opened[l]
  BY <1>2, <1>3 DEF Follows, Opens
<1> HIDE DEF n
<1>5. ASSUME n > 2
      PROVE  FALSE
  <2>1. 2 \in 2..n /\ 3 \in 2..n
    BY <1>4, <1>5
  <2>2. QED
    BY <1>4, <2>1
<1>6. n = 2 /\ 2 \in 2..n
  BY <1>4, <1>5
<1>7. QED
  BY <1>1, <1>4, <1>6 DEF n

LEMMA SameScopes ==
  ASSUME ScopesFollowFrames, UNCHANGED <<scopes, frames>>, phase' = "idle" <=> phase = "idle"
  PROVE  ScopesFollowFrames'
BY DEF ScopesFollowFrames, Opens, Mirrors

\* createLocal declares in the innermost scope, as text, what the source does as x in the
\* innermost frame.
LEMMA DeclareInScope ==
  ASSUME TypeOK, LifecycleInv, ScopesFollowFrames, frames # <<>>, NEW x, NEW text, NEW sym, NEW id,
         sym.valId = id, scopes' = [scopes EXCEPT ![Len(scopes)] = Bind(@, text, sym)],
         frames' = Declared(frames, x, id), UNCHANGED phase,
         (Top \in Opening /\ text = x) \/ Unmirrored
  PROVE  ScopesFollowFrames'
<1> DEFINE n == Len(scopes)
           m == Len(frames)
           syms == Bind(scopes[n], text, sym)
           t == [scopes EXCEPT ![n] = syms]
<1>1. PICK opened : Follows(opened)
  BY FollowsMeans
<1>2. /\ n >= 2 /\ n \in Nat /\ m \in Nat
      /\ \A k \in 2..n : opened[k] \in 1..m /\ (opened[k] = m => k = n)
      /\ Top \in Opening => opened[n] = m
  <2>1. n \in Nat /\ m \in Nat
    BY ScopesSequence, FramesSequence
  <2>2. QED
    BY <1>1, <2>1, InnermostScope
<1>3. /\ DOMAIN scopes = 1..n /\ DOMAIN frames = 1..m /\ IsSequence(scopes)
      /\ scopes = <<>> <=> n = 0
  BY ScopesSequence, FramesSequence
<1>4. /\ opened \in [2..n -> DOMAIN frames] /\ DOMAIN opened = 2..n /\ Opens(opened)
      /\ Unmirrored \/ (Top \in Opening /\ text = x /\ Mirrors(opened))
  BY <1>1 DEF Follows
<1>5. Top = frames[m].kind
  BY DEF Top
<1>6. IsSequence(t) /\ Len(t) = n /\ DOMAIN t = DOMAIN scopes
  <2> HIDE DEF syms, n
  <2>1. IsSequence(scopes)
    BY <1>3
  <2>2. IsSequence(t) /\ Len(t) = Len(scopes) /\ DOMAIN t = DOMAIN scopes
    BY <2>1, ReplaceFacts
  <2>3. QED
    BY <2>2 DEF n
<1>7. /\ DOMAIN frames' = DOMAIN frames
      /\ \A i \in DOMAIN frames : frames'[i].kind = frames[i].kind
      /\ \A i \in DOMAIN frames : i # m => frames'[i] = frames[i]
      /\ frames'[m].env = Bind(frames[m].env, x, id)
  BY DeclaredFrames
<1>8. scopes' = t
  OBVIOUS
<1> HIDE DEF n, m
<1>9. /\ \A k \in DOMAIN scopes : k # n => t[k] = scopes[k]
      /\ n \in DOMAIN scopes => t[n] = Bind(scopes[n], text, sym)
  OBVIOUS
<1> HIDE DEF t
<1>10. n \in DOMAIN scopes /\ 1 \in DOMAIN scopes /\ 1 # n /\ n # 0
  BY <1>2, <1>3
<1>11. scopes # <<>> /\ DOMAIN scopes[1] = {} /\ phase # "idle"
  BY <1>3, <1>10 DEF ScopesFollowFrames
<1>12. scopes' # <<>> /\ DOMAIN scopes'[1] = {}
  <2>1. DOMAIN scopes' # {}
    BY <1>6, <1>8, <1>10
  <2>2. QED
    BY <1>8, <1>9, <1>10, <1>11, <2>1
<1>13. Opens(opened)'
  BY <1>4, <1>7 DEF Opens
<1>14. ASSUME Top \in Opening, text = x, Mirrors(opened)
       PROVE  Mirrors(opened)'
  <2>1. ASSUME NEW k \in 2..n
        PROVE  LET env == frames'[opened[k]].env
               IN  /\ DOMAIN scopes'[k] = DOMAIN env
                   /\ \A y \in DOMAIN env : scopes'[k][y].valId = env[y]
    <3> DEFINE env == frames[opened[k]].env
               old == scopes[k]
    <3>1. DOMAIN old = DOMAIN env /\ \A y \in DOMAIN env : old[y].valId = env[y]
      BY <1>4, <1>14 DEF Mirrors
    <3>2. CASE k = n
      <4>1. scopes'[k] = Bind(old, x, sym) /\ frames'[opened[k]].env = Bind(env, x, id)
        BY <1>2, <1>7, <1>8, <1>9, <1>10, <1>14, <3>2
      <4> HIDE DEF env, old
      <4>2. DOMAIN Bind(old, x, sym) = DOMAIN Bind(env, x, id)
        BY <3>1 DEF Bind
      <4>3. \A y \in DOMAIN Bind(env, x, id) : Bind(old, x, sym)[y].valId = Bind(env, x, id)[y]
        BY <3>1 DEF Bind
      <4>4. QED
        BY <4>1, <4>2, <4>3
    <3>3. CASE k # n
      <4>1. opened[k] \in DOMAIN frames /\ opened[k] # m
        BY <1>2, <1>4, <3>3
      <4>2. k \in DOMAIN scopes
        BY <1>2, <1>3
      <4>3. scopes'[k] = scopes[k] /\ frames'[opened[k]] = frames[opened[k]]
        BY <1>7, <1>8, <1>9, <3>3, <4>1, <4>2
      <4>4. QED
        BY <3>1, <4>3
    <3>4. QED
      BY <3>2, <3>3
  <2>2. ASSUME NEW i \in DOMAIN frames', frames'[i].kind \notin Opening
        PROVE  DOMAIN frames'[i].env = {}
    <3>1. i \in DOMAIN frames /\ frames[i].kind \notin Opening
      BY <1>7, <2>2
    <3>2. i # m
      BY <1>5, <1>14, <3>1
    <3>3. DOMAIN frames[i].env = {}
      BY <1>14, <3>1 DEF Mirrors
    <3>4. QED
      BY <1>7, <3>1, <3>2, <3>3
  <2>3. QED
    BY <1>4, <2>1, <2>2 DEF Mirrors
<1>15. opened \in [2..Len(scopes') -> DOMAIN frames']
  BY <1>4, <1>6, <1>7, <1>8
<1>16. Follows(opened)'
  BY <1>4, <1>13, <1>14, <1>15 DEF Follows
<1>17. QED
  BY <1>11, <1>12, <1>16 DEF ScopesFollowFrames, Follows

\* A construct that opens a scope begins in a body.
LEMMA ScopeOpened ==
  ASSUME TypeOK, LifecycleInv, ScopesFollowFrames, frames # <<>>, EnterScope, UNCHANGED phase,
         frames' = Append(frames, Frame("block"))
  PROVE  ScopesFollowFrames'
<1> DEFINE n == Len(scopes)
           m == Len(frames)
<1>1. PICK opened : Follows(opened)
  BY FollowsMeans
<1>2. n >= 2 /\ m >= 1 /\ \A k \in 2..n : opened[k] \in 1..m
  BY <1>1, InnermostScope
<1>3. /\ n \in Nat /\ m \in Nat /\ DOMAIN scopes = 1..n /\ DOMAIN frames = 1..m
      /\ IsSequence(scopes) /\ IsSequence(frames)
  BY ScopesSequence, FramesSequence
<1>4. /\ Len(scopes') = n + 1 /\ DOMAIN scopes' = 1..(n + 1)
      /\ \A k \in 1..n : scopes'[k] = scopes[k]
      /\ scopes'[n + 1] = NoSymbols
  BY <1>3, AppendShape DEF EnterScope
<1>5. /\ Len(frames') = m + 1 /\ DOMAIN frames' = 1..(m + 1)
      /\ \A i \in 1..m : frames'[i] = frames[i]
      /\ frames'[m + 1] = Frame("block")
  BY <1>3, AppendShape
<1>6. Frame("block").kind = "block" /\ DOMAIN Frame("block").env = {} /\ DOMAIN NoSymbols = {}
  BY DEF Frame, NoSymbols
<1>16. PICK wider : wider = [k \in 2..(n + 1) |-> IF k = n + 1 THEN m + 1 ELSE opened[k]]
  OBVIOUS
<1>7. /\ DOMAIN wider = 2..(n + 1) /\ wider[n + 1] = m + 1
      /\ \A k \in 2..n : wider[k] = opened[k]
      /\ wider \in [2..(n + 1) -> 1..(m + 1)]
  <2>1. DOMAIN wider = 2..(n + 1)
    BY <1>16
  <2>2. n + 1 \in 2..(n + 1) /\ wider[n + 1] = m + 1
    BY <1>2, <1>3, <1>16
  <2>3. \A k \in 2..n : k \in 2..(n + 1) /\ k # n + 1 /\ wider[k] = opened[k]
    BY <1>2, <1>3, <1>16
  <2>4. \A k \in 2..(n + 1) : (k = n + 1 \/ k \in 2..n) /\ wider[k] \in 1..(m + 1)
    BY <1>2, <1>3, <2>2, <2>3
  <2>5. QED
    BY <1>16, <2>1, <2>2, <2>3, <2>4
<1>8. /\ DOMAIN opened = 2..n
      /\ \A k, l \in 2..n : k < l => opened[k] < opened[l]
      /\ \A i \in 1..m : frames[i].kind \in Opening <=> \E k \in 2..n : opened[k] = i
      /\ Unmirrored \/ Mirrors(opened)
  BY <1>1, <1>3 DEF Follows, Opens
<1>15. n # 0 /\ (scopes = <<>> <=> n = 0)
  <2>1. scopes = <<>> <=> n = 0
    BY ScopesSequence
  <2> HIDE DEF n
  <2>2. QED
    BY <1>2, <1>3, <2>1
<1> HIDE DEF n, m
<1>9. Opens(wider)'
  <2>1. ASSUME NEW k \in 2..(n + 1), NEW l \in 2..(n + 1), k < l
        PROVE  wider[k] < wider[l]
    <3>1. k \in 2..n
      BY <1>3, <2>1
    <3>2. wider[k] = opened[k] /\ opened[k] \in 1..m
      BY <1>2, <1>7, <3>1
    <3>3. CASE l = n + 1
      BY <1>3, <1>7, <3>2, <3>3
    <3>4. CASE l # n + 1
      <4>1. l \in 2..n
        BY <1>3, <3>4
      <4>2. QED
        BY <1>7, <1>8, <2>1, <3>1, <3>2, <4>1
    <3>5. QED
      BY <3>3, <3>4
  <2>2. ASSUME NEW i \in 1..(m + 1)
        PROVE  frames'[i].kind \in Opening <=> \E k \in 2..(n + 1) : wider[k] = i
    <3>1. CASE i = m + 1
      <4>1. n + 1 \in 2..(n + 1)
        BY <1>2, <1>3
      <4>2. QED
        BY <1>5, <1>6, <1>7, <3>1, <4>1 DEF Opening
    <3>2. CASE i # m + 1
      <4>1. i \in 1..m /\ frames'[i] = frames[i]
        BY <1>3, <1>5, <3>2
      <4>2. \A k \in 2..(n + 1) : k \in 2..n \/ k = n + 1
        BY <1>3
      <4>3. \A k \in 2..n : k \in 2..(n + 1)
        BY <1>3
      <4>4. QED
        BY <1>7, <1>8, <3>2, <4>1, <4>2, <4>3
    <3>3. QED
      BY <3>1, <3>2
  <2>3. QED
    BY <1>5, <1>7, <2>1, <2>2 DEF Opens
<1>10. ASSUME Mirrors(opened)
       PROVE  Mirrors(wider)'
  <2>1. ASSUME NEW k \in 2..(n + 1)
        PROVE  LET env == frames'[wider[k]].env
               IN  /\ DOMAIN scopes'[k] = DOMAIN env
                   /\ \A x \in DOMAIN env : scopes'[k][x].valId = env[x]
    <3>1. CASE k = n + 1
      BY <1>4, <1>5, <1>6, <1>7, <3>1
    <3>2. CASE k # n + 1
      <4>1. k \in 2..n /\ k \in 1..n
        BY <1>3, <3>2
      <4>2. scopes'[k] = scopes[k] /\ frames'[wider[k]] = frames[opened[k]]
        BY <1>2, <1>4, <1>5, <1>7, <4>1
      <4>3. /\ DOMAIN scopes[k] = DOMAIN frames[opened[k]].env
            /\ \A x \in DOMAIN frames[opened[k]].env : scopes[k][x].valId = frames[opened[k]].env[x]
        BY <1>8, <1>10, <4>1 DEF Mirrors
      <4>4. QED
        BY <4>2, <4>3
    <3>3. QED
      BY <3>1, <3>2
  <2>2. ASSUME NEW i \in 1..(m + 1), frames'[i].kind \notin Opening
        PROVE  DOMAIN frames'[i].env = {}
    <3>1. i \in 1..m
      BY <1>3, <1>5, <1>6, <2>2 DEF Opening
    <3>2. QED
      BY <1>3, <1>5, <1>10, <2>2, <3>1 DEF Mirrors
  <2>3. QED
    BY <1>5, <1>7, <2>1, <2>2 DEF Mirrors
<1>11. Follows(wider)'
  BY <1>4, <1>5, <1>7, <1>8, <1>9, <1>10 DEF Follows
<1>12. scopes # <<>> /\ DOMAIN scopes[1] = {} /\ 1 \in 1..n
  BY <1>2, <1>3, <1>15 DEF ScopesFollowFrames
<1>13. scopes' # <<>> /\ DOMAIN scopes'[1] = {} /\ phase' # "idle"
  <2>1. scopes' # <<>>
    BY <1>3, AppendFacts DEF EnterScope
  <2>2. QED
    BY <1>4, <1>12, <2>1 DEF ScopesFollowFrames
<1>14. QED
  BY <1>11, <1>13 DEF ScopesFollowFrames, Follows

\* A construct that has opened the innermost scope ends, with those around it that
\* have opened none.
LEMMA ScopeClosed ==
  ASSUME TypeOK, LifecycleInv, ScopesFollowFrames, frames # <<>>, ExitScope, UNCHANGED phase,
         Top \in Opening, NEW j \in Nat, j < Len(frames),
         \A i \in (j + 1)..(Len(frames) - 1) : frames[i].kind \notin Opening,
         DOMAIN frames' = 1..j, \A i \in 1..j : frames'[i] = frames[i]
  PROVE  ScopesFollowFrames'
<1> DEFINE n == Len(scopes)
           m == Len(frames)
<1>1. PICK opened : Follows(opened)
  BY FollowsMeans
<1>2. /\ n >= 2 /\ m >= 1 /\ opened[n] = m
      /\ \A k \in 2..n : /\ opened[k] \in 1..m /\ frames[opened[k]].kind \in Opening
                         /\ opened[k] = m => k = n
  BY <1>1, InnermostScope
<1>3. /\ n \in Nat /\ m \in Nat /\ DOMAIN scopes = 1..n /\ DOMAIN frames = 1..m
      /\ IsSequence(scopes)
  BY ScopesSequence, FramesSequence
<1>5. /\ DOMAIN opened = 2..n
      /\ \A k, l \in 2..n : k < l => opened[k] < opened[l]
      /\ \A i \in 1..m : frames[i].kind \in Opening <=> \E k \in 2..n : opened[k] = i
      /\ Unmirrored \/ Mirrors(opened)
  BY <1>1, <1>3 DEF Follows, Opens
<1>14. scopes = <<>> <=> n = 0
  BY ScopesSequence
<1>15. scopes' = SubSeq(scopes, 1, n - 1) /\ j < m /\ n <= Len(scopes)
       /\ \A i \in (j + 1)..(m - 1) : frames[i].kind \notin Opening
  BY <1>3 DEF ExitScope
<1> HIDE DEF n, m
<1>4. /\ Len(scopes') = n - 1 /\ DOMAIN scopes' = 1..(n - 1) /\ scopes' # <<>>
      /\ \A k \in 1..(n - 1) : scopes'[k] = scopes[k]
  <2>1. n - 1 \in Nat /\ n - 1 <= n /\ n - 1 # 0
    BY <1>2, <1>3
  <2>5. n - 1 <= Len(scopes)
    BY <2>1 DEF n
  <2>2. /\ IsSequence(scopes') /\ Len(scopes') = n - 1 /\ DOMAIN scopes' = 1..(n - 1)
        /\ \A k \in 1..(n - 1) : scopes'[k] = scopes[k]
    BY <1>3, <1>15, <2>1, <2>5, PrefixShape
  <2>3. scopes' # <<>>
    BY <2>1, <2>2, NestedNonempty
  <2>4. QED
    BY <2>2, <2>3
<1>6. \A k \in 2..(n - 1) : k \in 2..n /\ k \in 1..(n - 1) /\ opened[k] \in 1..j
  <2> SUFFICES ASSUME NEW k \in 2..(n - 1)
               PROVE  k \in 2..n /\ k \in 1..(n - 1) /\ opened[k] \in 1..j
    OBVIOUS
  <2>1. k \in 2..n /\ k \in 1..(n - 1) /\ k # n
    BY <1>3
  <2>2. opened[k] \in 1..m /\ frames[opened[k]].kind \in Opening /\ opened[k] # m
    BY <1>2, <2>1
  <2>3. opened[k] \notin (j + 1)..(m - 1)
    BY <1>15, <2>2
  <2>4. QED
    BY <1>3, <2>1, <2>2, <2>3
<1>16. PICK narrower : narrower = [k \in 2..(n - 1) |-> opened[k]]
  OBVIOUS
<1>7. /\ DOMAIN narrower = 2..(n - 1) /\ \A k \in 2..(n - 1) : narrower[k] = opened[k]
      /\ narrower \in [2..(n - 1) -> 1..j]
  BY <1>6, <1>16
<1>8. Opens(narrower)'
  <2>1. \A k, l \in 2..(n - 1) : k < l => narrower[k] < narrower[l]
    BY <1>5, <1>6, <1>7
  <2>2. ASSUME NEW i \in 1..j
        PROVE  frames'[i].kind \in Opening <=> \E k \in 2..(n - 1) : narrower[k] = i
    <3>1. i \in 1..m /\ i # m /\ frames'[i] = frames[i]
      BY <1>3, <1>15
    <3>2. \A k \in 2..n : k \in 2..(n - 1) \/ k = n
      BY <1>3
    <3>3. QED
      BY <1>2, <1>5, <1>6, <1>7, <3>1, <3>2
  <2>3. QED
    BY <1>7, <2>1, <2>2 DEF Opens
<1>9. ASSUME Mirrors(opened)
      PROVE  Mirrors(narrower)'
  <2>1. ASSUME NEW k \in 2..(n - 1)
        PROVE  LET env == frames'[narrower[k]].env
               IN  /\ DOMAIN scopes'[k] = DOMAIN env
                   /\ \A x \in DOMAIN env : scopes'[k][x].valId = env[x]
    <3>1. scopes'[k] = scopes[k] /\ narrower[k] = opened[k] /\ frames'[opened[k]] = frames[opened[k]]
      BY <1>4, <1>6, <1>7
    <3>2. k \in DOMAIN opened
      BY <1>5, <1>6
    <3>3. QED
      BY <1>9, <3>1, <3>2 DEF Mirrors
  <2>2. ASSUME NEW i \in 1..j, frames'[i].kind \notin Opening
        PROVE  DOMAIN frames'[i].env = {}
    <3>1. i \in DOMAIN frames /\ frames'[i] = frames[i]
      BY <1>3, <1>15
    <3>2. QED
      BY <1>9, <2>2, <3>1 DEF Mirrors
  <2>3. QED
    BY <1>7, <2>1, <2>2 DEF Mirrors
<1>10. Follows(narrower)'
  BY <1>4, <1>5, <1>7, <1>8, <1>9 DEF Follows
<1>11. scopes # <<>> /\ DOMAIN scopes[1] = {} /\ 1 \in 1..(n - 1)
  BY <1>2, <1>3, <1>14 DEF ScopesFollowFrames
<1>12. DOMAIN scopes'[1] = {} /\ phase' # "idle"
  BY <1>4, <1>11 DEF ScopesFollowFrames
<1>13. QED
  BY <1>4, <1>10, <1>12 DEF ScopesFollowFrames, Follows

\* A for statement begins, goes on or ends: no scope of its own.
LEMMA LoopScope ==
  ASSUME TypeOK, LifecycleInv, ScopesFollowFrames, UNCHANGED <<scopes, phase>>,
         \A i \in DOMAIN frames \cap DOMAIN frames' :
           /\ frames'[i].kind \in Opening <=> frames[i].kind \in Opening
           /\ frames'[i].env = frames[i].env,
         \A i \in DOMAIN frames \ DOMAIN frames' : frames[i].kind \notin Opening,
         \A i \in DOMAIN frames' \ DOMAIN frames :
           frames'[i].kind \notin Opening /\ DOMAIN frames'[i].env = {}
  PROVE  ScopesFollowFrames'
<1>1. PICK opened : Follows(opened)
  BY FollowsMeans
<1>2. /\ opened \in [2..Len(scopes) -> DOMAIN frames] /\ DOMAIN opened = 2..Len(scopes)
      /\ \A k, l \in DOMAIN opened : k < l => opened[k] < opened[l]
      /\ \A i \in DOMAIN frames : frames[i].kind \in Opening <=> \E k \in DOMAIN opened : opened[k] = i
  BY <1>1 DEF Follows, Opens
<1>3. \A k \in DOMAIN opened : opened[k] \in DOMAIN frames \cap DOMAIN frames'
  BY <1>2
<1>4. opened \in [2..Len(scopes) -> DOMAIN frames']
  BY <1>2, <1>3
<1>5. Opens(opened)'
  <2>1. ASSUME NEW i \in DOMAIN frames'
        PROVE  frames'[i].kind \in Opening <=> \E k \in DOMAIN opened : opened[k] = i
    BY <1>2, <1>3
  <2>2. QED
    BY <1>2, <2>1 DEF Opens
<1>6. ASSUME Mirrors(opened)
      PROVE  Mirrors(opened)'
  <2>1. \A k \in DOMAIN opened :
          /\ frames'[opened[k]].env = frames[opened[k]].env /\ scopes'[k] = scopes[k]
          /\ DOMAIN scopes[k] = DOMAIN frames[opened[k]].env
          /\ \A x \in DOMAIN frames[opened[k]].env : scopes[k][x].valId = frames[opened[k]].env[x]
    BY <1>3, <1>6 DEF Mirrors
  <2>2. \A i \in DOMAIN frames' : frames'[i].kind \notin Opening => DOMAIN frames'[i].env = {}
    BY <1>6 DEF Mirrors
  <2>3. QED
    BY <2>1, <2>2 DEF Mirrors
<1>7. Follows(opened)'
  BY <1>1, <1>4, <1>5, <1>6 DEF Follows
<1>8. QED
  BY <1>7 DEF ScopesFollowFrames, Follows

\* A scope that is entered is empty.
LEMMA EnteredScope ==
  ASSUME EnterScope, IsSequence(scopes)
  PROVE  /\ Len(scopes') = Len(scopes) + 1 /\ scopes' # <<>>
         /\ \A k \in DOMAIN scopes : scopes'[k] = scopes[k]
         /\ scopes'[Len(scopes) + 1] = NoSymbols
<1>1. scopes' = Append(scopes, NoSymbols)
  BY DEF EnterScope
<1> HIDE DEF NoSymbols
<1>2. /\ Len(scopes') = Len(scopes) + 1
      /\ \A k \in DOMAIN scopes : scopes'[k] = scopes[k]
      /\ scopes'[Len(scopes) + 1] = NoSymbols
  BY <1>1, AppendShape
<1>3. scopes' # <<>>
  BY <1>1, AppendFacts
<1>4. QED
  BY <1>2, <1>3

\* Parameters open the first scope of a function.
LEMMA OpenParams ==
  ASSUME TypeOK, LifecycleInv, ScopesFollowFrames, VisitFunctionDef, ~AlreadyDefined(Head(pending))
  PROVE  ScopesFollowFrames'
<1>1. frames = <<>> /\ phase = "main" /\ EnterScope /\ frames' = <<Frame("params")>> /\ UNCHANGED phase
  BY EnteredFunction DEF VisitFunctionDef, MarkVisited, AtTopLevel
<1>2. Len(scopes) = 1 /\ DOMAIN scopes[1] = {} /\ IsSequence(scopes) /\ DOMAIN scopes = 1..1
  BY <1>1, FileScope, ScopesSequence
<1>3. /\ Len(scopes') = 2 /\ scopes' # <<>> /\ scopes'[1] = scopes[1] /\ scopes'[2] = NoSymbols
  BY <1>1, <1>2, EnteredScope
<1>4. DOMAIN frames' = {1} /\ frames'[1].kind = "params" /\ DOMAIN frames'[1].env = {}
  BY <1>1 DEF Frame
<1> DEFINE opened == [k \in 2..2 |-> 1]
<1>5. DOMAIN opened = {2} /\ opened[2] = 1 /\ opened \in [2..Len(scopes') -> DOMAIN frames']
  BY <1>3, <1>4
<1> HIDE DEF opened
<1>6. Opens(opened)'
  BY <1>4, <1>5 DEF Opens, Opening
<1>7. Mirrors(opened)'
  BY <1>3, <1>4, <1>5 DEF Mirrors, Opening, NoSymbols
<1>8. QED
  BY <1>1, <1>2, <1>3, <1>5, <1>6, <1>7 DEF ScopesFollowFrames

\* The body has a scope of its own, inside that of the parameters.
LEMMA OpenBody ==
  ASSUME TypeOK, LifecycleInv, ScopesFollowFrames, EnterBody
  PROVE  ScopesFollowFrames'
<1> DEFINE fun == [frames[1] EXCEPT !.kind = "fun"]
<1>1. /\ frames # <<>> /\ Top \in Outermost /\ EnterScope /\ UNCHANGED phase
      /\ frames' = <<fun, Frame("block")>>
  BY DEF EnterBody, Outermost, file
<1>2. PICK opened : Follows(opened)
  BY FollowsMeans
<1>3. Len(frames) = 1 /\ Len(scopes) = 2 /\ opened[2] = 1
  BY <1>1, <1>2, OutermostScope
<1>4. DOMAIN scopes = 1..2 /\ IsSequence(scopes) /\ DOMAIN frames = 1..1
  BY <1>3, ScopesSequence, FramesSequence
<1>5. /\ Len(scopes') = 3 /\ scopes' # <<>>
      /\ scopes'[1] = scopes[1] /\ scopes'[2] = scopes[2] /\ scopes'[3] = NoSymbols
  BY <1>1, <1>3, <1>4, EnteredScope
<1>6. fun.kind = "fun" /\ fun.env = frames[1].env
  <2>1. frames[1] = [kind |-> frames[1].kind, env |-> frames[1].env]
    BY <1>4 DEF TypeOK, FramesOK, IsFrame
  <2>2. QED
    BY <2>1
<1> HIDE DEF fun
<1>7. /\ DOMAIN frames' = {1, 2} /\ frames'[1] = fun /\ frames'[2] = Frame("block")
      /\ Frame("block").kind = "block" /\ DOMAIN Frame("block").env = {}
  BY <1>1 DEF Frame
<1>14. PICK wider : wider = [k \in 2..3 |-> k - 1]
  OBVIOUS
<1>8. DOMAIN wider = {2, 3} /\ wider[2] = 1 /\ wider[3] = 2 /\ wider \in [2..Len(scopes') -> DOMAIN frames']
  BY <1>5, <1>7, <1>14
<1>9. Opens(wider)'
  BY <1>6, <1>7, <1>8 DEF Opens, Opening
<1>10. ASSUME Mirrors(opened)
       PROVE  Mirrors(wider)'
  <2>1. 2 \in DOMAIN opened
    BY <1>2, <1>3 DEF Follows
  <2>2. /\ DOMAIN scopes[2] = DOMAIN frames[1].env
        /\ \A x \in DOMAIN frames[1].env : scopes[2][x].valId = frames[1].env[x]
    BY <1>3, <1>10, <2>1 DEF Mirrors
  <2>3. /\ DOMAIN scopes'[2] = DOMAIN frames'[1].env
        /\ \A x \in DOMAIN frames'[1].env : scopes'[2][x].valId = frames'[1].env[x]
    BY <1>5, <1>6, <1>7, <2>2
  <2>4. DOMAIN scopes'[3] = DOMAIN frames'[2].env /\ DOMAIN frames'[2].env = {}
    BY <1>5, <1>7 DEF NoSymbols
  <2>5. \A i \in DOMAIN frames' : frames'[i].kind \in Opening
    BY <1>6, <1>7 DEF Opening
  <2>6. QED
    BY <1>8, <2>3, <2>4, <2>5 DEF Mirrors
<1>11. Follows(wider)'
  BY <1>2, <1>8, <1>9, <1>10 DEF Follows
<1>12. scopes # <<>> /\ DOMAIN scopes[1] = {} /\ phase # "idle"
  BY <1>3, ScopesSequence DEF ScopesFollowFrames
<1>13. QED
  BY <1>1, <1>5, <1>11, <1>12 DEF ScopesFollowFrames, Follows

\* A file begins with its scope and ends without one.
LEMMA FileScopes ==
  ASSUME TypeOK, LifecycleInv, ScopesFollowFrames, StartUnit \/ EndUnit
  PROVE  ScopesFollowFrames'
<1>1. frames = <<>> /\ frames' = <<>>
  BY DEF StartUnit, EndUnit, AtTopLevel, cursor, LifecycleInv, CurrentIsVisited
<1>6. PICK opened : opened = [k \in {} |-> 1]
  OBVIOUS
<1>2. ASSUME Len(scopes') \in 0..1
      PROVE  Follows(opened)'
  <2>1. \A n \in 0..1 : 2..n = {}
    OBVIOUS
  <2>2. 2..Len(scopes') = {}
    BY ONLY <1>2, <2>1, Zenon
  <2>3. DOMAIN frames' = {}
    BY ONLY <1>1
  <2>4. opened \in [2..Len(scopes') -> DOMAIN frames'] /\ DOMAIN opened = {}
    BY <1>6, <2>2, <2>3
  <2>5. QED
    BY <2>3, <2>4 DEF Follows, Opens, Mirrors
<1>3. CASE StartUnit
  <2>1. scopes = <<>> /\ EnterScope /\ phase' = "prescan"
    BY <1>3 DEF StartUnit, ScopesFollowFrames
  <2>2. scopes' = <<NoSymbols>>
    BY <2>1 DEF EnterScope
  <2>3. Len(scopes') = 1 /\ scopes' # <<>> /\ DOMAIN scopes'[1] = {}
    BY <2>2 DEF NoSymbols
  <2>4. Follows(opened)'
    BY <1>2, <2>3
  <2>5. QED
    BY <2>1, <2>3, <2>4 DEF ScopesFollowFrames, Follows
<1>4. CASE EndUnit
  <2>1. Len(scopes) = 1 /\ IsSequence(scopes) /\ ExitScope /\ phase' = "idle"
    BY <1>1, <1>4, FileScope, ScopesSequence DEF EndUnit, AtTopLevel
  <2>2. IsSequence(scopes') /\ Len(scopes') = 0
    BY <2>1, PrefixShape DEF ExitScope
  <2>3. scopes' = <<>>
    BY <2>2, NestedNonempty
  <2>4. Follows(opened)'
    BY <1>2, <2>2
  <2>5. QED
    BY <2>1, <2>3, <2>4 DEF ScopesFollowFrames, Follows
<1>5. QED
  BY <1>3, <1>4

LEMMA DeclaresInScope ==
  ASSUME TypeOK, LifecycleInv, InterfaceInv, ScopesFollowFrames, NEW x, NEW ty, NEW isArray,
         NEW text, BindLocal(text, ty, isArray), frames' = Declared(frames, x, LastId(pag) + 2),
         UNCHANGED phase, frames # <<>>, (Top \in Opening /\ text = x) \/ Unmirrored
  PROVE  ScopesFollowFrames'
<1> DEFINE sym == Symbol(ty, LastId(pag) + 1, LastId(pag) + 2, FALSE, isArray)
<1>1. scopes' = [scopes EXCEPT ![Len(scopes)] = Bind(@, text, sym)]
  BY DEF BindLocal
<1>2. sym.valId = LastId(pag) + 2
  BY DEF Symbol
<1> HIDE DEF sym
<1>3. QED
  BY <1>1, <1>2, DeclareInScope

\* A declarator that is skipped declares its name in the source only.
LEMMA SkippedInScope ==
  ASSUME TypeOK, LifecycleInv, ScopesFollowFrames, NEW x, SkipFunctionPointer(x)
  PROVE  ScopesFollowFrames'
<1>1. /\ UNCHANGED <<scopes, phase>> /\ frames # <<>>
      /\ frames' = Declared(frames, x, NullId) /\ "function pointer" \in Constructs
  BY DEF SkipFunctionPointer, AtStatement, InBody, symtab, file, Uses
<1>2. Unmirrored
  BY <1>1, Zenon DEF Unmirrored
<1>3. DOMAIN frames' = DOMAIN frames /\ \A i \in DOMAIN frames : frames'[i].kind = frames[i].kind
  BY <1>1, DeclaredFrames
<1>4. PICK opened \in [2..Len(scopes) -> DOMAIN frames] : Opens(opened)
  BY DEF ScopesFollowFrames
<1>5. opened \in [2..Len(scopes') -> DOMAIN frames'] /\ Opens(opened)'
  BY <1>1, <1>3, <1>4 DEF Opens
<1>6. Unmirrored'
  BY <1>2 DEF Unmirrored
<1>7. QED
  BY <1>1, <1>5, <1>6 DEF ScopesFollowFrames

\* The innermost frames that a construct in a body takes with it when it ends.
LEMMA EndScopes ==
  ASSUME TypeOK, LifecycleInv, ScopesFollowFrames, ExitBlock
  PROVE  ScopesFollowFrames'
<1> DEFINE m == Len(frames)
<1>1. /\ frames # <<>> /\ Top = "block" /\ ExitScope /\ UNCHANGED phase
      /\ frames' = IF Enclosing[Len(Enclosing)].kind \in {"fun", "block"} THEN Enclosing
                   ELSE SubSeq(frames, 1, m - 2)
  BY DEF ExitBlock, AtStatement, InBody, file
<1>2. m >= 2 /\ m \in Nat /\ IsSequence(frames) /\ DOMAIN frames = 1..m
  BY <1>1, InnerFrame, FramesSequence DEF Outermost
<1>3. Len(Enclosing) = m - 1 /\ Enclosing[m - 1] = frames[m - 1]
  <2>1. m - 1 \in Nat /\ m - 1 <= m /\ m - 1 \in 1..(m - 1)
    BY <1>2
  <2>2. QED
    BY <1>2, <2>1, PrefixShape DEF Enclosing
<1>4. Top \in Opening
  BY <1>1 DEF Opening
<1>5. CASE frames' = Enclosing
  <2> DEFINE j == m - 1
  <2>1. j \in Nat /\ j <= m /\ j < m /\ (j + 1)..(m - 1) = {}
    BY <1>2
  <2>2. DOMAIN frames' = 1..j /\ \A i \in 1..j : frames'[i] = frames[i]
    BY <1>2, <1>5, <2>1, PrefixShape DEF Enclosing
  <2> HIDE DEF j
  <2>3. \A i \in (j + 1)..(m - 1) : frames[i].kind \notin Opening
    BY <2>1
  <2>4. QED
    BY <1>1, <1>4, <2>1, <2>2, <2>3, ScopeClosed
<1>6. CASE frames' = SubSeq(frames, 1, m - 2) /\ frames[m - 1].kind \notin {"fun", "block"}
  <2>1. m - 1 \in DOMAIN frames /\ m - 1 # 1
    BY <1>1, <1>2, <1>6, InnerFrame DEF Outermost
  <2>2. m - 1 \in 2..m
    BY <1>2, <2>1
  <2>3. frames[m - 1].kind \notin Opening
    <3>1. frames[m - 1].kind # "params"
      BY <1>1, <2>2, FramesSequence DEF Nested, Outermost
    <3>2. QED
      BY <1>6, <3>1 DEF Opening
  <2> DEFINE j == m - 2
  <2>4. j \in Nat /\ j <= m /\ j < m /\ (j + 1)..(m - 1) = {m - 1}
    BY <1>2
  <2>5. DOMAIN frames' = 1..j /\ \A i \in 1..j : frames'[i] = frames[i]
    BY <1>2, <1>6, <2>4, PrefixShape
  <2> HIDE DEF j
  <2>6. \A i \in (j + 1)..(m - 1) : frames[i].kind \notin Opening
    BY <2>3, <2>4
  <2>7. QED
    BY <1>1, <1>4, <2>4, <2>5, <2>6, ScopeClosed
<1>7. QED
  BY <1>1, <1>3, <1>5, <1>6

LEMMA LeaveScopes ==
  ASSUME TypeOK, LifecycleInv, ScopesFollowFrames, LeaveFunctionDef
  PROVE  ScopesFollowFrames'
<1>1. frames # <<>> /\ Top = "fun" /\ ExitScope /\ UNCHANGED phase /\ frames' = <<>>
  BY DEF LeaveFunctionDef, file
<1>2. Len(frames) = 1
  BY <1>1, FollowsMeans, OutermostScope DEF Outermost
<1> DEFINE j == 0
           m == Len(frames)
<1>3. j \in Nat /\ j < m /\ DOMAIN frames' = 1..j /\ 1..j = {}
  BY <1>1, <1>2
<1>6. \A i \in (j + 1)..(m - 1) : frames[i].kind \notin Opening
  BY <1>2
<1> HIDE DEF j
<1>7. \A i \in 1..j : frames'[i] = frames[i]
  BY <1>3
<1>4. Top \in Opening
  BY <1>1 DEF Opening
<1>5. QED
  BY <1>1, <1>3, <1>4, <1>6, <1>7, ScopeClosed

LEMMA LoopScopes ==
  ASSUME TypeOK, LifecycleInv, ScopesFollowFrames, VisitFor \/ VisitForClause \/ EndFor
  PROVE  ScopesFollowFrames'
<1> DEFINE m == Len(frames)
<1>1. UNCHANGED <<scopes, phase>> /\ frames # <<>>
  BY DEF VisitFor, VisitForClause, EndFor, AtStatement, ExprVisited, InBody, symtab, file
<1>2. m \in Nat /\ m # 0 /\ DOMAIN frames = 1..m /\ IsSequence(frames)
  BY <1>1, FramesSequence
<1>3. CASE VisitFor
  <2>1. frames' = Append(frames, Frame("for"))
    BY <1>3 DEF VisitFor
  <2>2. /\ DOMAIN frames' = 1..(m + 1) /\ frames'[m + 1] = Frame("for")
        /\ \A i \in 1..m : frames'[i] = frames[i]
    BY <1>2, <2>1, AppendShape
  <2>3. Frame("for").kind \notin Opening /\ DOMAIN Frame("for").env = {}
    BY DEF Frame, Opening
  <2>4. \A i \in DOMAIN frames' \ DOMAIN frames : i = m + 1
    BY <1>2, <2>2
  <2>5. \A i \in DOMAIN frames \cap DOMAIN frames' : frames'[i] = frames[i]
    BY <1>2, <2>2
  <2>6. DOMAIN frames \ DOMAIN frames' = {}
    BY <1>2, <2>2
  <2>7. QED
    BY <1>1, <2>2, <2>3, <2>4, <2>5, <2>6, LoopScope
<1>4. CASE VisitForClause
  <2>1. /\ frames' = [frames EXCEPT ![m] = [frames[m] EXCEPT !.kind = "loop"]]
        /\ frames[m].kind \in {"for", "loop"}
    BY <1>4 DEF VisitForClause, Top
  <2>2. m \in DOMAIN frames /\ frames[m] = [kind |-> frames[m].kind, env |-> frames[m].env]
    BY <1>2 DEF TypeOK, FramesOK, IsFrame
  <2>3. frames'[m].kind = "loop" /\ frames'[m].env = frames[m].env
    BY <2>1, <2>2
  <2>4. DOMAIN frames' = DOMAIN frames /\ \A i \in DOMAIN frames : i # m => frames'[i] = frames[i]
    BY <2>1
  <2>5. \A i \in DOMAIN frames : /\ frames'[i].kind \in Opening <=> frames[i].kind \in Opening
                                 /\ frames'[i].env = frames[i].env
    BY <2>1, <2>3, <2>4 DEF Opening
  <2>6. QED
    BY <1>1, <2>4, <2>5, LoopScope
<1>5. CASE EndFor
  <2>1. frames' = SubSeq(frames, 1, m - 1) /\ frames[m].kind \in {"for", "loop"}
    BY <1>5 DEF EndFor, Enclosing, Top
  <2>2. m - 1 \in Nat /\ m - 1 <= m
    BY <1>2
  <2>3. DOMAIN frames' = 1..(m - 1) /\ \A i \in 1..(m - 1) : frames'[i] = frames[i]
    BY <1>2, <2>1, <2>2, PrefixShape
  <2>4. \A i \in DOMAIN frames \ DOMAIN frames' : i = m
    BY <1>2, <2>3
  <2>5. frames[m].kind \notin Opening
    BY <2>1 DEF Opening
  <2>6. DOMAIN frames' \ DOMAIN frames = {}
    BY <1>2, <2>3
  <2>7. \A i \in DOMAIN frames \cap DOMAIN frames' : frames'[i] = frames[i]
    BY <2>3
  <2>8. QED
    BY <1>1, <2>4, <2>5, <2>6, <2>7, LoopScope
<1>6. QED
  BY <1>3, <1>4, <1>5

\* Whatever the step, the scopes go on to follow the frames.
LEMMA StepScopesFollowFrames ==
  ASSUME TypeOK, LifecycleInv, InterfaceInv, ScopesFollowFrames, [Next]_vars
  PROVE  ScopesFollowFrames'
<1>1. CASE ExprStep
  BY <1>1, ExprStepControls, SameScopes DEF symtab, file
<1>2. CASE UnitStep
  <2>1. ASSUME UNCHANGED <<scopes, frames>>, phase' = "idle" <=> phase = "idle"
        PROVE  ScopesFollowFrames'
    BY <2>1, SameScopes
  <2>2. ASSUME NEW f \in Funs, NEW sig \in Signatures, PrescanFunctionDef(f, sig)
        PROVE  UNCHANGED <<scopes, frames, phase>>
    BY <2>2 DEF PrescanFunctionDef, cursor
  <2>3. QED
    BY <1>2, <2>1, <2>2, FileScopes
    DEF UnitStep, EndPrescan, VisitStructSpecifier, VisitTypeDefinition, VisitGlobalDecl,
        VisitPrototype, symtab, file, cursor
<1>3. CASE BodyStep
  <2>1. ASSUME VisitFunctionDef
        PROVE  ScopesFollowFrames'
    <3>1. CASE AlreadyDefined(Head(pending))
      BY <2>1, <3>1, SameScopes DEF VisitFunctionDef, MarkVisited
    <3>2. QED
      BY <2>1, <3>1, OpenParams
  <2>2. ASSUME BindFormal
        PROVE  ScopesFollowFrames'
    <3>1. /\ BindLocal(Head(toBind).name, PtrTy, FALSE) /\ UNCHANGED phase
          /\ frames' = Declared(frames, Head(toBind).source, LastId(pag) + 2)
      BY <2>2 DEF BindFormal, file
    <3>2. frames # <<>> /\ Top \in Opening
      BY <2>2 DEF BindFormal, InterfaceInv, CurrentInterface, Opening
    <3>3. Head(toBind) \in FormalType
      BY <2>2, HeadTailProperties DEF BindFormal, TypeOK, FramesOK
    <3>4. Head(toBind).name = Head(toBind).source \/ "qualified parameter" \in Constructs
      BY <3>3, FormalTyped DEF Uses
    <3>5. Head(toBind).name = Head(toBind).source \/ Unmirrored
      BY <3>4, Zenon DEF Unmirrored
    <3>6. QED
      BY <3>1, <3>2, <3>5, DeclaresInScope
  <2>3. ASSUME NEW x \in Vars, NEW spec \in Specifiers, NEW d \in Declarators, NEW init \in BOOLEAN,
               VisitLocalDecl(x, spec, d, init)
        PROVE  ScopesFollowFrames'
    <3>1. /\ BindLocal(x, DeclaredType(spec, d), d.bracket) /\ UNCHANGED phase
          /\ frames' = Declared(frames, x, LastId(pag) + 2) /\ frames # <<>>
      BY <2>3 DEF VisitLocalDecl, CreateLocal, AtStatement, InBody, file
    <3>2. Top = "block" \/ Unmirrored
      BY <2>3, Zenon DEF VisitLocalDecl, Unmirrored, Uses
    <3>3. QED
      BY <3>1, <3>2, DeclaresInScope DEF Opening
  <2>4. ASSUME EnterBlock
        PROVE  ScopesFollowFrames'
    BY <2>4, ScopeOpened DEF EnterBlock, AtStatement, InBody, file
  <2>5. ASSUME EndInitializer \/ VisitExprStmt \/ VisitReturn
        PROVE  ScopesFollowFrames'
    BY <2>5, SameScopes DEF EndInitializer, VisitExprStmt, VisitReturn, symtab, file
  <2>6. QED
    BY <1>3, <2>1, <2>2, <2>3, <2>4, <2>5, OpenBody, LeaveScopes, EndScopes, LoopScopes,
       SkippedInScope DEF BodyStep
<1>4. CASE UNCHANGED vars
  BY <1>4, SameScopes DEF vars, symtab, file, cursor
<1>5. QED
  BY <1>1, <1>2, <1>3, <1>4 DEF Next

LEMMA InitPlace ==
  ASSUME Init
  PROVE  PlaceInv
<1>1. AnchorOwned /\ OperandsEnclosed
  BY DEF Init, EmptyIcfg, AnchorOwned, OperandsEnclosed, GlobalNode
<1>2. scopes = <<>> /\ frames = <<>> /\ phase = "idle"
  BY DEF Init
<1>3. Follows([k \in {} |-> 1])
  <2>1. 2..Len(scopes) = {} /\ DOMAIN frames = {}
    BY <1>2
  <2>2. [k \in {} |-> 1] \in [2..Len(scopes) -> DOMAIN frames]
    BY <2>1
  <2>3. QED
    BY <2>1, <2>2 DEF Follows, Opens, Mirrors
<1>4. QED
  BY <1>1, <1>2, <1>3 DEF PlaceInv, ScopesFollowFrames, Follows

\* Where the visitor stands: what holds of the anchor, of the pending operands and
\* initializers, and of the scopes at every point of every visit.
THEOREM VisitorKeepsItsPlace == Spec => []PlaceInv
<1>1. Init => PlaceInv
  BY InitPlace
<1>2. TypeOK /\ LifecycleInv /\ FlowInv /\ PlaceInv /\ [Next]_vars => PlaceInv'
  BY StepAnchorOwned, StepOperandsEnclosed, StepScopesFollowFrames DEF PlaceInv, FlowInv
<1>3. QED
  BY <1>1, <1>2, FlowsThroughInterfaces, PTL DEF Spec

-----------------------------------------------------------------------------
(* Names *)

ScopesOf(x) == {k \in 1..Len(scopes) : x \in DOMAIN scopes[k]}
FramesOf(x) == {i \in DOMAIN frames : x \in DOMAIN frames[i].env}
Innermost(S, k) == k \in S /\ \A l \in S : l <= k

LEMMA LookupMeans ==
  ASSUME NEW x, NEW v
  PROVE  v \in {sym.valId : sym \in Lookup(x)} <=>
           \/ \E k : Innermost(ScopesOf(x), k) /\ v = scopes[k][x].valId
           \/ ScopesOf(x) = {} /\ x \in DOMAIN globals /\ v = globals[x].valId
BY DEF Lookup, ScopesOf, Innermost

LEMMA CLookupMeans ==
  ASSUME NEW x, NEW v
  PROVE  v \in CLookup(x) <=>
           \/ \E i : Innermost(FramesOf(x), i) /\ v = frames[i].env[x]
           \/ FramesOf(x) = {} /\ x \in DOMAIN globals /\ v = globals[x].valId
BY DEF CLookup, FramesOf, Innermost

\* With a scope for each frame that declares something, the innermost scope that has a
\* name is that of the innermost frame that has it.
LEMMA MirroredNames ==
  ASSUME TypeOK, LifecycleInv, ScopesFollowFrames, ~Unmirrored, frames # <<>>, NEW x
  PROVE  CLookup(x) = {sym.valId : sym \in Lookup(x)}
<1>1. PICK opened : Follows(opened)
  BY FollowsMeans
<1>2. /\ DOMAIN opened = 2..Len(scopes) /\ Mirrors(opened)
      /\ \A k \in DOMAIN opened : opened[k] \in DOMAIN frames
      /\ \A k, l \in DOMAIN opened : k < l => opened[k] < opened[l]
      /\ \A i \in DOMAIN frames : frames[i].kind \in Opening <=> \E k \in DOMAIN opened : opened[k] = i
  BY <1>1 DEF Follows, Opens
<1>3. Len(scopes) \in Nat /\ Len(scopes) >= 2 /\ DOMAIN frames = 1..Len(frames) /\ Len(frames) \in Nat
  BY <1>1, InnermostScope, ScopesSequence, FramesSequence
<1>4. DOMAIN scopes[1] = {}
  BY <1>3, ScopesSequence DEF ScopesFollowFrames
<1>5. \A k : k \in ScopesOf(x) <=> k \in DOMAIN opened /\ opened[k] \in FramesOf(x)
  <2>1. \A k \in DOMAIN opened : DOMAIN scopes[k] = DOMAIN frames[opened[k]].env
    BY <1>2 DEF Mirrors
  <2>2. \A k : k \in ScopesOf(x) => k \in DOMAIN opened
    BY <1>2, <1>3, <1>4 DEF ScopesOf
  <2>3. \A k \in DOMAIN opened : k \in 1..Len(scopes)
    BY <1>2, <1>3
  <2>4. QED
    BY <1>2, <2>1, <2>2, <2>3 DEF ScopesOf, FramesOf
<1>6. \A i \in FramesOf(x) : \E k \in ScopesOf(x) : opened[k] = i
  BY <1>2, <1>5 DEF FramesOf, Mirrors
<1>7. \A k, l \in DOMAIN opened : opened[k] <= opened[l] <=> k <= l
  <2>1. \A k \in DOMAIN opened : opened[k] \in Nat /\ k \in Nat
    BY <1>2, <1>3
  <2>2. QED
    BY <1>2, <2>1
<1>8. \A k \in ScopesOf(x) : scopes[k][x].valId = frames[opened[k]].env[x]
  BY <1>2, <1>5 DEF Mirrors, FramesOf
<1>9. \A k : Innermost(ScopesOf(x), k) => Innermost(FramesOf(x), opened[k])
  BY <1>5, <1>6, <1>7 DEF Innermost
<1>10. \A i : Innermost(FramesOf(x), i) => \E k : Innermost(ScopesOf(x), k) /\ opened[k] = i
  <2>1. ASSUME NEW i, Innermost(FramesOf(x), i)
        PROVE  \E k : Innermost(ScopesOf(x), k) /\ opened[k] = i
    <3>1. PICK k \in ScopesOf(x) : opened[k] = i
      BY <1>6, <2>1 DEF Innermost
    <3>2. Innermost(ScopesOf(x), k)
      BY <1>5, <1>7, <2>1, <3>1 DEF Innermost
    <3>3. QED
      BY <3>1, <3>2
  <2>2. QED
    BY <2>1
<1>11. ScopesOf(x) = {} <=> FramesOf(x) = {}
  BY <1>5, <1>6
<1>12. \A v : (\E k : Innermost(ScopesOf(x), k) /\ v = scopes[k][x].valId)
                <=> (\E i : Innermost(FramesOf(x), i) /\ v = frames[i].env[x])
  BY <1>8, <1>9, <1>10 DEF Innermost
<1>13. ASSUME NEW v
       PROVE  v \in CLookup(x) <=> v \in {sym.valId : sym \in Lookup(x)}
  <2>1. v \in {sym.valId : sym \in Lookup(x)} <=>
          \/ \E k : Innermost(ScopesOf(x), k) /\ v = scopes[k][x].valId
          \/ ScopesOf(x) = {} /\ x \in DOMAIN globals /\ v = globals[x].valId
    BY LookupMeans
  <2>2. v \in CLookup(x) <=>
          \/ \E i : Innermost(FramesOf(x), i) /\ v = frames[i].env[x]
          \/ FramesOf(x) = {} /\ x \in DOMAIN globals /\ v = globals[x].valId
    BY CLookupMeans
  <2>3. QED
    BY <1>11, <1>12, <2>1, <2>2
<1>14. QED
  BY <1>13

LEMMA NamesMirrored ==
  ASSUME ~Unmirrored
  PROVE  TypeOK /\ LifecycleInv /\ PlaceInv => NamesResolveAsInC
BY MirroredNames DEF PlaceInv, NamesResolveAsInC, InBody

\* The symbol table resolves a name as C does, at every point of a body, in every
\* program in which no for statement declares a variable, no parameter has a qualifier
\* before its name and no function pointer is declared in a body.  visitFor opens no scope,
\* and a variable of a loop hides one outside it for too long; prescanFunctionDef takes
\* the qualifier of int *const p into the name; visitLocalDecl skips the declarator of
\* void (*fp)(void), and the name goes on to mean what it did outside.
THEOREM NamesResolve ==
  ASSUME ~Uses("for declaration"), ~Uses("qualified parameter"), ~Uses("function pointer")
  PROVE  Spec => []NamesResolveAsInC
<1>1. TypeOK /\ LifecycleInv /\ PlaceInv => NamesResolveAsInC
  BY NamesMirrored, Zenon DEF Unmirrored, Uses
<1>2. QED
  BY <1>1, LifecycleHolds, VisitorKeepsItsPlace, PTL

-----------------------------------------------------------------------------
(* Statements stay in their function *)

\* What a step makes belongs to the function that is visited, if there is an anchor.
LEMMA NewOwned ==
  ASSUME TypeOK, AnchorOwned, Flows, Extends(icfg, icfg'), NEW i \in New
  PROVE  OwnerOf(i)' \in {None, currentFunc}
<1>1. pag'.node[i].at = currentICFG
  BY DEF Flows
<1>2. currentICFG # NullId => icfg'.node[currentICFG] = icfg.node[currentICFG]
  BY DEF Extends, TypeOK, CurrentOK
<1>3. currentICFG # NullId => icfg.node[currentICFG].bb \in {None, currentFunc}
  BY DEF AnchorOwned
<1>4. QED
  BY <1>1, <1>2, <1>3 DEF OwnerOf

LEMMA HeldStayOwned ==
  ASSUME TypeOK, AnchorOwned, HeldOwned, Flows, [Next]_vars, NEW i \in Held'
  PROVE  OwnerOf(i)' \in {None, currentFunc}
<1>1. Grows(pag, pag') /\ Extends(icfg, icfg')
  BY StepPreserves, StepExtends DEF Preserved
<1>2. CASE i \in Held
  BY <1>1, <1>2, HeldTyped, OwnersStay DEF HeldOwned, Vals
<1>3. CASE i \in New
  BY <1>1, <1>3, NewOwned
<1>4. QED
  BY <1>2, <1>3 DEF Flows

\* When a function is left, the file's names are all that is held.
LEMMA LeaveHeld ==
  ASSUME TypeOK, LifecycleInv, PlaceInv, LeaveFunctionDef
  PROVE  Held' = GlobalIds /\ GlobalIds' = GlobalIds
<1>1. /\ frames # <<>> /\ Top \in Outermost /\ Top = "fun" /\ frames' = <<>> /\ ExitScope
      /\ UNCHANGED <<globals, stack, target>>
  BY DEF LeaveFunctionDef, Outermost
<1>2. stack = <<>> /\ target = NoTarget
  BY <1>1 DEF PlaceInv, OperandsEnclosed, Visiting, InBody
<1>3. PICK opened : Follows(opened)
  BY FollowsMeans DEF PlaceInv
<1>4. Len(scopes) = 2
  BY <1>1, <1>3, OutermostScope
<1>5. scopes # <<>> /\ DOMAIN scopes[1] = {} /\ IsSequence(scopes)
  BY <1>4, ScopesSequence DEF PlaceInv, ScopesFollowFrames
<1> DEFINE t == SubSeq(scopes, 1, 1)
<1>6. DOMAIN t = 1..1 /\ \A k \in 1..1 : t[k] = scopes[k]
  BY <1>4, <1>5, PrefixShape
<1> HIDE DEF t
<1>7. scopes' = t
  BY <1>1, <1>4 DEF ExitScope, t
<1>8. \A k \in DOMAIN scopes' : DOMAIN scopes'[k] = {}
  BY <1>5, <1>6, <1>7
<1>9. ScopeIds' = {} /\ StackIds' = {} /\ TargetIds' = {}
  BY <1>1, <1>2, <1>8 DEF ScopeIds, StackIds, TargetIds
<1>10. QED
  BY <1>1, <1>9 DEF Held, GlobalIds

LEMMA StepHeldOwned ==
  ASSUME TypeOK, LifecycleInv, PlaceInv, HeldOwned, [Next]_vars
  PROVE  HeldOwned'
<1>1. Grows(pag, pag') /\ Extends(icfg, icfg') /\ AnchorOwned /\ AnchorOwned'
  BY StepPreserves, StepExtends, StepAnchorOwned DEF Preserved, PlaceInv
<1>2. \A i \in GlobalIds : i \in Held /\ i \in Ids(pag)
  BY HeldTyped DEF Held, Vals
<1>3. \A i \in GlobalIds : OwnerOf(i)' = None
  BY <1>1, <1>2, OwnersStay DEF HeldOwned
<1>4. GlobalIds' \subseteq Held'
  BY DEF Held
<1>5. ASSUME Flows, currentFunc = None
      PROVE  HeldOwned'
  BY <1>1, <1>4, <1>5, HeldStayOwned DEF HeldOwned
<1>6. ASSUME Flows, currentFunc' = currentFunc, UNCHANGED globals
      PROVE  HeldOwned'
  BY <1>1, <1>3, <1>6, HeldStayOwned DEF HeldOwned, GlobalIds
<1>7. ASSUME LeaveFunctionDef
      PROVE  HeldOwned'
  BY <1>3, <1>7, LeaveHeld DEF HeldOwned
<1>8. ASSUME NEW f \in Funs, NEW sig \in Signatures, f \notin DOMAIN funcInfos, PrescanFunctionDef(f, sig)
      PROVE  HeldOwned'
  <2>1. Registers(f) /\ Held' \subseteq Held \cup {LastId(pag) + 2}
    BY <1>8, RegistersAll, RegistersHold
  <2>2. currentFunc = None /\ currentFunc' = None
    BY <1>8 DEF PrescanFunctionDef, current, LifecycleInv, CurrentIsVisited
  <2>3. PICK k : k = LastId(pag) + 2 /\ k = LastId(pag) + 1 + 1
    BY NextIsNew
  <2>4. pag'.node[k] = ValNode(GlobalNode, f)
    BY <2>1, <2>3 DEF Registers
  <2>5. OwnerOf(k)' = None
    BY <1>1, <2>4 DEF OwnerOf, ValNode, Node, AnchorOwned, GlobalNode, NullId
  <2>6. \A i \in Held : OwnerOf(i)' = None
    BY <1>1, <2>2, HeldTyped, OwnersStay DEF HeldOwned, Vals
  <2>7. \A i \in Held' : OwnerOf(i)' = None
    BY <2>1, <2>3, <2>5, <2>6
  <2>8. QED
    BY <1>4, <2>2, <2>7 DEF HeldOwned
<1>9. CASE ExprStep
  <2>1. Flows
    BY <1>9, ExprStepFlows
  <2>2. QED
    BY <1>6, <1>9, <2>1, ExprStepControls DEF current, symtab
<1>10. CASE BodyStep
  <2>1. Flows /\ UNCHANGED globals
    BY <1>10, BodyStepFlows, BodyStepKeeps
  <2>2. \/ UNCHANGED current \/ LeaveFunctionDef \/ currentFunc = None
    <3>1. StartUnit => currentFunc = None
      BY DEF StartUnit, LifecycleInv, CurrentIsVisited
    <3>2. QED
      BY <3>1, StepAnchor, EnteredFunction
  <2>3. QED
    BY <1>5, <1>6, <1>7, <2>1, <2>2 DEF current
<1>11. CASE UnitStep
  <2>1. UNCHANGED currentFunc /\ (UNCHANGED globals \/ currentFunc = None)
    <3>1. ASSUME NEW x, NEW spec, NEW d, NEW init, VisitGlobalDecl(x, spec, d, init)
          PROVE  UNCHANGED currentFunc /\ currentFunc = None
      BY <3>1 DEF VisitGlobalDecl, AtTopLevel, current, LifecycleInv, CurrentIsVisited
    <3>2. ASSUME NEW f, NEW sig, PrescanFunctionDef(f, sig)
          PROVE  UNCHANGED currentFunc /\ currentFunc = None
      BY <3>2 DEF PrescanFunctionDef, current, LifecycleInv, CurrentIsVisited
    <3>3. QED
      BY <1>11, <3>1, <3>2 DEF UnitStep, StartUnit, EndPrescan, EndUnit, VisitStructSpecifier,
         VisitTypeDefinition, VisitPrototype, current, symtab
  <2>2. QED
    BY <1>5, <1>6, <1>8, <2>1, StepFlows
<1>12. CASE UNCHANGED vars
  <2>1. Flows
    BY <1>12, ScopeFlow DEF vars, graphs, symtab, cursor
  <2>2. QED
    BY <1>6, <1>12, <2>1 DEF vars, symtab, current
<1>13. QED
  BY <1>9, <1>10, <1>11, <1>12 DEF Next

\* A statement relates nodes of one function, or one that belongs to none.
Stays(s) == None \in {OwnerOf(s.src), OwnerOf(s.dst)} \/ OwnerOf(s.src) = OwnerOf(s.dst)

\* The formals that are being bound belong to the function that is visited.
LEMMA BoundOwned ==
  ASSUME TypeOK, InterfaceInv, NEW i \in DOMAIN toBind
  PROVE  /\ toBind[i].val \in Ids(pag) /\ currentFunc \in DOMAIN funcInfos
         /\ OwnerOf(toBind[i].val) \in {None, currentFunc}
<1>1. frames # <<>>
  BY DEF InterfaceInv, CurrentInterface, TypeOK, FramesOK
<1>2. currentFunc \in DOMAIN funcInfos
  BY <1>1 DEF TypeOK, CurrentOK
<1>3. PICK j \in DOMAIN funcInfos[currentFunc].formals : toBind[i] = funcInfos[currentFunc].formals[j]
  BY DEF InterfaceInv, CurrentInterface
<1>4. toBind[i].val \in Vals(pag)
  BY <1>2, <1>3, InterfaceTyped DEF FormalType
<1>5. /\ pag.node[toBind[i].val].at = funcInfos[currentFunc].entry
      /\ icfg.node[funcInfos[currentFunc].entry] = [kind |-> "entry", bb |-> currentFunc]
  <2>1. InterfaceNodes
    BY DEF InterfaceInv
  <2>2. /\ icfg.node[funcInfos[currentFunc].entry] = [kind |-> "entry", bb |-> currentFunc]
        /\ \A k \in DOMAIN funcInfos[currentFunc].formals :
             pag.node[funcInfos[currentFunc].formals[k].val].at = funcInfos[currentFunc].entry
    BY ONLY <1>2, <2>1, Zenon DEF InterfaceNodes
  <2>3. QED
    BY ONLY <1>3, <2>2, Zenon
<1>6. QED
  BY <1>2, <1>4, <1>5 DEF Vals, OwnerOf

\* So does the return ValVar that is current.
LEMMA ResultOwned ==
  ASSUME TypeOK, InterfaceInv, currentRetIsPtr
  PROVE  currentRetVal \in Ids(pag) /\ OwnerOf(currentRetVal) \in {None, currentFunc}
<1>1. currentFunc \in DOMAIN funcInfos /\ currentRetVal = funcInfos[currentFunc].retVal
  BY CurrentResult
<1>2. currentRetVal \in Vals(pag)
  BY <1>1, InterfaceTyped
<1>3. /\ pag.node[currentRetVal].at = funcInfos[currentFunc].exit
      /\ icfg.node[funcInfos[currentFunc].exit] = [kind |-> "exit", bb |-> currentFunc]
  BY <1>1 DEF InterfaceInv, InterfaceNodes
<1>4. QED
  BY <1>2, <1>3 DEF Vals, OwnerOf

LEMMA AddedStays ==
  ASSUME TypeOK, InterfaceInv, AnchorOwned, HeldOwned, Flows, Grows(pag, pag'), Extends(icfg, icfg'),
         NEW s \in Added, s.op \notin {"CallPE", "RetPE"}
  PROVE  Stays(s)'
<1>1. \A i \in Held : OwnerOf(i)' \in {None, currentFunc}
  BY HeldTyped, OwnersStay DEF HeldOwned, Vals
<1>2. \A i \in New : OwnerOf(i)' \in {None, currentFunc}
  BY NewOwned
<1>3. SUFFICES OwnerOf(s.src)' \in {None, currentFunc} /\ OwnerOf(s.dst)' \in {None, currentFunc}
  BY DEF Stays
<1>4. CASE LocalFlow(s)
  BY <1>1, <1>2, <1>4 DEF LocalFlow
<1>5. CASE BindFlow(s)
  <2>1. PICK i \in DOMAIN toBind : s.src = toBind[i].val
    BY <1>5 DEF BindFlow
  <2>2. s.src \in Ids(pag) /\ OwnerOf(s.src) \in {None, currentFunc}
    BY <2>1, BoundOwned
  <2>3. OwnerOf(s.src)' \in {None, currentFunc}
    BY <2>2, OwnersStay
  <2>4. QED
    BY <1>2, <1>5, <2>3 DEF BindFlow
<1>6. CASE ResultFlow(s)
  <2>1. s.dst \in Ids(pag) /\ OwnerOf(s.dst) \in {None, currentFunc}
    BY <1>6, ResultOwned DEF ResultFlow
  <2>2. OwnerOf(s.dst)' \in {None, currentFunc}
    BY <2>1, OwnersStay
  <2>3. QED
    BY <1>1, <1>6, <2>2 DEF ResultFlow
<1>7. QED
  BY <1>4, <1>5, <1>6 DEF Flows, ArgumentFlow, CallResultFlow

LEMMA StepStaysInFunction ==
  ASSUME TypeOK, InterfaceInv, AnchorOwned, HeldOwned, StayInFunction, [Next]_vars
  PROVE  StayInFunction'
<1>1. Grows(pag, pag') /\ Extends(icfg, icfg')
  BY StepPreserves, StepExtends DEF Preserved
<1>2. SUFFICES ASSUME NEW s \in pag'.stmt, s.op \notin {"CallPE", "RetPE"}
               PROVE  Stays(s)'
  BY DEF StayInFunction, Stays
<1>3. CASE s \in pag.stmt
  <2>1. Stays(s) /\ s.src \in Ids(pag) /\ s.dst \in Ids(pag)
    BY <1>2, <1>3 DEF StayInFunction, Stays, TypeOK, GraphsOK, IsPag, IsStmt, Vals
  <2>2. OwnerOf(s.src)' = OwnerOf(s.src) /\ OwnerOf(s.dst)' = OwnerOf(s.dst)
    BY <1>1, <2>1, OwnersStay
  <2>3. QED
    BY <2>1, <2>2 DEF Stays
<1>4. CASE s \notin pag.stmt
  <2>1. CASE Flows
    BY <1>1, <1>2, <1>4, <2>1, AddedStays DEF Added
  <2>2. ASSUME NEW f \in Funs, NEW sig \in Signatures, f \notin DOMAIN funcInfos, PrescanFunctionDef(f, sig)
        PROVE  Stays(s)'
    <3>1. Registers(f)
      BY <2>2, RegistersAll
    <3>2. s = Stmt("Addr", LastId(pag) + 1, LastId(pag) + 1 + 1, 0)
      BY <1>2, <1>4, <3>1 DEF Registers
    <3>3. pag'.node[s.dst] = ValNode(GlobalNode, f)
      BY <3>1, <3>2 DEF Registers, Stmt
    <3>4. icfg'.node[GlobalNode].bb = None
      BY <1>1 DEF Extends, AnchorOwned, TypeOK, GraphsOK, IsIcfg
    <3>5. OwnerOf(s.dst)' = None
      BY <3>3, <3>4 DEF OwnerOf, ValNode, Node
    <3>6. QED
      BY <3>5 DEF Stays
  <2>3. QED
    BY <2>1, <2>2, StepFlows
<1>5. QED
  BY <1>3, <1>4

\* What the handlers have at hand was made at file level or by the function that is
\* visited: leaving a function leaves nothing of it behind.
THEOREM HandlersHoldTheirOwn == Spec => []HeldOwned
<1>1. Init => HeldOwned
  <2>1. SUFFICES ASSUME Init
                 PROVE  HeldOwned
    OBVIOUS
  <2>2. Held = {} /\ GlobalIds = {}
    BY <2>1 DEF Init, Held, StackIds, GlobalIds, ScopeIds, TargetIds, NoSymbols
  <2>3. QED
    BY <2>2 DEF HeldOwned
<1>2. TypeOK /\ LifecycleInv /\ PlaceInv /\ HeldOwned /\ [Next]_vars => HeldOwned'
  BY StepHeldOwned
<1>3. QED
  BY <1>1, <1>2, LifecycleHolds, VisitorKeepsItsPlace, PTL DEF Spec

\* No statement but CallPE and RetPE relates nodes of two functions, whatever the
\* program: the scopes, the anchor and the return ValVar of a function are gone when
\* another one is visited.
THEOREM StatementsStay == Spec => []StayInFunction
<1>1. Init => StayInFunction
  BY DEF Init, StayInFunction, EmptyPag
<1>2. FlowInv /\ PlaceInv => InterfaceInv /\ AnchorOwned
  BY DEF FlowInv, PlaceInv
<1>3. TypeOK /\ InterfaceInv /\ AnchorOwned /\ HeldOwned /\ StayInFunction /\ [Next]_vars
        => StayInFunction'
  BY StepStaysInFunction
<1>4. QED
  BY <1>1, <1>2, <1>3, FlowsThroughInterfaces, VisitorKeepsItsPlace, HandlersHoldTheirOwn, PTL DEF Spec

-----------------------------------------------------------------------------
(* The bodies of functions *)

\* What enters and leaves the table of functions and the function that is visited.
LEMMA StepBodies ==
  ASSUME TypeOK, LifecycleInv, [Next]_vars
  PROVE  \/ UNCHANGED <<funcInfos, currentFunc>>
              /\ (UNCHANGED icfg \/ \E f \in Funs, n \in 0..MaxStack : VisitCall(f, n) /\ MakesCall(f))
         \/ \E f \in Funs, sig \in Signatures :
              f \notin DOMAIN funcInfos /\ PrescanFunctionDef(f, sig) /\ Registers(f)
         \/ VisitFunctionDef /\ ~AlreadyDefined(Head(pending))
         \/ LeaveFunctionDef /\ LeavesBody(currentFunc)
<1>1. ASSUME LeaveFunctionDef
      PROVE  LeavesBody(currentFunc)
  BY <1>1, ExitAdded DEF LeaveFunctionDef, TypeOK, CurrentOK
<1>2. \/ UNCHANGED currentFunc
      \/ VisitFunctionDef /\ ~AlreadyDefined(Head(pending))
      \/ LeaveFunctionDef
  BY StepAnchor DEF StartUnit, current
<1>3. \/ UNCHANGED funcInfos
      \/ \E f \in Funs, sig \in Signatures :
           f \notin DOMAIN funcInfos /\ PrescanFunctionDef(f, sig) /\ Registers(f)
      \/ VisitFunctionDef /\ ~AlreadyDefined(Head(pending))
  <2>1. CASE ExprStep
    BY <2>1, ExprStepControls
  <2>2. CASE UnitStep
    <3>1. ASSUME NEW f \in Funs, NEW sig \in Signatures, PrescanFunctionDef(f, sig)
          PROVE  UNCHANGED funcInfos \/ (f \notin DOMAIN funcInfos /\ Registers(f))
      BY <3>1, RegistersAll DEF PrescanFunctionDef
    <3>2. QED
      BY <2>2, <3>1 DEF UnitStep, StartUnit, EndPrescan, EndUnit, VisitStructSpecifier,
         VisitTypeDefinition, VisitGlobalDecl, VisitPrototype
  <2>3. CASE BodyStep
    <3>1. VisitFunctionDef => UNCHANGED funcInfos \/ ~AlreadyDefined(Head(pending))
      BY DEF VisitFunctionDef, MarkVisited
    <3>2. QED
      BY <2>3, <3>1 DEF BodyStep, BindFormal, EnterBody, LeaveFunctionDef, EnterBlock, ExitBlock, VisitFor,
         VisitForClause, EndFor, VisitLocalDecl, SkipFunctionPointer, EndInitializer, VisitExprStmt, VisitReturn
  <2>4. CASE UNCHANGED vars
    BY <2>4 DEF vars
  <2>5. QED
    BY <2>1, <2>2, <2>3, <2>4 DEF Next
<1>4. QED
  BY <1>1, <1>2, <1>3, StepIcfg

\* Only calls bind arguments and results, and only at a node that they make.
LEMMA AddedArguments ==
  ASSUME TypeOK, Flows, NEW s \in Added, s.op \in {"CallPE", "RetPE"}
  PROVE  /\ s.arg = LastId(icfg) + 1
         /\ \E f \in Funs, n \in 0..MaxStack : VisitCall(f, n) /\ MakesCall(f)
<1>1. AddsCall /\ s.arg = LastId(icfg) + 1
  BY DEF Flows, LocalFlow, BindFlow, ResultFlow, ArgumentFlow, CallResultFlow
<1>2. QED
  BY <1>1, CallAdded DEF AddsCall

BodyNodes(f) == {i \in Ids(icfg) : icfg.node[i] = [kind |-> "intra", bb |-> f]}

\* A new body node is that of the function that is entered.
NoBody(f) == \A i \in Ids(icfg') \ Ids(icfg) : icfg'.node[i] # [kind |-> "intra", bb |-> f]

LEMMA BodyKept ==
  ASSUME Extends(icfg, icfg'), NEW f, NoBody(f)
  PROVE  BodyNodes(f)' = BodyNodes(f)
<1>1. Ids(icfg) \subseteq Ids(icfg') /\ \A i \in Ids(icfg) : icfg'.node[i] = icfg.node[i]
  BY CoversIds DEF Extends
<1>2. \A i : i \in Ids(icfg') => i \in Ids(icfg) \/ icfg'.node[i] # [kind |-> "intra", bb |-> f]
  BY DEF NoBody
<1>3. \A i : i \in BodyNodes(f)' <=> i \in BodyNodes(f)
  BY <1>1, <1>2 DEF BodyNodes
<1>4. QED
  BY <1>3

\* The ids that a step makes in the ICFG.
LEMMA NewBlocks ==
  ASSUME TypeOK, Extends(icfg, icfg')
  PROVE  /\ LastId(icfg) \in Nat /\ Ids(icfg) \subseteq Ids(icfg')
         /\ \A i \in Ids(icfg) : i # LastId(icfg) + 1 /\ i # LastId(icfg) + 2
         /\ LastId(icfg') = LastId(icfg) + 1 => Ids(icfg') \ Ids(icfg) = {LastId(icfg) + 1}
         /\ LastId(icfg') = LastId(icfg) + 2 =>
              Ids(icfg') \ Ids(icfg) = {LastId(icfg) + 1, LastId(icfg) + 2}
<1>1. icfg.node \in Seq([kind: IcfgKinds, bb: Funs \cup {None}])
  BY DEF TypeOK, GraphsOK, IsIcfg
<1>2. LastId(icfg) \in Nat
  BY <1>1, LenProperties DEF LastId
<1>3. Ids(icfg) \subseteq Ids(icfg')
  BY CoversIds DEF Extends
<1>4. QED
  BY <1>2, <1>3 DEF Ids, LastId

\* What BodyOnce demands of one function.
ToBody(f, b) == [kind |-> "seq", from |-> funcInfos[f].entry, to |-> b]
ToExit(f, b) == [kind |-> "seq", from |-> b, to |-> funcInfos[f].exit]
Chained(f) ==
  IF ~funcInfos[f].defined THEN BodyNodes(f) = {}
  ELSE \E b \in BodyNodes(f) : /\ BodyNodes(f) = {b} /\ ToBody(f, b) \in icfg.edge
                               /\ ToExit(f, b) \in icfg.edge <=> currentFunc # f
Bodies ==
  /\ IcfgOwned
  /\ \A f \in DOMAIN funcInfos : Chained(f)

LEMMA BodyOnceMeans ==
  ASSUME LifecycleInv, Bodies
  PROVE  BodyOnce
<1>1. \A f \in DOMAIN funcInfos : phase = "idle" => funcInfos[f].defined
  BY DEF LifecycleInv, UndefinedArePending
<1>2. QED
  BY <1>1 DEF BodyOnce, Bodies, Chained, BodyNodes, ToBody, ToExit

\* A function that a step does not enter or leave keeps its chain.
LEMMA ChainKept ==
  ASSUME TypeOK, NEW g \in DOMAIN funcInfos, Chained(g), KeepsFunctions, Extends(icfg, icfg'), NoBody(g),
         funcInfos'[g].defined = funcInfos[g].defined,
         currentFunc' = g <=> currentFunc = g,
         \A b \in BodyNodes(g) : ToExit(g, b) \in icfg'.edge => ToExit(g, b) \in icfg.edge
  PROVE  Chained(g)'
<1>1. /\ BodyNodes(g)' = BodyNodes(g)
      /\ funcInfos'[g].entry = funcInfos[g].entry /\ funcInfos'[g].exit = funcInfos[g].exit
      /\ icfg.edge \subseteq icfg'.edge
  BY BodyKept DEF KeepsFunctions, Extends
<1>2. CASE ~funcInfos[g].defined
  BY <1>1, <1>2 DEF Chained
<1>3. CASE funcInfos[g].defined
  <2>1. PICK b \in BodyNodes(g) : /\ BodyNodes(g) = {b} /\ ToBody(g, b) \in icfg.edge
                                  /\ ToExit(g, b) \in icfg.edge <=> currentFunc # g
    BY <1>3 DEF Chained
  <2>2. ToBody(g, b)' = ToBody(g, b) /\ ToExit(g, b)' = ToExit(g, b)
    BY <1>1 DEF ToBody, ToExit
  <2>3. /\ BodyNodes(g)' = {b} /\ ToBody(g, b)' \in icfg'.edge
        /\ ToExit(g, b)' \in icfg'.edge <=> currentFunc' # g
    BY <1>1, <2>1, <2>2
  <2>4. QED
    BY <1>3, <2>1, <2>3 DEF Chained
<1>4. QED
  BY <1>2, <1>3

\* The body that is entered.
LEMMA EntersChain ==
  ASSUME TypeOK, LifecycleInv, Bodies, KeepsFunctions, VisitFunctionDef, ~AlreadyDefined(Head(pending))
  PROVE  \A g \in DOMAIN funcInfos : Chained(g)'
<1>1. PICK f : /\ f \in DOMAIN funcInfos /\ ~funcInfos[f].defined /\ EntersBody(f)
               /\ currentFunc = None /\ currentFunc' = f /\ funcInfos'[f].defined
               /\ \A g \in DOMAIN funcInfos : g # f => funcInfos'[g] = funcInfos[g]
  BY EnteredFunction
<1>2. PICK body : /\ body = LastId(icfg) + 1
                  /\ Extends(icfg, icfg') /\ LastId(icfg') = body
                  /\ icfg'.node[body] = [kind |-> "intra", bb |-> f]
                  /\ icfg'.edge = icfg.edge \cup {ToBody(f, body)}
  BY <1>1 DEF EntersBody, ToBody
<1>3. body \notin Ids(icfg) /\ Ids(icfg') \ Ids(icfg) = {body} /\ Ids(icfg) \subseteq Ids(icfg')
  BY <1>2, NewBlocks
<1>4. \A g \in DOMAIN funcInfos : funcInfos[g].exit \in Ids(icfg)
  BY FuncInfoTyped DEF FuncInfoType
<1>5. \A e \in icfg.edge : e.from \in Ids(icfg)
  BY DEF TypeOK, GraphsOK, IsIcfg
<1>6. ASSUME NEW g \in DOMAIN funcInfos, NEW b
      PROVE  ToExit(g, b) # ToBody(f, body)
  BY <1>3, <1>4 DEF ToExit, ToBody
<1>7. ASSUME NEW g \in DOMAIN funcInfos, g # f
      PROVE  Chained(g)'
  <2>1. NoBody(g)
    BY <1>2, <1>3, <1>7 DEF NoBody
  <2>2. \A b \in BodyNodes(g) : ToExit(g, b) \in icfg'.edge => ToExit(g, b) \in icfg.edge
    BY <1>2, <1>6
  <2>3. funcInfos'[g].defined = funcInfos[g].defined /\ (currentFunc' = g <=> currentFunc = g)
    BY <1>1, <1>7, FuncInfoTyped, NameAssumption
  <2>4. Chained(g)
    BY DEF Bodies
  <2>5. QED
    BY <1>2, <2>1, <2>2, <2>3, <2>4, ChainKept
<1>8. Chained(f)'
  <2>1. BodyNodes(f) = {}
    BY <1>1 DEF Bodies, Chained
  <2>2. \A i : i \in BodyNodes(f)' <=> i = body
    <3>1. \A i \in Ids(icfg) : icfg'.node[i] = icfg.node[i]
      BY <1>2 DEF Extends
    <3>2. QED
      BY <1>2, <1>3, <2>1, <3>1 DEF BodyNodes
  <2>3. ToBody(f, body)' = ToBody(f, body) /\ ToExit(f, body)' = ToExit(f, body)
    BY <1>1 DEF ToBody, ToExit, KeepsFunctions
  <2>4. ToExit(f, body) \notin icfg'.edge
    <3>1. ToExit(f, body) \notin icfg.edge
      BY <1>3, <1>5 DEF ToExit
    <3>2. QED
      BY <1>1, <1>2, <1>6, <3>1
  <2>5. /\ ToBody(f, body)' \in icfg'.edge /\ body \in BodyNodes(f)' /\ BodyNodes(f)' = {body}
        /\ ToExit(f, body)' \in icfg'.edge <=> currentFunc' # f
    BY <1>1, <1>2, <2>2, <2>3, <2>4
  <2>6. QED
    BY <1>1, <2>5 DEF Chained
<1>9. QED
  BY <1>7, <1>8

\* The body that is left.
LEMMA LeavesChain ==
  ASSUME TypeOK, LifecycleInv, AnchorOwned, Bodies, KeepsFunctions, LeaveFunctionDef, LeavesBody(currentFunc)
  PROVE  \A g \in DOMAIN funcInfos : Chained(g)'
<1>1. PICK f : f = currentFunc
  OBVIOUS
<1>2. /\ f \in DOMAIN funcInfos /\ f # None /\ currentFunc' = None /\ funcInfos' = funcInfos
      /\ funcInfos[f].defined
  BY <1>1 DEF LeaveFunctionDef, TypeOK, CurrentOK, LifecycleInv, CurrentIsVisited
<1>3. currentICFG # NullId /\ icfg.node[currentICFG] = [kind |-> "intra", bb |-> f]
  BY <1>1, <1>2 DEF AnchorOwned
<1>4. currentICFG \in BodyNodes(f)
  BY <1>3 DEF BodyNodes, TypeOK, CurrentOK
<1>5. /\ Extends(icfg, icfg') /\ icfg'.node = icfg.node
      /\ icfg'.edge = icfg.edge \cup {ToExit(f, currentICFG)}
  BY <1>1, <1>3 DEF LeavesBody, ToExit
<1>6. \A g \in DOMAIN funcInfos : NoBody(g) /\ BodyNodes(g)' = BodyNodes(g) /\ Chained(g)
  BY <1>5 DEF NoBody, BodyNodes, Ids, Bodies
<1>7. ASSUME NEW g \in DOMAIN funcInfos, g # f
      PROVE  Chained(g)'
  <2>1. ASSUME NEW b \in BodyNodes(g)
        PROVE  ToExit(g, b) # ToExit(f, currentICFG)
    <3>1. b # currentICFG
      BY <1>3, <1>7 DEF BodyNodes
    <3>2. QED
      BY <3>1 DEF ToExit
  <2>2. \A b \in BodyNodes(g) : ToExit(g, b) \in icfg'.edge => ToExit(g, b) \in icfg.edge
    BY <1>5, <2>1
  <2>3. funcInfos'[g].defined = funcInfos[g].defined /\ (currentFunc' = g <=> currentFunc = g)
    BY <1>1, <1>2, <1>7, FuncInfoTyped, NameAssumption
  <2>4. QED
    BY <1>5, <1>6, <2>2, <2>3, ChainKept
<1>8. Chained(f)'
  <2>1. PICK b \in BodyNodes(f) : BodyNodes(f) = {b} /\ ToBody(f, b) \in icfg.edge
    BY <1>2, <1>6 DEF Chained
  <2>2. b = currentICFG
    BY <1>4, <2>1
  <2>3. ToBody(f, b)' = ToBody(f, b) /\ ToExit(f, b)' = ToExit(f, b)
    BY <1>2 DEF ToBody, ToExit
  <2>4. /\ BodyNodes(f)' = {b} /\ ToBody(f, b)' \in icfg'.edge /\ ToExit(f, b)' \in icfg'.edge /\ b \in BodyNodes(f)'
        /\ currentFunc' # f
    BY <1>2, <1>5, <1>6, <2>1, <2>2, <2>3
  <2>5. QED
    BY <1>2, <2>4 DEF Chained
<1>9. QED
  BY <1>7, <1>8

\* A call adds no body, and its edges lead to nodes of its own.
LEMMA CallsChain ==
  ASSUME TypeOK, Bodies, KeepsFunctions, UNCHANGED <<funcInfos, currentFunc>>,
         NEW f, MakesCall(f)
  PROVE  \A g \in DOMAIN funcInfos : Chained(g)'
<1>1. PICK call, ret : call = LastId(icfg) + 1 /\ ret = LastId(icfg) + 2
  OBVIOUS
<1>2. /\ Extends(icfg, icfg') /\ LastId(icfg') = LastId(icfg) + 2
      /\ icfg'.node[call] = [kind |-> "call", bb |-> currentBB]
      /\ icfg'.node[ret] = [kind |-> "ret", bb |-> currentBB]
      /\ \A e \in icfg'.edge : e \in icfg.edge \/ e.kind # "seq" \/ e.to = call
  BY <1>1 DEF MakesCall
<1>3. Ids(icfg') \ Ids(icfg) = {call, ret} /\ call \notin Ids(icfg)
  BY <1>1, <1>2, NewBlocks
<1>4. \A g \in DOMAIN funcInfos : funcInfos[g].exit \in Ids(icfg)
  BY FuncInfoTyped DEF FuncInfoType
<1>5. ASSUME NEW g \in DOMAIN funcInfos
      PROVE  Chained(g)'
  <2>1. NoBody(g)
    BY <1>2, <1>3 DEF NoBody
  <2>2. \A b \in BodyNodes(g) : ToExit(g, b) \in icfg'.edge => ToExit(g, b) \in icfg.edge
    BY <1>2, <1>3, <1>4 DEF ToExit
  <2>3. Chained(g) /\ funcInfos'[g].defined = funcInfos[g].defined /\ (currentFunc' = g <=> currentFunc = g)
    BY DEF Bodies
  <2>4. QED
    BY <1>2, <2>1, <2>2, <2>3, ChainKept
<1>6. QED
  BY <1>5

\* A function that is registered has no body yet.
LEMMA RegistersChain ==
  ASSUME TypeOK, Bodies, KeepsFunctions, UNCHANGED currentFunc, NEW f, Registers(f)
  PROVE  \A g \in DOMAIN funcInfos' : Chained(g)'
<1>1. PICK entry, exit : entry = LastId(icfg) + 1 /\ exit = LastId(icfg) + 2
  OBVIOUS
<1>2. /\ Extends(icfg, icfg') /\ LastId(icfg') = LastId(icfg) + 2 /\ icfg'.edge = icfg.edge
      /\ icfg'.node[entry] = [kind |-> "entry", bb |-> f]
      /\ icfg'.node[exit] = [kind |-> "exit", bb |-> f]
      /\ DOMAIN funcInfos' = DOMAIN funcInfos \cup {f} /\ f \notin DOMAIN funcInfos
      /\ ~funcInfos'[f].defined
      /\ \A g \in DOMAIN funcInfos : funcInfos'[g] = funcInfos[g]
  BY <1>1 DEF Registers
<1>3. Ids(icfg') \ Ids(icfg) = {entry, exit}
  BY <1>1, <1>2, NewBlocks
<1>4. \A g : NoBody(g)
  BY <1>2, <1>3 DEF NoBody
<1>5. ASSUME NEW g \in DOMAIN funcInfos
      PROVE  Chained(g)'
  BY <1>2, <1>4, ChainKept DEF Bodies
<1>6. Chained(f)'
  <2>1. BodyNodes(f) = {}
    BY <1>2 DEF Bodies, IcfgOwned, BodyNodes
  <2>2. BodyNodes(f)' = {}
    BY <1>2, <1>4, <2>1, BodyKept
  <2>3. QED
    BY <1>2, <2>2 DEF Chained
<1>7. QED
  BY <1>2, <1>5, <1>6

LEMMA StepIcfgOwned ==
  ASSUME TypeOK, LifecycleInv, IcfgOwned, [Next]_vars
  PROVE  IcfgOwned'
<1>1. Extends(icfg, icfg') /\ KeepsFunctions
  BY StepExtends, StepKeepsFunctions
<1>2. /\ Ids(icfg) \subseteq Ids(icfg') /\ \A i \in Ids(icfg) : icfg'.node[i] = icfg.node[i]
      /\ DOMAIN funcInfos \subseteq DOMAIN funcInfos'
  BY <1>1, NewBlocks DEF Extends, KeepsFunctions
<1>3. ASSUME NEW i \in Ids(icfg'), icfg'.node[i].kind = "intra"
      PROVE  icfg'.node[i].bb \in DOMAIN funcInfos'
  <2>1. CASE i \in Ids(icfg)
    BY <1>2, <1>3, <2>1 DEF IcfgOwned
  <2>2. CASE i \notin Ids(icfg)
    <3>1. CASE UNCHANGED icfg
      BY <2>2, <3>1
    <3>2. ASSUME NEW f, Registers(f) \/ MakesCall(f)
          PROVE  FALSE
      <4>1. /\ LastId(icfg') = LastId(icfg) + 2
            /\ icfg'.node[LastId(icfg) + 1].kind # "intra" /\ icfg'.node[LastId(icfg) + 2].kind # "intra"
        <5>1. CASE Registers(f)
          <6>1. /\ LastId(icfg') = LastId(icfg) + 2
                /\ icfg'.node[LastId(icfg) + 1] = [kind |-> "entry", bb |-> f]
                /\ icfg'.node[LastId(icfg) + 2] = [kind |-> "exit", bb |-> f]
            BY <5>1 DEF Registers
          <6>2. QED
            BY <6>1
        <5>2. CASE MakesCall(f)
          BY <5>2 DEF MakesCall
        <5>3. QED
          BY <3>2, <5>1, <5>2
      <4>2. i \in {LastId(icfg) + 1, LastId(icfg) + 2}
        BY <1>1, <2>2, <4>1, NewBlocks
      <4>3. QED
        BY <1>3, <4>1, <4>2
    <3>3. ASSUME VisitFunctionDef, ~AlreadyDefined(Head(pending))
          PROVE  icfg'.node[i].bb \in DOMAIN funcInfos'
      <4>1. PICK f : f \in DOMAIN funcInfos /\ EntersBody(f)
        BY <3>3, EnteredFunction
      <4>2. i = LastId(icfg) + 1
        BY <1>1, <2>2, <4>1, NewBlocks DEF EntersBody
      <4>3. QED
        BY <1>2, <4>1, <4>2 DEF EntersBody
    <3>4. ASSUME NEW f, LeavesBody(f)
          PROVE  FALSE
      BY <2>2, <3>4 DEF LeavesBody, Ids
    <3>5. QED
      BY <3>1, <3>2, <3>3, <3>4, StepBodies
  <2>3. QED
    BY <2>1, <2>2
<1>4. ASSUME NEW s \in pag'.stmt, s.op \in {"CallPE", "RetPE"}
      PROVE  s.arg \in Ids(icfg')
  <2>1. CASE s \in pag.stmt
    BY <1>2, <1>4, <2>1 DEF IcfgOwned
  <2>2. CASE s \notin pag.stmt
    <3>1. CASE Flows
      <4>1. s.arg = LastId(icfg) + 1 /\ \E f \in Funs, n \in 0..MaxStack : VisitCall(f, n) /\ MakesCall(f)
        BY <1>4, <2>2, <3>1, AddedArguments DEF Added
      <4>2. LastId(icfg') = LastId(icfg) + 2 /\ LastId(icfg) \in Nat
        BY <1>1, <4>1, NewBlocks DEF MakesCall
      <4>3. QED
        BY <4>1, <4>2 DEF Ids, LastId
    <3>2. ASSUME NEW f \in Funs, NEW sig \in Signatures, f \notin DOMAIN funcInfos, PrescanFunctionDef(f, sig)
          PROVE  FALSE
      <4>1. Registers(f)
        BY <3>2, RegistersAll
      <4>2. s = Stmt("Addr", LastId(pag) + 1, LastId(pag) + 1 + 1, 0)
        BY <1>4, <2>2, <4>1 DEF Registers
      <4>3. QED
        BY <1>4, <4>2 DEF Stmt
    <3>3. QED
      BY <3>1, <3>2, StepFlows
  <2>3. QED
    BY <2>1, <2>2
<1>5. QED
  BY <1>3, <1>4 DEF IcfgOwned

LEMMA StepBodiesKept ==
  ASSUME TypeOK, LifecycleInv, AnchorOwned, Bodies, [Next]_vars
  PROVE  Bodies'
<1>1. IcfgOwned' /\ KeepsFunctions /\ Extends(icfg, icfg')
  BY StepIcfgOwned, StepExtends, StepKeepsFunctions DEF Bodies
<1>2. SUFFICES \A g \in DOMAIN funcInfos' : Chained(g)'
  BY <1>1 DEF Bodies
<1>3. CASE UNCHANGED <<funcInfos, currentFunc>> /\ UNCHANGED icfg
  BY <1>3 DEF Bodies, Chained, BodyNodes, ToBody, ToExit
<1>4. ASSUME NEW f, MakesCall(f), UNCHANGED <<funcInfos, currentFunc>>
      PROVE  \A g \in DOMAIN funcInfos' : Chained(g)'
  BY <1>1, <1>4, CallsChain
<1>5. ASSUME NEW f \in Funs, NEW sig \in Signatures, PrescanFunctionDef(f, sig), Registers(f)
      PROVE  \A g \in DOMAIN funcInfos' : Chained(g)'
  <2>1. UNCHANGED currentFunc
    BY <1>5 DEF PrescanFunctionDef, current
  <2>2. QED
    BY <1>1, <1>5, <2>1, RegistersChain
<1>6. ASSUME VisitFunctionDef, ~AlreadyDefined(Head(pending))
      PROVE  \A g \in DOMAIN funcInfos' : Chained(g)'
  <2>1. DOMAIN funcInfos' = DOMAIN funcInfos
    BY <1>6, EnteredFunction
  <2>2. QED
    BY <1>1, <1>6, <2>1, EntersChain
<1>7. ASSUME LeaveFunctionDef, LeavesBody(currentFunc)
      PROVE  \A g \in DOMAIN funcInfos' : Chained(g)'
  <2>1. UNCHANGED funcInfos
    BY <1>7 DEF LeaveFunctionDef
  <2>2. QED
    BY <1>1, <1>7, <2>1, LeavesChain
<1>8. QED
  BY <1>3, <1>4, <1>5, <1>6, <1>7, StepBodies

\* What the visitor maintains of the bodies of functions, on top of its place and of the
\* interfaces.
LEMMA FunctionsChained == Spec => [](TypeOK /\ LifecycleInv /\ PlaceInv /\ FlowInv /\ Bodies)
<1>1. ASSUME Init
      PROVE  Bodies
  <2>1. DOMAIN funcInfos = {} /\ pag.stmt = {} /\ icfg.node = <<[kind |-> "global", bb |-> None]>>
    BY <1>1 DEF Init, EmptyPag, EmptyIcfg
  <2>2. \A i \in Ids(icfg) : icfg.node[i].kind = "global"
    BY <2>1 DEF Ids
  <2>3. QED
    BY <2>1, <2>2 DEF Bodies, IcfgOwned
<1>2. PlaceInv => AnchorOwned
  BY DEF PlaceInv
<1>3. TypeOK /\ LifecycleInv /\ AnchorOwned /\ Bodies /\ [Next]_vars => Bodies'
  BY StepBodiesKept
<1>4. QED
  BY <1>1, <1>2, <1>3, FlowsThroughInterfaces, VisitorKeepsItsPlace, PTL DEF Spec

\* Every function that was registered has had its body visited between files, once, and
\* its entry, body and exit form a chain, whatever the program.
THEOREM BodiesVisitedOnce == Spec => []BodyOnce
<1>1. LifecycleInv /\ Bodies => BodyOnce
  BY BodyOnceMeans
<1>2. QED
  BY <1>1, FunctionsChained, PTL

-----------------------------------------------------------------------------
(* Calls *)

\* What CallWiring demands of one call node.
CallBlocks == {i \in Ids(icfg) : icfg.node[i].kind = "call"}
CallEdges(call) == {e \in icfg.edge : {e.from, e.to} \cap {call, call + 1} # {}}
Bindings(call) == {s \in pag.stmt : s.op = "CallPE" /\ s.arg = call}
Results(call) == {s \in pag.stmt : s.op = "RetPE" /\ s.arg = call}

OneCall(call, g) == (\A h \in callGraph : h.call = call => h = g) /\ g.call = call
WiredBlocks(call, caller, callee) ==
  /\ icfg.node[call].bb = caller
  /\ icfg.node[call + 1] = [kind |-> "ret", bb |-> caller]
  /\ [kind |-> "call", from |-> call, to |-> funcInfos[callee].entry] \in CallEdges(call)
  /\ [kind |-> "ret", from |-> funcInfos[callee].exit, to |-> call + 1] \in CallEdges(call)
  /\ \E before \in Ids(icfg) :
       /\ icfg.node[before] = [kind |-> "intra", bb |-> caller]
       /\ [kind |-> "seq", from |-> before, to |-> call] \in CallEdges(call)
  /\ Cardinality(CallEdges(call)) = 3
WiredResult(call, caller, callee) ==
  \E s \in Results(call) :
    Results(call) = {s} /\ s.src = funcInfos[callee].retVal /\ OwnerOf(s.dst) = caller
WiredArguments(call, callee) ==
  {s.dst : s \in Bindings(call)} =
    {funcInfos[callee].formals[i].val : i \in 1..Cardinality(Bindings(call))}
Wired(call, g) ==
  /\ OneCall(call, g)
  /\ WiredBlocks(call, g.caller, g.callee)
  /\ WiredResult(call, g.caller, g.callee)
  /\ WiredArguments(call, g.callee)
AllWired == \A call \in CallBlocks : \E g \in callGraph : Wired(call, g)

LEMMA AllWiredMeans ==
  ASSUME AllWired
  PROVE  CallWiring
<1> SUFFICES ASSUME NEW call \in CallBlocks
             PROVE  LET ret == call + 1
                        edges == {e \in icfg.edge : {e.from, e.to} \cap {call, ret} # {}}
                        binds == {s \in pag.stmt : s.op = "CallPE" /\ s.arg = call}
                        rets == {s \in pag.stmt : s.op = "RetPE" /\ s.arg = call}
                    IN  \E g \in callGraph :
                          LET fi == funcInfos[g.callee]
                              caller == icfg.node[call].bb
                          IN  /\ \A h \in callGraph : h.call = call => h = g
                              /\ g.call = call /\ g.caller = caller
                              /\ icfg.node[ret] = [kind |-> "ret", bb |-> caller]
                              /\ [kind |-> "call", from |-> call, to |-> fi.entry] \in edges
                              /\ [kind |-> "ret", from |-> fi.exit, to |-> ret] \in edges
                              /\ \E before \in Ids(icfg) :
                                   /\ icfg.node[before] = [kind |-> "intra", bb |-> caller]
                                   /\ [kind |-> "seq", from |-> before, to |-> call] \in edges
                              /\ Cardinality(edges) = 3
                              /\ \E s \in rets : rets = {s} /\ s.src = fi.retVal /\ OwnerOf(s.dst) = caller
                              /\ {s.dst : s \in binds} = {fi.formals[i].val : i \in 1..Cardinality(binds)}
  BY DEF CallWiring, CallBlocks
<1>1. PICK g \in callGraph : Wired(call, g)
  BY DEF AllWired
<1>2. g.caller = icfg.node[call].bb
  BY <1>1 DEF Wired, WiredBlocks
<1>3. QED
  BY <1>1, <1>2 DEF Wired, OneCall, WiredBlocks, WiredResult, WiredArguments, CallEdges, Bindings, Results

\* A call that a step leaves alone: what is new leads from and to other nodes.
LEMMA WiredKept ==
  ASSUME TypeOK, KeepsFunctions, Extends(icfg, icfg'), Grows(pag, pag'),
         NEW call \in Ids(icfg), NEW g \in callGraph, Wired(call, g),
         g \in callGraph', \A h \in callGraph' : h.call = call => h \in callGraph,
         CallEdges(call)' = CallEdges(call),
         Bindings(call)' = Bindings(call), Results(call)' = Results(call)
  PROVE  Wired(call, g)'
<1>1. g.callee \in DOMAIN funcInfos
  BY DEF TypeOK, GraphsOK
<1>2. /\ funcInfos'[g.callee].entry = funcInfos[g.callee].entry
      /\ funcInfos'[g.callee].exit = funcInfos[g.callee].exit
      /\ funcInfos'[g.callee].retVal = funcInfos[g.callee].retVal
      /\ funcInfos'[g.callee].formals = funcInfos[g.callee].formals
  BY <1>1 DEF KeepsFunctions
<1>3. Ids(icfg) \subseteq Ids(icfg') /\ \A i \in Ids(icfg) : icfg'.node[i] = icfg.node[i]
  BY NewBlocks DEF Extends
<1>4. OneCall(call, g)'
  BY DEF Wired, OneCall
<1>5. WiredBlocks(call, g.caller, g.callee)'
  <2>1. WiredBlocks(call, g.caller, g.callee)
    BY DEF Wired
  <2>2. call + 1 \in Ids(icfg)
    <3>1. [kind |-> "ret", from |-> funcInfos[g.callee].exit, to |-> call + 1] \in icfg.edge
      BY <2>1 DEF WiredBlocks, CallEdges
    <3>2. QED
      BY <3>1 DEF TypeOK, GraphsOK, IsIcfg
  <2>3. icfg'.node[call] = icfg.node[call] /\ icfg'.node[call + 1] = icfg.node[call + 1]
    BY <1>3, <2>2
  <2>4. PICK before \in Ids(icfg) :
          /\ icfg.node[before] = [kind |-> "intra", bb |-> g.caller]
          /\ [kind |-> "seq", from |-> before, to |-> call] \in CallEdges(call)
    BY <2>1 DEF WiredBlocks
  <2>5. \E b \in Ids(icfg') :
          /\ icfg'.node[b] = [kind |-> "intra", bb |-> g.caller]
          /\ [kind |-> "seq", from |-> b, to |-> call] \in CallEdges(call)'
    BY <1>3, <2>4
  <2>6. QED
    BY <1>2, <2>1, <2>3, <2>5 DEF WiredBlocks
<1>6. WiredResult(call, g.caller, g.callee)'
  <2>1. PICK s \in Results(call) : /\ Results(call) = {s} /\ s.src = funcInfos[g.callee].retVal
                                   /\ OwnerOf(s.dst) = g.caller
    BY DEF Wired, WiredResult
  <2>2. s.dst \in Ids(pag)
    BY <2>1 DEF Results, TypeOK, GraphsOK, IsPag, IsStmt, Vals
  <2>3. OwnerOf(s.dst)' = g.caller
    BY <2>1, <2>2, OwnersStay
  <2>4. QED
    BY <1>2, <2>1, <2>3 DEF WiredResult
<1>7. WiredArguments(call, g.callee)'
  BY <1>2 DEF Wired, WiredArguments
<1>8. QED
  BY <1>4, <1>5, <1>6, <1>7 DEF Wired

\* An edge that a step adds touches no call or return node that was there.
Foreign(i) == i \notin Ids(icfg) \/ icfg.node[i].kind \notin {"call", "ret"}

LEMMA NewEdges ==
  ASSUME TypeOK, LifecycleInv, AnchorOwned, InterfaceNodes, [Next]_vars
  PROVE  \A e \in icfg'.edge : e \notin icfg.edge => Foreign(e.from) /\ Foreign(e.to)
<1>1. Extends(icfg, icfg')
  BY StepExtends
<1>2. LastId(icfg) + 1 \notin Ids(icfg) /\ LastId(icfg) + 2 \notin Ids(icfg)
  BY <1>1, NewBlocks
<1>3. Foreign(LastId(icfg) + 1) /\ Foreign(LastId(icfg) + 2)
  BY <1>2 DEF Foreign
<1>4. ASSUME NEW f \in DOMAIN funcInfos
      PROVE  Foreign(funcInfos[f].entry) /\ Foreign(funcInfos[f].exit)
  <2>1. /\ icfg.node[funcInfos[f].entry] = [kind |-> "entry", bb |-> f]
        /\ icfg.node[funcInfos[f].exit] = [kind |-> "exit", bb |-> f]
    BY DEF InterfaceNodes
  <2>2. icfg.node[funcInfos[f].entry].kind = "entry" /\ icfg.node[funcInfos[f].exit].kind = "exit"
    BY <2>1
  <2>3. QED
    BY <2>2 DEF Foreign
<1>5. currentFunc # None => Foreign(currentICFG)
  BY DEF AnchorOwned, Foreign
<1>6. ASSUME NEW f \in DOMAIN funcInfos, EntersBody(f)
      PROVE  \A e \in icfg'.edge : e \notin icfg.edge => Foreign(e.from) /\ Foreign(e.to)
  BY <1>3, <1>4, <1>6 DEF EntersBody
<1>7. ASSUME LeaveFunctionDef, LeavesBody(currentFunc)
      PROVE  \A e \in icfg'.edge : e \notin icfg.edge => Foreign(e.from) /\ Foreign(e.to)
  <2>1. currentFunc \in DOMAIN funcInfos /\ currentFunc # None
    BY <1>7, NameAssumption DEF LeaveFunctionDef, TypeOK, CurrentOK, FuncsOK, IsTable
  <2>2. QED
    BY <1>4, <1>5, <1>7, <2>1 DEF LeavesBody
<1>8. ASSUME NEW f \in Funs, NEW n \in 0..MaxStack, VisitCall(f, n), MakesCall(f)
      PROVE  \A e \in icfg'.edge : e \notin icfg.edge => Foreign(e.from) /\ Foreign(e.to)
  <2>1. f \in DOMAIN funcInfos /\ currentFunc # None
    BY <1>8, NameAssumption DEF VisitCall, Callable, ArgumentsVisited, InBody, TypeOK, CurrentOK, FuncsOK, IsTable
  <2>2. QED
    BY <1>3, <1>4, <1>5, <1>8, <2>1 DEF MakesCall
<1>9. CASE VisitFunctionDef /\ ~AlreadyDefined(Head(pending)) /\ EntersBody(Head(pending))
  <2>1. Head(pending) \in DOMAIN funcInfos
    BY <1>9, EnteredFunction
  <2>2. QED
    BY <1>6, <1>9, <2>1
<1>10. QED
  BY <1>7, <1>8, <1>9, StepIcfg DEF Registers

\* A step adds arguments and results only to a call that it makes, and so the call graph.
LEMMA NewBindings ==
  ASSUME TypeOK, [Next]_vars
  PROVE  \A s \in pag'.stmt : s \notin pag.stmt /\ s.op \in {"CallPE", "RetPE"} => s.arg = LastId(icfg) + 1
<1> SUFFICES ASSUME NEW s \in pag'.stmt, s \notin pag.stmt, s.op \in {"CallPE", "RetPE"}
             PROVE  s.arg = LastId(icfg) + 1
  OBVIOUS
<1>1. CASE Flows
  BY <1>1, AddedArguments DEF Added
<1>2. ASSUME NEW f \in Funs, NEW sig \in Signatures, f \notin DOMAIN funcInfos, PrescanFunctionDef(f, sig)
      PROVE  FALSE
  <2>1. Registers(f)
    BY <1>2, RegistersAll
  <2>2. s = Stmt("Addr", LastId(pag) + 1, LastId(pag) + 1 + 1, 0)
    BY <2>1 DEF Registers
  <2>3. QED
    BY <2>2 DEF Stmt
<1>3. QED
  BY <1>1, <1>2, StepFlows

GraphEdge(f) == [call |-> LastId(icfg) + 1, caller |-> currentFunc, callee |-> f]

LEMMA StepCallGraph ==
  ASSUME TypeOK, [Next]_vars
  PROVE  \/ /\ UNCHANGED callGraph
            /\ ~AddsCall
         \/ \E f \in Funs, n \in 0..MaxStack :
              VisitCall(f, n) /\ MakesCall(f) /\ callGraph' = callGraph \cup {GraphEdge(f)}
<1>1. ASSUME NEW f \in Funs, NEW n \in 0..MaxStack, VisitCall(f, n)
      PROVE  MakesCall(f) /\ callGraph' = callGraph \cup {GraphEdge(f)}
  BY <1>1, CallAdded DEF VisitCall, GraphEdge
<1>2. CASE AddsCall
  BY <1>1, <1>2 DEF AddsCall
<1>3. CASE ~AddsCall
  <2> SUFFICES UNCHANGED callGraph
    BY <1>3
  <2>1. CASE ExprStep
    BY <1>3, <2>1 DEF AddsCall, ExprStep, VisitIdentifier, VisitNumber, VisitString, VisitNull, VisitParenthesized,
       VisitAddressOf, VisitDeref, VisitLastChild, VisitBinary, VisitAssignIdentifier, VisitAssignThrough,
       VisitAssignParenthesized, Assigned, VisitField, YieldPlace, YieldLoaded, VisitSubscript, VisitAllocation,
       VisitUnknownCall, VisitCast, Yield, YieldFresh, Return, control
  <2>2. CASE BodyStep
    BY <2>2 DEF BodyStep, VisitFunctionDef, MarkVisited, BindFormal, EnterBody, LeaveFunctionDef, EnterBlock, ExitBlock,
       VisitFor, VisitForClause, EndFor, VisitLocalDecl, SkipFunctionPointer, EndInitializer, VisitExprStmt,
       VisitReturn, graphs
  <2>3. CASE UnitStep
    BY <2>3 DEF UnitStep, StartUnit, PrescanFunctionDef, EndPrescan, EndUnit, VisitStructSpecifier,
       VisitTypeDefinition, VisitGlobalDecl, VisitPrototype, graphs
  <2>4. CASE UNCHANGED vars
    BY <2>4 DEF vars, graphs
  <2>5. QED
    BY <1>3, <2>1, <2>2, <2>3, <2>4 DEF Next
<1>4. QED
  BY <1>2, <1>3

LEMMA ThreeElements ==
  ASSUME NEW a, NEW b, NEW c, a # b, a # c, b # c
  PROVE  Cardinality({a, b, c}) = 3
<1>1. IsFiniteSet({a}) /\ Cardinality({a}) = 1
  BY FS_Singleton
<1>2. IsFiniteSet({a} \cup {b}) /\ Cardinality({a} \cup {b}) = 2
  BY <1>1, FS_AddElement
<1>3. Cardinality({a} \cup {b} \cup {c}) = 3
  BY <1>2, FS_AddElement
<1>4. {a} \cup {b} \cup {c} = {a, b, c}
  OBVIOUS
<1>5. QED
  BY <1>3, <1>4

\* As many elements as a sequence of different ones that lists them all.
LEMMA ListedElements ==
  ASSUME NEW S, NEW m \in Nat, NEW F, F \in [1..m -> S],
         \A i, j \in 1..m : F[i] = F[j] => i = j,
         \A s \in S : \E i \in 1..m : F[i] = s
  PROVE  Cardinality(S) = m
<1>1. F \in Bijection(1..m, S)
  BY Fun_IsBij
<1>2. ExistsBijection(1..m, S)
  BY <1>1, Fun_ExistsBij
<1>3. QED
  BY <1>2, FS_CountingElements

\* Where a call is made.
LEMMA CallMade ==
  ASSUME TypeOK, AnchorOwned, NEW f \in Funs, NEW n \in 0..MaxStack, VisitCall(f, n)
  PROVE  /\ f \in DOMAIN funcInfos /\ currentFunc # None /\ currentBB = currentFunc
         /\ currentICFG \in Ids(icfg) /\ currentICFG # NullId
         /\ icfg.node[currentICFG] = [kind |-> "intra", bb |-> currentFunc]
         /\ UNCHANGED funcInfos
<1>1. f \in DOMAIN funcInfos /\ currentFunc \in DOMAIN funcInfos /\ UNCHANGED funcInfos
  BY DEF VisitCall, Callable, ArgumentsVisited, InBody, TypeOK, CurrentOK
<1>2. currentFunc # None
  BY <1>1, NameAssumption DEF TypeOK, FuncsOK, IsTable
<1>3. QED
  BY <1>1, <1>2 DEF AnchorOwned, TypeOK, CurrentOK

\* The call node that is made, with its three edges.
LEMMA NewCallBlocks ==
  ASSUME TypeOK, AnchorOwned, NEW f \in Funs, NEW n \in 0..MaxStack, VisitCall(f, n), MakesCall(f),
         NEW call, call = LastId(icfg) + 1, NEW caller, caller = currentFunc
  PROVE  WiredBlocks(call, caller, f)'
<1>1. PICK from : from = currentICFG
  OBVIOUS
<1>2. /\ f \in DOMAIN funcInfos /\ currentBB = caller /\ from \in Ids(icfg) /\ from # NullId
      /\ icfg.node[from] = [kind |-> "intra", bb |-> caller] /\ UNCHANGED funcInfos
  BY <1>1, CallMade
<1>3. PICK fi : fi = funcInfos[f]
  OBVIOUS
<1>4. fi.entry \in Ids(icfg) /\ fi.exit \in Ids(icfg)
  BY <1>2, <1>3, FuncInfoTyped DEF FuncInfoType
<1>5. PICK e1, e2, e3 : /\ e1 = [kind |-> "seq", from |-> from, to |-> call]
                        /\ e2 = [kind |-> "call", from |-> call, to |-> fi.entry]
                        /\ e3 = [kind |-> "ret", from |-> fi.exit, to |-> call + 1]
  OBVIOUS
<1>6. /\ LastId(icfg) \in Nat /\ call + 1 = LastId(icfg) + 2 /\ Ids(icfg) \subseteq Ids(icfg')
      /\ call \notin Ids(icfg) /\ call + 1 \notin Ids(icfg)
  BY <1>1, NewBlocks DEF MakesCall
<1>7. /\ icfg'.node[call] = [kind |-> "call", bb |-> caller]
      /\ icfg'.node[call + 1] = [kind |-> "ret", bb |-> caller]
      /\ icfg'.edge = icfg.edge \cup {e1, e2, e3} /\ icfg'.node[from] = icfg.node[from]
  BY <1>1, <1>2, <1>3, <1>5, <1>6 DEF MakesCall, Extends
<1>8. \A e \in icfg.edge : e.from \in Ids(icfg) /\ e.to \in Ids(icfg)
  BY DEF TypeOK, GraphsOK, IsIcfg
<1>9. CallEdges(call)' = {e1, e2, e3}
  <2>1. \A e \in icfg.edge : {e.from, e.to} \cap {call, call + 1} = {}
    BY <1>6, <1>8
  <2>2. call \in {e1.from, e1.to} /\ call \in {e2.from, e2.to} /\ call + 1 \in {e3.from, e3.to}
    BY <1>5
  <2>3. \A e : e \in CallEdges(call)' <=> e \in {e1, e2, e3}
    BY <1>7, <2>1, <2>2 DEF CallEdges
  <2>4. QED
    BY <2>3
<1>10. Cardinality(CallEdges(call)') = 3
  <2>1. e1.kind = "seq" /\ e2.kind = "call" /\ e3.kind = "ret"
    BY <1>5
  <2>2. e1 # e2 /\ e1 # e3 /\ e2 # e3
    BY <2>1
  <2>3. Cardinality({e1, e2, e3}) = 3
    BY <2>2, ThreeElements
  <2>4. QED
    BY <1>9, <2>3
<1>11. \E before \in Ids(icfg') :
         /\ icfg'.node[before] = [kind |-> "intra", bb |-> caller]
         /\ [kind |-> "seq", from |-> before, to |-> call] \in CallEdges(call)'
  BY <1>2, <1>5, <1>6, <1>7, <1>9
<1>12. QED
  BY <1>2, <1>3, <1>5, <1>7, <1>9, <1>10, <1>11 DEF WiredBlocks

\* Its result, which flows into a temporary of the caller.
LEMMA NewCallResult ==
  ASSUME TypeOK, AnchorOwned, IcfgOwned, NEW f \in Funs, NEW n \in 0..MaxStack, VisitCall(f, n), MakesCall(f),
         NEW call, call = LastId(icfg) + 1, NEW caller, caller = currentFunc
  PROVE  WiredResult(call, caller, f)'
<1>1. PICK r, t, from : r = CallResult(f) /\ t = LastId(pag) + 1 /\ from = currentICFG
  OBVIOUS
<1>2. r = Stmt("RetPE", funcInfos[f].retVal, t, call)
  BY <1>1 DEF CallResult
<1>3. r.op = "RetPE" /\ r.arg = call /\ r.dst = t /\ r.src = funcInfos[f].retVal
  BY <1>2 DEF Stmt
<1>4. /\ \A s \in CallArguments(f, n) : s.op = "CallPE"
      /\ pag'.node[t] = ValNode(from, None)
      /\ pag'.stmt = pag.stmt \cup CallArguments(f, n) \cup {r}
  BY <1>1, CallStatements
<1>5. call \notin Ids(icfg)
  BY NewBlocks DEF MakesCall
<1>6. \A s \in pag.stmt : s.op = "RetPE" => s.arg # call
  BY <1>5 DEF IcfgOwned
<1>7. \A s : s \in Results(call)' <=> s = r
  BY <1>3, <1>4, <1>6 DEF Results
<1>8. OwnerOf(t)' = caller
  <2>1. from # NullId /\ from \in Ids(icfg) /\ icfg.node[from] = [kind |-> "intra", bb |-> caller]
    BY <1>1, CallMade
  <2>2. pag'.node[t].at = from
    BY <1>4 DEF ValNode, Node
  <2>3. icfg'.node[from].bb = caller
    BY <2>1 DEF MakesCall, Extends
  <2>4. QED
    BY <2>1, <2>2, <2>3 DEF OwnerOf
<1>9. funcInfos' = funcInfos
  BY CallMade
<1>10. r \in Results(call)' /\ Results(call)' = {r}
  BY <1>7
<1>11. QED
  BY <1>3, <1>8, <1>9, <1>10 DEF WiredResult

\* Its arguments, as many as there are both arguments and formals.
LEMMA NewCallArguments ==
  ASSUME TypeOK, InterfacesApart, IcfgOwned, NEW f \in Funs, NEW n \in 0..MaxStack, VisitCall(f, n), MakesCall(f),
         NEW call, call = LastId(icfg) + 1
  PROVE  WiredArguments(call, f)'
<1>1. PICK formals, length : formals = funcInfos[f].formals /\ length = Len(formals)
  OBVIOUS
<1>2. f \in DOMAIN funcInfos /\ funcInfos' = funcInfos
  BY DEF VisitCall, Callable
<1>3. DOMAIN formals = 1..length /\ length \in Nat /\ n \in Nat
  BY <1>1, <1>2, FuncInfoTyped, LenProperties DEF FuncInfoType
<1>4. PICK m \in Nat : m = IF n <= length THEN n ELSE length
  BY <1>3
<1>5. {k \in 1..n : k <= length} = 1..m
  BY <1>3, <1>4
<1> DEFINE argument(i) == Stmt("CallPE", Argument(n, i).id, formals[i].val, call)
<1>6. CallArguments(f, n) = {argument(i) : i \in 1..m}
  BY <1>1, <1>5 DEF CallArguments
<1>7. \A i \in 1..m : argument(i).dst = formals[i].val /\ argument(i).op = "CallPE" /\ argument(i).arg = call
  BY DEF Stmt
<1> HIDE DEF argument
<1>8. Bindings(call)' = CallArguments(f, n)
  <2>1. pag'.stmt = pag.stmt \cup CallArguments(f, n) \cup {CallResult(f)}
    BY CallStatements
  <2>2. CallResult(f).op = "RetPE"
    BY DEF CallResult, Stmt
  <2>3. call \notin Ids(icfg)
    BY NewBlocks DEF MakesCall
  <2>4. \A s \in pag.stmt : s.op = "CallPE" => s.arg # call
    BY <2>3 DEF IcfgOwned
  <2>5. \A s \in CallArguments(f, n) : s.op = "CallPE" /\ s.arg = call
    BY <1>6, <1>7
  <2>6. \A s : s \in Bindings(call)' <=> s \in CallArguments(f, n)
    BY <2>1, <2>2, <2>4, <2>5 DEF Bindings
  <2>7. QED
    BY <2>6
<1>9. Cardinality(CallArguments(f, n)) = m
  <2>1. 1..m \subseteq DOMAIN formals
    BY <1>3, <1>4
  <2>2. \A i, j \in 1..m : argument(i) = argument(j) => i = j
    <3>1. \A i, j \in DOMAIN formals : formals[i].val = formals[j].val => i = j
      BY <1>1, <1>2 DEF InterfacesApart
    <3>2. QED
      BY <1>7, <2>1, <3>1
  <2>3. PICK F : F = [i \in 1..m |-> argument(i)]
    OBVIOUS
  <2>4. F \in [1..m -> CallArguments(f, n)]
    BY <1>6, <2>3
  <2>5. \A i, j \in 1..m : F[i] = F[j] => i = j
    BY <2>2, <2>3
  <2>6. \A s \in CallArguments(f, n) : \E i \in 1..m : F[i] = s
    BY <1>6, <2>3
  <2>7. QED
    BY <2>4, <2>5, <2>6, ListedElements
<1>10. {s.dst : s \in CallArguments(f, n)} = {formals[i].val : i \in 1..m}
  BY <1>6, <1>7
<1>11. QED
  BY <1>1, <1>2, <1>8, <1>9, <1>10 DEF WiredArguments

LEMMA NewCallWired ==
  ASSUME TypeOK, AnchorOwned, InterfacesApart, IcfgOwned,
         NEW f \in Funs, NEW n \in 0..MaxStack, VisitCall(f, n), MakesCall(f),
         callGraph' = callGraph \cup {GraphEdge(f)}
  PROVE  \E g \in callGraph' : \A call : call = LastId(icfg) + 1 => Wired(call, g)'
<1>1. PICK new, g : new = LastId(icfg) + 1 /\ g = GraphEdge(f)
  OBVIOUS
<1>2. g \in callGraph' /\ g.call = new /\ g.caller = currentFunc /\ g.callee = f
  BY <1>1 DEF GraphEdge
<1>3. OneCall(new, g)'
  <2>1. new \notin Ids(icfg)
    BY <1>1, NewBlocks DEF MakesCall
  <2>2. \A h \in callGraph : h.call \in Ids(icfg)
    BY DEF TypeOK, GraphsOK
  <2>3. QED
    BY <1>1, <1>2, <2>1, <2>2 DEF OneCall
<1>4. WiredBlocks(new, g.caller, g.callee)' /\ WiredResult(new, g.caller, g.callee)'
  <2>1. PICK caller : caller = currentFunc
    OBVIOUS
  <2>2. WiredBlocks(new, caller, f)' /\ WiredResult(new, caller, f)'
    BY <1>1, <2>1, NewCallBlocks, NewCallResult
  <2>3. QED
    BY <1>2, <2>1, <2>2
<1>5. WiredArguments(new, g.callee)'
  <2>1. WiredArguments(new, f)'
    BY <1>1, NewCallArguments
  <2>2. QED
    BY <1>2, <2>1
<1>6. QED
  BY <1>1, <1>2, <1>3, <1>4, <1>5 DEF Wired

\* A call that was there stays wired.
LEMMA OldCallWired ==
  ASSUME TypeOK, LifecycleInv, AnchorOwned, InterfaceNodes, [Next]_vars, Preserved,
         NEW call \in CallBlocks, NEW g \in callGraph, Wired(call, g)
  PROVE  g \in callGraph' /\ Wired(call, g)'
<1>1. Extends(icfg, icfg') /\ KeepsFunctions /\ Grows(pag, pag')
  BY StepExtends, StepKeepsFunctions DEF Preserved
<1>2. call \in Ids(icfg) /\ icfg.node[call].kind = "call" /\ call # LastId(icfg) + 1
  BY <1>1, NewBlocks DEF CallBlocks
<1>3. call + 1 \in Ids(icfg) /\ icfg.node[call + 1].kind = "ret"
  <2>1. /\ [kind |-> "ret", from |-> funcInfos[g.callee].exit, to |-> call + 1] \in icfg.edge
        /\ icfg.node[call + 1] = [kind |-> "ret", bb |-> g.caller]
    BY DEF Wired, WiredBlocks, CallEdges
  <2>2. QED
    BY <2>1 DEF TypeOK, GraphsOK, IsIcfg
<1>4. CallEdges(call)' = CallEdges(call)
  <2>1. ~Foreign(call) /\ ~Foreign(call + 1)
    BY <1>2, <1>3 DEF Foreign
  <2>2. \A e \in icfg'.edge : e \notin icfg.edge => {e.from, e.to} \cap {call, call + 1} = {}
    BY <2>1, NewEdges
  <2>3. icfg.edge \subseteq icfg'.edge
    BY <1>1 DEF Extends
  <2>4. \A e : e \in CallEdges(call)' <=> e \in CallEdges(call)
    BY <2>2, <2>3 DEF CallEdges
  <2>5. QED
    BY <2>4
<1>5. Bindings(call)' = Bindings(call) /\ Results(call)' = Results(call)
  <2>1. \A s \in pag'.stmt : s \in pag.stmt \/ s.op \notin {"CallPE", "RetPE"} \/ s.arg # call
    BY <1>2, NewBindings
  <2>2. pag.stmt \subseteq pag'.stmt
    BY <1>1 DEF Grows
  <2>3. \A s : /\ s \in Bindings(call)' <=> s \in Bindings(call)
               /\ s \in Results(call)' <=> s \in Results(call)
    BY <2>1, <2>2 DEF Bindings, Results
  <2>4. QED
    BY <2>3
<1>6. g \in callGraph' /\ \A h \in callGraph' : h.call = call => h \in callGraph
  BY <1>2, StepCallGraph DEF GraphEdge
<1>7. QED
  BY <1>1, <1>2, <1>4, <1>5, <1>6, WiredKept

\* Call nodes are made by calls alone.
LEMMA NewCallBlock ==
  ASSUME TypeOK, LifecycleInv, [Next]_vars, NEW call \in CallBlocks', call \notin CallBlocks
  PROVE  /\ call = LastId(icfg) + 1
         /\ \E f \in Funs, n \in 0..MaxStack :
              VisitCall(f, n) /\ MakesCall(f) /\ callGraph' = callGraph \cup {GraphEdge(f)}
<1>1. Extends(icfg, icfg')
  BY StepExtends
<1>2. call \in Ids(icfg') /\ call \notin Ids(icfg) /\ icfg'.node[call].kind = "call"
  BY <1>1, NewBlocks DEF CallBlocks, Extends
<1>3. CASE UNCHANGED icfg
  BY <1>2, <1>3
<1>4. ASSUME NEW f, Registers(f)
      PROVE  FALSE
  <2>1. /\ LastId(icfg') = LastId(icfg) + 2
        /\ icfg'.node[LastId(icfg) + 1] = [kind |-> "entry", bb |-> f]
        /\ icfg'.node[LastId(icfg) + 2] = [kind |-> "exit", bb |-> f]
    BY <1>4 DEF Registers
  <2>2. call \in {LastId(icfg) + 1, LastId(icfg) + 2}
    BY <1>1, <1>2, <2>1, NewBlocks
  <2>3. QED
    BY <1>2, <2>1, <2>2
<1>5. ASSUME NEW f, EntersBody(f)
      PROVE  FALSE
  <2>1. LastId(icfg') = LastId(icfg) + 1 /\ icfg'.node[LastId(icfg) + 1].kind = "intra"
    BY <1>5 DEF EntersBody
  <2>2. call = LastId(icfg) + 1
    BY <1>1, <1>2, <2>1, NewBlocks
  <2>3. QED
    BY <1>2, <2>1, <2>2
<1>6. ASSUME NEW f, LeavesBody(f)
      PROVE  FALSE
  BY <1>2, <1>6 DEF LeavesBody, Ids
<1>7. ASSUME NEW f \in Funs, NEW n \in 0..MaxStack, VisitCall(f, n), MakesCall(f)
      PROVE  call = LastId(icfg) + 1 /\ callGraph' = callGraph \cup {GraphEdge(f)}
  <2>1. callGraph' = callGraph \cup {GraphEdge(f)}
    BY <1>7 DEF VisitCall, GraphEdge
  <2>2. LastId(icfg') = LastId(icfg) + 2 /\ icfg'.node[LastId(icfg) + 2].kind = "ret"
    BY <1>7 DEF MakesCall
  <2>3. call \in {LastId(icfg) + 1, LastId(icfg) + 2}
    BY <1>1, <1>2, <2>2, NewBlocks
  <2>4. QED
    BY <1>2, <2>1, <2>2, <2>3
<1>8. QED
  BY <1>3, <1>4, <1>5, <1>6, <1>7, StepIcfg

LEMMA StepAllWired ==
  ASSUME TypeOK, LifecycleInv, AnchorOwned, InterfaceInv, IcfgOwned, AllWired, [Next]_vars
  PROVE  AllWired'
<1> SUFFICES ASSUME NEW call \in CallBlocks'
             PROVE  \E g \in callGraph' : Wired(call, g)'
  BY DEF AllWired
<1>1. InterfaceNodes /\ InterfacesApart /\ Preserved
  BY StepPreserves DEF InterfaceInv
<1>2. CASE call \in CallBlocks
  <2>1. PICK g \in callGraph : Wired(call, g)
    BY <1>2 DEF AllWired
  <2>2. QED
    BY <1>1, <1>2, <2>1, OldCallWired
<1>3. CASE call \notin CallBlocks
  <2>1. call = LastId(icfg) + 1
    BY <1>3, NewCallBlock
  <2>2. PICK f \in Funs, n \in 0..MaxStack :
          VisitCall(f, n) /\ MakesCall(f) /\ callGraph' = callGraph \cup {GraphEdge(f)}
    BY <1>3, NewCallBlock
  <2>3. QED
    BY <1>1, <2>1, <2>2, NewCallWired
<1>4. QED
  BY <1>2, <1>3

\* The PAG, the ICFG and the call graph tell the same story of every call, for any
\* functions, formals and arguments, whatever the order of calls and definitions.
THEOREM CallsWired == Spec => []CallWiring
<1>1. ASSUME Init
      PROVE  AllWired
  <2>1. icfg.node = <<[kind |-> "global", bb |-> None]>>
    BY <1>1 DEF Init, EmptyIcfg
  <2>2. \A i \in Ids(icfg) : icfg.node[i].kind = "global"
    BY <2>1 DEF Ids
  <2>3. QED
    BY <2>2 DEF AllWired, CallBlocks
<1>2. ASSUME TypeOK, LifecycleInv, PlaceInv, FlowInv, Bodies, AllWired, [Next]_vars
      PROVE  AllWired'
  BY <1>2, StepAllWired DEF Bodies, PlaceInv, FlowInv
<1>3. AllWired => CallWiring
  BY AllWiredMeans
<1>4. QED
  BY <1>1, <1>2, <1>3, FunctionsChained, PTL DEF Spec

-----------------------------------------------------------------------------
(* Anchors *)

LateGlobals == Uses("global after body")
PointerPrototypes == Uses("pointer prototype")

\* Inside functions there is an anchor, and at file level before the first function.
LEMMA AnchorThere ==
  ASSUME TypeOK, LifecycleInv, AnchorOwned, frames # <<>>
  PROVE  currentICFG # NullId /\ currentICFG # GlobalNode
BY DEF LifecycleInv, CurrentIsVisited, AnchorOwned

LEMMA GlobalAnchored ==
  ASSUME AnchorSet, ~LateGlobals, NEW x \in Vars, NEW spec, NEW d, NEW init,
         VisitGlobalDecl(x, spec, d, init)
  PROVE  currentICFG = GlobalNode
<1>1. seen \cap Funs = {}
  BY Zenon DEF VisitGlobalDecl, LateGlobals
<1>2. phase = "main"
  BY Zenon DEF VisitGlobalDecl, AtTopLevel
<1>3. QED
  BY <1>1, <1>2 DEF AnchorSet

\* What a step does to the file and to what is initialized.
LEMMA StepTarget ==
  ASSUME TypeOK, LifecycleInv, [Next]_vars
  PROVE  \/ UNCHANGED target \/ target' = NoTarget
         \/ \E x \in Vars, spec \in Specifiers, d \in Declarators, init \in BOOLEAN :
              VisitGlobalDecl(x, spec, d, init)
         \/ frames # <<>> /\ UNCHANGED current
<1>1. CASE ExprStep
  BY <1>1, ExprStepControls
<1>2. CASE UnitStep
  <2>1. ASSUME NEW f \in Funs, VisitPrototype(f)
        PROVE  target' = NoTarget
    <3>1. PICK x, spec, d : VisitGlobalDecl(x, spec, d, FALSE)
      BY <2>1, Zenon DEF VisitPrototype
    <3>2. QED
      BY <3>1, Zenon DEF VisitGlobalDecl
  <2>2. ASSUME StartUnit \/ EndPrescan \/ EndUnit
        PROVE  UNCHANGED target
    BY <2>2 DEF StartUnit, EndPrescan, EndUnit, cursor
  <2>3. ASSUME NEW f \in Funs, NEW sig \in Signatures, PrescanFunctionDef(f, sig)
        PROVE  UNCHANGED target
    BY <2>3, Zenon DEF PrescanFunctionDef, cursor
  <2>4. ASSUME \/ \E s \in Structs, def \in StructDefs : VisitStructSpecifier(s, def)
               \/ \E alias \in Aliases, spec \in Specifiers : VisitTypeDefinition(alias, spec)
        PROVE  UNCHANGED target
    BY <2>4, Zenon DEF VisitStructSpecifier, VisitTypeDefinition, cursor
  <2>5. QED
    BY <1>2, <2>1, <2>2, <2>3, <2>4 DEF UnitStep
<1>3. CASE BodyStep
  <2>1. ASSUME NEW x \in Vars, NEW spec \in Specifiers, NEW d \in Declarators, NEW init \in BOOLEAN,
               VisitLocalDecl(x, spec, d, init)
        PROVE  frames # <<>> /\ UNCHANGED current
    BY <2>1, Zenon DEF VisitLocalDecl, AtStatement, InBody
  <2>2. ASSUME EndInitializer
        PROVE  target' = NoTarget
    BY <2>2 DEF EndInitializer
  <2>3. QED
    BY <1>3, <2>1, <2>2 DEF BodyStep, VisitFunctionDef, MarkVisited, BindFormal, EnterBody, LeaveFunctionDef, EnterBlock,
       ExitBlock, VisitFor, VisitForClause, EndFor, SkipFunctionPointer, VisitExprStmt, VisitReturn
<1>4. CASE UNCHANGED vars
  BY <1>4 DEF vars, cursor
<1>5. QED
  BY <1>1, <1>2, <1>3, <1>4 DEF Next

LEMMA StepSeen ==
  ASSUME TypeOK, LifecycleInv, [Next]_vars
  PROVE  \/ StartUnit
         \/ phase' = "idle"
         \/ seen \subseteq seen' /\ (phase # "idle" \/ UNCHANGED phase)
<1>1. CASE ExprStep
  BY <1>1, ExprStepControls DEF file
<1>2. CASE UnitStep
  <2>1. ASSUME EndPrescan \/ EndUnit
        PROVE  phase' = "idle" \/ (seen \subseteq seen' /\ phase # "idle")
    BY <2>1 DEF EndPrescan, EndUnit
  <2>2. ASSUME NEW f \in Funs, NEW sig \in Signatures, PrescanFunctionDef(f, sig)
        PROVE  UNCHANGED <<seen, phase>>
    BY <2>2, Zenon DEF PrescanFunctionDef
  <2>3. ASSUME NEW s \in Structs, NEW def \in StructDefs, VisitStructSpecifier(s, def)
        PROVE  seen' = seen \cup {s} /\ UNCHANGED phase
    BY <2>3, Zenon DEF VisitStructSpecifier
  <2>4. ASSUME NEW alias \in Aliases, NEW spec \in Specifiers, VisitTypeDefinition(alias, spec)
        PROVE  UNCHANGED <<seen, phase>>
    BY <2>4, Zenon DEF VisitTypeDefinition, file
  <2>5. ASSUME NEW x, NEW spec, NEW d, NEW init, VisitGlobalDecl(x, spec, d, init)
        PROVE  UNCHANGED <<seen, phase>>
    BY <2>5, Zenon DEF VisitGlobalDecl, file
  <2>6. ASSUME NEW f \in Funs, VisitPrototype(f)
        PROVE  UNCHANGED <<seen, phase>>
    BY <2>5, <2>6, Zenon DEF VisitPrototype
  <2>7. QED
    BY <1>2, <2>1, <2>2, <2>3, <2>4, <2>5, <2>6 DEF UnitStep
<1>3. CASE BodyStep
  <2>1. VisitFunctionDef => seen \subseteq seen'
    BY DEF VisitFunctionDef, MarkVisited
  <2>2. ASSUME NEW x \in Vars, NEW spec \in Specifiers, NEW d \in Declarators, NEW init \in BOOLEAN,
               VisitLocalDecl(x, spec, d, init)
        PROVE  UNCHANGED seen
    BY <2>2, Zenon DEF VisitLocalDecl, file
  <2>3. seen \subseteq seen'
    BY <1>3, <2>1, <2>2 DEF BodyStep, BindFormal, EnterBody, LeaveFunctionDef, EnterBlock, ExitBlock, VisitFor,
       VisitForClause, EndFor, SkipFunctionPointer, EndInitializer, VisitExprStmt, VisitReturn, file
  <2>4. QED
    BY <1>3, <2>3, BodyStepKeeps
<1>4. CASE UNCHANGED vars
  BY <1>4 DEF vars, file
<1>5. QED
  BY <1>1, <1>2, <1>3, <1>4 DEF Next

\* Initializers are visited inside files.
InitializersInFiles == target # NoTarget => phase = "main"

LEMMA StepInitializersInFiles ==
  ASSUME TypeOK, LifecycleInv, InitializersInFiles, [Next]_vars
  PROVE  InitializersInFiles'
<1>1. UNCHANGED phase \/ StartUnit \/ EndPrescan \/ EndUnit
  <2>1. CASE ExprStep
    BY <2>1, ExprStepControls DEF file
  <2>2. CASE UnitStep
    <3>1. ASSUME NEW x, NEW spec, NEW d, NEW init, VisitGlobalDecl(x, spec, d, init)
          PROVE  UNCHANGED phase
      BY <3>1, Zenon DEF VisitGlobalDecl, file
    <3>2. ASSUME NEW f \in Funs, VisitPrototype(f)
          PROVE  UNCHANGED phase
      BY <3>1, <3>2, Zenon DEF VisitPrototype
    <3>3. ASSUME \/ \E f \in Funs, sig \in Signatures : PrescanFunctionDef(f, sig)
                 \/ \E s \in Structs, def \in StructDefs : VisitStructSpecifier(s, def)
                 \/ \E alias \in Aliases, spec \in Specifiers : VisitTypeDefinition(alias, spec)
          PROVE  UNCHANGED phase
      BY <3>3, Zenon DEF PrescanFunctionDef, VisitStructSpecifier, VisitTypeDefinition, file
    <3>4. QED
      BY <2>2, <3>1, <3>2, <3>3 DEF UnitStep
  <2>3. CASE BodyStep
    BY <2>3, BodyStepKeeps
  <2>4. CASE UNCHANGED vars
    BY <2>4 DEF vars, file
  <2>5. QED
    BY <2>1, <2>2, <2>3, <2>4 DEF Next
<1>2. EndUnit => target' = NoTarget
  BY DEF EndUnit, AtTopLevel, cursor
<1>3. StartUnit \/ EndPrescan => target' = target
  BY DEF StartUnit, EndPrescan, cursor
<1>4. \A x, spec, d, init : VisitGlobalDecl(x, spec, d, init) => phase = "main"
  BY Zenon DEF VisitGlobalDecl, AtTopLevel
<1>5. frames # <<>> => phase = "main"
  BY DEF LifecycleInv, CurrentIsVisited
<1>6. UNCHANGED target \/ target' = NoTarget \/ phase = "main"
  BY <1>4, <1>5, StepTarget
<1>7. QED
  BY <1>1, <1>2, <1>3, <1>6 DEF InitializersInFiles, StartUnit, EndPrescan

LEMMA InitializersHold == Spec => []InitializersInFiles
<1>1. Init => InitializersInFiles
  BY DEF Init, InitializersInFiles
<1>2. TypeOK /\ LifecycleInv /\ InitializersInFiles /\ [Next]_vars => InitializersInFiles'
  BY StepInitializersInFiles
<1>3. QED
  BY <1>1, <1>2, LifecycleHolds, PTL DEF Spec

LEMMA StepAnchorSet ==
  ASSUME TypeOK, LifecycleInv, InterfaceInv, PlaceInv, AnchorSet, ~LateGlobals, [Next]_vars
  PROVE  AnchorSet'
<1>1. AnchorOwned /\ AnchorOwned' /\ OperandsEnclosed
  BY StepAnchorOwned DEF PlaceInv
<1>2. CASE StartUnit
  BY <1>2 DEF StartUnit, AnchorGlobally, AnchorSet, GlobalNode, NullId
<1>3. CASE VisitFunctionDef /\ ~AlreadyDefined(Head(pending))
  <2>1. PICK f : f \in DOMAIN funcInfos /\ seen' = seen \cup {f} /\ target = NoTarget
    BY <1>3, EnteredFunction
  <2>2. f \in Funs /\ target' = NoTarget
    BY <1>3, <2>1 DEF VisitFunctionDef, MarkVisited, TypeOK, FuncsOK, IsTable
  <2>3. QED
    BY <2>1, <2>2 DEF AnchorSet
<1>4. CASE LeaveFunctionDef
  <2>1. frames # <<>> /\ Top \in Outermost /\ UNCHANGED <<phase, seen, target>>
    BY <1>4 DEF LeaveFunctionDef, Outermost, file
  <2>2. target = NoTarget
    BY <1>1, <2>1 DEF OperandsEnclosed
  <2>3. currentICFG # GlobalNode
    BY <1>1, <2>1, AnchorThere
  <2>4. QED
    BY <2>1, <2>2, <2>3 DEF AnchorSet
<1>5. CASE UNCHANGED current /\ ~StartUnit
  <2>1. phase' # "idle" /\ seen' \cap Funs = {} => phase # "idle" /\ seen \cap Funs = {}
    BY <1>5, StepSeen
  <2>2. currentICFG' = currentICFG
    BY <1>5 DEF current
  <2>3. target' # NoTarget => currentICFG # NullId
    <3>1. ASSUME NEW x \in Vars, NEW spec \in Specifiers, NEW d \in Declarators, NEW init \in BOOLEAN,
                 VisitGlobalDecl(x, spec, d, init)
          PROVE  currentICFG # NullId
      BY <3>1, GlobalAnchored DEF GlobalNode, NullId
    <3>2. QED
      BY <1>1, <3>1, StepTarget, AnchorThere DEF AnchorSet
  <2>4. QED
    BY <2>1, <2>2, <2>3 DEF AnchorSet
<1>6. QED
  BY <1>2, <1>3, <1>4, <1>5, StepAnchor

\* Without an anchor a step makes nothing, unless it registers a function.
LEMMA MadeAtAnchor ==
  ASSUME TypeOK, LifecycleInv, InterfaceInv, AnchorOwned, AnchorSet, ~LateGlobals, ~PointerPrototypes,
         [Next]_vars
  PROVE  \/ UNCHANGED pag
         \/ currentICFG # NullId
         \/ \E f \in Funs, sig \in Signatures : f \notin DOMAIN funcInfos /\ PrescanFunctionDef(f, sig)
<1>1. InBody \/ frames # <<>> \/ target # NoTarget => currentICFG # NullId
  BY AnchorThere DEF InBody, AnchorSet
<1>2. CASE ExprStep
  BY <1>1, <1>2, ExprVisits DEF Visiting
<1>3. CASE BodyStep
  <2>1. BindFormal => frames # <<>>
    BY DEF BindFormal, InterfaceInv, CurrentInterface
  <2>2. EndInitializer => target # NoTarget
    BY DEF EndInitializer
  <2>3. VisitReturn => InBody
    BY DEF VisitReturn, ExprVisited
  <2>4. ASSUME NEW x \in Vars, NEW spec \in Specifiers, NEW d \in Declarators, NEW init \in BOOLEAN,
               VisitLocalDecl(x, spec, d, init)
        PROVE  InBody
    BY <2>4, Zenon DEF VisitLocalDecl, AtStatement
  <2>5. QED
    BY <1>1, <1>3, <2>1, <2>2, <2>3, <2>4 DEF BodyStep, VisitFunctionDef, MarkVisited, EnterBody, LeaveFunctionDef,
       EnterBlock, ExitBlock, VisitFor, VisitForClause, EndFor, SkipFunctionPointer, VisitExprStmt, graphs
<1>4. CASE UnitStep
  <2>1. ASSUME StartUnit \/ EndPrescan \/ EndUnit
        PROVE  UNCHANGED pag
    BY <2>1 DEF StartUnit, EndPrescan, EndUnit, graphs
  <2>2. ASSUME NEW f \in Funs, NEW sig \in Signatures, PrescanFunctionDef(f, sig), f \in DOMAIN funcInfos
        PROVE  UNCHANGED pag
    BY <2>2, Zenon DEF PrescanFunctionDef
  <2>3. ASSUME \/ \E s \in Structs, def \in StructDefs : VisitStructSpecifier(s, def)
               \/ \E alias \in Aliases, spec \in Specifiers : VisitTypeDefinition(alias, spec)
        PROVE  UNCHANGED pag
    BY <2>3, Zenon DEF VisitStructSpecifier, VisitTypeDefinition, graphs
  <2>4. ASSUME NEW x \in Vars, NEW spec \in Specifiers, NEW d \in Declarators, NEW init \in BOOLEAN,
               VisitGlobalDecl(x, spec, d, init)
        PROVE  currentICFG # NullId
    BY <2>4, GlobalAnchored DEF GlobalNode, NullId
  <2>5. ASSUME NEW f \in Funs, VisitPrototype(f)
        PROVE  FALSE
    BY <2>5, Zenon DEF VisitPrototype, PointerPrototypes
  <2>6. QED
    BY <1>4, <2>1, <2>2, <2>3, <2>4, <2>5 DEF UnitStep
<1>5. CASE UNCHANGED vars
  BY <1>5 DEF vars, graphs
<1>6. QED
  BY <1>2, <1>3, <1>4, <1>5 DEF Next

\* What a registration makes hangs on the global node, the entry or the exit, or is the
\* function's object.
LEMMA RegisteredAnchored ==
  ASSUME TypeOK, NEW f, Registers(f), NEW i \in New
  PROVE  pag'.node[i].kind = "fun" \/ pag'.node[i].at # NullId
<1>1. PICK obj : obj = LastId(pag) + 1
  OBVIOUS
<1>2. PICK fi : fi = funcInfos'[f]
  OBVIOUS
<1>3. PICK n : n = Len(fi.formals)
  OBVIOUS
<1>4. /\ LastId(pag) \in Nat /\ LastId(icfg) \in Nat /\ obj \in Nat /\ n \in Nat
      /\ LastId(pag') = obj + 2 + n /\ DOMAIN fi.formals = 1..n
  <2>1. LastId(icfg) \in Nat
    BY LenProperties DEF TypeOK, GraphsOK, IsIcfg, LastId
  <2>2. QED
    BY <1>1, <1>2, <1>3, <2>1, NextIsNew DEF Registers
<1>5. /\ pag'.node[obj].kind = "fun" /\ pag'.node[obj + 1] = ValNode(GlobalNode, f)
      /\ \A j \in 1..n : pag'.node[obj + 1 + j] = ValNode(fi.entry, fi.formals[j].name)
      /\ pag'.node[obj + 2 + n] = ValNode(fi.exit, None)
      /\ fi.entry # NullId /\ fi.exit # NullId
  <2>1. /\ pag'.node[obj].kind = "fun" /\ pag'.node[obj + 1] = ValNode(GlobalNode, f)
        /\ \A j \in DOMAIN fi.formals :
             /\ fi.formals[j].val = obj + 1 + j
             /\ pag'.node[fi.formals[j].val] = ValNode(fi.entry, fi.formals[j].name)
        /\ fi.retVal = LastId(pag') /\ pag'.node[fi.retVal] = ValNode(fi.exit, None)
        /\ fi.entry = LastId(icfg) + 1 /\ fi.exit = LastId(icfg) + 2
    BY <1>1, <1>2 DEF Registers
  <2>2. fi.entry # NullId /\ fi.exit # NullId
    BY <1>4, <2>1 DEF NullId
  <2>3. QED
    BY <1>4, <2>1, <2>2
<1>6. i \in Nat /\ obj <= i /\ i <= obj + 2 + n
  <2>1. i \in 1..LastId(pag') /\ i \notin 1..LastId(pag)
    BY DEF New, Fresh, Ids, LastId
  <2>2. QED
    BY <1>1, <1>4, <2>1
<1>7. CASE i = obj \/ i = obj + 1 \/ i = obj + 2 + n
  BY <1>5, <1>7 DEF ValNode, Node, GlobalNode, NullId
<1>8. CASE ~(i = obj \/ i = obj + 1 \/ i = obj + 2 + n)
  <2>1. PICK j : j = i - (obj + 1)
    OBVIOUS
  <2>2. j \in 1..n /\ i = obj + 1 + j
    BY <1>4, <1>6, <1>8, <2>1
  <2>3. pag'.node[i] = ValNode(fi.entry, fi.formals[j].name)
    BY <1>5, <2>2
  <2>4. QED
    BY <1>5, <2>3 DEF ValNode, Node
<1>9. QED
  BY <1>7, <1>8

LEMMA StepAnchored ==
  ASSUME TypeOK, LifecycleInv, InterfaceInv, AnchorOwned, AnchorSet, Anchored,
         ~LateGlobals, ~PointerPrototypes, [Next]_vars
  PROVE  Anchored'
<1>1. Grows(pag, pag')
  BY StepPreserves DEF Preserved
<1>2. SUFFICES ASSUME NEW i \in New
               PROVE  pag'.node[i].kind = "fun" \/ pag'.node[i].at # NullId
  BY <1>1 DEF Anchored, New, Fresh, Grows
<1>3. CASE UNCHANGED pag
  BY <1>2, <1>3 DEF New, Fresh
<1>4. ASSUME NEW f \in Funs, NEW sig \in Signatures, f \notin DOMAIN funcInfos, PrescanFunctionDef(f, sig)
      PROVE  pag'.node[i].kind = "fun" \/ pag'.node[i].at # NullId
  BY <1>4, RegistersAll, RegisteredAnchored
<1>5. CASE currentICFG # NullId /\ Flows
  BY <1>5 DEF Flows
<1>6. QED
  BY <1>3, <1>4, <1>5, MadeAtAnchor, StepFlows

LEMMA InitAnchored ==
  ASSUME Init
  PROVE  AnchorSet /\ Anchored
BY DEF Init, EmptyPag, AnchorSet, Anchored, Ids

\* The anchor is the file's until the file's first body, and no initializer is ever
\* visited without an anchor, in every program without a global declaration after a body:
\* visitFunctionDef leaves the anchor null behind it.
THEOREM AnchorStands ==
  ASSUME "global after body" \notin Constructs
  PROVE  Spec => []AnchorSet
<1>1. ~LateGlobals
  BY Zenon DEF LateGlobals, Uses
<1>2. Init => AnchorSet
  BY InitAnchored
<1>3. TypeOK /\ LifecycleInv /\ FlowInv /\ PlaceInv /\ AnchorSet /\ [Next]_vars => AnchorSet'
  BY <1>1, StepAnchorSet DEF FlowInv
<1>4. QED
  BY <1>2, <1>3, FlowsThroughInterfaces, VisitorKeepsItsPlace, PTL DEF Spec

\* Every node but a FunObj hangs on an ICFG node, in every program without a global
\* declaration after a body, where there is no anchor; a prototype of a function that
\* returns a pointer is such a declaration too.
THEOREM NodesAnchored ==
  ASSUME "global after body" \notin Constructs, "pointer prototype" \notin Constructs
  PROVE  Spec => []Anchored
<1>1. ~LateGlobals /\ ~PointerPrototypes
  BY Zenon DEF LateGlobals, PointerPrototypes, Uses
<1>2. Init => Anchored
  BY InitAnchored
<1>3. TypeOK /\ LifecycleInv /\ FlowInv /\ PlaceInv /\ AnchorSet /\ Anchored /\ [Next]_vars => Anchored'
  BY <1>1, StepAnchored DEF FlowInv, PlaceInv
<1>4. Spec => []AnchorSet
  BY Zenon, AnchorStands
<1>5. QED
  BY <1>2, <1>3, <1>4, FlowsThroughInterfaces, VisitorKeepsItsPlace, PTL DEF Spec
=============================================================================
