--------------------------- MODULE LifecycleProofs ---------------------------
(***************************************************************************)
(* TSIRBuilder implements FunctionLifecycle, for every program over every  *)
(* choice of names, signatures and bounds.  LifecycleInv is inductive with *)
(* TypeOK, and under it each action is a step of the lifecycle or none.    *)
(***************************************************************************)
EXTENDS LifecycleRefinement, TSIRBuilderProofs

-----------------------------------------------------------------------------
(* Frames *)

LEMMA NestedNonempty ==
  ASSUME NEW fs, IsSequence(fs)
  PROVE  /\ Len(fs) \in Nat /\ DOMAIN fs = 1..Len(fs)
         /\ fs = <<>> <=> Len(fs) = 0
BY SequenceFacts, EmptySeq DEF IsSequence

\* A construct inside a body.
LEMMA NestedPush ==
  ASSUME NEW fs, NEW fr, IsSequence(fs), Nested(fs), Len(fs) >= 2, fr.kind \notin Outermost
  PROVE  Nested(Append(fs, fr)) /\ Append(fs, fr) # <<>>
<1> DEFINE t == Append(fs, fr)
           R == {fs[i] : i \in DOMAIN fs} \cup {fr}
<1>1. fs \in Seq(R) /\ fr \in R
  BY SeqMonotonic DEF IsSequence
<1>2. Len(fs) \in Nat /\ fs # <<>>
  BY NestedNonempty
<1> HIDE DEF R
<1>3. /\ t # <<>> /\ Len(t) = Len(fs) + 1
      /\ \A i \in 1..Len(fs) : t[i] = fs[i]
      /\ t[Len(fs) + 1] = fr
  BY <1>1, AppendProperties
<1> HIDE DEF t
<1>4. QED
  BY <1>2, <1>3 DEF Nested, t

\* The visit of the innermost constructs has ended.
LEMMA NestedPop ==
  ASSUME NEW fs, NEW n \in Int, IsSequence(fs), fs # <<>>, Nested(fs), 1 <= n, n <= Len(fs)
  PROVE  Nested(SubSeq(fs, 1, n)) /\ SubSeq(fs, 1, n) # <<>>
<1> DEFINE t == SubSeq(fs, 1, n)
           R == {fs[i] : i \in DOMAIN fs}
<1>1. Len(fs) \in Nat /\ DOMAIN fs = 1..Len(fs)
  BY NestedNonempty
<1>2. \A i \in 1..n : fs[i] \in R
  BY <1>1
<1> HIDE DEF R
<1>3. /\ t \in Seq(R) /\ Len(t) = n - 1 + 1
      /\ \A i \in 1..(n - 1 + 1) : t[i] = fs[1 + i - 1]
  BY <1>2, SubSeqProperties
<1>4. t # <<>>
  BY <1>3, EmptySeq
<1> HIDE DEF t
<1>5. QED
  BY <1>1, <1>3, <1>4 DEF Nested, t

\* A frame whose kind stays as far as nesting goes.
LEMMA NestedReplace ==
  ASSUME NEW fs, NEW n, NEW fr, IsSequence(fs), Nested(fs),
         n \in DOMAIN fs => fr.kind = fs[n].kind \/ (fr.kind \notin Outermost /\ fs[n].kind \notin Outermost)
  PROVE  /\ Nested([fs EXCEPT ![n] = fr])
         /\ [fs EXCEPT ![n] = fr] = <<>> <=> fs = <<>>
<1> DEFINE t == [fs EXCEPT ![n] = fr]
<1>1. Len(fs) \in Nat /\ DOMAIN fs = 1..Len(fs) /\ (fs = <<>> <=> Len(fs) = 0)
  BY NestedNonempty
<1>2. /\ IsSequence(t) /\ Len(t) = Len(fs) /\ DOMAIN t = DOMAIN fs
      /\ \A i \in DOMAIN t : (t[i] = fr /\ i = n) \/ t[i] = fs[i]
  BY ReplaceFacts
<1>3. t = <<>> <=> Len(t) = 0
  BY <1>2, NestedNonempty
<1> HIDE DEF t
<1>4. ASSUME t # <<>>
      PROVE  /\ t[1].kind = "fun" \/ (t[1].kind = "params" /\ Len(t) = 1)
             /\ \A i \in 2..Len(t) : t[i].kind \notin Outermost
  <2>1. Len(t) = Len(fs) /\ fs # <<>> /\ 1 \in DOMAIN t
    BY <1>1, <1>2, <1>3, <1>4
  <2>2. fs[1].kind = "fun" \/ (fs[1].kind = "params" /\ Len(fs) = 1)
    BY <2>1 DEF Nested
  <2>3. ASSUME t[1] = fr /\ 1 = n
        PROVE  fr.kind = fs[1].kind
    BY <1>2, <2>1, <2>2, <2>3 DEF Outermost
  <2>4. t[1].kind = fs[1].kind
    BY <1>2, <2>1, <2>3
  <2>5. ASSUME NEW i \in 2..Len(t)
        PROVE  t[i].kind \notin Outermost
    <3>1. i \in DOMAIN t /\ i \in DOMAIN fs /\ fs[i].kind \notin Outermost
      BY <1>1, <1>2, <2>1, <2>5 DEF Nested
    <3>2. QED
      BY <1>2, <3>1
  <2>6. QED
    BY <2>1, <2>2, <2>4, <2>5
<1>5. QED
  BY <1>1, <1>2, <1>3, <1>4 DEF Nested, t

-----------------------------------------------------------------------------
(* The invariant *)

\* What a step that leaves the functions to themselves has to keep.
SameFunctions == UNCHANGED <<funcInfos, currentFunc, phase, pending>>

LEMMA KeepsLifecycle ==
  ASSUME LifecycleInv, SameFunctions, FramesNested', frames' = <<>> <=> frames = <<>>
  PROVE  LifecycleInv'
<1>1. CurrentIsVisited'
  BY DEF LifecycleInv, CurrentIsVisited, SameFunctions
<1>2. UndefinedArePending'
  BY DEF LifecycleInv, UndefinedArePending, SameFunctions
<1>3. QED
  BY <1>1, <1>2 DEF LifecycleInv

\* A step that leaves the frames alone too.
LEMMA IdleStep ==
  ASSUME LifecycleInv, SameFunctions, UNCHANGED frames
  PROVE  LifecycleInv'
<1>1. FramesNested' /\ (frames' = <<>> <=> frames = <<>>)
  BY DEF LifecycleInv, FramesNested, Nested
<1>2. QED
  BY <1>1, KeepsLifecycle

LEMMA ExprStepIdle ==
  ASSUME LifecycleInv, ExprStep
  PROVE  SameFunctions /\ UNCHANGED frames
<1>1. ASSUME control' = control
      PROVE  SameFunctions /\ UNCHANGED frames
  BY <1>1 DEF control, current, file, SameFunctions
<1>2. ASSUME NEW f \in Funs, NEW n \in 0..MaxStack, VisitCall(f, n)
      PROVE  SameFunctions /\ UNCHANGED frames
  BY <1>2 DEF VisitCall, current, file, SameFunctions
<1>3. QED
  BY <1>1, <1>2
  DEF ExprStep, VisitIdentifier, VisitNumber, VisitString, VisitNull, VisitParenthesized,
      VisitAddressOf, VisitDeref, VisitLastChild, VisitBinary, VisitAssignIdentifier,
      VisitAssignThrough, VisitAssignParenthesized, Assigned, VisitField, VisitSubscript,
      VisitAllocation, VisitUnknownCall, VisitCast

LEMMA FramesSequence ==
  ASSUME TypeOK, LifecycleInv
  PROVE  /\ IsSequence(frames) /\ Nested(frames)
         /\ Len(frames) \in Nat /\ DOMAIN frames = 1..Len(frames)
         /\ frames = <<>> <=> Len(frames) = 0
BY NestedNonempty DEF TypeOK, FramesOK, LifecycleInv, FramesNested

\* The innermost frame of a body is not its outermost one.
LEMMA InnerFrame ==
  ASSUME TypeOK, LifecycleInv, frames # <<>>, Top \notin Outermost
  PROVE  Len(frames) >= 2 /\ frames[1].kind = "fun"
BY FramesSequence DEF Top, Nested, Outermost

\* Statements and blocks inside a body.
LEMMA InnerStep ==
  ASSUME TypeOK, LifecycleInv, SameFunctions, frames # <<>>, Top \notin Outermost,
         \/ \E kind \in {"block", "for", "loop"} : frames' = Append(frames, Frame(kind))
         \/ \E n \in 1..Len(frames) : frames' = SubSeq(frames, 1, n)
  PROVE  LifecycleInv'
<1>1. FramesNested' /\ frames' # <<>>
  <2>1. ASSUME NEW kind \in {"block", "for", "loop"}, frames' = Append(frames, Frame(kind))
        PROVE  Nested(frames') /\ frames' # <<>>
    <3>1. Frame(kind).kind \notin Outermost
      BY DEF Frame, Outermost
    <3>2. QED
      BY <2>1, <3>1, FramesSequence, InnerFrame, NestedPush
  <2>2. ASSUME NEW n \in 1..Len(frames), frames' = SubSeq(frames, 1, n)
        PROVE  Nested(frames') /\ frames' # <<>>
    <3>1. n \in Int /\ 1 <= n /\ n <= Len(frames)
      BY FramesSequence
    <3>2. QED
      BY <2>2, <3>1, FramesSequence, NestedPop
  <2>3. QED
    BY <2>1, <2>2 DEF FramesNested
<1>2. QED
  BY <1>1, KeepsLifecycle

\* A frame that is replaced: a declaration in it, or the begin of a loop.
LEMMA ReplacingStep ==
  ASSUME TypeOK, LifecycleInv, SameFunctions, NEW n, NEW fr,
         frames' = [frames EXCEPT ![n] = fr],
         n \in DOMAIN frames =>
           fr.kind = frames[n].kind \/ (fr.kind \notin Outermost /\ frames[n].kind \notin Outermost)
  PROVE  LifecycleInv'
<1>1. Nested(frames') /\ (frames' = <<>> <=> frames = <<>>)
  BY FramesSequence, NestedReplace
<1>2. QED
  BY <1>1, KeepsLifecycle DEF FramesNested

LEMMA DeclaringStep ==
  ASSUME TypeOK, LifecycleInv, SameFunctions, NEW x, NEW id, frames' = Declared(frames, x, id)
  PROVE  LifecycleInv'
<1> DEFINE n == Len(frames)
           fr == [frames[n] EXCEPT !.env = Bind(frames[n].env, x, id)]
<1>1. frames' = [frames EXCEPT ![n] = fr]
  BY DEF Declared
<1>2. n \in DOMAIN frames => fr.kind = frames[n].kind
  <2>1. n \in DOMAIN frames => frames[n] = [kind |-> frames[n].kind, env |-> frames[n].env]
    BY DEF TypeOK, FramesOK, IsFrame
  <2>2. QED
    BY <2>1
<1> HIDE DEF n, fr
<1>3. QED
  BY <1>1, <1>2, ReplacingStep

\* visitFunctionDef takes the next definition of the file.
LEMMA FunctionDefLifecycle ==
  ASSUME TypeOK, LifecycleInv, VisitFunctionDef
  PROVE  LifecycleInv'
<1> DEFINE f == Head(pending)
<1>1. /\ phase = "main" /\ frames = <<>> /\ pending # <<>> /\ pending' = Tail(pending)
      /\ UNCHANGED phase
      /\ \/ f \in DOMAIN funcInfos /\ funcInfos[f].defined /\ UNCHANGED <<funcInfos, currentFunc, frames>>
         \/ /\ funcInfos' = [funcInfos EXCEPT ![f].defined = TRUE]
            /\ currentFunc' = f /\ frames' = <<Frame("params")>>
  <2>1. f \in DOMAIN funcInfos
    BY HeadTailProperties DEF VisitFunctionDef, MarkVisited, TypeOK, FileOK
  <2>2. QED
    BY <2>1 DEF VisitFunctionDef, MarkVisited, AtTopLevel, AlreadyDefined, current
<1>2. /\ f \in DOMAIN funcInfos /\ f # None /\ Len(pending) \in Nat
      /\ \A i \in DOMAIN pending : pending[i] # f => i - 1 \in DOMAIN pending' /\ pending'[i - 1] = pending[i]
  <2>1. pending \in Seq(DOMAIN funcInfos) /\ DOMAIN funcInfos \subseteq Funs
    BY DEF TypeOK, FileOK, FuncsOK, IsTable
  <2>2. f \in DOMAIN funcInfos /\ f = pending[1]
    BY <1>1, <2>1, HeadTailProperties
  <2>3. /\ Len(pending) \in Nat /\ DOMAIN pending = 1..Len(pending)
        /\ Tail(pending) \in Seq(DOMAIN funcInfos) /\ Len(Tail(pending)) = Len(pending) - 1
        /\ \A i \in 1..Len(Tail(pending)) : Tail(pending)[i] = pending[i + 1]
    BY <1>1, <2>1, HeadTailProperties, LenProperties
  <2>4. DOMAIN Tail(pending) = 1..(Len(pending) - 1)
    BY <2>3, LenProperties
  <2>5. QED
    BY <1>1, <2>1, <2>2, <2>3, <2>4, NameAssumption
<1>3. /\ DOMAIN funcInfos' = DOMAIN funcInfos
      /\ \A g \in DOMAIN funcInfos : ~funcInfos'[g].defined => ~funcInfos[g].defined
      /\ funcInfos'[f].defined
  <2>1. funcInfos[f] = [funcInfos[f] EXCEPT !.defined = funcInfos[f].defined]
    BY <1>2 DEF TypeOK, FuncsOK, IsTable, FuncInfoType
  <2>2. [funcInfos[f] EXCEPT !.defined = TRUE].defined
    BY <1>2 DEF TypeOK, FuncsOK, IsTable, FuncInfoType
  <2>3. QED
    BY <1>1, <1>2, <2>2
<1> HIDE DEF f
<1>4. UndefinedArePending'
  <2>1. ASSUME NEW g \in DOMAIN funcInfos', ~funcInfos'[g].defined
        PROVE  \E i \in DOMAIN pending' : pending'[i] = g
    <3>1. g # f /\ g \in DOMAIN funcInfos /\ ~funcInfos[g].defined
      BY <1>3, <2>1
    <3>2. PICK i \in DOMAIN pending : pending[i] = g
      BY <3>1 DEF LifecycleInv, UndefinedArePending
    <3>3. QED
      BY <1>2, <3>1, <3>2
  <2>2. QED
    BY <1>1, <2>1 DEF UndefinedArePending
<1>5. FramesNested' /\ CurrentIsVisited'
  <2>1. CASE UNCHANGED <<funcInfos, currentFunc, frames>>
    BY <1>1, <2>1 DEF LifecycleInv, CurrentIsVisited, FramesNested, Nested
  <2>2. CASE currentFunc' = f /\ frames' = <<Frame("params")>>
    <3>1. frames' # <<>> /\ Len(frames') = 1 /\ frames'[1].kind = "params"
      BY <2>2 DEF Frame
    <3>2. QED
      BY <1>1, <1>2, <1>3, <2>2, <3>1 DEF FramesNested, Nested, Outermost, CurrentIsVisited
  <2>3. QED
    BY <1>1, <2>1, <2>2
<1>6. QED
  BY <1>4, <1>5 DEF LifecycleInv

LEMMA LeaveLifecycle ==
  ASSUME TypeOK, LifecycleInv, LeaveFunctionDef
  PROVE  LifecycleInv'
<1>1. currentFunc' = None /\ frames' = <<>> /\ UNCHANGED <<funcInfos, phase, pending>>
  BY DEF LeaveFunctionDef, file
<1>2. QED
  BY <1>1 DEF LifecycleInv, FramesNested, Nested, CurrentIsVisited, UndefinedArePending

LEMMA EnterBodyLifecycle ==
  ASSUME TypeOK, LifecycleInv, EnterBody
  PROVE  LifecycleInv'
<1> DEFINE fun == [frames[1] EXCEPT !.kind = "fun"]
<1>1. SameFunctions /\ frames # <<>> /\ frames' = <<fun, Frame("block")>>
  BY DEF EnterBody, current, file, SameFunctions
<1>2. fun.kind = "fun"
  <2>1. 1 \in DOMAIN frames
    BY <1>1, FramesSequence
  <2>2. IsFrame(frames[1], {NullId} \cup Vals(pag))
    BY <2>1 DEF TypeOK, FramesOK
  <2>3. QED
    BY <2>2 DEF IsFrame
<1> HIDE DEF fun
<1>3. Frame("block").kind = "block"
  BY DEF Frame
<1>4. /\ Len(frames') = 2 /\ frames' # <<>>
      /\ frames'[1].kind = "fun" /\ frames'[2].kind = "block"
  BY <1>1, <1>2, <1>3
<1>5. FramesNested'
  BY <1>4 DEF FramesNested, Nested, Outermost
<1>6. QED
  BY <1>1, <1>4, <1>5, KeepsLifecycle

LEMMA EndBlockLifecycle ==
  ASSUME TypeOK, LifecycleInv, ExitBlock \/ EndFor
  PROVE  LifecycleInv'
<1>1. SameFunctions /\ frames # <<>> /\ Top \notin Outermost
  BY DEF ExitBlock, EndFor, AtStatement, InBody, Outermost, current, file, SameFunctions
<1>2. /\ Len(frames) >= 2 /\ Len(frames) \in Nat
      /\ \A i \in DOMAIN frames : IsFrame(frames[i], {NullId} \cup Vals(pag))
  BY <1>1, InnerFrame, FramesSequence DEF TypeOK, FramesOK
<1> DEFINE n == Len(frames) - 1
<1>3. /\ Enclosing = SubSeq(frames, 1, n) /\ Len(Enclosing) = n
      /\ Enclosing[Len(Enclosing)] = frames[n]
  <2>1. Len(SubSeq(frames, 1, n)) = n /\ SubSeq(frames, 1, n)[n] = frames[n]
    <3>1. \A i \in 1..n : frames[i] \in {frames[j] : j \in DOMAIN frames}
      BY <1>2, FramesSequence
    <3>2. n \in Nat /\ 1 <= n
      BY <1>2
    <3>3. QED
      BY <3>1, <3>2, SubSeqProperties
  <2>2. QED
    BY <2>1 DEF Enclosing
<1>4. \/ frames' = SubSeq(frames, 1, n)
      \/ frames' = SubSeq(frames, 1, Len(frames) - 2) /\ frames[n].kind \notin {"fun", "block"}
  BY <1>3 DEF ExitBlock, EndFor
<1>5. CASE frames' = SubSeq(frames, 1, n)
  <2>1. n \in 1..Len(frames)
    BY <1>2
  <2>2. QED
    BY <1>1, <1>5, <2>1, InnerStep
<1>6. CASE frames' = SubSeq(frames, 1, Len(frames) - 2) /\ frames[n].kind \notin {"fun", "block"}
  <2>1. n # 1
    BY <1>1, <1>6, InnerFrame
  <2>2. Len(frames) - 2 \in 1..Len(frames)
    <3>1. Len(frames) \in Nat /\ Len(frames) >= 2
      BY <1>2
    <3>2. Len(frames) = 2 => n = 1
      OBVIOUS
    <3>3. QED
      BY <2>1, <3>1, <3>2
  <2>3. QED
    BY <1>1, <1>6, <2>2, InnerStep
<1>7. QED
  BY <1>4, <1>5, <1>6

LEMMA BodyStepLifecycle ==
  ASSUME TypeOK, LifecycleInv, BodyStep
  PROVE  LifecycleInv'
<1>1. ASSUME VisitFunctionDef \/ EnterBody \/ LeaveFunctionDef \/ ExitBlock \/ EndFor
      PROVE  LifecycleInv'
  BY <1>1, FunctionDefLifecycle, EnterBodyLifecycle, LeaveLifecycle, EndBlockLifecycle
<1>2. ASSUME BindFormal
      PROVE  LifecycleInv'
  <2>1. SameFunctions /\ \E x, id : frames' = Declared(frames, x, id)
    BY <1>2 DEF BindFormal, current, file, SameFunctions
  <2>2. QED
    BY <2>1, DeclaringStep
<1>3. ASSUME EnterBlock \/ VisitFor
      PROVE  LifecycleInv'
  <2>1. /\ SameFunctions /\ frames # <<>> /\ Top \notin Outermost
        /\ \E kind \in {"block", "for", "loop"} : frames' = Append(frames, Frame(kind))
    BY <1>3 DEF EnterBlock, VisitFor, AtStatement, InBody, current, file, SameFunctions, Outermost
  <2>2. QED
    BY <2>1, InnerStep
<1>4. ASSUME VisitForClause
      PROVE  LifecycleInv'
  <2> DEFINE n == Len(frames)
             fr == [frames[n] EXCEPT !.kind = "loop"]
  <2>1. SameFunctions /\ frames' = [frames EXCEPT ![n] = fr] /\ frames[n].kind \in {"for", "loop"}
    BY <1>4 DEF VisitForClause, ExprVisited, InBody, Top, current, file, SameFunctions
  <2>2. n \in DOMAIN frames => fr.kind = "loop"
    BY DEF TypeOK, FramesOK, IsFrame
  <2> HIDE DEF n, fr
  <2>3. n \in DOMAIN frames => fr.kind \notin Outermost /\ frames[n].kind \notin Outermost
    BY <2>1, <2>2 DEF Outermost
  <2>4. QED
    BY <2>1, <2>3, ReplacingStep
<1>5. ASSUME NEW x \in Vars, NEW spec \in Specifiers, NEW d \in Declarators, NEW init \in BOOLEAN,
             VisitLocalDecl(x, spec, d, init)
      PROVE  LifecycleInv'
  <2>1. SameFunctions /\ \E id : frames' = Declared(frames, x, id)
    BY <1>5 DEF VisitLocalDecl, current, file, SameFunctions
  <2>2. QED
    BY <2>1, DeclaringStep
<1>6. ASSUME EndInitializer \/ VisitExprStmt \/ VisitReturn
      PROVE  LifecycleInv'
  <2>1. SameFunctions /\ UNCHANGED frames
    BY <1>6 DEF EndInitializer, VisitExprStmt, VisitReturn, current, file, SameFunctions
  <2>2. QED
    BY <2>1, IdleStep
<1>7. ASSUME NEW x \in Vars, SkipFunctionPointer(x)
      PROVE  LifecycleInv'
  <2>1. SameFunctions /\ frames' = Declared(frames, x, NullId)
    BY <1>7 DEF SkipFunctionPointer, current, file, SameFunctions
  <2>2. QED
    BY <2>1, DeclaringStep
<1>8. QED
  BY <1>1, <1>2, <1>3, <1>4, <1>5, <1>6, <1>7 DEF BodyStep

\* The passes: nothing is visited while they begin and end.
LEMMA PrescanLifecycle ==
  ASSUME TypeOK, LifecycleInv, NEW f \in Funs, NEW sig \in Signatures, PrescanFunctionDef(f, sig)
  PROVE  LifecycleInv'
<1>1. /\ phase = "prescan" /\ pending' = Append(pending, f)
      /\ UNCHANGED <<phase, currentFunc, frames>>
      /\ funcInfos' = funcInfos \/ \E info : funcInfos' = Bind(funcInfos, f, info)
  BY DEF PrescanFunctionDef, Register, current, cursor
<1>2. /\ Len(pending) \in Nat /\ DOMAIN pending = 1..Len(pending)
      /\ \A i \in DOMAIN pending : i \in DOMAIN pending' /\ pending'[i] = pending[i]
      /\ \E i \in DOMAIN pending' : pending'[i] = f
  <2>1. pending \in Seq(Funs)
    BY SeqMonotonic DEF TypeOK, FileOK, FuncsOK, IsTable
  <2>2. /\ pending' \in Seq(Funs) /\ Len(pending') = Len(pending) + 1
        /\ \A i \in 1..Len(pending) : pending'[i] = pending[i]
        /\ pending'[Len(pending) + 1] = f
    BY <1>1, <2>1, AppendProperties
  <2>3. /\ Len(pending) \in Nat /\ DOMAIN pending = 1..Len(pending)
        /\ DOMAIN pending' = 1..(Len(pending) + 1)
    BY <2>1, <2>2, LenProperties
  <2>4. QED
    BY <2>2, <2>3
<1>3. currentFunc = None /\ frames = <<>>
  BY <1>1 DEF LifecycleInv, CurrentIsVisited
<1>4. ASSUME NEW g \in DOMAIN funcInfos', ~funcInfos'[g].defined
      PROVE  \E i \in DOMAIN pending' : pending'[i] = g
  <2>1. CASE g = f
    BY <1>2, <2>1
  <2>2. CASE g # f
    <3>1. g \in DOMAIN funcInfos /\ ~funcInfos[g].defined
      BY <1>1, <1>4, <2>2 DEF Bind
    <3>2. PICK i \in DOMAIN pending : pending[i] = g
      BY <3>1 DEF LifecycleInv, UndefinedArePending
    <3>3. QED
      BY <1>2, <3>2
  <2>3. QED
    BY <2>1, <2>2
<1>5. UndefinedArePending'
  BY <1>1, <1>4 DEF UndefinedArePending
<1>6. QED
  BY <1>1, <1>3, <1>5 DEF LifecycleInv, CurrentIsVisited, FramesNested, Nested

LEMMA UnitStepLifecycle ==
  ASSUME TypeOK, LifecycleInv, UnitStep
  PROVE  LifecycleInv'
<1>1. ASSUME StartUnit \/ EndPrescan \/ EndUnit
      PROVE  LifecycleInv'
  <2>1. /\ UNCHANGED <<funcInfos, currentFunc, frames, pending>>
        /\ frames = <<>>
        /\ phase' = "idle" => pending = <<>>
    BY <1>1 DEF StartUnit, EndPrescan, EndUnit, AtTopLevel, current, cursor, LifecycleInv,
                CurrentIsVisited
  <2>2. QED
    BY <2>1 DEF LifecycleInv, FramesNested, Nested, CurrentIsVisited, UndefinedArePending
<1>2. ASSUME NEW f \in Funs, NEW sig \in Signatures, PrescanFunctionDef(f, sig)
      PROVE  LifecycleInv'
  BY <1>2, PrescanLifecycle
<1>3. ASSUME NEW s, NEW def, VisitStructSpecifier(s, def) \/ VisitTypeDefinition(s, def)
      PROVE  LifecycleInv'
  <2>1. SameFunctions /\ UNCHANGED frames
    BY <1>3 DEF VisitStructSpecifier, VisitTypeDefinition, current, cursor, file, SameFunctions
  <2>2. QED
    BY <2>1, IdleStep
<1>4. ASSUME NEW x, NEW spec, NEW d, NEW init, VisitGlobalDecl(x, spec, d, init)
      PROVE  LifecycleInv'
  <2>1. SameFunctions /\ UNCHANGED frames
    BY <1>4 DEF VisitGlobalDecl, current, file, SameFunctions
  <2>2. QED
    BY <2>1, IdleStep
<1>5. QED
  BY <1>1, <1>2, <1>3, <1>4 DEF UnitStep, VisitPrototype

LEMMA StepKeepsLifecycle ==
  ASSUME TypeOK, LifecycleInv, [Next]_vars
  PROVE  LifecycleInv'
<1>1. CASE ExprStep
  BY <1>1, ExprStepIdle, IdleStep
<1>2. CASE UNCHANGED vars
  BY <1>2, IdleStep DEF vars, current, file, cursor, SameFunctions
<1>3. QED
  BY <1>1, <1>2, BodyStepLifecycle, UnitStepLifecycle DEF Next

LEMMA InitLifecycle ==
  ASSUME Init
  PROVE  LifecycleInv
BY DEF Init, LifecycleInv, FramesNested, Nested, CurrentIsVisited, UndefinedArePending

\* At every point of the visit of any files, the functions without a body are those
\* that the file at hand still defines, and a function is current exactly inside it.
THEOREM LifecycleHolds == Spec => [](TypeOK /\ LifecycleInv)
<1>1. Init => TypeOK /\ LifecycleInv
  BY InitTyped, InitLifecycle
<1>2. TypeOK /\ LifecycleInv /\ [Next]_vars => (TypeOK /\ LifecycleInv)'
  BY StepPreserves, StepKeepsLifecycle DEF Preserved
<1>3. QED
  BY <1>1, <1>2, PTL DEF Spec

-----------------------------------------------------------------------------
(* The refinement *)

Mapped == <<phase, Status, Calls>>

LEMMA InitRefines ==
  ASSUME Init
  PROVE  Lifecycle!Init
BY DEF Init, Lifecycle!Init, Status, Calls

LEMMA StatusKept ==
  ASSUME UNCHANGED <<funcInfos, currentFunc>>
  PROVE  Status' = Status
BY DEF Status

LEMMA CallsKept ==
  ASSUME UNCHANGED callGraph
  PROVE  Calls' = Calls
BY DEF Calls

\* Most steps are none of the lifecycle.
LEMMA StutterStep ==
  ASSUME SameFunctions, UNCHANGED callGraph
  PROVE  UNCHANGED Mapped
BY StatusKept, CallsKept DEF SameFunctions, Mapped

\* The function whose body is visited, and only it, is in status visiting.
LEMMA VisitingIsCurrent ==
  ASSUME TypeOK, LifecycleInv, NEW f \in Funs
  PROVE  Status[f] = "visiting" <=> f = currentFunc
<1>1. f = currentFunc => f \in DOMAIN funcInfos /\ funcInfos[f].defined
  BY NameAssumption DEF LifecycleInv, CurrentIsVisited, TypeOK, CurrentOK
<1>2. QED
  BY <1>1 DEF Status

\* A call is recorded for the function that is visited.
LEMMA CallRefines ==
  ASSUME TypeOK, LifecycleInv, NEW f \in Funs, NEW n \in 0..MaxStack, VisitCall(f, n)
  PROVE  Lifecycle!Next
<1> DEFINE edge == [call |-> LastId(icfg) + 1, caller |-> currentFunc, callee |-> f]
<1>1. /\ SameFunctions /\ frames # <<>> /\ f \in DOMAIN funcInfos
      /\ callGraph' = callGraph \cup {edge}
  BY DEF VisitCall, ArgumentsVisited, InBody, Callable, current, file, SameFunctions
<1>2. currentFunc \in Funs
  BY <1>1 DEF TypeOK, CurrentOK, FuncsOK, IsTable
<1>3. Status[currentFunc] = "visiting"
  BY <1>2, VisitingIsCurrent
<1>4. Status[f] # "unknown"
  BY <1>1 DEF Status
<1>5. Calls' = Calls \cup {<<currentFunc, f>>}
  <2>1. edge.caller = currentFunc /\ edge.callee = f
    OBVIOUS
  <2> HIDE DEF edge
  <2>2. QED
    BY <1>1, <2>1 DEF Calls
<1>6. Status' = Status /\ phase' = phase
  BY <1>1, StatusKept DEF SameFunctions
<1>7. Lifecycle!Call(currentFunc, f)
  BY <1>3, <1>4, <1>5, <1>6 DEF Lifecycle!Call
<1>8. QED
  BY <1>2, <1>7 DEF Lifecycle!Next

\* visitFunctionDef enters a function, or passes one that has its body already.
LEMMA FunctionDefRefines ==
  ASSUME TypeOK, LifecycleInv, VisitFunctionDef
  PROVE  Lifecycle!Next \/ UNCHANGED Mapped
<1> DEFINE f == Head(pending)
<1>1. f \in DOMAIN funcInfos /\ f \in Funs
  BY HeadTailProperties DEF VisitFunctionDef, MarkVisited, TypeOK, FileOK, FuncsOK, IsTable
<1>2. /\ phase = "main" /\ frames = <<>> /\ UNCHANGED <<phase, callGraph>>
      /\ \/ UNCHANGED <<funcInfos, currentFunc>>
         \/ /\ ~funcInfos[f].defined /\ currentFunc' = f
            /\ funcInfos' = [funcInfos EXCEPT ![f].defined = TRUE]
  BY DEF VisitFunctionDef, MarkVisited, AtTopLevel, AlreadyDefined, current
<1>3. Calls' = Calls
  BY <1>2, CallsKept
<1>4. CASE UNCHANGED <<funcInfos, currentFunc>>
  BY <1>2, <1>3, <1>4, StatusKept DEF Mapped
<1>5. CASE /\ ~funcInfos[f].defined /\ currentFunc' = f
           /\ funcInfos' = [funcInfos EXCEPT ![f].defined = TRUE]
  <2>1. currentFunc = None
    BY <1>2 DEF LifecycleInv, CurrentIsVisited
  <2>2. Status[f] = "registered"
    BY <1>1, <1>5 DEF Status
  <2>3. \A g \in Funs : Status[g] # "visiting"
    BY <2>1, VisitingIsCurrent, NameAssumption
  <2>4. [funcInfos[f] EXCEPT !.defined = TRUE].defined
    BY <1>1 DEF TypeOK, FuncsOK, IsTable, FuncInfoType
  <2>5. /\ DOMAIN funcInfos' = DOMAIN funcInfos /\ funcInfos'[f].defined
        /\ \A g \in DOMAIN funcInfos : g # f => funcInfos'[g] = funcInfos[g]
    BY <1>1, <1>5, <2>4
  <2> HIDE DEF f
  <2>6. Status' = [Status EXCEPT ![f] = "visiting"]
    <3>1. ASSUME NEW g \in Funs, g # f
          PROVE  Status'[g] = Status[g]
      BY <1>5, <2>1, <2>5, <3>1, NameAssumption DEF Status
    <3>2. Status'[f] = "visiting"
      BY <1>1, <1>5, <2>5 DEF Status
    <3>3. QED
      BY <1>1, <3>1, <3>2 DEF Status
  <2>7. Lifecycle!Enter(f)
    BY <1>2, <1>3, <2>2, <2>3, <2>6 DEF Lifecycle!Enter, Lifecycle!InStatus
  <2>8. QED
    BY <1>1, <2>7 DEF Lifecycle!Next
<1>6. QED
  BY <1>2, <1>4, <1>5

LEMMA LeaveRefines ==
  ASSUME TypeOK, LifecycleInv, LeaveFunctionDef
  PROVE  Lifecycle!Next
<1>1. /\ frames # <<>> /\ currentFunc' = None /\ UNCHANGED <<funcInfos, phase, callGraph>>
  BY DEF LeaveFunctionDef, file
<1>2. currentFunc \in Funs /\ currentFunc \in DOMAIN funcInfos /\ funcInfos[currentFunc].defined
  BY <1>1 DEF TypeOK, CurrentOK, FuncsOK, IsTable, LifecycleInv, CurrentIsVisited
<1>3. Status[currentFunc] = "visiting"
  BY <1>2, VisitingIsCurrent
<1>4. Status' = [Status EXCEPT ![currentFunc] = "visited"]
  <2>1. ASSUME NEW g \in Funs, g # currentFunc
        PROVE  Status'[g] = Status[g]
    BY <1>1, <2>1, NameAssumption DEF Status
  <2>2. Status'[currentFunc] = "visited"
    BY <1>1, <1>2, NameAssumption DEF Status
  <2>3. QED
    BY <1>2, <2>1, <2>2 DEF Status
<1>5. Lifecycle!Leave(currentFunc)
  BY <1>1, <1>3, <1>4, CallsKept DEF Lifecycle!Leave
<1>6. QED
  BY <1>2, <1>5 DEF Lifecycle!Next

\* The prescan registers a function, or skips one that is registered.
LEMMA PrescanRefines ==
  ASSUME TypeOK, LifecycleInv, NEW f \in Funs, NEW sig \in Signatures, PrescanFunctionDef(f, sig)
  PROVE  Lifecycle!Next \/ UNCHANGED Mapped
<1>1. /\ phase = "prescan" /\ UNCHANGED <<phase, currentFunc, callGraph>>
      /\ \/ funcInfos' = funcInfos
         \/ /\ f \notin DOMAIN funcInfos
            /\ \E info : funcInfos' = Bind(funcInfos, f, info) /\ info.defined = FALSE
  <2>1. ASSUME Register(f, sig)
        PROVE  \E info : funcInfos' = Bind(funcInfos, f, info) /\ info.defined = FALSE
    <3>1. \E obj, entry, exit, ret, formals : funcInfos' = Bind(funcInfos, f,
            [funObjId |-> obj, entry |-> entry, exit |-> exit, retVal |-> ret,
             formals |-> formals, defined |-> FALSE, retIsPtr |-> sig.ret])
      BY <2>1, Zenon DEF Register
    <3>2. QED
      BY <3>1
  <2>2. QED
    BY <2>1 DEF PrescanFunctionDef, current
<1>2. Calls' = Calls
  BY <1>1, CallsKept
<1>3. CASE funcInfos' = funcInfos
  BY <1>1, <1>2, <1>3, StatusKept DEF Mapped
<1>4. CASE f \notin DOMAIN funcInfos
  <2>1. CASE funcInfos' = funcInfos
    BY <1>3, <2>1
  <2>2. CASE \E info : funcInfos' = Bind(funcInfos, f, info) /\ info.defined = FALSE
    <3>1. /\ DOMAIN funcInfos' = DOMAIN funcInfos \cup {f} /\ ~funcInfos'[f].defined
          /\ \A g \in DOMAIN funcInfos : g # f => funcInfos'[g] = funcInfos[g]
      BY <2>2 DEF Bind
    <3>2. Status[f] = "unknown"
      BY <1>4 DEF Status
    <3>3. Status' = [Status EXCEPT ![f] = "registered"]
      <4>1. ASSUME NEW g \in Funs, g # f
            PROVE  Status'[g] = Status[g]
        BY <1>1, <3>1, <4>1 DEF Status
      <4>2. Status'[f] = "registered"
        BY <3>1 DEF Status
      <4>3. QED
        BY <4>1, <4>2 DEF Status
    <3>4. Lifecycle!Register(f)
      BY <1>1, <1>2, <3>2, <3>3 DEF Lifecycle!Register
    <3>5. QED
      BY <3>4 DEF Lifecycle!Next
  <2>3. QED
    BY <1>1, <2>1, <2>2
<1>5. QED
  BY <1>1, <1>3, <1>4

\* A pass begins or ends; a file is done when no function is left.
LEMMA PassRefines ==
  ASSUME TypeOK, LifecycleInv, StartUnit \/ EndPrescan \/ EndUnit
  PROVE  Lifecycle!Next
<1>1. UNCHANGED <<funcInfos, currentFunc, callGraph>>
  BY DEF StartUnit, EndPrescan, EndUnit, graphs, current
<1>2. Status' = Status /\ Calls' = Calls
  BY <1>1, StatusKept, CallsKept
<1>3. ASSUME StartUnit
      PROVE  Lifecycle!StartPrescan
  BY <1>2, <1>3 DEF StartUnit, Lifecycle!StartPrescan
<1>4. ASSUME EndPrescan
      PROVE  Lifecycle!StartVisit
  BY <1>2, <1>4 DEF EndPrescan, Lifecycle!StartVisit
<1>5. ASSUME EndUnit
      PROVE  Lifecycle!Finish
  <2>1. phase = "main" /\ phase' = "idle" /\ frames = <<>> /\ pending = <<>>
    BY <1>5 DEF EndUnit, AtTopLevel
  <2>2. \A f \in Funs : Status[f] # "visiting"
    BY <2>1, VisitingIsCurrent, NameAssumption DEF LifecycleInv, CurrentIsVisited
  <2>3. \A f \in DOMAIN funcInfos : funcInfos[f].defined
    BY <2>1, EmptySeq DEF LifecycleInv, UndefinedArePending
  <2>4. \A f \in Funs : Status[f] # "registered"
    BY <2>3 DEF Status
  <2>5. QED
    BY <1>2, <2>1, <2>2, <2>4 DEF Lifecycle!Finish, Lifecycle!InStatus
<1>6. QED
  BY <1>3, <1>4, <1>5 DEF Lifecycle!Next

LEMMA StepRefines ==
  ASSUME TypeOK, LifecycleInv, [Next]_vars
  PROVE  [Lifecycle!Next]_Mapped
<1>1. CASE ExprStep
  <2>1. CASE \E f \in Funs, n \in 0..MaxStack : VisitCall(f, n)
    BY <2>1, CallRefines
  <2>2. CASE UNCHANGED callGraph
    BY <1>1, <2>2, ExprStepIdle, StutterStep
  <2>3. QED
    BY <1>1, <2>1, <2>2
    DEF ExprStep, VisitIdentifier, VisitNumber, VisitString, VisitNull, VisitParenthesized,
        VisitAddressOf, VisitDeref, VisitLastChild, VisitBinary, VisitAssignIdentifier,
        VisitAssignThrough, VisitAssignParenthesized, Assigned, VisitField, VisitSubscript,
        VisitAllocation, VisitUnknownCall, VisitCast, control
<1>2. CASE BodyStep
  <2>1. CASE VisitFunctionDef \/ LeaveFunctionDef
    BY <2>1, FunctionDefRefines, LeaveRefines
  <2>2. CASE SameFunctions /\ UNCHANGED callGraph
    BY <2>2, StutterStep
  <2>3. QED
    BY <1>2, <2>1, <2>2
    DEF BodyStep, BindFormal, EnterBody, EnterBlock, ExitBlock, VisitFor, VisitForClause, EndFor,
        VisitLocalDecl, SkipFunctionPointer, EndInitializer, VisitExprStmt, VisitReturn,
        SameFunctions, graphs, current, file
<1>3. CASE UnitStep
  <2>1. CASE StartUnit \/ EndPrescan \/ EndUnit
    BY <2>1, PassRefines
  <2>2. CASE \E f \in Funs, sig \in Signatures : PrescanFunctionDef(f, sig)
    BY <2>2, PrescanRefines
  <2>3. CASE SameFunctions /\ UNCHANGED callGraph
    BY <2>3, StutterStep
  <2>4. QED
    BY <1>3, <2>1, <2>2, <2>3
    DEF UnitStep, VisitStructSpecifier, VisitTypeDefinition, VisitPrototype, VisitGlobalDecl,
        SameFunctions, graphs, current, file
<1>4. CASE UNCHANGED vars
  BY <1>4, StutterStep DEF vars, graphs, current, file, SameFunctions
<1>5. QED
  BY <1>1, <1>2, <1>3, <1>4 DEF Next

\* The visitor implements the lifecycle of functions, for every program: each of its
\* steps is one step of FunctionLifecycle or none.
THEOREM RefinesLifecycle == Spec => ImplementsLifecycle
<1>1. Init => Lifecycle!Init
  BY InitRefines
<1>2. TypeOK /\ LifecycleInv /\ [Next]_vars => [Lifecycle!Next]_Mapped
  BY StepRefines
<1>3. Spec => [](TypeOK /\ LifecycleInv)
  BY LifecycleHolds
<1>4. QED
  BY <1>1, <1>2, <1>3, PTL DEF Spec, ImplementsLifecycle, Lifecycle!Spec, Mapped
=============================================================================
