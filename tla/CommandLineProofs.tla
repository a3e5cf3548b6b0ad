-------------------------- MODULE CommandLineProofs --------------------------
(***************************************************************************)
(* Proofs about CommandLine, for every command line and every set of files *)
(* on disk, whatever programs they hold: main goes through its stages in   *)
(* order, and what it has written and solved is tied to the stage; its     *)
(* visit of the files is a behaviour of TSIRBuilder, and ends with nothing *)
(* left open; and what it reports of the analysis is the least solution.   *)
(* And about CMachine, which runs the same files: the calls by name that   *)
(* the program makes are edges of the call graph.                          *)
(***************************************************************************)
EXTENDS CMachine, PlaceProofs

\* What the invariants say of the state, whatever the files are.
LineInv == StageInv /\ AllOrNothing /\ RejectedNeverReported

LEMMA LineInitInv ==
  ASSUME LineInit
  PROVE  LineInv
BY DEF LineInit, LineInv, StageInv, AllOrNothing, RejectedNeverReported

\* What is rejected depends on the options and the PAG alone.
LEMMA VerdictKept ==
  ASSUME UNCHANGED <<options, pag>>
  PROVE  Rejected' = Rejected
BY DEF Rejected

LEMMA ReadArgumentStep ==
  ASSUME LineInv, ReadArgument
  PROVE  LineInv'
<1>1. /\ stage = "arguments" /\ parsed' = parsed /\ pos' = pos /\ parsed = 0 /\ pos = 0
      /\ written' = {} /\ solution' = {} /\ parsed \in Nat
      /\ \/ stage' = "exited" /\ exitCode' \in {0, 1}
         \/ stage' = "arguments" /\ exitCode' = exitCode /\ exitCode = -1
  BY DEF ReadArgument, Exit, LineInv, StageInv
<1>2. QED
  BY <1>1 DEF LineInv, StageInv, AllOrNothing, RejectedNeverReported

LEMMA EndArgumentsStep ==
  ASSUME LineInv, EndArguments
  PROVE  LineInv'
<1>1. /\ parsed' = 0 /\ pos' = 0 /\ written' = {} /\ solution' = {} /\ args' = <<>>
      /\ \/ stage' = "exited" /\ exitCode' = 1
         \/ stage' = "files" /\ exitCode' = -1
  BY DEF EndArguments, Exit, Goto, LineInv, StageInv
<1>2. QED
  BY <1>1 DEF LineInv, StageInv, AllOrNothing, RejectedNeverReported

LEMMA AddSourceFileStep ==
  ASSUME LineInv, AddSourceFile
  PROVE  LineInv'
<1>1. /\ stage = "files" /\ parsed < Len(srcs) /\ parsed \in Nat /\ pos' = pos /\ srcs' = srcs
      /\ written' = {} /\ solution' = {} /\ args' = <<>>
      /\ \/ stage' = "files" /\ exitCode' = -1 /\ parsed' = parsed + 1
         \/ stage' = "exited" /\ exitCode' = 1 /\ parsed' = parsed
  BY DEF AddSourceFile, Exit, LineInv, StageInv
<1>2. ~(pos' > 0)
  <2>1. parsed # Len(srcs)
    BY <1>1
  <2>2. QED
    BY <1>1, <2>1 DEF LineInv, AllOrNothing
<1>3. QED
  BY <1>1, <1>2 DEF LineInv, StageInv, AllOrNothing, RejectedNeverReported

LEMMA VisitStep ==
  ASSUME LineInv, Visit
  PROVE  LineInv'
<1>1. /\ stage = "files" /\ parsed = Len(srcs) /\ pos' = pos + 1
      /\ UNCHANGED <<args, srcs, stage, exitCode, parsed, written, solution>>
  BY DEF Visit, FilesRead
<1>2. exitCode' = -1
  BY <1>1 DEF LineInv, StageInv
<1>3. QED
  BY <1>1, <1>2 DEF LineInv, StageInv, AllOrNothing, RejectedNeverReported

LEMMA EndVisitStep ==
  ASSUME LineInv, EndVisit
  PROVE  LineInv'
<1>1. /\ stage = "files" /\ parsed = Len(srcs) /\ pos = Len(program) /\ stage' = "built"
      /\ UNCHANGED <<args, srcs, exitCode, program, parsed, pos, written, solution>>
  BY DEF EndVisit, FilesRead, Goto
<1>2. exitCode' = -1
  BY <1>1 DEF LineInv, StageInv
<1>3. QED
  BY <1>1, <1>2 DEF LineInv, StageInv, AllOrNothing, RejectedNeverReported

LEMMA VerifyStep ==
  ASSUME LineInv, VerifySVFIR
  PROVE  LineInv'
<1>1. /\ stage = "built"
      /\ UNCHANGED <<args, options, srcs, program, parsed, pos, written, solution, pag>>
      /\ \/ stage' = "exited" /\ exitCode' = 1
         \/ stage' = "verified" /\ exitCode' = -1 /\ ~Rejected
  BY DEF VerifySVFIR, Exit, Goto, vars, graphs, LineInv, StageInv
<1>2. Rejected' = Rejected
  BY <1>1, VerdictKept
<1>3. QED
  BY <1>1, <1>2 DEF LineInv, StageInv, AllOrNothing, RejectedNeverReported

LEMMA DumpSVFIRStep ==
  ASSUME LineInv, DumpSVFIR
  PROVE  LineInv'
<1>1. /\ stage = "verified" /\ stage' = "solving" /\ written' = {"--dump-svfir"} \cap options
      /\ UNCHANGED <<args, options, srcs, exitCode, program, parsed, pos, solution, pag>>
  BY DEF DumpSVFIR, Goto, vars, graphs, LineInv, StageInv
<1>2. Rejected' = Rejected /\ ~Rejected /\ exitCode' = -1
  BY <1>1, VerdictKept DEF LineInv, StageInv
<1>3. "--verify" \in options => Verify(pag)
  BY <1>2 DEF Rejected
<1>4. Verify(pag)' = Verify(pag)
  BY <1>1
<1>5. QED
  BY <1>1, <1>2, <1>3, <1>4 DEF LineInv, StageInv, AllOrNothing, RejectedNeverReported

LEMMA SolveStep ==
  ASSUME LineInv, Solve
  PROVE  LineInv'
<1>1. /\ stage = "solving"
      /\ UNCHANGED <<args, options, srcs, stage, exitCode, program, parsed, pos, written, pag>>
  BY DEF Solve, vars, graphs
<1>2. Rejected' = Rejected /\ ~Rejected /\ exitCode' = -1
  BY <1>1, VerdictKept DEF LineInv, StageInv
<1>3. "--verify" \in options => Verify(pag)
  BY <1>2 DEF Rejected
<1>4. Verify(pag)' = Verify(pag)
  BY <1>1
<1>5. QED
  BY <1>1, <1>2, <1>3, <1>4 DEF LineInv, StageInv, AllOrNothing, RejectedNeverReported

LEMMA DumpPtsStep ==
  ASSUME LineInv, DumpPts
  PROVE  LineInv'
<1>1. /\ stage = "solving" /\ stage' = "exited" /\ exitCode' = 0
      /\ written' = written \cup ({"--dump-pts"} \cap options)
      /\ UNCHANGED <<args, options, srcs, program, parsed, pos, solution, pag>>
  BY DEF DumpPts, Exit, vars, graphs
<1>2. ~Rejected /\ written = options \cap {"--dump-svfir"} /\ args = <<>>
      /\ parsed = Len(srcs) /\ pos = Len(program) /\ parsed \in Nat
  BY <1>1 DEF LineInv, StageInv
<1>3. "--verify" \in options => Verify(pag)
  BY <1>2 DEF Rejected
<1>4. Verify(pag)' = Verify(pag)
  BY <1>1
<1>5. written' = options' \cap {"--dump-svfir", "--dump-pts"}
  BY <1>1, <1>2
<1>6. QED
  BY <1>1, <1>2, <1>3, <1>4, <1>5 DEF LineInv, StageInv, AllOrNothing, RejectedNeverReported

LEMMA LineStepInv ==
  ASSUME LineInv, [LineNext]_<<vars, frontend>>
  PROVE  LineInv'
<1>1. CASE LineNext
  BY <1>1, ReadArgumentStep, EndArgumentsStep, AddSourceFileStep, VisitStep, EndVisitStep,
     VerifyStep, DumpSVFIRStep, SolveStep, DumpPtsStep DEF LineNext
<1>2. CASE UNCHANGED <<vars, frontend>>
  <2>1. /\ UNCHANGED <<args, options, srcs, stage, exitCode, program, parsed, pos, written, solution>>
        /\ UNCHANGED pag
    BY <1>2 DEF vars, graphs, frontend
  <2>2. Rejected' = Rejected /\ Verify(pag)' = Verify(pag)
    BY <2>1, VerdictKept
  <2>3. QED
    BY <2>1, <2>2 DEF LineInv, StageInv, AllOrNothing, RejectedNeverReported
<1>3. QED
  BY <1>1, <1>2

LEMMA LineInvHolds == LineSpec => []LineInv
<1>1. LineInit => LineInv
  BY LineInitInv
<1>2. LineInv /\ [LineNext]_<<vars, frontend>> => LineInv'
  BY LineStepInv
<1>3. QED
  BY <1>1, <1>2, PTL DEF LineSpec

\* The stages of main follow each other as its code is written: no report before the
\* verdict, no verdict before the last token, no token before the last file.
THEOREM StagesInOrder == LineSpec => []StageInv
<1>1. LineInv => StageInv
  BY DEF LineInv
<1>2. QED
  BY <1>1, LineInvHolds, PTL

\* Whatever the command line, the files on disk and the programs in them, a run that
\* fails has written nothing, and one that succeeds has read and visited all it names
\* and written what was asked of it.
THEOREM ReportsAllOrNothing == LineSpec => []AllOrNothing
<1>1. LineInv => AllOrNothing
  BY DEF LineInv
<1>2. QED
  BY <1>1, LineInvHolds, PTL

\* Whatever the program, a PAG that the verifier rejects never reaches the analysis or
\* a report when --verify asks for the verdict.
THEOREM VerdictRespected == LineSpec => []RejectedNeverReported
<1>1. LineInv => RejectedNeverReported
  BY DEF LineInv
<1>2. QED
  BY <1>1, LineInvHolds, PTL

-----------------------------------------------------------------------------
(* The visits of the command are visits of the visitor *)

LEMMA UnitTokenStep ==
  ASSUME NEW t, Written(t), Step(t), t[1] \in UnitTokens
  PROVE  UnitStep
<1>1. CASE t[1] = "global"
  <2>1. VisitGlobalDecl(t[2], t[3], Flags(t[4]), t[5])
    BY <1>1 DEF Step
  <2>2. t[2] \in Vars /\ t[3] \in Specifiers /\ Flags(t[4]) \in Declarators /\ t[5] \in BOOLEAN
    BY <1>1 DEF Written, Flags, Declarators
  <2>3. QED
    BY <2>1, <2>2 DEF UnitStep
<1>2. CASE t[1] # "global"
  BY <1>2 DEF Step, Written, UnitStep, UnitTokens
<1>3. QED
  BY <1>1, <1>2

LEMMA BodyTokenStep ==
  ASSUME NEW t, Written(t), Step(t), t[1] \in BodyTokens
  PROVE  BodyStep
<1>1. CASE t[1] = "local"
  <2>1. VisitLocalDecl(t[2], t[3], Flags(t[4]), t[5])
    BY <1>1 DEF Step
  <2>2. t[2] \in Vars /\ t[3] \in Specifiers /\ Flags(t[4]) \in Declarators /\ t[5] \in BOOLEAN
    BY <1>1 DEF Written, Flags, Declarators
  <2>3. QED
    BY <2>1, <2>2 DEF BodyStep
<1>2. CASE t[1] = "local*"
  <2>1. SkipFunctionPointer(t[2]) /\ t[2] \in Vars
    BY <1>2 DEF Step, Written
  <2>2. QED
    BY <2>1 DEF BodyStep
<1>3. CASE t[1] \notin {"local", "local*"}
  BY <1>3 DEF Step, BodyStep, BodyTokens
<1>4. QED
  BY <1>1, <1>2, <1>3

LEMMA ExprTokenStep ==
  ASSUME NEW t, Written(t), Step(t), t[1] \in ExprTokens
  PROVE  ExprStep
<1>1. CASE t[1] \in {"val", "place", "num", "&", "*", "()", "last", "malloc"}
  BY <1>1 DEF Step, Written, ExprStep
<1>2. CASE t[1] \in {"field", "[]", "binary", "cast", "=", "=*", "(="}
  BY <1>2 DEF Step, Written, ExprStep
<1>3. CASE t[1] = "call"
  BY <1>3 DEF Step, Written, ExprStep
<1>4. CASE t[1] = "call*"
  BY <1>4 DEF Step, Written, ExprStep
<1>5. QED
  BY <1>1, <1>2, <1>3, <1>4 DEF ExprTokens

LEMMA TokenStep ==
  ASSUME NEW t, Written(t), Step(t)
  PROVE  [Next]_vars
<1>1. CASE t[1] \in {"branch", "jump", "lost"}
  BY <1>1 DEF Step
<1>2. CASE t[1] \notin {"branch", "jump", "lost"}
  BY <1>2, UnitTokenStep, BodyTokenStep, ExprTokenStep DEF Written, Next
<1>3. QED
  BY <1>1, <1>2

\* The end of a file leaves the visitor between files, whatever it was in.
LEMMA EndOfFile ==
  ASSUME Step(<<"eof">>)
  PROVE  phase' = "idle"
BY DEF Step, EndUnit

-----------------------------------------------------------------------------
(* The program that is visited *)

\* Files on disk are well-formed, and so is the program that is read from them: its
\* last token, when there is one, ends a file.
DiskOK == \A path \in DOMAIN disk : WellFormed(disk[path])
ProgramOK ==
  /\ IsSequence(program) /\ \A k \in DOMAIN program : Written(program[k])
  /\ program # <<>> => program[Len(program)] = <<"eof">>
\* Between files the visitor is idle, and before the first one.
PositionOK ==
  /\ pos \in 0..Len(program)
  /\ pos = 0 \/ program[pos] = <<"eof">> => phase = "idle"
TextInv == DiskOK /\ ProgramOK /\ PositionOK

\* Files are appended.
LEMMA Appended ==
  ASSUME NEW s, IsSequence(s), NEW t, WellFormed(t), \A k \in DOMAIN s : Written(s[k])
  PROVE  /\ IsSequence(s \o t) /\ \A k \in DOMAIN (s \o t) : Written((s \o t)[k])
         /\ s \o t # <<>> /\ (s \o t)[Len(s \o t)] = <<"eof">> /\ Len(s \o t) >= Len(s)
<1> DEFINE A == {s[i] : i \in DOMAIN s}
           B == {t[i] : i \in DOMAIN t}
           st == s \o t
<1>1. s \in Seq(A) /\ t \in Seq(B) /\ t # <<>> /\ t[Len(t)] = <<"eof">>
  BY DEF IsSequence, WellFormed
<1>2. \A k \in DOMAIN t : Written(t[k])
  BY DEF WellFormed
<1> HIDE DEF A, B
<1>3. s \in Seq(A \cup B) /\ t \in Seq(A \cup B)
  BY <1>1
<1>4. /\ st \in Seq(A \cup B) /\ Len(st) = Len(s) + Len(t)
      /\ \A i \in 1..Len(s) + Len(t) : st[i] = IF i <= Len(s) THEN s[i] ELSE t[i - Len(s)]
  BY <1>3, ConcatProperties
<1> HIDE DEF st
<1>b. /\ Len(s) \in Nat /\ Len(t) \in Nat /\ Len(t) > 0
      /\ DOMAIN s = 1..Len(s) /\ DOMAIN t = 1..Len(t) /\ DOMAIN st = 1..Len(st)
      /\ st \in [1..Len(st) -> A \cup B]
  BY <1>1, <1>3, <1>4, LenProperties, EmptySeq
<1>5. IsSequence(st)
  <2>1. st \in [1..Len(st) -> {st[i] : i \in DOMAIN st}]
    BY <1>b
  <2>2. QED
    BY <1>b, <1>4, <2>1, SeqDef DEF IsSequence
<1>6. ASSUME NEW k \in DOMAIN st
      PROVE  Written(st[k])
  <2>1. CASE k <= Len(s)
    BY <1>2, <1>4, <1>b, <2>1
  <2>2. CASE ~(k <= Len(s))
    <3>1. k - Len(s) \in DOMAIN t /\ st[k] = t[k - Len(s)]
      BY <1>4, <1>b, <2>2
    <3>2. QED
      BY <1>2, <3>1
  <2>3. QED
    BY <2>1, <2>2
<1>7. st[Len(st)] = <<"eof">> /\ st # <<>> /\ Len(st) >= Len(s)
  BY <1>1, <1>4, <1>b, EmptySeq
<1>8. QED
  BY <1>5, <1>6, <1>7 DEF st

LEMMA InitText ==
  ASSUME LineInit
  PROVE  TextInv
<1>1. PICK i \in Invocations : disk = i.disk
  BY DEF LineInit
<1>2. DiskOK
  BY <1>1, FileAssumption DEF DiskOK, Texts
<1>3. program = <<>> /\ pos = 0 /\ phase = "idle"
  BY DEF LineInit, Init
<1>4. ProgramOK
  BY <1>3, EmptySeq DEF ProgramOK, IsSequence
<1>5. PositionOK
  BY <1>3, EmptySeq, LenProperties DEF PositionOK
<1>6. QED
  BY <1>2, <1>4, <1>5 DEF TextInv

LEMMA TextKept ==
  ASSUME TextInv, UNCHANGED <<disk, program, pos, phase>>
  PROVE  TextInv'
BY DEF TextInv, DiskOK, ProgramOK, PositionOK

LEMMA AddSourceFileText ==
  ASSUME LineInv, TextInv, AddSourceFile
  PROVE  TextInv'
<1>1. UNCHANGED <<disk, pos, phase>> /\ pos = 0
  <2>1. parsed < Len(srcs) /\ parsed # Len(srcs)
    BY DEF AddSourceFile, LineInv, StageInv
  <2>2. QED
    BY <2>1 DEF AddSourceFile, vars, file, LineInv, AllOrNothing, TextInv, PositionOK
<1>2. CASE UNCHANGED program
  BY <1>1, <1>2, TextKept
<1>3. CASE \E path \in DOMAIN disk : program' = program \o disk[path]
  <2>1. PICK path \in DOMAIN disk : program' = program \o disk[path]
    BY <1>3
  <2>2. WellFormed(disk[path])
    BY DEF TextInv, DiskOK
  <2>3. /\ IsSequence(program') /\ \A k \in DOMAIN program' : Written(program'[k])
        /\ program' # <<>> /\ program'[Len(program')] = <<"eof">>
    BY <2>1, <2>2, Appended DEF TextInv, ProgramOK
  <2>4. Len(program') \in Nat
    BY <2>3, SequenceFacts
  <2>5. QED
    BY <1>1, <2>3, <2>4 DEF TextInv, DiskOK, ProgramOK, PositionOK
<1>4. QED
  BY <1>2, <1>3 DEF AddSourceFile

\* Visit takes the next token of the program.
LEMMA NextToken ==
  ASSUME TextInv, Visit
  PROVE  /\ Written(program[pos + 1]) /\ Step(program[pos + 1])
         /\ pos + 1 \in 0..Len(program) /\ pos + 1 # 0
         /\ UNCHANGED <<disk, program>> /\ pos' = pos + 1
<1>1. Len(program) \in Nat /\ DOMAIN program = 1..Len(program)
  BY SequenceFacts DEF TextInv, ProgramOK
<1>2. pos \in 0..Len(program) /\ pos < Len(program)
  BY DEF TextInv, PositionOK, Visit
<1>3. pos + 1 \in DOMAIN program
  BY <1>1, <1>2
<1>4. QED
  BY <1>1, <1>2, <1>3 DEF Visit, TextInv, ProgramOK

LEMMA VisitText ==
  ASSUME TextInv, Visit
  PROVE  TextInv'
<1>1. program'[pos'] = <<"eof">> => phase' = "idle"
  BY NextToken, EndOfFile
<1>2. QED
  BY <1>1, NextToken DEF TextInv, DiskOK, ProgramOK, PositionOK

LEMMA StepText ==
  ASSUME LineInv, TextInv, [LineNext]_<<vars, frontend>>
  PROVE  TextInv'
<1>1. CASE AddSourceFile
  BY <1>1, AddSourceFileText
<1>2. CASE Visit
  BY <1>2, VisitText
<1>3. CASE ReadArgument \/ EndArguments \/ EndVisit \/ VerifySVFIR
  BY <1>3, TextKept DEF ReadArgument, EndArguments, EndVisit, VerifySVFIR, vars, file
<1>4. CASE DumpSVFIR \/ Solve \/ DumpPts \/ UNCHANGED <<vars, frontend>>
  BY <1>4, TextKept DEF DumpSVFIR, Solve, DumpPts, vars, file, frontend
<1>5. QED
  BY <1>1, <1>2, <1>3, <1>4 DEF LineNext

LEMMA TextHolds == LineSpec => []TextInv
<1>1. LineInit => TextInv
  BY InitText
<1>2. LineInv /\ TextInv /\ [LineNext]_<<vars, frontend>> => TextInv'
  BY StepText
<1>3. QED
  BY <1>1, <1>2, LineInvHolds, PTL DEF LineSpec

-----------------------------------------------------------------------------
(* The command and the visitor *)

LEMMA LineStepVisits ==
  ASSUME TextInv, [LineNext]_<<vars, frontend>>
  PROVE  [Next]_vars
<1>1. CASE Visit
  BY <1>1, NextToken, TokenStep
<1>2. CASE ReadArgument \/ EndArguments \/ AddSourceFile \/ EndVisit \/ VerifySVFIR
  BY <1>2 DEF ReadArgument, EndArguments, AddSourceFile, EndVisit, VerifySVFIR
<1>3. CASE DumpSVFIR \/ Solve \/ DumpPts \/ UNCHANGED <<vars, frontend>>
  BY <1>3 DEF DumpSVFIR, Solve, DumpPts
<1>4. QED
  BY <1>1, <1>2, <1>3 DEF LineNext

\* Whatever the command line and the files, what ts-svf does to the graphs, the tables
\* and the members of the visitor is a behaviour of TSIRBuilder: all that is proved of
\* the visitor holds of the command at every point of its run.
THEOREM CommandVisits == LineSpec => Spec
<1>1. LineInit => Init
  BY DEF LineInit
<1>2. TextInv /\ [LineNext]_<<vars, frontend>> => [Next]_vars
  BY LineStepVisits
<1>3. QED
  BY <1>1, <1>2, TextHolds, PTL DEF LineSpec, Spec

\* When the last token of the last file has been visited, the visitor has come back
\* from everything it had entered, and every function that any file registered has been
\* visited: the analysis starts from bodies, not from declarations.
THEOREM VisitsComplete == LineSpec => []VisitComplete
<1>1. ASSUME TypeOK, LifecycleInv, PlaceInv, InitializersInFiles, TextInv
      PROVE  VisitComplete
  <2> SUFFICES ASSUME pos = Len(program)
               PROVE  /\ phase = "idle" /\ frames = <<>> /\ stack = <<>> /\ scopes = <<>>
                      /\ \A f \in DOMAIN funcInfos : funcInfos[f].defined
    BY DEF VisitComplete
  <2>1. phase = "idle"
    <3>1. CASE program = <<>>
      BY <1>1, <3>1, EmptySeq, LenProperties DEF TextInv, PositionOK
    <3>2. CASE program # <<>>
      BY <1>1, <3>2 DEF TextInv, PositionOK, ProgramOK
    <3>3. QED
      BY <3>1, <3>2
  <2>2. currentFunc = None /\ frames = <<>>
    BY <1>1, <2>1 DEF LifecycleInv, CurrentIsVisited
  <2>3. stack = <<>> /\ scopes = <<>>
    BY <1>1, <2>1, <2>2
       DEF PlaceInv, OperandsEnclosed, ScopesFollowFrames, Visiting, InBody, InitializersInFiles
  <2>4. pending = <<>>
    BY <1>1, <2>1 DEF LifecycleInv, UndefinedArePending
  <2>5. \A f \in DOMAIN funcInfos : funcInfos[f].defined
    BY <1>1, <2>4 DEF LifecycleInv, UndefinedArePending
  <2>6. QED
    BY <2>1, <2>2, <2>3, <2>5
<1>2. QED
  BY <1>1, TextHolds, CommandVisits, LifecycleHolds, VisitorKeepsItsPlace, InitializersHold, PTL

\* --verify never turns a program away for the reasons that it is there to find: where no
\* address of a literal is taken and sums and casts do not meet, every PAG that the
\* command builds, and every part of one, is accepted.
THEOREM NeverRejected ==
  ASSUME "literal address" \notin Constructs,
         "cast" \notin Constructs \/ "sum" \notin Constructs
  PROVE  LineSpec => []~Rejected
<1>1. Spec => []VerifierAccepts
  BY Zenon, VerifierAlwaysAccepts
<1>2. VerifierAccepts => ~Rejected
  BY DEF VerifierAccepts, Rejected
<1>3. QED
  BY <1>1, <1>2, CommandVisits, PTL
-----------------------------------------------------------------------------
(* The analysis *)

\* The fields of the objects, and the cells that may hold their addresses.
Slots(g) == UNION {FieldsOf(g, o) : o \in Objects(g)}
Cells(g) == {Cell(i) : i \in Vals(g)} \cup Slots(g)
ObjectsSized(g) == \A o \in Objects(g) : g.node[o].size \in Nat \ {0}

LEMMA PtsMonotone ==
  ASSUME NEW A, NEW B, A \subseteq B, NEW c
  PROVE  PtsOf(A, c) \subseteq PtsOf(B, c)
BY DEF PtsOf

\* What a statement passes on grows with the facts.
LEMMA FlowsMonotone ==
  ASSUME NEW g, NEW A, NEW B, A \subseteq B, NEW s, s.op \in StmtOps
  PROVE  FlowsFrom(g, s, A) \subseteq FlowsFrom(g, s, B)
<1>1. \A c : PtsOf(A, c) \subseteq PtsOf(B, c)
  BY PtsMonotone
<1>2. CASE s.op = "Addr"
  BY <1>2 DEF FlowsFrom
<1>3. CASE s.op \in {"Copy", "CallPE", "RetPE"}
  BY <1>1, <1>3 DEF FlowsFrom
<1>4. CASE s.op = "Load"
  BY <1>1, <1>4 DEF FlowsFrom
<1>5. CASE s.op = "Store"
  BY <1>1, <1>5 DEF FlowsFrom
<1>6. CASE s.op = "Gep"
  BY <1>1, <1>6 DEF FlowsFrom
<1>7. CASE s.op = "VarGep"
  BY <1>1, <1>7 DEF FlowsFrom
<1>8. QED
  BY <1>2, <1>3, <1>4, <1>5, <1>6, <1>7 DEF StmtOps

LEMMA RoundMonotone ==
  ASSUME NEW g, \A s \in g.stmt : s.op \in StmtOps, NEW A, NEW B, A \subseteq B
  PROVE  Round(g, A) \subseteq Round(g, B)
<1>1. \A s \in g.stmt : FlowsFrom(g, s, A) \subseteq FlowsFrom(g, s, B)
  BY FlowsMonotone
<1>2. QED
  BY <1>1 DEF Round

LEMMA SlotMeans ==
  ASSUME NEW g, ObjectsSized(g)
  PROVE  /\ \A l \in Slots(g) : l[1] \in Objects(g)
         /\ \A o \in Objects(g) : \A k \in 0..(g.node[o].size - 1) : <<o, k>> \in Slots(g)
BY DEF Slots, FieldsOf

LEMMA PtsInSlots ==
  ASSUME NEW g, NEW facts, facts \subseteq Cells(g) \X Slots(g), NEW c
  PROVE  PtsOf(facts, c) \subseteq Slots(g)
BY DEF PtsOf

\* Where an offset leads to.
LEMMA ShiftStays ==
  ASSUME NEW g, ObjectsSized(g), NEW l \in Slots(g), NEW k \in Nat
  PROVE  <<l[1], (l[2] + k) % g.node[l[1]].size>> \in Slots(g)
<1>1. PICK o \in Objects(g) : \E j \in 0..(g.node[o].size - 1) : l = <<o, j>>
  BY DEF Slots, FieldsOf
<1>2. PICK n \in Nat : n = g.node[o].size /\ n # 0
  BY DEF ObjectsSized
<1>0. PICK j \in 0..(n - 1) : l = <<o, j>>
  BY <1>1, <1>2
<1>3. j \in Nat /\ (j + k) % n \in 0..(n - 1)
  BY <1>2, <1>0
<1>4. QED
  BY <1>0, <1>2, <1>3, SlotMeans

LEMMA FlowsStay ==
  ASSUME NEW g, ObjectsSized(g), NEW s, IsStmt(g, s),
         NEW facts, facts \subseteq Cells(g) \X Slots(g)
  PROVE  FlowsFrom(g, s, facts) \subseteq Cells(g) \X Slots(g)
<1>1. /\ s.op \in StmtOps /\ s.dst \in Vals(g) /\ s.arg \in Nat
      /\ s.op = "Addr" => s.src \in Objects(g)
  BY DEF IsStmt
<1>2. Cell(s.dst) \in Cells(g) /\ Slots(g) \subseteq Cells(g)
  BY <1>1 DEF Cells
<1>3. \A c : PtsOf(facts, c) \subseteq Slots(g)
  BY PtsInSlots
<1>4. CASE s.op = "Addr"
  <2>1. PICK n \in Nat : n = g.node[s.src].size /\ n # 0
    BY <1>1, <1>4 DEF ObjectsSized
  <2>2. 0 \in 0..(n - 1)
    BY <2>1
  <2>3. Cell(s.src) \in Slots(g)
    BY <1>1, <1>4, <2>1, <2>2, SlotMeans DEF Cell
  <2>4. QED
    BY <1>2, <1>4, <2>3 DEF FlowsFrom
<1>5. CASE s.op \in {"Copy", "CallPE", "RetPE"}
  BY <1>2, <1>3, <1>5 DEF FlowsFrom
<1>6. CASE s.op = "Load"
  BY <1>2, <1>3, <1>6 DEF FlowsFrom
<1>7. CASE s.op = "Store"
  BY <1>2, <1>3, <1>7 DEF FlowsFrom
<1>8. CASE s.op = "Gep"
  <2>1. \A l \in PtsOf(facts, Cell(s.src)) : <<l[1], (l[2] + s.arg) % g.node[l[1]].size>> \in Slots(g)
    BY <1>1, <1>3, ShiftStays
  <2>2. QED
    BY <1>2, <1>8, <2>1 DEF FlowsFrom
<1>9. CASE s.op = "VarGep"
  <2>1. \A l \in PtsOf(facts, Cell(s.src)) : FieldsOf(g, l[1]) \subseteq Slots(g)
    BY <1>3, SlotMeans DEF Slots
  <2>2. QED
    BY <1>2, <1>9, <2>1 DEF FlowsFrom
<1>10. QED
  BY <1>1, <1>4, <1>5, <1>6, <1>7, <1>8, <1>9 DEF StmtOps

LEMMA RoundStays ==
  ASSUME NEW g, ObjectsSized(g), \A s \in g.stmt : IsStmt(g, s),
         NEW facts, facts \subseteq Cells(g) \X Slots(g)
  PROVE  Round(g, facts) \subseteq Cells(g) \X Slots(g)
<1>1. \A s \in g.stmt : FlowsFrom(g, s, facts) \subseteq Cells(g) \X Slots(g)
  BY FlowsStay
<1>2. QED
  BY <1>1 DEF Round

EmptyStructs == Uses("empty struct")
FieldsUnlessEmpty == EmptyStructs \/ EveryObjectHasField

\* The analysis finds addresses of fields of objects of the PAG alone.
PointsToSlots == solution \subseteq Cells(pag) \X Slots(pag)
\* It finds what every solution of the inclusion constraints has, and no more.
NothingNeedless == \A facts : IsSolved(pag, facts) => solution \subseteq facts
\* What --dump-pts writes is a solution.
ReportedSolved == "--dump-pts" \in written => IsSolved(pag, solution)
PtsNeedsAnalysis == "--dump-pts" \in options => "--ander" \in options
AnalysisInv == (EmptyStructs \/ PointsToSlots) /\ NothingNeedless /\ ReportedSolved /\ PtsNeedsAnalysis

LEMMA SizedPag ==
  ASSUME TypeOK, FieldsUnlessEmpty
  PROVE  (EmptyStructs \/ ObjectsSized(pag)) /\ \A s \in pag.stmt : IsStmt(pag, s) /\ s.op \in StmtOps
<1>1. ASSUME NEW o \in Objects(pag)
      PROVE  pag.node[o].size \in Nat
  <2>1. /\ pag.node \in Seq(PagNode(icfg, Names))
        /\ o \in 1..Len(pag.node)
    BY DEF TypeOK, GraphsOK, IsPag, Objects, Ids
  <2>2. pag.node[o] \in PagNode(icfg, Names)
    BY <2>1, ElementOfSeq
  <2>3. QED
    BY <2>2 DEF PagNode
<1>2. \A s \in pag.stmt : IsStmt(pag, s)
  BY DEF TypeOK, GraphsOK, IsPag
<1>3. QED
  BY <1>1, <1>2 DEF ObjectsSized, EveryObjectHasField, IsStmt, FieldsUnlessEmpty

\* Before the analysis starts there are neither facts nor a report of them.
LEMMA NothingFoundYet ==
  ASSUME solution' = {}, "--dump-pts" \notin written', PtsNeedsAnalysis'
  PROVE  AnalysisInv'
BY DEF AnalysisInv, PointsToSlots, NothingNeedless, ReportedSolved

LEMMA BeforeAnalysis ==
  ASSUME LineInv, AnalysisInv,
         \/ ReadArgument \/ EndArguments \/ AddSourceFile
         \/ Visit \/ EndVisit \/ VerifySVFIR \/ DumpSVFIR
  PROVE  AnalysisInv'
<1>1. /\ stage \in {"arguments", "files", "built", "verified"} /\ solution' = solution
      /\ written' = written \/ written' = written \cup ({"--dump-svfir"} \cap options)
  BY DEF ReadArgument, EndArguments, AddSourceFile, Visit, EndVisit, VerifySVFIR, DumpSVFIR
<1>2. solution' = {} /\ "--dump-pts" \notin written'
  BY <1>1 DEF LineInv, StageInv
<1>3. PtsNeedsAnalysis'
  <2>1. CASE ReadArgument
    BY <2>1 DEF ReadArgument, PtsNeedsAnalysis, AnalysisInv, IsOption, Options
  <2>2. CASE ~ReadArgument
    <3>1. options' = options
      BY <2>2 DEF EndArguments, AddSourceFile, Visit, EndVisit, VerifySVFIR, DumpSVFIR
    <3>2. QED
      BY <3>1 DEF PtsNeedsAnalysis, AnalysisInv
  <2>3. QED
    BY <2>1, <2>2
<1>4. QED
  BY <1>2, <1>3, NothingFoundYet

LEMMA SolveAnalyses ==
  ASSUME TypeOK, FieldsUnlessEmpty, LineInv, AnalysisInv, Solve
  PROVE  AnalysisInv'
<1>1. /\ solution' = Round(pag, solution) /\ pag' = pag
      /\ stage = "solving" /\ UNCHANGED <<options, written>>
  BY DEF Solve, vars, graphs
<1>2. (EmptyStructs \/ ObjectsSized(pag)) /\ \A s \in pag.stmt : IsStmt(pag, s) /\ s.op \in StmtOps
  BY SizedPag
<1>3. EmptyStructs \/ PointsToSlots'
  BY <1>1, <1>2, RoundStays DEF PointsToSlots, AnalysisInv
<1>4. NothingNeedless'
  <2> SUFFICES ASSUME NEW facts, IsSolved(pag, facts)
               PROVE  Round(pag, solution) \subseteq facts
    BY <1>1 DEF NothingNeedless
  <2>1. solution \subseteq facts
    BY DEF NothingNeedless, AnalysisInv
  <2>2. Round(pag, solution) \subseteq Round(pag, facts)
    BY <1>2, <2>1, RoundMonotone
  <2>3. QED
    BY <2>2 DEF IsSolved
<1>5. "--dump-pts" \notin written'
  BY <1>1 DEF LineInv, StageInv
<1>6. QED
  BY <1>1, <1>3, <1>4, <1>5 DEF AnalysisInv, ReportedSolved, PtsNeedsAnalysis

LEMMA ReportAnalyses ==
  ASSUME LineInv, AnalysisInv, DumpPts
  PROVE  AnalysisInv'
<1>1. /\ UNCHANGED <<options, solution, pag>> /\ stage = "solving"
      /\ written' = written \cup ({"--dump-pts"} \cap options)
      /\ "--ander" \in options => IsSolved(pag, solution)
  BY DEF DumpPts, vars, graphs
<1>2. "--dump-pts" \in written' => "--dump-pts" \in options
  BY <1>1 DEF LineInv, StageInv
<1>3. (EmptyStructs \/ PointsToSlots') /\ NothingNeedless' /\ PtsNeedsAnalysis'
  BY <1>1 DEF AnalysisInv, PointsToSlots, NothingNeedless, PtsNeedsAnalysis
<1>4. ReportedSolved'
  BY <1>1, <1>2 DEF AnalysisInv, ReportedSolved, PtsNeedsAnalysis
<1>5. QED
  BY <1>3, <1>4 DEF AnalysisInv

LEMMA LineStepAnalyses ==
  ASSUME TypeOK, FieldsUnlessEmpty, LineInv, AnalysisInv, [LineNext]_<<vars, frontend>>
  PROVE  AnalysisInv'
<1>1. CASE LineNext
  BY <1>1, BeforeAnalysis, SolveAnalyses, ReportAnalyses DEF LineNext
<1>2. CASE UNCHANGED <<vars, frontend>>
  <2>1. UNCHANGED <<options, solution, written, pag>>
    BY <1>2 DEF vars, graphs, frontend
  <2>2. QED
    BY <2>1 DEF AnalysisInv, PointsToSlots, NothingNeedless, ReportedSolved, PtsNeedsAnalysis
<1>3. QED
  BY <1>1, <1>2

LEMMA FieldsHold == Spec => []FieldsUnlessEmpty
<1>1. CASE EmptyStructs
  <2>1. FieldsUnlessEmpty
    BY <1>1 DEF FieldsUnlessEmpty
  <2>2. QED
    BY <2>1, PTL
<1>2. CASE ~EmptyStructs
  <2>1. Spec => []EveryObjectHasField
    BY <1>2, ObjectsHaveFields DEF EmptyStructs
  <2>2. EveryObjectHasField => FieldsUnlessEmpty
    BY DEF FieldsUnlessEmpty
  <2>3. QED
    BY <2>1, <2>2, PTL
<1>3. QED
  BY <1>1, <1>2

LEMMA AnalysisHolds == LineSpec => []AnalysisInv
<1>1. LineInit => AnalysisInv
  BY DEF LineInit, AnalysisInv, PointsToSlots, NothingNeedless, ReportedSolved, PtsNeedsAnalysis
<1>2. TypeOK /\ FieldsUnlessEmpty /\ LineInv /\ AnalysisInv /\ [LineNext]_<<vars, frontend>>
        => AnalysisInv'
  BY LineStepAnalyses
<1>3. QED
  BY <1>1, <1>2, LineInvHolds, CommandVisits, TypeCorrect, FieldsHold, PTL DEF LineSpec

\* What the analysis finds is about nodes that the PAG has: a variable or a field of an
\* object holds the address of a field of an object, whatever the statements, in a
\* program without struct S {}.  The solver takes offsets modulo the number of fields, and
\* an object of struct S {} has none (visitTopLevelDecl, freshObjVar).
THEOREM PointsIntoObjects ==
  ASSUME ~Uses("empty struct")
  PROVE  LineSpec => []PointsToSlots
<1>1. AnalysisInv => PointsToSlots
  BY DEF AnalysisInv, EmptyStructs
<1>2. QED
  BY <1>1, AnalysisHolds, PTL

\* What --dump-pts writes is the least solution of the constraints of the PAG, in whatever
\* order the statements and the options came: --dump-pts alone asks for the analysis too.
THEOREM ReportIsLeastSolution == LineSpec => [](NothingNeedless /\ ReportedSolved)
<1>1. AnalysisInv => NothingNeedless /\ ReportedSolved
  BY DEF AnalysisInv
<1>2. QED
  BY <1>1, AnalysisHolds, PTL

-----------------------------------------------------------------------------
(* Counting the tokens of a program *)

TextSized == Len(program) \in Nat

LEMMA RankType ==
  ASSUME TextSized, NEW kind, NEW p \in Int
  PROVE  IsFiniteSet({q \in Positions(kind) : q <= p}) /\ Rank(kind, p) \in Nat
<1>1. IsFiniteSet(1..Len(program))
  BY FS_Interval DEF TextSized
<1>2. {q \in Positions(kind) : q <= p} \in SUBSET (1..Len(program))
  BY DEF Positions
<1>3. QED
  BY <1>1, <1>2, FS_Subset, FS_CardinalityType DEF Rank

LEMMA RankNat ==
  ASSUME TextSized, NEW kind, NEW p \in Int
  PROVE  Rank(kind, p) \in Nat
BY RankType

LEMMA RankZero ==
  ASSUME TextSized, NEW kind
  PROVE  Rank(kind, 0) = 0
<1>1. {q \in Positions(kind) : q <= 0} = {}
  BY DEF Positions, TextSized
<1>2. QED
  BY <1>1, FS_EmptySet DEF Rank

\* Where no token of the kind lies between them, two positions have one rank.
LEMMA RankBetween ==
  ASSUME TextSized, NEW kind, NEW p \in Int, NEW q \in Int, p <= q,
         \A r \in p + 1..q : r \notin Positions(kind)
  PROVE  Rank(kind, q) = Rank(kind, p)
<1>1. {r \in Positions(kind) : r <= q} = {r \in Positions(kind) : r <= p}
  BY DEF Positions, TextSized
<1>2. QED
  BY <1>1 DEF Rank

LEMMA RankNext ==
  ASSUME TextSized, NEW kind, NEW p \in Int
  PROVE  Rank(kind, p + 1) = Rank(kind, p) + (IF p + 1 \in Positions(kind) THEN 1 ELSE 0)
<1> DEFINE A == {q \in Positions(kind) : q <= p}
<1>1. CASE p + 1 \in Positions(kind)
  <2>1. {q \in Positions(kind) : q <= p + 1} = A \cup {p + 1} /\ p + 1 \notin A
    BY <1>1 DEF Positions, TextSized
  <2>2. IsFiniteSet(A)
    BY RankType
  <2> HIDE DEF A
  <2>3. Cardinality(A \cup {p + 1}) = Cardinality(A) + 1
    BY <2>1, <2>2, FS_AddElement
  <2>4. QED
    BY <1>1, <2>1, <2>3 DEF Rank, A
<1>2. CASE p + 1 \notin Positions(kind)
  <2>1. Rank(kind, p + 1) = Rank(kind, p)
    BY <1>2, RankBetween
  <2>2. QED
    BY <1>2, <2>1, RankNat
<1>3. QED
  BY <1>1, <1>2

LEMMA RankMonotone ==
  ASSUME TextSized, NEW kind, NEW p \in Int, NEW q \in Int, p <= q
  PROVE  Rank(kind, p) <= Rank(kind, q)
<1>1. {r \in Positions(kind) : r <= p} \in SUBSET {r \in Positions(kind) : r <= q}
  BY DEF Positions
<1>2. IsFiniteSet({r \in Positions(kind) : r <= q})
  BY RankType
<1>3. QED
  BY <1>1, <1>2, FS_Subset DEF Rank

\* Tokens of a kind have ranks of their own, in their order.
LEMMA RankStrict ==
  ASSUME TextSized, NEW kind, NEW p \in Int, NEW q \in Positions(kind), p < q
  PROVE  Rank(kind, p) < Rank(kind, q)
<1>1. q \in Int /\ q - 1 \in Int /\ p <= q - 1 /\ (q - 1) + 1 = q
  BY DEF Positions, TextSized
<1>2. Rank(kind, q) = Rank(kind, q - 1) + 1
  BY <1>1, RankNext
<1>3. Rank(kind, p) <= Rank(kind, q - 1)
  BY <1>1, RankMonotone
<1>4. QED
  BY <1>1, <1>2, <1>3, RankNat

LEMMA RankUnique ==
  ASSUME TextSized, NEW kind, NEW p \in Positions(kind), NEW q \in Positions(kind),
         Rank(kind, p) = Rank(kind, q)
  PROVE  p = q
<1>1. p \in Int /\ q \in Int
  BY DEF Positions, TextSized
<1>2. QED
  BY <1>1, RankStrict, RankNat

LEMMA RankKept ==
  ASSUME UNCHANGED program
  PROVE  \A kind, p : Rank(kind, p)' = Rank(kind, p) /\ Positions(kind)' = Positions(kind)
BY DEF Rank, Positions

-----------------------------------------------------------------------------
(* The functions that are pending *)

StaticFunctions == Uses("static function")

LEMMA StepPending ==
  ASSUME [Next]_vars, LifecycleInv
  PROVE  \/ UNCHANGED <<pending, funcInfos>>
         \/ VisitFunctionDef
         \/ \E f \in Funs, sig \in Signatures : PrescanFunctionDef(f, sig)
<1>1. CASE ExprStep
  BY <1>1, ExprStepIdle DEF SameFunctions
<1>2. CASE UnitStep
  BY <1>2 DEF UnitStep, StartUnit, EndPrescan, EndUnit, VisitStructSpecifier,
     VisitTypeDefinition, VisitGlobalDecl, VisitPrototype, file
<1>3. CASE BodyStep
  BY <1>3 DEF BodyStep, BindFormal, EnterBody, LeaveFunctionDef, EnterBlock, ExitBlock, VisitFor,
     VisitForClause, EndFor, VisitLocalDecl, SkipFunctionPointer, EndInitializer, VisitExprStmt,
     VisitReturn, file
<1>4. CASE UNCHANGED vars
  BY <1>4 DEF vars, file
<1>5. QED
  BY <1>1, <1>2, <1>3, <1>4 DEF Next

LEMMA PendingSequence ==
  ASSUME TypeOK
  PROVE  /\ Len(pending) \in Nat /\ DOMAIN pending = 1..Len(pending)
         /\ \A i \in DOMAIN pending : pending[i] \in DOMAIN funcInfos
BY LenProperties DEF TypeOK, FileOK

\* The main pass takes the first pending function.
LEMMA EnterPending ==
  ASSUME TypeOK, LifecycleInv, PendingFresh, VisitFunctionDef
  PROVE  /\ pending # <<>> /\ Len(pending) >= 1 /\ ~AlreadyDefined(Head(pending))
         /\ Head(pending) = pending[1] /\ Len(pending') = Len(pending) - 1
         /\ \A i \in 1..Len(pending') : pending'[i] = pending[i + 1]
         /\ currentFunc = None /\ currentFunc' = Head(pending) /\ currentFunc' # None
         /\ UNCHANGED callGraph /\ DOMAIN funcInfos' = DOMAIN funcInfos
         /\ \A g \in DOMAIN funcInfos : g # pending[1] => funcInfos'[g] = funcInfos[g]
<1>1. pending # <<>> /\ pending' = Tail(pending) /\ UNCHANGED callGraph
  BY DEF VisitFunctionDef, MarkVisited
<1>2. pending \in Seq(DOMAIN funcInfos)
  BY DEF TypeOK, FileOK
<1>3. /\ Len(pending) \in Nat /\ Len(pending) >= 1 /\ Head(pending) = pending[1]
      /\ Len(Tail(pending)) = Len(pending) - 1
      /\ \A i \in 1..Len(Tail(pending)) : Tail(pending)[i] = pending[i + 1]
  BY <1>1, <1>2, HeadTailProperties, LenProperties, EmptySeq
<1>4. ~AlreadyDefined(Head(pending))
  BY <1>3, PendingSequence DEF PendingFresh, AlreadyDefined
<1>5. QED
  BY <1>1, <1>3, <1>4, EnteredFunction

LEMMA EnterKeepsFresh ==
  ASSUME TypeOK, LifecycleInv, PendingFresh, VisitFunctionDef
  PROVE  PendingFresh'
<1> SUFFICES ASSUME NEW i \in DOMAIN pending'
             PROVE  /\ ~funcInfos'[pending'[i]].defined
                    /\ \A j \in DOMAIN pending' : pending'[i] = pending'[j] => i = j
  BY DEF PendingFresh
<1>1. DOMAIN pending' = 1..Len(pending')
  <2>1. pending \in Seq(DOMAIN funcInfos) /\ pending # <<>> /\ pending' = Tail(pending)
    BY DEF TypeOK, FileOK, VisitFunctionDef, MarkVisited
  <2>2. QED
    BY <2>1, HeadTailProperties, LenProperties
<1>2. /\ i \in Nat /\ i + 1 \in DOMAIN pending /\ i + 1 # 1 /\ pending'[i] = pending[i + 1]
      /\ \A j \in DOMAIN pending' : j \in Nat /\ j + 1 \in DOMAIN pending /\ pending'[j] = pending[j + 1]
  BY <1>1, EnterPending, PendingSequence
<1>3. 1 \in DOMAIN pending
  BY EnterPending, PendingSequence
<1>4. pending[i + 1] # pending[1]
  BY <1>2, <1>3 DEF PendingFresh
<1>5. funcInfos'[pending[i + 1]] = funcInfos[pending[i + 1]]
  BY <1>2, <1>4, EnterPending, PendingSequence
<1>6. ASSUME NEW j \in DOMAIN pending', pending'[i] = pending'[j]
      PROVE  i = j
  <2>1. i + 1 = j + 1
    BY <1>2, <1>6 DEF PendingFresh
  <2>2. QED
    BY <1>2, <2>1
<1>7. QED
  BY <1>2, <1>5, <1>6 DEF PendingFresh

LEMMA RegisterPending ==
  ASSUME TypeOK, ~StaticFunctions, NEW f, NEW sig, PrescanFunctionDef(f, sig)
  PROVE  /\ f \notin DOMAIN funcInfos /\ DOMAIN funcInfos' = DOMAIN funcInfos \cup {f}
         /\ ~funcInfos'[f].defined
         /\ \A g \in DOMAIN funcInfos : funcInfos'[g] = funcInfos[g]
         /\ Len(pending') = Len(pending) + 1 /\ DOMAIN pending' = 1..Len(pending) + 1
         /\ \A i \in DOMAIN pending' : pending'[i] = IF i = Len(pending) + 1 THEN f ELSE pending[i]
         /\ UNCHANGED <<currentFunc, callGraph>>
<1>1. /\ f \notin DOMAIN funcInfos /\ Register(f, sig) /\ pending' = Append(pending, f)
      /\ UNCHANGED <<currentFunc, callGraph>>
  <2>1. f \notin DOMAIN funcInfos /\ Register(f, sig)
    BY Zenon DEF PrescanFunctionDef, StaticFunctions
  <2>2. pending' = Append(pending, f) /\ current' = current /\ callGraph' = callGraph
    BY Zenon DEF PrescanFunctionDef
  <2>3. QED
    BY <2>1, <2>2 DEF current
<1>2. \E info : funcInfos' = Bind(funcInfos, f, info)
  BY <1>1 DEF Register
<1>3. ~funcInfos'[f].defined
  BY <1>1 DEF Register, Bind
<1>4. pending \in Seq(DOMAIN funcInfos \cup {f})
  BY DEF TypeOK, FileOK
<1>5. QED
  BY <1>1, <1>2, <1>3, <1>4, AppendProperties, LenProperties DEF Bind

LEMMA RegisterKeepsFresh ==
  ASSUME TypeOK, PendingFresh, ~StaticFunctions, NEW f, NEW sig,
         PrescanFunctionDef(f, sig)
  PROVE  PendingFresh'
<1> DEFINE n == Len(pending)
<1>1. n \in Nat /\ DOMAIN pending = 1..n /\ \A i \in 1..n : pending[i] \in DOMAIN funcInfos /\ pending[i] # f
  BY PendingSequence, RegisterPending
<1> HIDE DEF n
<1>2. /\ DOMAIN pending' = 1..(n + 1)
      /\ \A i \in 1..(n + 1) : pending'[i] = IF i = n + 1 THEN f ELSE pending[i]
  BY RegisterPending DEF n
<1>3. pending'[n + 1] = f /\ \A i \in 1..n : pending'[i] = pending[i]
  BY <1>1, <1>2
<1>4. \A i \in 1..n : ~funcInfos'[pending'[i]].defined
  BY <1>1, <1>3, RegisterPending DEF PendingFresh
<1>5. \A i, j \in 1..n : pending'[i] = pending'[j] => i = j
  BY <1>1, <1>3 DEF PendingFresh
<1>6. ~funcInfos'[pending'[n + 1]].defined
  BY <1>3, RegisterPending
<1>7. \A i \in 1..(n + 1) : i \in 1..n \/ i = n + 1
  BY <1>1
<1>8. QED
  BY <1>1, <1>2, <1>4, <1>5, <1>6, <1>7, <1>3 DEF PendingFresh

LEMMA PendingStaysFresh ==
  ASSUME ~StaticFunctions
  PROVE  Spec => []PendingFresh
<1>1. Init => PendingFresh
  BY DEF Init, PendingFresh
<1>2. ASSUME TypeOK, LifecycleInv, PendingFresh, [Next]_vars
      PROVE  PendingFresh'
  <2>1. CASE UNCHANGED <<pending, funcInfos>>
    BY <1>2, <2>1 DEF PendingFresh
  <2>2. QED
    BY <1>2, <2>1, StepPending, EnterKeepsFresh, RegisterKeepsFresh
<1>3. QED
  BY <1>1, <1>2, LifecycleHolds, PTL DEF Spec

-----------------------------------------------------------------------------
(* The visitor keeps step with the program *)

LEMMA TextHasSize ==
  ASSUME TextInv
  PROVE  /\ TextSized /\ pos \in 0..Len(program)
         /\ \A kind : \A p \in Positions(kind) : p \in 1..Len(program) /\ program[p][1] = kind
BY SequenceFacts DEF TextInv, ProgramOK, PositionOK, TextSized, Positions

\* The token that is visited next adds one to the count of its kind.
LEMMA VisitCounts ==
  ASSUME TextInv, Visit, NEW kind
  PROVE  /\ pos + 1 \in 1..Len(program) /\ pos \in Nat /\ pos' = pos + 1
         /\ \A p : Rank(kind, p)' = Rank(kind, p)
         /\ Positions(kind)' = Positions(kind) /\ UNCHANGED program
         /\ pos + 1 \in Positions(kind) <=> program[pos + 1][1] = kind
         /\ Rank(kind, pos) \in Nat
         /\ Rank(kind, pos + 1) = Rank(kind, pos) + (IF program[pos + 1][1] = kind THEN 1 ELSE 0)
<1>1. pos + 1 \in 1..Len(program) /\ pos \in Nat /\ pos' = pos + 1 /\ UNCHANGED program
  BY NextToken, TextHasSize DEF TextSized
<1>2. pos + 1 \in Positions(kind) <=> program[pos + 1][1] = kind
  BY <1>1 DEF Positions
<1>3. (\A p : Rank(kind, p)' = Rank(kind, p)) /\ Positions(kind)' = Positions(kind)
  BY <1>1, RankKept
<1>4. Rank(kind, pos) \in Nat
  BY <1>1, TextHasSize, RankNat
<1>5. Rank(kind, pos + 1) = Rank(kind, pos) + (IF pos + 1 \in Positions(kind) THEN 1 ELSE 0)
  BY <1>1, TextHasSize, RankNext
<1>6. QED
  BY <1>1, <1>2, <1>3, <1>4, <1>5

LEMMA VisitCounted ==
  ASSUME TextInv, Visit, NEW kind, Counted(kind)
  PROVE  Counted(kind)'
<1> SUFFICES ASSUME NEW n \in 1..Rank(kind, pos + 1)
             PROVE  \E p \in Positions(kind) : p <= pos + 1 /\ Rank(kind, p) = n
  BY VisitCounts DEF Counted
<1>1. CASE n <= Rank(kind, pos)
  <2>1. PICK p \in Positions(kind) : p <= pos /\ Rank(kind, p) = n
    BY <1>1, VisitCounts DEF Counted
  <2>2. p \in Int /\ pos \in Int
    BY <2>1, TextHasSize, VisitCounts DEF TextSized
  <2>3. QED
    BY <2>1, <2>2
<1>2. CASE ~(n <= Rank(kind, pos))
  <2>1. pos + 1 \in Positions(kind) /\ n = Rank(kind, pos + 1)
    BY <1>2, VisitCounts
  <2>2. QED
    BY <2>1, VisitCounts
<1>3. QED
  BY <1>1, <1>2

\* What the other tokens leave alone.
LEMMA TokenKeeps ==
  ASSUME LifecycleInv, NEW t, Written(t), Step(t)
  PROVE  /\ t[1] \notin {"fun", "enter"} => UNCHANGED <<pending, funcInfos>>
         /\ t[1] \notin {"enter", "leave"} => UNCHANGED currentFunc
<1>1. CASE t[1] \in ExprTokens
  BY <1>1, ExprTokenStep, ExprStepIdle DEF SameFunctions
<1>2. CASE t[1] \in UnitTokens
  <2>1. CASE t[1] = "fun"
    BY <2>1 DEF Step, PrescanFunctionDef, current
  <2>2. CASE t[1] # "fun"
    BY <1>2, <2>2 DEF UnitTokens, Step, StartUnit, EndPrescan, EndUnit, VisitStructSpecifier,
       VisitTypeDefinition, VisitGlobalDecl, file, current
  <2>3. QED
    BY <2>1, <2>2
<1>3. CASE t[1] \in BodyTokens
  <2>1. CASE t[1] = "enter"
    BY <2>1
  <2>2. CASE t[1] = "leave"
    BY <2>2 DEF Step, LeaveFunctionDef, file
  <2>3. CASE t[1] \notin {"enter", "leave"}
    BY <1>3, <2>3 DEF BodyTokens, Step, BindFormal, EnterBody, EnterBlock, ExitBlock, VisitFor,
       VisitForClause, EndFor, VisitLocalDecl, SkipFunctionPointer, EndInitializer, VisitExprStmt,
       VisitReturn, file, current
  <2>4. QED
    BY <2>1, <2>2, <2>3
<1>4. CASE t[1] \in {"branch", "jump", "lost"}
  BY <1>4 DEF Step, vars, file, current
<1>5. QED
  BY <1>1, <1>2, <1>3, <1>4 DEF Written

\* What the tokens do to the functions that are pending and to the current one.
LEMMA TokenMoves ==
  ASSUME TypeOK, LifecycleInv, PendingFresh, ~StaticFunctions, TextInv, Visit
  PROVE  LET t == program[pos + 1]
         IN  /\ t[1] = "fun" =>
                  /\ DOMAIN funcInfos' = DOMAIN funcInfos \cup {t[2]}
                  /\ Len(pending') = Len(pending) + 1
                  /\ \A i \in 1..Len(pending') :
                       pending'[i] = IF i = Len(pending) + 1 THEN t[2] ELSE pending[i]
                  /\ UNCHANGED <<currentFunc, callGraph>>
             /\ t[1] = "enter" =>
                  /\ Len(pending) >= 1 /\ Len(pending') = Len(pending) - 1
                  /\ \A i \in 1..Len(pending') : pending'[i] = pending[i + 1]
                  /\ currentFunc = None /\ currentFunc' = pending[1] /\ currentFunc' # None
                  /\ UNCHANGED callGraph /\ DOMAIN funcInfos' = DOMAIN funcInfos
             /\ t[1] = "leave" => currentFunc # None /\ currentFunc' = None
             /\ t[1] \notin {"enter", "leave"} => UNCHANGED currentFunc
             /\ t[1] \notin {"fun", "enter"} => UNCHANGED <<pending, funcInfos>>
<1> DEFINE t == program[pos + 1]
<1>1. Written(t) /\ Step(t)
  BY NextToken
<1> HIDE DEF t
<1>2. CASE t[1] = "fun"
  <2>1. PrescanFunctionDef(t[2], t[3])
    BY <1>1, <1>2 DEF Step
  <2>2. /\ DOMAIN funcInfos' = DOMAIN funcInfos \cup {t[2]}
        /\ Len(pending') = Len(pending) + 1 /\ DOMAIN pending' = 1..Len(pending) + 1
        /\ \A i \in DOMAIN pending' : pending'[i] = IF i = Len(pending) + 1 THEN t[2] ELSE pending[i]
        /\ UNCHANGED <<currentFunc, callGraph>>
    BY <2>1, RegisterPending
  <2>3. QED
    BY <1>2, <2>2 DEF t
<1>3. CASE t[1] = "enter"
  <2>1. VisitFunctionDef
    BY <1>1, <1>3 DEF Step
  <2>2. QED
    BY <1>3, <2>1, EnterPending DEF t
<1>4. CASE t[1] = "leave"
  <2>1. LeaveFunctionDef
    BY <1>1, <1>4 DEF Step
  <2>2. currentFunc # None /\ currentFunc' = None
    BY <2>1 DEF LeaveFunctionDef, LifecycleInv, CurrentIsVisited
  <2>3. QED
    BY <1>1, <1>4, <2>2, TokenKeeps DEF t
<1>5. CASE t[1] \notin {"fun", "enter", "leave"}
  BY <1>1, <1>5, TokenKeeps DEF t
<1>6. QED
  BY <1>2, <1>3, <1>4, <1>5

LEMMA PendingCounted ==
  ASSUME TypeOK, TextInv, BodiesInOrder
  PROVE  /\ Len(pending) \in Nat /\ pos \in Nat
         /\ Rank("fun", pos) \in Nat /\ Rank("enter", pos) \in Nat /\ Rank("leave", pos) \in Nat
         /\ Rank("fun", pos) = Rank("enter", pos) + Len(pending)
         /\ Rank("enter", pos) = Rank("leave", pos) + (IF currentFunc = None THEN 0 ELSE 1)
<1>1. Len(pending) \in Nat /\ pos \in Nat
  BY PendingSequence, TextHasSize DEF TextSized
<1>2. Rank("fun", pos) \in Nat /\ Rank("enter", pos) \in Nat /\ Rank("leave", pos) \in Nat
  BY <1>1, TextHasSize, RankNat
<1>3. QED
  BY <1>1, <1>2 DEF BodiesInOrder

LEMMA VisitNested ==
  ASSUME TypeOK, LifecycleInv, PendingFresh, ~StaticFunctions, TextInv, Visit, BodiesNested, BodiesInOrder
  PROVE  BodiesNested'
<1> SUFFICES ASSUME NEW p \in 0..(pos + 1)
             PROVE  /\ Rank("enter", p) - Rank("leave", p) \in {0, 1}
                    /\ Rank("enter", p) <= Rank("fun", p)
  <2>1. pos' = pos + 1
    BY VisitCounts
  <2>2. \A p : /\ Rank("enter", p)' = Rank("enter", p) /\ Rank("leave", p)' = Rank("leave", p)
               /\ Rank("fun", p)' = Rank("fun", p)
    BY VisitCounts
  <2>3. QED
    BY <2>1, <2>2 DEF BodiesNested
<1>1. CASE p <= pos
  BY <1>1, VisitCounts DEF BodiesNested
<1>2. CASE p = pos + 1
  <2> DEFINE t == program[pos + 1]
  <2>1. /\ Rank("enter", p) = Rank("enter", pos) + (IF t[1] = "enter" THEN 1 ELSE 0)
        /\ Rank("leave", p) = Rank("leave", pos) + (IF t[1] = "leave" THEN 1 ELSE 0)
        /\ Rank("fun", p) = Rank("fun", pos) + (IF t[1] = "fun" THEN 1 ELSE 0)
    BY <1>2, VisitCounts
  <2>2. /\ t[1] = "enter" => currentFunc = None /\ Len(pending) >= 1
        /\ t[1] = "leave" => currentFunc # None
    BY TokenMoves
  <2> HIDE DEF t
  <2>3. QED
    BY <2>1, <2>2, PendingCounted
<1>3. QED
  BY <1>1, <1>2, VisitCounts

LEMMA VisitInOrder ==
  ASSUME TypeOK, LifecycleInv, PendingFresh, ~StaticFunctions, TextInv, Visit, BodiesInOrder
  PROVE  BodiesInOrder'
<1> DEFINE t == program[pos + 1]
           F == Rank("fun", pos)
           E == Rank("enter", pos)
           L == Rank("leave", pos)
           n == Len(pending)
           F1 == Rank("fun", pos + 1)
           E1 == Rank("enter", pos + 1)
           L1 == Rank("leave", pos + 1)
<1>1. /\ F1 = F + (IF t[1] = "fun" THEN 1 ELSE 0)
      /\ E1 = E + (IF t[1] = "enter" THEN 1 ELSE 0)
      /\ L1 = L + (IF t[1] = "leave" THEN 1 ELSE 0)
  BY VisitCounts
<1>2. /\ n \in Nat /\ F \in Nat /\ E \in Nat /\ L \in Nat /\ F = E + n /\ pos \in Nat
      /\ E = L + (IF currentFunc = None THEN 0 ELSE 1)
  BY PendingCounted
<1>3. \A q \in Positions("fun") : q <= pos =>
        /\ program[q][2] \in DOMAIN funcInfos
        /\ Rank("fun", q) > E => pending[Rank("fun", q) - E] = program[q][2]
        /\ Rank("fun", q) = E /\ currentFunc # None => currentFunc = program[q][2]
        /\ Rank("fun", q) \in Nat /\ Rank("fun", q) <= F
  <2>1. ASSUME NEW q \in Positions("fun"), q <= pos
        PROVE  Rank("fun", q) \in Nat /\ Rank("fun", q) <= F
    <3>1. q \in Int /\ pos \in Int
      BY <1>2, TextHasSize DEF TextSized
    <3>2. QED
      BY <2>1, <3>1, TextHasSize, RankNat, RankMonotone
  <2>2. QED
    BY <2>1 DEF BodiesInOrder
<1>4. \A q \in Positions("fun") : q <= pos + 1 => q <= pos \/ (q = pos + 1 /\ t[1] = "fun")
  BY <1>2, TextHasSize DEF TextSized
<1>5. SUFFICES
        /\ E1 = L1 + (IF currentFunc' = None THEN 0 ELSE 1)
        /\ Len(pending') = F1 - E1
        /\ \A q \in Positions("fun") : q <= pos + 1 =>
             /\ program[q][2] \in DOMAIN funcInfos'
             /\ Rank("fun", q) > E1 => pending'[Rank("fun", q) - E1] = program[q][2]
             /\ Rank("fun", q) = E1 /\ currentFunc' # None => currentFunc' = program[q][2]
  BY VisitCounts DEF BodiesInOrder
<1> HIDE DEF t, F, E, L, n, F1, E1, L1
<1>6. CASE t[1] = "fun"
  <2>1. /\ DOMAIN funcInfos' = DOMAIN funcInfos \cup {t[2]} /\ Len(pending') = n + 1
        /\ \A i \in 1..n + 1 : pending'[i] = IF i = n + 1 THEN t[2] ELSE pending[i]
        /\ UNCHANGED currentFunc
    BY <1>6, TokenMoves DEF t, n
  <2>2. F1 = F + 1 /\ E1 = E /\ L1 = L
    BY <1>1, <1>2, <1>6
  <2>3. ASSUME NEW q \in Positions("fun"), q <= pos + 1
        PROVE  /\ program[q][2] \in DOMAIN funcInfos'
               /\ Rank("fun", q) > E1 => pending'[Rank("fun", q) - E1] = program[q][2]
               /\ Rank("fun", q) = E1 /\ currentFunc' # None => currentFunc' = program[q][2]
    <3>1. CASE q <= pos
      BY <1>2, <1>3, <2>1, <2>2, <3>1
    <3>2. CASE q = pos + 1
      <4>1. Rank("fun", q) = F + 1 /\ program[q][2] = t[2]
        BY <2>2, <3>2 DEF F1, t
      <4>2. Rank("fun", q) - E1 = n + 1 /\ Rank("fun", q) # E1
        BY <1>2, <2>2, <4>1
      <4>3. n + 1 \in 1..n + 1
        BY <1>2
      <4>4. QED
        BY <2>1, <4>1, <4>2, <4>3
    <3>3. QED
      BY <1>4, <2>3, <3>1, <3>2
  <2>4. QED
    BY <1>2, <2>1, <2>2, <2>3
<1>7. CASE t[1] = "enter"
  <2>1. /\ n >= 1 /\ Len(pending') = n - 1 /\ \A i \in 1..n - 1 : pending'[i] = pending[i + 1]
        /\ currentFunc = None /\ currentFunc' = pending[1] /\ currentFunc' # None
        /\ DOMAIN funcInfos' = DOMAIN funcInfos
    BY <1>7, TokenMoves DEF t, n
  <2>2. F1 = F /\ E1 = E + 1 /\ L1 = L
    BY <1>1, <1>2, <1>7
  <2>3. ASSUME NEW q \in Positions("fun"), q <= pos
        PROVE  /\ program[q][2] \in DOMAIN funcInfos'
               /\ Rank("fun", q) > E1 => pending'[Rank("fun", q) - E1] = program[q][2]
               /\ Rank("fun", q) = E1 /\ currentFunc' # None => currentFunc' = program[q][2]
    <3> DEFINE r == Rank("fun", q)
    <3>1. /\ program[q][2] \in DOMAIN funcInfos /\ r \in Nat /\ r <= F
          /\ r > E => pending[r - E] = program[q][2]
      BY <1>3, <2>3
    <3> HIDE DEF r
    <3>2. CASE r > E1
      <4>1. r - E1 \in 1..n - 1 /\ (r - E1) + 1 = r - E /\ r > E
        BY <1>2, <2>2, <3>1, <3>2
      <4>2. pending'[r - E1] = pending[(r - E1) + 1]
        BY <2>1, <4>1
      <4>3. QED
        BY <1>2, <2>1, <2>2, <3>1, <3>2, <4>1, <4>2 DEF r
    <3>3. CASE r = E1
      <4>1. r - E = 1 /\ r > E
        BY <1>2, <2>2, <3>3
      <4>2. QED
        BY <1>2, <2>1, <2>2, <3>1, <3>3, <4>1 DEF r
    <3>4. CASE r < E1
      BY <1>2, <2>1, <2>2, <3>1, <3>4 DEF r
    <3>5. QED
      BY <1>2, <2>2, <3>1, <3>2, <3>3, <3>4
  <2>4. \A q \in Positions("fun") : q <= pos + 1 => q <= pos
    BY <1>4, <1>7
  <2>5. QED
    BY <1>2, <2>1, <2>2, <2>3, <2>4
<1>8. CASE t[1] \notin {"fun", "enter"}
  <2>1. /\ UNCHANGED <<pending, funcInfos>>
        /\ t[1] = "leave" => currentFunc # None /\ currentFunc' = None
        /\ t[1] # "leave" => UNCHANGED currentFunc
    BY <1>8, TokenMoves DEF t
  <2>2. F1 = F /\ E1 = E /\ L1 = L + (IF t[1] = "leave" THEN 1 ELSE 0)
    BY <1>1, <1>2, <1>8
  <2>3. E1 = L1 + (IF currentFunc' = None THEN 0 ELSE 1)
    BY <1>2, <2>1, <2>2
  <2>4. \A q \in Positions("fun") : q <= pos + 1 => q <= pos
    BY <1>4, <1>8
  <2>5. currentFunc' # None => currentFunc' = currentFunc
    BY <2>1
  <2>6. Len(pending') = F1 - E1
    BY <1>2, <2>1, <2>2 DEF n
  <2>7. QED
    BY <1>3, <2>1, <2>2, <2>3, <2>4, <2>5, <2>6
<1>9. QED
  BY <1>6, <1>7, <1>8

\* A call of a function that the prescans have met by now is recorded.
LEMMA VisitCallRecorded ==
  ASSUME TypeOK, LifecycleInv, TextInv, Visit, program[pos + 1][1] = "call"
  PROVE  /\ currentFunc # None
         /\ program[pos + 1][2] \in DOMAIN funcInfos =>
              \E e \in callGraph' : e.caller = currentFunc /\ e.callee = program[pos + 1][2]
<1> DEFINE t == program[pos + 1]
<1>1. VisitCall(t[2], t[3]) \/ VisitUnknownCall(t[2], t[3])
  BY NextToken DEF Step
<1> HIDE DEF t
<1>2. ArgumentsVisited(t[3])
  BY <1>1 DEF VisitCall, VisitUnknownCall
<1>3. currentFunc # None
  BY <1>2 DEF ArgumentsVisited, InBody, LifecycleInv, CurrentIsVisited
<1>4. ASSUME t[2] \in DOMAIN funcInfos
      PROVE  \E e \in callGraph' : e.caller = currentFunc /\ e.callee = t[2]
  <2>1. VisitCall(t[2], t[3])
    BY <1>1, <1>4 DEF VisitUnknownCall, Callable
  <2> DEFINE e == [call |-> LastId(icfg) + 1, caller |-> currentFunc, callee |-> t[2]]
  <2>2. e \in callGraph'
    BY <2>1 DEF VisitCall
  <2>3. e.caller = currentFunc /\ e.callee = t[2]
    OBVIOUS
  <2> HIDE DEF e
  <2>4. QED
    BY <2>2, <2>3
<1>5. QED
  BY <1>3, <1>4 DEF t

LEMMA VisitRecords ==
  ASSUME TypeOK, LifecycleInv, TextInv, Visit, BodiesNested, BodiesInOrder, CallsRecorded
  PROVE  CallsRecorded'
<1> DEFINE t == program[pos + 1]
           Ahead(p) == \E q \in Positions("fun") : q < p /\ program[q][2] = program[p][2]
           Of(q, p) == Rank("fun", q) = Rank("enter", p)
<1>1. callGraph \subseteq callGraph'
  BY LineStepVisits, StepCallGraph DEF LineNext
<1>2. /\ Rank("enter", pos) \in Nat /\ Rank("fun", pos) \in Nat /\ pos \in Nat
      /\ \A p \in 1..Len(program) : Rank("enter", p) \in Nat /\ Rank("fun", p) \in Nat
  BY PendingCounted, TextHasSize, RankNat DEF TextSized
<1>3. /\ \A kind, p : Rank(kind, p)' = Rank(kind, p) /\ Positions(kind)' = Positions(kind)
      /\ pos' = pos + 1 /\ UNCHANGED program
  BY NextToken, RankKept
<1>4. SUFFICES ASSUME NEW p \in Positions("call"), p <= pos + 1
               PROVE  /\ Rank("enter", p) = Rank("leave", p) + 1
                      /\ Ahead(p) => \A q \in Positions("fun") : q <= pos + 1 /\ Of(q, p) =>
                           \E e \in callGraph' : e.caller = program[q][2] /\ e.callee = program[p][2]
  BY <1>3 DEF CallsRecorded
<1>5. p \in 1..Len(program) /\ program[p][1] = "call"
  BY TextHasSize
<1>6. CASE p <= pos
  <2>1. Rank("enter", p) = Rank("leave", p) + 1
    BY <1>6 DEF CallsRecorded
  <2>2. ASSUME Ahead(p), NEW q \in Positions("fun"), q <= pos + 1, Of(q, p)
        PROVE  \E e \in callGraph' : e.caller = program[q][2] /\ e.callee = program[p][2]
    <3>1. Rank("fun", q) <= Rank("fun", pos)
      <4>1. Rank("enter", p) <= Rank("fun", p)
        BY <1>5, <1>6, <1>2 DEF BodiesNested
      <4>2. Rank("fun", p) <= Rank("fun", pos)
        BY <1>2, <1>5, <1>6, TextHasSize, RankMonotone
      <4>3. QED
        BY <1>2, <1>5, <2>2, <4>1, <4>2
    <3>2. q <= pos
      <4>1. q \in 1..Len(program) /\ TextSized
        BY TextHasSize
      <4>2. pos < q => Rank("fun", pos) < Rank("fun", q)
        BY <1>2, <4>1, RankStrict
      <4>3. QED
        BY <1>2, <3>1, <4>1, <4>2 DEF TextSized
    <3>3. \E e \in callGraph : e.caller = program[q][2] /\ e.callee = program[p][2]
      BY <1>6, <2>2, <3>2 DEF CallsRecorded
    <3>4. QED
      BY <1>1, <3>3
  <2>3. QED
    BY <2>1, <2>2
<1>7. CASE p = pos + 1
  <2>1. currentFunc # None
    BY <1>5, <1>7, VisitCallRecorded
  <2>2. Rank("enter", p) = Rank("enter", pos) /\ Rank("leave", p) = Rank("leave", pos)
    BY <1>5, <1>7, VisitCounts
  <2>3. Rank("enter", p) = Rank("leave", p) + 1
    BY <2>1, <2>2, PendingCounted
  <2>4. ASSUME Ahead(p), NEW q \in Positions("fun"), q <= pos + 1, Of(q, p)
        PROVE  \E e \in callGraph' : e.caller = program[q][2] /\ e.callee = program[p][2]
    <3>1. PICK r \in Positions("fun") : r < p /\ program[r][2] = program[p][2]
      BY <2>4
    <3>2. /\ q \in 1..Len(program) /\ program[q][1] = "fun"
          /\ r \in 1..Len(program) /\ TextSized
      BY TextHasSize
    <3>3. q <= pos /\ r <= pos
      <4>1. Len(program) \in Nat /\ q \in Int /\ r \in Int
        BY <3>2 DEF TextSized
      <4>2. q # p
        BY <1>5, <3>2
      <4>3. QED
        BY <1>2, <1>7, <2>4, <3>1, <4>1, <4>2
    <3>4. program[p][2] \in DOMAIN funcInfos
      BY <3>1, <3>3 DEF BodiesInOrder
    <3>5. currentFunc = program[q][2]
      BY <2>1, <2>2, <2>4, <3>3 DEF BodiesInOrder
    <3>6. QED
      BY <1>5, <1>7, <3>4, <3>5, VisitCallRecorded
  <2>5. QED
    BY <2>3, <2>4
<1>8. p <= pos \/ p = pos + 1
  BY <1>2, <1>4, <1>5
<1>9. QED
  BY <1>6, <1>7, <1>8

LEMMA SourceKept ==
  ASSUME UNCHANGED <<program, pos, pending, currentFunc, callGraph, funcInfos>>, SourceInv
  PROVE  SourceInv'
<1>1. \A kind, p : Rank(kind, p)' = Rank(kind, p) /\ Positions(kind)' = Positions(kind)
  BY RankKept
<1>2. Counted("enter")' /\ Counted("leave")'
  BY <1>1 DEF SourceInv, Counted
<1>3. BodiesNested' /\ BodiesInOrder'
  BY <1>1 DEF SourceInv, BodiesNested, BodiesInOrder
<1>4. CallsRecorded'
  BY <1>1 DEF SourceInv, CallsRecorded
<1>5. QED
  BY <1>2, <1>3, <1>4 DEF SourceInv

\* Before the first token there is nothing to be said.
LEMMA SourceAtStart ==
  ASSUME TextInv, pos = 0, Len(pending) = 0, currentFunc = None
  PROVE  SourceInv
<1>1. \A kind : Rank(kind, pos) = 0 /\ Rank(kind, 0) = 0
  BY RankZero, TextHasSize
<1>2. \A kind : \A p \in Positions(kind) : ~(p <= pos)
  BY TextHasSize DEF TextSized
<1>3. Counted("enter") /\ Counted("leave")
  BY <1>1 DEF Counted
<1>4. BodiesNested
  BY <1>1 DEF BodiesNested
<1>5. BodiesInOrder
  BY <1>1, <1>2 DEF BodiesInOrder
<1>6. CallsRecorded
  BY <1>2 DEF CallsRecorded
<1>7. QED
  BY <1>3, <1>4, <1>5, <1>6 DEF SourceInv

\* A file is read before anything is visited.
LEMMA AddSourceFileSource ==
  ASSUME LineInv, TypeOK, TextInv, TextInv', SourceInv, AddSourceFile
  PROVE  SourceInv'
<1>1. pos = 0 /\ pos' = 0 /\ UNCHANGED <<pending, currentFunc>>
  <2>1. parsed < Len(srcs) /\ parsed # Len(srcs)
    BY DEF AddSourceFile, LineInv, StageInv
  <2>2. QED
    BY <2>1 DEF AddSourceFile, vars, file, current, LineInv, AllOrNothing, TextInv, PositionOK
<1>2. Len(pending) = 0 /\ currentFunc = None
  <2>1. Rank("fun", 0) = 0 /\ Rank("enter", 0) = 0 /\ Rank("leave", 0) = 0
    BY RankZero, TextHasSize
  <2>2. QED
    BY <1>1, <2>1, PendingCounted DEF SourceInv
<1>3. \A kind : \A p \in Positions(kind)' : p \in Int /\ ~(p <= 0)
  <2>1. Len(program') \in Nat
    BY SequenceFacts DEF TextInv, ProgramOK
  <2>2. QED
    BY <2>1 DEF Positions
<1>4. \A kind : Rank(kind, 0)' = 0
  <2> SUFFICES ASSUME NEW kind
               PROVE  Rank(kind, 0)' = 0
    OBVIOUS
  <2>1. {q \in Positions(kind)' : q <= 0} = {}
    BY <1>3
  <2>2. QED
    BY <2>1, FS_EmptySet DEF Rank
<1>5. Counted("enter")' /\ Counted("leave")'
  BY <1>1, <1>4 DEF Counted
<1>6. BodiesNested'
  BY <1>1, <1>4 DEF BodiesNested
<1>7. BodiesInOrder'
  BY <1>1, <1>2, <1>3, <1>4 DEF BodiesInOrder
<1>8. CallsRecorded'
  BY <1>1, <1>3 DEF CallsRecorded
<1>9. QED
  BY <1>5, <1>6, <1>7, <1>8 DEF SourceInv

LEMMA SourceStep ==
  ASSUME LineInv, TextInv, TextInv', TypeOK, LifecycleInv, PendingFresh, ~StaticFunctions, SourceInv,
         [LineNext]_<<vars, frontend>>
  PROVE  SourceInv'
<1>1. CASE AddSourceFile
  BY <1>1, AddSourceFileSource
<1>2. CASE Visit
  BY <1>2, VisitCounted, VisitNested, VisitInOrder, VisitRecords DEF SourceInv
<1>3. CASE UNCHANGED <<program, pos, vars>>
  BY <1>3, SourceKept DEF vars, file, current, graphs
<1>4. CASE ReadArgument \/ EndArguments \/ EndVisit \/ VerifySVFIR
  BY <1>3, <1>4 DEF ReadArgument, EndArguments, EndVisit, VerifySVFIR
<1>5. CASE DumpSVFIR \/ Solve \/ DumpPts \/ UNCHANGED <<vars, frontend>>
  BY <1>3, <1>5 DEF DumpSVFIR, Solve, DumpPts, frontend
<1>6. QED
  BY <1>1, <1>2, <1>4, <1>5 DEF LineNext

LEMMA SourceHolds ==
  ASSUME ~StaticFunctions
  PROVE  LineSpec => []SourceInv
<1>1. LineInit => SourceInv
  <2> SUFFICES ASSUME LineInit
               PROVE  SourceInv
    OBVIOUS
  <2>1. pos = 0 /\ pending = <<>> /\ currentFunc = None
    BY DEF LineInit, Init
  <2>2. QED
    BY <2>1, InitText, SourceAtStart, EmptySeq
<1>2. ASSUME LineInv, TextInv, TextInv', TypeOK, LifecycleInv, PendingFresh, SourceInv,
             [LineNext]_<<vars, frontend>>
      PROVE  SourceInv'
  BY <1>2, SourceStep
<1>3. Spec => []PendingFresh
  BY PendingStaysFresh
<1>4. QED
  BY <1>1, <1>2, <1>3, LineInvHolds, TextHolds, CommandVisits, LifecycleHolds, PTL DEF LineSpec

-----------------------------------------------------------------------------
(* The program that has been visited to its end *)

\* Before a file is read there is no program.
NothingRead == parsed = 0 => program = <<>>

LEMMA NothingReadHolds == LineSpec => []NothingRead
<1>1. LineInit => NothingRead
  BY DEF LineInit, NothingRead
<1>2. LineInv /\ NothingRead /\ [LineNext]_<<vars, frontend>> => NothingRead'
  <2> SUFFICES ASSUME LineInv, NothingRead, [LineNext]_<<vars, frontend>>
               PROVE  NothingRead'
    OBVIOUS
  <2>1. CASE AddSourceFile
    BY <2>1 DEF AddSourceFile, NothingRead, LineInv, StageInv
  <2>2. CASE UNCHANGED <<program, parsed>>
    BY <2>2 DEF NothingRead
  <2>3. CASE ReadArgument \/ EndArguments \/ Visit \/ EndVisit \/ VerifySVFIR
    BY <2>2, <2>3 DEF ReadArgument, EndArguments, Visit, EndVisit, VerifySVFIR
  <2>4. CASE DumpSVFIR \/ Solve \/ DumpPts \/ UNCHANGED <<vars, frontend>>
    BY <2>2, <2>4 DEF DumpSVFIR, Solve, DumpPts, frontend
  <2>5. QED
    BY <2>1, <2>3, <2>4 DEF LineNext
<1>3. QED
  BY <1>1, <1>2, LineInvHolds, PTL DEF LineSpec

\* Where every file is structured, so is what is read from them.
TextsStructured == \A text \in Texts(Invocations) : Structured(text)
ProgramStructured == (\A path \in DOMAIN disk : Structured(disk[path])) /\ Structured(program)

\* The token that the machine executes in place of one that the visitor has dropped.
Executed(text, k) == IF text[k][1] = "lost" THEN text[k][2] ELSE text[k]
StructuredAt(text, k) ==
  LET t == Executed(text, k)
  IN  /\ text[k][1] = "lost" => t[1] \notin {"call", "enter"}
      /\ t[1] \in {"branch", "jump"} =>
           /\ t[2] \in Int /\ k + t[2] \in DOMAIN text
           /\ \A l \in k..(k + t[2]) \cup (k + t[2])..k : text[l][1] \notin {"enter", "leave"}

LEMMA StructuredMeans ==
  ASSUME NEW text
  PROVE  Structured(text) <=> \A k \in DOMAIN text : StructuredAt(text, k)
BY Zenon DEF Structured, StructuredAt, Executed

\* A token is as structured in a longer text as in the part of it that is d tokens further on.
LEMMA StructuredMoves ==
  ASSUME NEW s, IsSequence(s), NEW st, IsSequence(st), NEW d \in Nat, Len(s) + d <= Len(st),
         \A i \in DOMAIN s : st[i + d] = s[i],
         NEW k \in DOMAIN s, StructuredAt(s, k)
  PROVE  StructuredAt(st, k + d)
<1> DEFINE t == Executed(s, k)
<1>1. /\ Len(s) \in Nat /\ Len(st) \in Nat /\ DOMAIN s = 1..Len(s) /\ DOMAIN st = 1..Len(st)
  BY SequenceFacts
<1>2. Executed(st, k + d) = t /\ st[k + d] = s[k]
  BY DEF Executed
<1>3. /\ s[k][1] = "lost" => t[1] \notin {"call", "enter"}
      /\ t[1] \in {"branch", "jump"} =>
           /\ t[2] \in Int /\ k + t[2] \in DOMAIN s
           /\ \A l \in k..(k + t[2]) \cup (k + t[2])..k : s[l][1] \notin {"enter", "leave"}
  BY DEF StructuredAt
<1> HIDE DEF t
<1>4. ASSUME t[1] \in {"branch", "jump"}
      PROVE  /\ t[2] \in Int /\ k + d + t[2] \in DOMAIN st
             /\ \A l \in (k + d)..(k + d + t[2]) \cup (k + d + t[2])..(k + d) :
                  st[l][1] \notin {"enter", "leave"}
  <2>1. t[2] \in Int /\ k + t[2] \in DOMAIN s
    BY <1>3, <1>4
  <2> DEFINE n == t[2]
  <2>2. n \in Int /\ k + n \in DOMAIN s
    BY <2>1
  <2> HIDE DEF n
  <2>3. k + d + n \in DOMAIN st
    BY <1>1, <2>2
  <2>4. ASSUME NEW l \in (k + d)..(k + d + n) \cup (k + d + n)..(k + d)
        PROVE  st[l][1] \notin {"enter", "leave"}
    <3>1. l - d \in k..(k + n) \cup (k + n)..k /\ l - d \in DOMAIN s /\ (l - d) + d = l
      BY <1>1, <2>2
    <3>2. st[l] = s[l - d]
      BY <3>1
    <3>3. QED
      BY <1>3, <1>4, <3>1, <3>2 DEF n
  <2>5. QED
    BY <2>2, <2>3, <2>4 DEF n
<1>5. QED
  BY <1>2, <1>3, <1>4 DEF StructuredAt

LEMMA StructuredAppended ==
  ASSUME NEW s, IsSequence(s), NEW t, WellFormed(t), \A k \in DOMAIN s : Written(s[k]),
         Structured(s), Structured(t)
  PROVE  Structured(s \o t)
<1> DEFINE st == s \o t
           S == {s[i] : i \in DOMAIN s} \cup {t[i] : i \in DOMAIN t}
<1>1. s \in Seq(S) /\ t \in Seq(S)
  BY SeqMonotonic DEF IsSequence, WellFormed
<1> HIDE DEF S
<1>2. /\ Len(st) = Len(s) + Len(t)
      /\ \A i \in 1..Len(s) + Len(t) : st[i] = IF i <= Len(s) THEN s[i] ELSE t[i - Len(s)]
  BY <1>1, ConcatProperties
<1>3. IsSequence(st) /\ IsSequence(t)
  BY Appended DEF WellFormed
<1> HIDE DEF st
<1>4. /\ Len(s) \in Nat /\ Len(t) \in Nat /\ DOMAIN s = 1..Len(s) /\ DOMAIN t = 1..Len(t)
      /\ DOMAIN st = 1..Len(st)
  BY <1>3, SequenceFacts
<1>5. /\ \A i \in DOMAIN s : st[i + 0] = s[i]
      /\ \A i \in DOMAIN t : st[i + Len(s)] = t[i]
  BY <1>2, <1>4
<1>6. ASSUME NEW k \in DOMAIN st
      PROVE  StructuredAt(st, k)
  <2>1. CASE k <= Len(s)
    <3>1. k \in DOMAIN s /\ k + 0 = k /\ Len(s) + 0 <= Len(st)
      BY <1>2, <1>4, <2>1
    <3>2. StructuredAt(s, k)
      BY <3>1, StructuredMeans
    <3>3. StructuredAt(st, k + 0)
      BY <1>3, <1>5, <3>1, <3>2, StructuredMoves
    <3>4. QED
      BY <3>1, <3>3
  <2>2. CASE ~(k <= Len(s))
    <3> DEFINE j == k - Len(s)
    <3>1. j \in DOMAIN t /\ j + Len(s) = k /\ Len(t) + Len(s) <= Len(st)
      BY <1>2, <1>4, <2>2
    <3> HIDE DEF j
    <3>2. StructuredAt(t, j)
      BY <3>1, StructuredMeans
    <3>3. StructuredAt(st, j + Len(s))
      BY <1>3, <1>4, <1>5, <3>1, <3>2, StructuredMoves
    <3>4. QED
      BY <3>1, <3>3
  <2>3. QED
    BY <2>1, <2>2
<1>7. QED
  BY <1>6, StructuredMeans DEF st

LEMMA StructuredHolds ==
  ASSUME TextsStructured
  PROVE  LineSpec => []ProgramStructured
<1>1. LineInit => ProgramStructured
  <2> SUFFICES ASSUME LineInit
               PROVE  ProgramStructured
    OBVIOUS
  <2>1. PICK i \in Invocations : disk = i.disk
    BY DEF LineInit
  <2>2. \A path \in DOMAIN disk : Structured(disk[path])
    BY <2>1 DEF TextsStructured, Texts
  <2>3. DOMAIN program = {}
    BY SequenceFacts, EmptySeq, InitText DEF LineInit, TextInv, ProgramOK
  <2>4. Structured(program)
    BY <2>3, StructuredMeans
  <2>5. QED
    BY <2>2, <2>4 DEF ProgramStructured
<1>2. TextInv /\ ProgramStructured /\ [LineNext]_<<vars, frontend>> => ProgramStructured'
  <2> SUFFICES ASSUME TextInv, ProgramStructured, [LineNext]_<<vars, frontend>>
               PROVE  ProgramStructured'
    OBVIOUS
  <2>1. CASE UNCHANGED <<disk, program>>
    BY <2>1 DEF ProgramStructured, Structured
  <2>2. CASE AddSourceFile
    <3>1. UNCHANGED disk
      BY <2>2 DEF AddSourceFile
    <3>2. CASE UNCHANGED program
      BY <2>1, <3>1, <3>2
    <3>3. CASE \E path \in DOMAIN disk : program' = program \o disk[path]
      <4>1. PICK path \in DOMAIN disk : program' = program \o disk[path]
        BY <3>3
      <4>2. Structured(program \o disk[path])
        BY <4>1, StructuredAppended DEF ProgramStructured, TextInv, DiskOK, ProgramOK
      <4>3. Structured(program')
        BY <4>1, <4>2
      <4>4. QED
        BY <3>1, <4>3 DEF ProgramStructured, Structured
    <3>4. QED
      BY <2>2, <3>2, <3>3 DEF AddSourceFile
  <2>3. CASE ReadArgument \/ EndArguments \/ Visit \/ EndVisit \/ VerifySVFIR
    BY <2>1, <2>3 DEF ReadArgument, EndArguments, Visit, EndVisit, VerifySVFIR
  <2>4. CASE DumpSVFIR \/ Solve \/ DumpPts \/ UNCHANGED <<vars, frontend>>
    BY <2>1, <2>4 DEF DumpSVFIR, Solve, DumpPts, frontend
  <2>5. QED
    BY <2>2, <2>3, <2>4 DEF LineNext
<1>3. QED
  BY <1>1, <1>2, TextHolds, PTL DEF LineSpec

-----------------------------------------------------------------------------
(* Where the machine is in a program that has been visited to its end *)

WholeVisited ==
  /\ TextInv /\ SourceInv /\ Structured(program) /\ pos = Len(program)
  /\ Rank("fun", pos) = Rank("enter", pos) /\ Rank("leave", pos) = Rank("enter", pos)

LEMMA LinkedProgram ==
  ASSUME Linked
  PROVE  program # <<>>
<1>1. Positions("fun") # {}
  BY DEF Linked
<1>2. QED
  BY <1>1, EmptySeq, LenProperties DEF Positions

\* What exits with 0 and is linked has been read and visited to its end.
LEMMA RunIsVisited ==
  ASSUME LineInv, TextInv, TypeOK, LifecycleInv, PlaceInv, VisitComplete, SourceInv,
         ProgramStructured, NothingRead, exitCode = 0, Linked
  PROVE  WholeVisited
<1>1. pos = Len(program)
  <2>1. parsed > 0
    BY LinkedProgram DEF NothingRead, LineInv, StageInv
  <2>2. QED
    BY <2>1 DEF LineInv, AllOrNothing
<1>2. phase = "idle" /\ frames = <<>>
  BY <1>1 DEF VisitComplete
<1>3. pending = <<>> /\ currentFunc = None
  BY <1>2 DEF LifecycleInv, UndefinedArePending, CurrentIsVisited
<1>4. Len(pending) = 0
  BY <1>3, EmptySeq
<1>5. Rank("fun", pos) = Rank("enter", pos) /\ Rank("leave", pos) = Rank("enter", pos)
  BY <1>3, <1>4, PendingCounted DEF SourceInv
<1>6. QED
  BY <1>1, <1>5 DEF WholeVisited, ProgramStructured

\* The visited program in numbers.
LEMMA WholeFacts ==
  ASSUME WholeVisited
  PROVE  /\ TextSized /\ Len(program) \in Nat /\ pos = Len(program)
         /\ \A kind : \A p \in Positions(kind) : p \in 1..Len(program) /\ program[p][1] = kind
         /\ \A kind : \A p \in Int : Rank(kind, p) \in Nat
BY TextHasSize, RankNat DEF WholeVisited, TextSized

LEMMA RankHere ==
  ASSUME WholeVisited, NEW kind, NEW p \in Int
  PROVE  /\ Rank(kind, p) \in Nat /\ Rank(kind, p - 1) \in Nat
         /\ Rank(kind, p) = Rank(kind, p - 1) + (IF p \in Positions(kind) THEN 1 ELSE 0)
<1> DEFINE q == p - 1
<1>1. q \in Int /\ q + 1 = p
  OBVIOUS
<1> HIDE DEF q
<1>2. Rank(kind, q + 1) = Rank(kind, q) + (IF q + 1 \in Positions(kind) THEN 1 ELSE 0)
  BY <1>1, WholeFacts, RankNext
<1>3. QED
  BY <1>1, <1>2, WholeFacts DEF q

LEMMA BodiesAt ==
  ASSUME WholeVisited, NEW p \in 0..Len(program)
  PROVE  /\ Rank("enter", p) \in Nat /\ Rank("leave", p) \in Nat
         /\ Rank("enter", p) = Rank("leave", p) \/ Rank("enter", p) = Rank("leave", p) + 1
<1>1. Rank("enter", p) \in Nat /\ Rank("leave", p) \in Nat
  BY WholeFacts
<1>2. Rank("enter", p) - Rank("leave", p) \in {0, 1}
  BY DEF WholeVisited, SourceInv, BodiesNested
<1>3. QED
  BY <1>1, <1>2

\* A token of a kind of which there are enough can be found by its number.
LEMMA NthFound ==
  ASSUME WholeVisited, NEW kind \in {"enter", "leave"}, NEW n \in 1..Rank("fun", pos)
  PROVE  /\ NthOf(kind, n) \in Positions(kind) /\ NthOf(kind, n) \in 1..Len(program)
         /\ Rank(kind, NthOf(kind, n)) = n
<1>1. Rank(kind, pos) = Rank("fun", pos)
  BY DEF WholeVisited
<1>2. \E p \in Positions(kind) : Rank(kind, p) = n
  BY <1>1 DEF WholeVisited, SourceInv, Counted
<1>3. QED
  BY <1>2, WholeFacts DEF NthOf

LEMMA FunctionNumber ==
  ASSUME WholeVisited, NEW def \in Positions("fun")
  PROVE  Rank("fun", def) \in 1..Rank("fun", pos)
<1>1. def \in 1..Len(program) /\ TextSized /\ Len(program) \in Nat /\ pos = Len(program)
  BY WholeFacts
<1>2. Rank("fun", 0) < Rank("fun", def) /\ Rank("fun", def) <= Rank("fun", pos)
  BY <1>1, RankStrict, RankMonotone
<1>3. Rank("fun", 0) = 0 /\ Rank("fun", def) \in Nat
  BY <1>1, RankZero, WholeFacts
<1>4. QED
  BY <1>1, <1>2, <1>3, WholeFacts

\* A body begins where the count says.
LEMMA EntryInside ==
  ASSUME WholeVisited, NEW def \in Positions("fun")
  PROVE  EntryOf(def) \in Nat \ {0} /\ Inside(EntryOf(def), def)
<1> DEFINE n == Rank("fun", def)
           p == NthOf("enter", n)
<1>1. /\ p \in Positions("enter") /\ p \in 1..Len(program) /\ Rank("enter", p) = n
  BY FunctionNumber, NthFound
<1>2. EntryOf(def) = p
  BY DEF EntryOf
<1> HIDE DEF p
<1>3. p - 1 \in 0..Len(program) /\ (p - 1) + 1 = p /\ p \in 0..Len(program) /\ TextSized
  BY <1>1, WholeFacts
<1>4. p \notin Positions("leave")
  BY <1>1, WholeFacts
<1>5. Rank("enter", p) = Rank("enter", p - 1) + 1 /\ Rank("leave", p) = Rank("leave", p - 1)
  <2>1. p \in Int /\ p \in Positions("enter")
    BY <1>1, <1>3
  <2>2. Rank("enter", p) = Rank("enter", p - 1) + 1
    BY <2>1, RankHere
  <2>3. /\ Rank("leave", p - 1) \in Nat
        /\ Rank("leave", p) = Rank("leave", p - 1) + (IF p \in Positions("leave") THEN 1 ELSE 0)
    BY <2>1, RankHere
  <2>4. QED
    BY <1>4, <2>2, <2>3
<1>6. Rank("leave", p - 1) = n - 1
  <2>1. n \in Nat /\ Rank("enter", p) = n
    BY <1>1, FunctionNumber
  <2>2. Rank("enter", p) = Rank("leave", p) \/ Rank("enter", p) = Rank("leave", p) + 1
    BY <1>3, BodiesAt
  <2> DEFINE r == p - 1
  <2>3. Rank("enter", r) = Rank("leave", r) \/ Rank("enter", r) = Rank("leave", r) + 1
    BY <1>3, BodiesAt
  <2>4. Rank("leave", r) \in Nat /\ Rank("enter", r) \in Nat
    BY <1>3, BodiesAt
  <2> HIDE DEF n
  <2>5. QED
    BY <1>5, <2>1, <2>2, <2>3, <2>4
<1>7. QED
  BY <1>1, <1>2, <1>6 DEF Inside

\* A token that does not end a body is followed by one of the same body, and one that
\* neither begins nor ends one by one of the same place.
LEMMA InsideOnward ==
  ASSUME WholeVisited, NEW def, NEW p, Inside(p, def), p \notin Positions("leave")
  PROVE  Inside(p + 1, def)
<1>1. /\ p \in Nat \ {0} /\ Rank("enter", p) = Rank("fun", def)
      /\ Rank("leave", p - 1) = Rank("fun", def) - 1
  BY DEF Inside
<1>2. /\ Rank("leave", p) = Rank("leave", p - 1) /\ (p + 1) - 1 = p /\ p + 1 \in Nat \ {0}
      /\ Rank("enter", p) \in Nat /\ Rank("leave", p) \in Nat
  <2>1. p - 1 \in Int /\ (p - 1) + 1 = p /\ p \in Int
    BY <1>1
  <2>2. Rank("leave", p - 1) \in Nat
    BY <2>1, WholeFacts
  <2>3. QED
    BY <1>1, <2>1, <2>2, WholeFacts, RankNext
<1>3. p + 1 \notin Positions("enter")
  <2> SUFFICES ASSUME p + 1 \in Positions("enter")
               PROVE  FALSE
    OBVIOUS
  <2>1. p + 1 \in 1..Len(program) /\ p + 1 \notin Positions("leave") /\ p + 1 \in 0..Len(program)
    BY WholeFacts
  <2>2. Rank("enter", p + 1) = Rank("enter", p) + 1 /\ Rank("leave", p + 1) = Rank("leave", p)
    BY <1>1, <1>2, <2>1, WholeFacts, RankNext
  <2>3. Rank("enter", p + 1) = Rank("leave", p + 1) \/ Rank("enter", p + 1) = Rank("leave", p + 1) + 1
    BY <2>1, BodiesAt
  <2>4. QED
    BY <1>1, <1>2, <2>2, <2>3
<1>4. Rank("enter", p + 1) = Rank("enter", p)
  BY <1>1, <1>2, <1>3, WholeFacts, RankNext
<1>5. QED
  BY <1>1, <1>2, <1>4 DEF Inside

LEMMA FileLevelOnward ==
  ASSUME WholeVisited, NEW p, AtFileLevel(p), p \notin Positions("enter"), p \notin Positions("leave")
  PROVE  AtFileLevel(p + 1)
<1>1. p \in Nat \ {0} /\ Rank("enter", p - 1) = Rank("leave", p - 1)
  BY DEF AtFileLevel
<1>2. p - 1 \in Int /\ (p - 1) + 1 = p /\ (p + 1) - 1 = p /\ p + 1 \in Nat \ {0}
  BY <1>1
<1>3. Rank("enter", p - 1) \in Nat /\ Rank("leave", p - 1) \in Nat
  BY <1>2, WholeFacts
<1>4. Rank("enter", p) = Rank("enter", p - 1) /\ Rank("leave", p) = Rank("leave", p - 1)
  BY <1>2, <1>3, WholeFacts, RankNext
<1>5. QED
  BY <1>1, <1>2, <1>4 DEF AtFileLevel

LEMMA Onward ==
  ASSUME WholeVisited, NEW n, NEW p, InCall(n, p), p \notin Positions("enter"), p \notin Positions("leave")
  PROVE  InCall(n, p + 1)
BY InsideOnward, FileLevelOnward DEF InCall

\* A branch stays in its body.
LEMMA Jumped ==
  ASSUME WholeVisited, NEW n, NEW p \in 1..Len(program), NEW q \in 1..Len(program),
         \A l \in p..q \cup q..p : program[l][1] \notin {"enter", "leave"},
         InCall(n, p)
  PROVE  InCall(n, q)
<1>1. ASSUME NEW kind \in {"enter", "leave"}
      PROVE  Rank(kind, q) = Rank(kind, p) /\ Rank(kind, q - 1) = Rank(kind, p - 1)
  <2>1. /\ TextSized /\ p \in Int /\ q \in Int /\ p - 1 \in Int /\ q - 1 \in Int
        /\ \A l \in p..q \cup q..p : l \notin Positions(kind)
    BY <1>1, WholeFacts DEF Positions
  <2>2. CASE p <= q
    <3>1. /\ \A r \in p + 1..q : r \notin Positions(kind)
          /\ \A r \in (p - 1) + 1..q - 1 : r \notin Positions(kind)
          /\ p - 1 <= q - 1
      BY <2>1, <2>2
    <3>2. QED
      BY <2>1, <2>2, <3>1, RankBetween
  <2>3. CASE q <= p
    <3>1. /\ \A r \in q + 1..p : r \notin Positions(kind)
          /\ \A r \in (q - 1) + 1..p - 1 : r \notin Positions(kind)
          /\ q - 1 <= p - 1
      BY <2>1, <2>3
    <3>2. QED
      BY <2>1, <2>3, <3>1, RankBetween
  <2>4. QED
    BY <2>1, <2>2, <2>3
<1>2. p \in Nat \ {0} /\ q \in Nat \ {0}
  BY WholeFacts
<1>3. QED
  BY <1>1, <1>2 DEF InCall, Inside, AtFileLevel

\* At file level the machine skips a body to its end.
LEMMA BodySkipped ==
  ASSUME WholeVisited, NEW p \in Positions("enter"), AtFileLevel(p)
  PROVE  AtFileLevel(NthOf("leave", Rank("enter", p)) + 1)
<1> DEFINE n == Rank("enter", p)
           q == NthOf("leave", n)
<1>1. /\ p \in 1..Len(program) /\ TextSized /\ p \in Int /\ p - 1 \in Int /\ (p - 1) + 1 = p
      /\ Len(program) \in Nat /\ pos = Len(program)
  BY WholeFacts
<1>2. n \in 1..Rank("fun", pos)
  <2>1. Rank("enter", 0) < Rank("enter", p) /\ Rank("enter", p) <= Rank("enter", pos)
    BY <1>1, RankStrict, RankMonotone
  <2>2. Rank("enter", 0) = 0 /\ Rank("fun", pos) = Rank("enter", pos) /\ Rank("enter", p) \in Nat
        /\ Rank("enter", pos) \in Nat
    BY <1>1, RankZero, WholeFacts DEF WholeVisited
  <2>3. QED
    BY <2>1, <2>2
<1> HIDE DEF n
<1>3. q \in Positions("leave") /\ q \in 1..Len(program) /\ Rank("leave", q) = n
  BY <1>2, NthFound
<1> HIDE DEF q
<1>4. /\ q - 1 \in 0..Len(program) /\ (q - 1) + 1 = q /\ q \in 0..Len(program)
      /\ (q + 1) - 1 = q /\ q + 1 \in Nat \ {0}
  BY <1>1, <1>3
<1>5. q \notin Positions("enter")
  BY <1>3, WholeFacts
<1>6. Rank("leave", q) = Rank("leave", q - 1) + 1 /\ Rank("enter", q) = Rank("enter", q - 1)
  BY <1>3, <1>4, <1>5, RankHere
<1>7. Rank("enter", q) = n
  BY <1>3, <1>4, <1>6, BodiesAt
<1>8. QED
  BY <1>3, <1>4, <1>7 DEF AtFileLevel, n, q

-----------------------------------------------------------------------------
(* The active calls *)

\* A step that neither calls nor returns.
SameCalls ==
  /\ IsSequence(calls') /\ DOMAIN calls' = DOMAIN calls /\ Len(calls') = Len(calls)
  /\ \A n \in DOMAIN calls :
       calls'[n] = [def |-> calls[n].def, env |-> calls'[n].env, back |-> calls[n].back,
                    args |-> calls'[n].args]

LEMMA CallFacts ==
  ASSUME ControlInv
  PROVE  /\ IsSequence(calls) /\ Len(calls) \in Nat /\ DOMAIN calls = 1..Len(calls)
         /\ Calling <=> Len(calls) \in DOMAIN calls
         /\ Calling <=> Len(calls) # 0
         /\ \A n \in DOMAIN calls :
              /\ calls[n] = [def |-> calls[n].def, env |-> calls[n].env, back |-> calls[n].back,
                             args |-> calls[n].args]
              /\ calls[n].def \in Positions("fun") /\ InCall(n - 1, calls[n].back)
<1>1. IsSequence(calls) /\ Len(calls) \in Nat /\ DOMAIN calls = 1..Len(calls)
  BY SequenceFacts DEF ControlInv
<1>2. Calling <=> Len(calls) # 0
  BY <1>1, EmptySeq DEF Calling, IsSequence
<1>3. QED
  BY <1>1, <1>2 DEF ControlInv

LEMMA CallsUnchanged ==
  ASSUME ControlInv, UNCHANGED calls
  PROVE  SameCalls
BY CallFacts DEF SameCalls

LEMMA CallReplaced ==
  ASSUME ControlInv, NEW e, NEW a,
         calls' = [calls EXCEPT ![Len(calls)] =
                     [def |-> Current.def, env |-> e, back |-> Current.back, args |-> a]]
  PROVE  SameCalls
<1> DEFINE r == [def |-> Current.def, env |-> e, back |-> Current.back, args |-> a]
           l == Len(calls)
           t == [calls EXCEPT ![l] = r]
<1>1. /\ IsSequence(calls') /\ Len(calls') = Len(calls) /\ DOMAIN calls' = DOMAIN calls
      /\ \A i \in DOMAIN calls' : (calls'[i] = r /\ i = Len(calls)) \/ calls'[i] = calls[i]
  <2>1. calls' = t
    OBVIOUS
  <2>2. IsSequence(calls)
    BY CallFacts
  <2> HIDE DEF r, l
  <2>3. /\ IsSequence(t) /\ Len(t) = Len(calls) /\ DOMAIN t = DOMAIN calls
        /\ \A i \in DOMAIN t : (t[i] = r /\ i = l) \/ t[i] = calls[i]
    BY <2>2, ReplaceFacts
  <2> HIDE DEF t
  <2>4. QED
    BY <2>1, <2>3 DEF l
<1>2. ASSUME NEW n \in DOMAIN calls
      PROVE  calls'[n] = [def |-> calls[n].def, env |-> calls'[n].env, back |-> calls[n].back,
                          args |-> calls'[n].args]
  <2>1. CASE calls'[n] = r /\ n = Len(calls)
    <3>1. r.env = e /\ r.args = a
      OBVIOUS
    <3>2. Current = calls[n]
      BY <2>1 DEF Current
    <3>3. QED
      BY <2>1, <3>1, <3>2
  <2>2. CASE calls'[n] = calls[n]
    BY <2>2, CallFacts
  <2>3. QED
    BY <1>1, <2>1, <2>2
<1>3. QED
  BY <1>1, <1>2 DEF SameCalls

\* InCall for calls that are given.
InCallOf(cs, n, p) == IF n = 0 THEN AtFileLevel(p) ELSE Inside(p, cs[n].def)

LEMMA PlaceKept ==
  ASSUME UNCHANGED program, NEW cs, calls' = cs, NEW n, NEW p, InCallOf(cs, n, p)
  PROVE  InCall(n, p)'
<1>1. \A kind, q : Rank(kind, q)' = Rank(kind, q)
  BY RankKept
<1>2. CASE n = 0
  BY <1>1, <1>2 DEF InCallOf, InCall, AtFileLevel
<1>3. CASE n # 0
  <2>1. Inside(p, cs[n].def)
    BY <1>3 DEF InCallOf
  <2>2. program' = program /\ calls'[n].def = cs[n].def
    OBVIOUS
  <2>3. Rank("fun", calls[n].def)' = Rank("fun", cs[n].def)
    BY <2>2, Zenon DEF Rank, Positions
  <2>4. Inside(p, calls[n].def)'
    BY <1>1, <2>1, <2>3 DEF Inside
  <2>5. QED
    BY <1>3, <2>4 DEF InCall
<1>4. QED
  BY <1>2, <1>3

LEMMA LinkedKept ==
  ASSUME UNCHANGED program, Linked
  PROVE  Linked'
<1>1. Positions("fun")' = Positions("fun") /\ Positions("call")' = Positions("call")
  BY RankKept
<1>2. \A p \in Positions("call") : \E f \in Positions("fun") : program[f][2] = program[p][2]
  BY DEF Linked
<1>3. \E f \in Positions("fun") : program[f][2] = "main"
  BY DEF Linked
<1>4. QED
  BY <1>1, <1>2, <1>3 DEF Linked

\* What a step has to see to.
LEMMA ControlEstablished ==
  ASSUME ControlInv, pc # 0, UNCHANGED <<program, exitCode>>,
         NEW q \in Nat \ {0}, pc' = q, NEW cs, calls' = cs, IsSequence(cs),
         InCallOf(cs, Len(cs), q),
         \A n \in DOMAIN cs :
           /\ cs[n] = [def |-> cs[n].def, env |-> cs[n].env, back |-> cs[n].back, args |-> cs[n].args]
           /\ cs[n].def \in Positions("fun") /\ InCallOf(cs, n - 1, cs[n].back)
  PROVE  ControlInv'
<1>1. exitCode' = 0 /\ Linked'
  BY LinkedKept DEF ControlInv
<1>2. InCall(Len(calls), pc)'
  <2>1. program' = program /\ pc' = q /\ calls' = cs
    OBVIOUS
  <2>2. Rank("enter", pc)' = Rank("enter", q)
    BY <2>1, Zenon DEF Rank, Positions
  <2>3. Rank("enter", pc - 1)' = Rank("enter", q - 1)
    BY <2>1, Zenon DEF Rank, Positions
  <2>4. Rank("leave", pc - 1)' = Rank("leave", q - 1)
    BY <2>1, Zenon DEF Rank, Positions
  <2>5. Rank("fun", calls[Len(calls)].def)' = Rank("fun", cs[Len(cs)].def)
    BY <2>1, Zenon DEF Rank, Positions
  <2>6. CASE Len(cs) = 0
    <3>1. AtFileLevel(pc)'
      BY <2>1, <2>3, <2>4, <2>6 DEF InCallOf, AtFileLevel
    <3>2. QED
      BY <2>1, <2>6, <3>1 DEF InCall
  <2>7. CASE Len(cs) # 0
    <3>1. Inside(pc, calls[Len(calls)].def)'
      BY <2>1, <2>2, <2>4, <2>5, <2>7 DEF InCallOf, Inside
    <3>2. QED
      BY <2>1, <2>7, <3>1 DEF InCall
  <2>8. QED
    BY <2>6, <2>7
<1>3. ASSUME NEW n \in DOMAIN cs
      PROVE  calls'[n].def \in Positions("fun")' /\ InCall(n - 1, calls[n].back)'
  <2>1. calls'[n].def \in Positions("fun")'
    BY RankKept
  <2>2. ASSUME NEW b, b = cs[n].back
        PROVE  InCall(n - 1, b)'
    BY <2>2, PlaceKept
  <2>3. InCall(n - 1, calls[n].back)'
    BY <2>2 DEF InCall, Inside, AtFileLevel
  <2>4. QED
    BY <2>1, <2>3
<1>4. QED
  BY <1>1, <1>2, <1>3 DEF ControlInv

\* Control stays in the calls that are active.
LEMMA ControlMoves ==
  ASSUME ControlInv, pc # 0, SameCalls, UNCHANGED <<program, exitCode>>,
         NEW q \in Nat \ {0}, pc' = q, InCall(Len(calls), q)
  PROVE  ControlInv'
<1>1. PICK cs : cs = calls'
  OBVIOUS
<1>2. /\ IsSequence(cs) /\ Len(cs) = Len(calls) /\ DOMAIN cs = DOMAIN calls
      /\ \A n \in DOMAIN cs :
           /\ cs[n] = [def |-> calls[n].def, env |-> cs[n].env, back |-> calls[n].back,
                       args |-> cs[n].args]
           /\ cs[n].def = calls[n].def /\ cs[n].back = calls[n].back
  BY <1>1 DEF SameCalls
<1>3. ASSUME NEW n, NEW p, n \in DOMAIN calls \cup {0}, InCall(n, p)
      PROVE  InCallOf(cs, n, p)
  <2>1. n # 0 => cs[n].def = calls[n].def
    BY <1>2, <1>3
  <2>2. QED
    BY <1>3, <2>1 DEF InCall, InCallOf
<1>4. InCallOf(cs, Len(cs), q)
  BY <1>2, <1>3, CallFacts
<1>5. ASSUME NEW n \in DOMAIN cs
      PROVE  /\ cs[n] = [def |-> cs[n].def, env |-> cs[n].env, back |-> cs[n].back,
                         args |-> cs[n].args]
             /\ cs[n].def \in Positions("fun") /\ InCallOf(cs, n - 1, cs[n].back)
  <2>1. n - 1 \in DOMAIN calls \cup {0} /\ InCall(n - 1, cs[n].back)
    BY <1>2, CallFacts
  <2>2. InCallOf(cs, n - 1, cs[n].back)
    BY <1>3, <2>1
  <2>3. QED
    BY <1>2, <2>2, CallFacts
<1>6. QED
  BY <1>1, <1>2, <1>4, <1>5, ControlEstablished

-----------------------------------------------------------------------------
(* Every step of the machine keeps its place *)

LEMMA TokenPlace ==
  ASSUME WholeVisited, NEW kinds, At(kinds)
  PROVE  /\ pc \in 1..Len(program) /\ pc \in Nat /\ pc # 0 /\ Here[1] \in kinds
         /\ {"enter", "leave"} \cap kinds = {} => pc \notin Positions("enter") /\ pc \notin Positions("leave")
         /\ Here[1] \in {"enter", "call"} => Here = program[pc] /\ program[pc][1] = Here[1]
<1>1. pc \in 1..Len(program) /\ Here[1] \in kinds /\ Len(program) \in Nat
  BY WholeFacts DEF At
<1>2. ASSUME {"enter", "leave"} \cap kinds = {}
      PROVE  program[pc][1] \notin {"enter", "leave"}
  <2>1. Here[1] \notin {"enter", "leave"}
    BY <1>1, <1>2
  <2>2. QED
    BY <2>1 DEF Here
<1>3. StructuredAt(program, pc)
  BY <1>1, StructuredMeans, SequenceFacts DEF WholeVisited, TextInv, ProgramOK
<1>4. program[pc][1] = "lost" => Here[1] \notin {"call", "enter"}
  BY <1>3 DEF StructuredAt, Executed, Here
<1>5. program[pc][1] # "lost" => Here = program[pc]
  BY DEF Here
<1>6. QED
  BY <1>1, <1>2, <1>4, <1>5 DEF Positions

\* The token after it is executed next.
LEMMA ControlContinues ==
  ASSUME WholeVisited, ControlInv, SameCalls, UNCHANGED <<program, exitCode>>, Continue,
         pc \in Nat, pc # 0, pc \notin Positions("enter"), pc \notin Positions("leave")
  PROVE  ControlInv'
<1>1. InCall(Len(calls), pc)
  BY DEF ControlInv
<1>2. \E q \in Nat \ {0} : q = pc + 1
  BY WholeFacts
<1>3. PICK q \in Nat \ {0} : q = pc + 1
  BY <1>2
<1>4. pc' = q /\ InCall(Len(calls), q)
  BY <1>1, <1>3, Onward DEF Continue
<1>5. QED
  BY <1>4, ControlMoves

LEMMA PlainStep ==
  ASSUME WholeVisited, ControlInv, UNCHANGED <<program, exitCode>>,
         Evaluate \/ Perform \/ Initialize \/ Discard
  PROVE  ControlInv'
<1> DEFINE kinds == Expressions \cup {"=", "=*", "(=", "init", ";", "clause"}
<1>1. At(kinds) /\ Continue /\ UNCHANGED calls
  <2>1. CASE Evaluate
    BY <2>1 DEF Evaluate, At
  <2>2. CASE Perform
    BY <2>2 DEF Perform, At
  <2>3. CASE Initialize
    BY <2>3 DEF Initialize, At
  <2>4. CASE Discard
    BY <2>4 DEF Discard, At
  <2>5. QED
    BY <2>1, <2>2, <2>3, <2>4
<1>2. {"enter", "leave"} \cap kinds = {}
  BY DEF Expressions
<1> HIDE DEF kinds
<1>3. pc \in Nat /\ pc # 0 /\ pc \notin Positions("enter") /\ pc \notin Positions("leave")
  BY <1>1, <1>2, TokenPlace
<1>4. QED
  BY <1>1, <1>3, CallsUnchanged, ControlContinues

\* What changes the variables of the innermost call leaves where it stands and returns to.
LEMMA EnvironmentChanged ==
  ASSUME ControlInv, NEW r, calls' = [calls EXCEPT ![Len(calls)] = r],
         Calling => r = [def |-> Current.def, env |-> r.env, back |-> Current.back, args |-> r.args]
  PROVE  SameCalls
<1>1. CASE Calling
  BY <1>1, CallReplaced
<1>2. CASE ~Calling
  <2>1. calls = <<>>
    BY <1>2 DEF Calling
  <2>2. DOMAIN calls = {} /\ Len(calls) = 0 /\ IsSequence(calls)
    BY <2>1, CallFacts, EmptySeq
  <2>3. calls' = calls
    BY <2>1, <2>2
  <2>4. QED
    BY <2>3, CallsUnchanged
<1>3. QED
  BY <1>1, <1>2

LEMMA ScopeStep ==
  ASSUME WholeVisited, ControlInv, UNCHANGED <<program, exitCode>>,
         DeclareVariable \/ OpenScope \/ CloseScope \/ BindParameter
  PROVE  ControlInv'
<1> DEFINE kinds == {"local", "local*", "global", "{", "for", "body", "}", "endfor", "bind"}
<1>1. At(kinds) /\ Continue
  BY DEF DeclareVariable, OpenScope, CloseScope, BindParameter, At
<1>2. {"enter", "leave"} \cap kinds = {}
  OBVIOUS
<1> HIDE DEF kinds
<1>3. pc \in Nat /\ pc # 0 /\ pc \notin Positions("enter") /\ pc \notin Positions("leave")
  BY <1>1, <1>2, TokenPlace
<1>4. Calling => Current = [def |-> Current.def, env |-> Current.env, back |-> Current.back,
                            args |-> Current.args]
  BY CallFacts DEF Current
<1>5. SameCalls
  <2>1. CASE UNCHANGED calls
    BY <2>1, CallsUnchanged
  <2>2. CASE \E k, e : calls' = [calls EXCEPT ![Len(calls)].env[k] = e]
    <3>1. PICK k, e : calls' = [calls EXCEPT ![Len(calls)].env[k] = e]
      BY <2>2
    <3> DEFINE r == [Current EXCEPT !.env[k] = e]
    <3>2. calls' = [calls EXCEPT ![Len(calls)] = r]
      BY <3>1 DEF Current
    <3>3. Calling => r = [def |-> Current.def, env |-> r.env, back |-> Current.back, args |-> r.args]
      BY <1>4
    <3> HIDE DEF r
    <3>4. QED
      BY <3>2, <3>3, EnvironmentChanged
  <2>3. CASE \E e : calls' = [calls EXCEPT ![Len(calls)].env = e]
    <3>1. PICK e : calls' = [calls EXCEPT ![Len(calls)].env = e]
      BY <2>3
    <3> DEFINE r == [Current EXCEPT !.env = e]
    <3>2. calls' = [calls EXCEPT ![Len(calls)] = r]
      BY <3>1 DEF Current
    <3>3. Calling => r = [def |-> Current.def, env |-> r.env, back |-> Current.back, args |-> r.args]
      BY <1>4
    <3> HIDE DEF r
    <3>4. QED
      BY <3>2, <3>3, EnvironmentChanged
  <2>4. CASE \E e, a : calls' = [calls EXCEPT ![Len(calls)].env[1] = e, ![Len(calls)].args = a]
    <3>1. PICK e, a : calls' = [calls EXCEPT ![Len(calls)].env[1] = e, ![Len(calls)].args = a]
      BY <2>4
    <3> DEFINE r == [Current EXCEPT !.env[1] = e, !.args = a]
    <3>2. calls' = [calls EXCEPT ![Len(calls)] = r]
      <4> DEFINE l == Len(calls)
                 once == [Current EXCEPT !.env[1] = e]
                 s == [calls EXCEPT ![l] = once]
      <4>1. calls' = [s EXCEPT ![l].args = a]
        BY <3>1 DEF Current
      <4>2. CASE l \in DOMAIN calls
        <5>1. s[l] = once
          BY <4>2
        <5>2. calls' = [s EXCEPT ![l] = [once EXCEPT !.args = a]]
          BY <4>1, <5>1
        <5>3. r = [once EXCEPT !.args = a]
          OBVIOUS
        <5> HIDE DEF l, once, r
        <5>4. calls' = [calls EXCEPT ![l] = r]
          BY <5>2, <5>3
        <5>5. QED
          BY <5>4 DEF l
      <4>3. CASE l \notin DOMAIN calls
        BY <4>1, <4>3
      <4>4. QED
        BY <4>2, <4>3
    <3>3. ASSUME Calling
          PROVE  r = [def |-> Current.def, env |-> r.env, back |-> Current.back, args |-> r.args]
      <4>1. PICK d, v, b, u : Current = [def |-> d, env |-> v, back |-> b, args |-> u]
        BY <1>4, <3>3
      <4> DEFINE once == [Current EXCEPT !.env[1] = e]
                 w == [v EXCEPT ![1] = e]
      <4>2. once = [def |-> d, env |-> w, back |-> b, args |-> u]
        BY <4>1
      <4>3. r = [once EXCEPT !.args = a]
        OBVIOUS
      <4> HIDE DEF r, once, w
      <4>4. r = [def |-> d, env |-> w, back |-> b, args |-> a]
        BY <4>2, <4>3
      <4>5. Current.def = d /\ Current.back = b
        BY <4>1
      <4>6. QED
        BY <4>4, <4>5
    <3> HIDE DEF r
    <3>4. QED
      BY <3>2, <3>3, EnvironmentChanged
  <2>5. CASE DeclareVariable
    BY <2>1, <2>2, <2>5 DEF DeclareVariable
  <2>6. CASE OpenScope \/ CloseScope
    BY <2>3, <2>6 DEF OpenScope, CloseScope
  <2>7. CASE BindParameter
    BY <2>4, <2>7 DEF BindParameter
  <2>8. QED
    BY <2>5, <2>6, <2>7
<1>6. QED
  BY <1>1, <1>3, <1>5, ControlContinues

LEMMA TransferStep ==
  ASSUME WholeVisited, ControlInv, UNCHANGED <<program, exitCode>>, Transfer
  PROVE  ControlInv'
<1> DEFINE kinds == {"branch", "jump"}
           n == Len(calls)
<1>1. At(kinds) /\ (Continue \/ pc' = pc + Here[2]) /\ UNCHANGED calls
  BY DEF Transfer, At, Continue
<1>2. {"enter", "leave"} \cap kinds = {}
  OBVIOUS
<1>3. /\ pc \in 1..Len(program) /\ pc \in Nat /\ pc # 0 /\ Here[1] \in kinds
      /\ pc \notin Positions("enter") /\ pc \notin Positions("leave")
  <2> HIDE DEF kinds
  <2>1. QED
    BY <1>1, <1>2, TokenPlace
<1>4. CASE Continue
  BY <1>1, <1>3, <1>4, CallsUnchanged, ControlContinues
<1>5. CASE pc' = pc + Here[2]
  <2>1. StructuredAt(program, pc) /\ DOMAIN program = 1..Len(program)
    BY <1>3, StructuredMeans, SequenceFacts DEF WholeVisited, TextInv, ProgramOK
  <2>2. Here = Executed(program, pc)
    BY DEF Here, Executed
  <2>3. /\ Here[2] \in Int /\ pc + Here[2] \in 1..Len(program)
        /\ \A l \in pc..(pc + Here[2]) \cup (pc + Here[2])..pc : program[l][1] \notin {"enter", "leave"}
    BY <1>3, <2>1, <2>2 DEF StructuredAt
  <2>4. PICK q \in 1..Len(program) : q = pc + Here[2]
    BY <2>3
  <2>5. InCall(n, pc) /\ \A l \in pc..q \cup q..pc : program[l][1] \notin {"enter", "leave"}
    BY <1>3, <2>3, <2>4 DEF ControlInv
  <2>6. InCall(n, q) /\ q \in Nat \ {0}
    BY <1>3, <2>5, Jumped, WholeFacts
  <2>7. pc' = q
    BY <1>5, <2>4
  <2>8. QED
    BY <1>1, <1>3, <2>6, <2>7, CallsUnchanged, ControlMoves
<1>6. QED
  BY <1>1, <1>4, <1>5

LEMMA EnterStep ==
  ASSUME WholeVisited, ControlInv, UNCHANGED <<program, exitCode>>, Enter
  PROVE  ControlInv'
<1>1. At({"enter"}) /\ Calling /\ pc' = pc + 1 /\ UNCHANGED calls
  BY DEF Enter, Continue
<1>2. pc \in Nat /\ pc # 0 /\ program[pc][1] = "enter"
  BY <1>1, TokenPlace
<1>3. Len(calls) # 0 /\ Inside(pc, calls[Len(calls)].def)
  BY <1>1, <1>2, CallFacts DEF ControlInv, InCall
<1>4. pc \notin Positions("leave")
  BY <1>2, WholeFacts
<1>5. PICK q \in Nat \ {0} : q = pc + 1
  BY <1>2
<1>6. InCall(Len(calls), q)
  BY <1>3, <1>4, <1>5, InsideOnward DEF InCall
<1>7. QED
  BY <1>1, <1>2, <1>5, <1>6, CallsUnchanged, ControlMoves

LEMMA SkipStep ==
  ASSUME WholeVisited, ControlInv, UNCHANGED <<program, exitCode>>, SkipDefinition
  PROVE  ControlInv'
<1>1. CASE At({"file", "fun", "scanned", "struct", "typedef", "eof"}) /\ Continue
  <2> DEFINE kinds == {"file", "fun", "scanned", "struct", "typedef", "eof"}
  <2>1. {"enter", "leave"} \cap kinds = {} /\ At(kinds)
    BY <1>1
  <2> HIDE DEF kinds
  <2>2. pc \in Nat /\ pc # 0 /\ pc \notin Positions("enter") /\ pc \notin Positions("leave")
    BY <2>1, TokenPlace
  <2>3. UNCHANGED calls
    BY DEF SkipDefinition
  <2>4. QED
    BY <1>1, <2>2, <2>3, CallsUnchanged, ControlContinues
<1>2. CASE At({"enter"}) /\ pc' = NthOf("leave", Rank("enter", pc)) + 1
  <2>1. UNCHANGED calls /\ ~Calling
    BY DEF SkipDefinition
  <2>2. pc \in Positions("enter") /\ pc \in Nat /\ pc # 0
    BY <1>2, TokenPlace DEF Positions
  <2>3. Len(calls) = 0 /\ AtFileLevel(pc)
    BY <2>1, <2>2, CallFacts DEF ControlInv, InCall
  <2>4. PICK q : q = NthOf("leave", Rank("enter", pc)) + 1
    OBVIOUS
  <2>5. AtFileLevel(q)
    BY <2>2, <2>3, <2>4, BodySkipped
  <2>6. q \in Nat \ {0} /\ InCall(Len(calls), q) /\ pc' = q
    BY <1>2, <2>3, <2>4, <2>5 DEF AtFileLevel, InCall
  <2>7. QED
    BY <2>1, <2>2, <2>6, CallsUnchanged, ControlMoves
<1>3. QED
  BY <1>1, <1>2 DEF SkipDefinition

\* What is called returns behind the call.
LEMMA InvokeStep ==
  ASSUME WholeVisited, ControlInv, UNCHANGED <<program, exitCode>>, pc \in Nat, pc # 0,
         NEW def \in Positions("fun"), NEW k, Invoke(def, k), InCall(Len(calls), pc + 1)
  PROVE  ControlInv'
<1> DEFINE r == [def |-> def, env |-> <<NoSymbols>>, back |-> pc + 1,
                 args |-> [i \in 1..k |-> Nth(k + 1 - i).value]]
           l == Len(calls)
<1>1. calls' = Append(calls, r) /\ pc' = EntryOf(def)
  BY DEF Invoke
<1>2. /\ r = [def |-> r.def, env |-> r.env, back |-> r.back, args |-> r.args]
      /\ r.def = def /\ r.back = pc + 1
  OBVIOUS
<1> HIDE DEF r
<1>3. PICK cs : cs = Append(calls, r)
  OBVIOUS
<1>4. /\ IsSequence(cs) /\ Len(cs) = l + 1 /\ DOMAIN cs = 1..(l + 1) /\ l \in Nat
      /\ DOMAIN calls = 1..l /\ (\A i \in DOMAIN calls : cs[i] = calls[i]) /\ cs[l + 1] = r
  BY <1>3, CallFacts, AppendShape
<1>5. PICK q \in Nat \ {0} : q = EntryOf(def) /\ Inside(q, def)
  BY EntryInside
<1>6. InCallOf(cs, Len(cs), q)
  BY <1>2, <1>4, <1>5 DEF InCallOf
<1>7. ASSUME NEW n \in DOMAIN cs
      PROVE  /\ cs[n] = [def |-> cs[n].def, env |-> cs[n].env, back |-> cs[n].back,
                         args |-> cs[n].args]
             /\ cs[n].def \in Positions("fun") /\ InCallOf(cs, n - 1, cs[n].back)
  <2>1. n \in 1..(l + 1) /\ (n - 1 # 0 => n - 1 \in DOMAIN calls /\ cs[n - 1] = calls[n - 1])
    BY <1>4
  <2>2. CASE n = l + 1
    <3>1. cs[n] = r /\ InCall(n - 1, r.back)
      BY <1>2, <1>4, <2>2
    <3>2. InCallOf(cs, n - 1, r.back)
      BY <2>1, <3>1 DEF InCall, InCallOf
    <3>3. QED
      BY <1>2, <3>1, <3>2
  <2>3. CASE n # l + 1
    <3>1. n \in DOMAIN calls /\ cs[n] = calls[n]
      BY <1>4, <2>1, <2>3
    <3>2. InCall(n - 1, cs[n].back)
      BY <3>1, CallFacts
    <3>3. InCallOf(cs, n - 1, cs[n].back)
      BY <2>1, <3>2 DEF InCall, InCallOf
    <3>4. QED
      BY <3>1, <3>3, CallFacts
  <2>4. QED
    BY <2>2, <2>3
<1>8. calls' = cs /\ pc' = q
  BY <1>1, <1>3, <1>5
<1>9. QED
  BY <1>4, <1>6, <1>7, <1>8, ControlEstablished

LEMMA EndCallStep ==
  ASSUME WholeVisited, ControlInv, UNCHANGED <<program, exitCode>>, EndCall
  PROVE  ControlInv'
<1> DEFINE l == Len(calls)
<1>1. /\ At({"return", "leave"}) /\ Calling /\ pc' = Current.back
      /\ calls' = SubSeq(calls, 1, l - 1)
  BY DEF EndCall
<1>2. pc # 0
  BY <1>1, TokenPlace
<1>3. /\ l \in Nat /\ l # 0 /\ l - 1 \in Nat /\ l - 1 <= l /\ DOMAIN calls = 1..l /\ l \in DOMAIN calls
      /\ IsSequence(calls)
  BY <1>1, CallFacts
<1>4. PICK cs : cs = SubSeq(calls, 1, l - 1)
  OBVIOUS
<1>5. /\ IsSequence(cs) /\ Len(cs) = l - 1 /\ DOMAIN cs = 1..(l - 1)
      /\ \A i \in 1..(l - 1) : i \in DOMAIN calls /\ cs[i] = calls[i]
  BY <1>3, <1>4, PrefixShape
<1>6. ASSUME NEW n \in 0..(l - 1), NEW p, InCall(n, p)
      PROVE  InCallOf(cs, n, p)
  <2>1. n # 0 => cs[n] = calls[n]
    BY <1>3, <1>5
  <2>2. QED
    BY <1>6, <2>1 DEF InCall, InCallOf
<1>7. InCallOf(cs, Len(cs), Current.back)
  <2>1. InCall(l - 1, Current.back)
    BY <1>3, CallFacts DEF Current
  <2>2. QED
    BY <1>3, <1>5, <1>6, <2>1
<1>8. PICK q \in Nat \ {0} : q = Current.back
  BY <1>7 DEF InCallOf, AtFileLevel, Inside
<1>9. ASSUME NEW n \in DOMAIN cs
      PROVE  /\ cs[n] = [def |-> cs[n].def, env |-> cs[n].env, back |-> cs[n].back,
                         args |-> cs[n].args]
             /\ cs[n].def \in Positions("fun") /\ InCallOf(cs, n - 1, cs[n].back)
  <2>1. n \in DOMAIN calls /\ cs[n] = calls[n] /\ n - 1 \in 0..(l - 1)
    BY <1>3, <1>5
  <2>2. InCallOf(cs, n - 1, cs[n].back)
    BY <1>6, <2>1, CallFacts
  <2>3. QED
    BY <2>1, <2>2, CallFacts
<1>10. calls' = cs /\ pc' = q /\ InCallOf(cs, Len(cs), q)
  BY <1>1, <1>4, <1>7, <1>8
<1>11. QED
  BY <1>2, <1>5, <1>9, <1>10, ControlEstablished

\* Every function that is called by name has a definition.
LEMMA DefinitionFound ==
  ASSUME Linked, NEW f, f = "main" \/ \E p \in Positions("call") : program[p][2] = f
  PROVE  DefinitionOf(f) \in Positions("fun") /\ program[DefinitionOf(f)][2] = f
<1>1. \E p \in Positions("fun") : program[p][2] = f
  BY DEF Linked
<1>2. QED
  BY <1>1 DEF DefinitionOf, Positions

LEMMA CalledStep ==
  ASSUME WholeVisited, ControlInv, UNCHANGED <<program, exitCode>>,
         DirectCall \/ IndirectCall \/ CallMain
  PROVE  ControlInv'
<1>1. CASE DirectCall \/ IndirectCall
  <2> DEFINE kinds == {"call", "call*"}
  <2>1. At(kinds) /\ {"enter", "leave"} \cap kinds = {}
    BY <1>1 DEF DirectCall, IndirectCall, At
  <2>2. DirectCall => At({"call"}) /\ Invoke(DefinitionOf(Here[2]), Here[3])
    BY DEF DirectCall
  <2> HIDE DEF kinds
  <2>3. pc \in Nat /\ pc # 0 /\ pc \notin Positions("enter") /\ pc \notin Positions("leave")
    BY <2>1, TokenPlace
  <2>4. InCall(Len(calls), pc + 1) /\ Linked
    BY <2>3, Onward DEF ControlInv
  <2>5. CASE DirectCall
    <3>1. Here = program[pc] /\ pc \in Positions("call")
      BY <2>2, <2>5, TokenPlace DEF Positions
    <3>2. DefinitionOf(Here[2]) \in Positions("fun")
      BY <2>4, <3>1, DefinitionFound
    <3>3. QED
      BY <2>2, <2>3, <2>4, <2>5, <3>2, InvokeStep
  <2>6. CASE IndirectCall
    <3>1. PICK f : f.pos \in Positions("fun") /\ Invoke(f.pos, Here[2])
      BY <2>6 DEF IndirectCall
    <3>2. QED
      BY <2>3, <2>4, <3>1, InvokeStep
  <2>7. QED
    BY <1>1, <2>5, <2>6
<1>2. CASE CallMain
  <2>1. pc = Len(program) + 1 /\ ~Calling /\ Invoke(DefinitionOf("main"), 0)
    BY <1>2 DEF CallMain
  <2>2. pc \in Nat /\ pc # 0 /\ pc \notin Positions("enter") /\ pc \notin Positions("leave")
    BY <2>1, WholeFacts
  <2>3. InCall(Len(calls), pc + 1) /\ Linked
    BY <2>2, Onward DEF ControlInv
  <2>4. DefinitionOf("main") \in Positions("fun")
    BY <2>3, DefinitionFound
  <2>5. QED
    BY <2>1, <2>2, <2>3, <2>4, InvokeStep
<1>3. QED
  BY <1>1, <1>2

\* The first token is at file level.
LEMMA BeginStep ==
  ASSUME WholeVisited, ControlInv, UNCHANGED <<program, exitCode>>, Begin
  PROVE  ControlInv'
<1>1. pc = 0 /\ exitCode = 0 /\ Linked /\ pc' = 1 /\ UNCHANGED calls
  BY DEF Begin
<1>2. calls = <<>> /\ DOMAIN calls = {} /\ Len(calls) = 0
  BY <1>1, CallFacts, EmptySeq DEF ControlInv
<1>3. exitCode' = 0 /\ Linked'
  BY <1>1, LinkedKept
<1>4. AtFileLevel(1)'
  <2>1. Rank("enter", 1 - 1) = 0 /\ Rank("leave", 1 - 1) = 0
    BY RankZero, WholeFacts
  <2>2. Rank("enter", 1 - 1)' = 0 /\ Rank("leave", 1 - 1)' = 0
    BY <2>1, RankKept
  <2>3. QED
    BY <2>2 DEF AtFileLevel
<1>5. AtFileLevel(pc)'
  BY <1>1, <1>4 DEF AtFileLevel
<1>6. QED
  BY <1>1, <1>2, <1>3, <1>5, CallFacts DEF ControlInv, InCall

LEMMA ExecuteControl ==
  ASSUME WholeVisited, ControlInv, UNCHANGED <<program, exitCode>>, Execute
  PROVE  ControlInv'
BY BeginStep, SkipStep, CalledStep, PlainStep, ScopeStep, TransferStep, EnterStep, EndCallStep DEF Execute

-----------------------------------------------------------------------------
(* The calls that are made are in the call graph *)

\* A call by name stands in the body of the function whose call is active.
LEMMA CallRecorded ==
  ASSUME WholeVisited, ControlInv, DirectCall, DefinedAhead
  PROVE  \E e \in callGraph : e.caller = program[Current.def][2] /\ e.callee = Here[2]
<1>1. /\ pc \in Positions("call") /\ Here = program[pc] /\ pc \in 1..Len(program)
      /\ pc \in Nat /\ pc # 0 /\ pc \notin Positions("enter") /\ pc \notin Positions("leave")
  <2> DEFINE kinds == {"call"}
  <2>1. At(kinds) /\ {"enter", "leave"} \cap kinds = {}
    BY DEF DirectCall
  <2>2. Here[1] = "call"
    BY <2>1 DEF At
  <2> HIDE DEF kinds
  <2>3. QED
    BY <2>1, <2>2, TokenPlace DEF Positions
<1>2. InCall(Len(calls), pc)
  BY <1>1 DEF ControlInv
<1>3. /\ pc <= pos /\ Rank("enter", pc) = Rank("leave", pc) + 1
      /\ \A q \in Positions("fun") : q <= pos /\ Rank("fun", q) = Rank("enter", pc) =>
           \E e \in callGraph : e.caller = program[q][2] /\ e.callee = program[pc][2]
  <2>1. pc <= pos /\ CallsRecorded
    BY <1>1, WholeFacts DEF WholeVisited, SourceInv
  <2>2. \E q \in Positions("fun") : q < pc /\ program[q][2] = program[pc][2]
    BY <1>1 DEF DefinedAhead
  <2>3. QED
    BY <1>1, <2>1, <2>2 DEF CallsRecorded
<1>4. Len(calls) # 0
  <2> SUFFICES ASSUME Len(calls) = 0
               PROVE  FALSE
    OBVIOUS
  <2>1. Rank("enter", pc - 1) = Rank("leave", pc - 1)
    BY <1>2 DEF InCall, AtFileLevel
  <2>2. Rank("enter", pc) = Rank("enter", pc - 1) /\ Rank("leave", pc) = Rank("leave", pc - 1)
        /\ Rank("leave", pc) \in Nat
    BY <1>1, RankHere
  <2>3. QED
    BY <1>3, <2>1, <2>2
<1>5. Current.def \in Positions("fun") /\ Rank("enter", pc) = Rank("fun", Current.def)
  BY <1>2, <1>4, CallFacts DEF Current, InCall, Inside
<1>6. Current.def <= pos
  BY <1>5, WholeFacts
<1>7. QED
  BY <1>1, <1>3, <1>5, <1>6

LEMMA OthersCallNothing ==
  ASSUME Execute
  PROVE  DirectCall \/ UNCHANGED called
BY DEF Execute, Begin, SkipDefinition, CallMain, Evaluate, Perform, DeclareVariable, Initialize,
   Discard, Transfer, OpenScope, CloseScope, IndirectCall, Enter, BindParameter, EndCall

LEMMA ExecuteRecords ==
  ASSUME WholeVisited, ControlInv, UNCHANGED <<program, callGraph>>, Execute,
         DefinedAhead => CallsInCallGraph
  PROVE  (DefinedAhead => CallsInCallGraph)'
<1>1. DefinedAhead' => DefinedAhead
  <2>1. Positions("fun")' = Positions("fun") /\ Positions("call")' = Positions("call")
    BY RankKept
  <2>2. QED
    BY <2>1 DEF DefinedAhead
<1>2. SUFFICES ASSUME DefinedAhead
               PROVE  CallsInCallGraph'
  BY <1>1
<1>3. CASE UNCHANGED called
  BY <1>2, <1>3 DEF CallsInCallGraph
<1>4. CASE DirectCall
  <2>1. called' = called \cup {<<program[Current.def][2], Here[2]>>}
    BY <1>4 DEF DirectCall
  <2>2. \E e \in callGraph : e.caller = program[Current.def][2] /\ e.callee = Here[2]
    BY <1>2, <1>4, CallRecorded
  <2>3. QED
    BY <1>2, <2>1, <2>2 DEF CallsInCallGraph
<1>5. QED
  BY <1>3, <1>4, OthersCallNothing

\* The machine starts when the command has ended.
LEMMA CommandHasEnded ==
  ASSUME LineInv, LineNext
  PROVE  exitCode # 0
<1>1. stage # "exited"
  BY DEF LineNext, ReadArgument, EndArguments, AddSourceFile, Visit, EndVisit, VerifySVFIR,
     DumpSVFIR, Solve, DumpPts
<1>2. QED
  BY <1>1 DEF LineInv, StageInv

LEMMA CommandControl ==
  ASSUME LineInv, ControlInv, LineNext, UNCHANGED machine
  PROVE  ControlInv' /\ called' = {}
<1>1. pc = 0
  BY CommandHasEnded DEF ControlInv
<1>2. pc' = 0 /\ calls' = calls /\ called' = called
  BY <1>1 DEF machine
<1>3. calls = <<>> /\ called = {} /\ IsSequence(calls) /\ DOMAIN calls = {}
  BY <1>1, CallFacts, EmptySeq DEF ControlInv
<1>4. QED
  BY <1>2, <1>3 DEF ControlInv

LEMMA MachineRunsLine == MachineSpec => LineSpec
<1>1. MachineInit => LineInit
  BY DEF MachineInit
<1>2. [MachineNext]_<<vars, frontend, machine>> => [LineNext]_<<vars, frontend>>
  BY DEF MachineNext
<1>3. QED
  BY <1>1, <1>2, PTL DEF MachineSpec, LineSpec

\* What is executed has been visited.
RunVisited == exitCode = 0 /\ Linked => WholeVisited

LEMMA RunVisitedHolds ==
  ASSUME ~StaticFunctions, TextsStructured
  PROVE  LineSpec => []RunVisited
<1>1. ASSUME LineInv, TextInv, TypeOK, LifecycleInv, PlaceInv, VisitComplete, SourceInv,
             ProgramStructured, NothingRead
      PROVE  RunVisited
  BY <1>1, RunIsVisited DEF RunVisited
<1>2. LineSpec => []SourceInv
  BY SourceHolds
<1>3. LineSpec => []ProgramStructured
  BY StructuredHolds
<1>4. QED
  BY <1>1, <1>2, <1>3, LineInvHolds, TextHolds, VisitsComplete, NothingReadHolds, CommandVisits,
     LifecycleHolds, VisitorKeepsItsPlace, PTL

MachineInv == ControlInv /\ (DefinedAhead => CallsInCallGraph)

LEMMA MachineInitInv ==
  ASSUME MachineInit
  PROVE  MachineInv
<1>1. pc = 0 /\ calls = <<>> /\ called = {}
  BY DEF MachineInit
<1>2. IsSequence(calls) /\ DOMAIN calls = {}
  BY <1>1, EmptySeq, SequenceFacts DEF IsSequence
<1>3. QED
  BY <1>1, <1>2 DEF MachineInv, ControlInv, CallsInCallGraph

LEMMA MachineStarts ==
  ASSUME TextInv, Execute
  PROVE  pc # 0 \/ Begin
<1>1. Len(program) \in Nat
  BY TextHasSize DEF TextSized
<1>2. \A kinds : At(kinds) => pc # 0
  BY <1>1 DEF At
<1>3. CallMain => pc # 0
  BY <1>1 DEF CallMain
<1>4. QED
  BY <1>2, <1>3 DEF Execute, SkipDefinition, Evaluate, Perform, DeclareVariable, Initialize, Discard,
     Transfer, OpenScope, CloseScope, DirectCall, IndirectCall, Enter, BindParameter, EndCall

LEMMA MachineStutters ==
  ASSUME MachineInv, UNCHANGED <<program, exitCode, callGraph, pc, calls, called>>
  PROVE  MachineInv'
<1>1. ControlInv'
  <2>1. CASE pc = 0
    <3>1. calls = <<>> /\ called = {} /\ IsSequence(calls) /\ DOMAIN calls = {}
      BY <2>1, CallFacts, EmptySeq DEF MachineInv, ControlInv
    <3>2. QED
      BY <2>1, <3>1 DEF ControlInv
  <2>2. CASE pc # 0
    <3>1. PICK q \in Nat \ {0} : q = pc
      BY <2>2 DEF MachineInv, ControlInv
    <3>2. InCall(Len(calls), q) /\ pc' = q /\ SameCalls
      BY <2>2, <3>1, CallsUnchanged DEF MachineInv, ControlInv
    <3>3. QED
      BY <2>2, <3>2, ControlMoves DEF MachineInv
  <2>3. QED
    BY <2>1, <2>2
<1>2. DefinedAhead' => DefinedAhead
  <2>1. Positions("fun")' = Positions("fun") /\ Positions("call")' = Positions("call")
    BY RankKept
  <2>2. QED
    BY <2>1 DEF DefinedAhead
<1>3. (DefinedAhead => CallsInCallGraph)'
  BY <1>2 DEF MachineInv, CallsInCallGraph
<1>4. QED
  BY <1>1, <1>3 DEF MachineInv

LEMMA MachineStepInv ==
  ASSUME LineInv, TextInv, RunVisited, MachineInv, [MachineNext]_<<vars, frontend, machine>>
  PROVE  MachineInv'
<1>1. CASE LineNext /\ UNCHANGED machine
  <2>1. ControlInv' /\ called' = {}
    BY <1>1, CommandControl DEF MachineInv
  <2>2. CallsInCallGraph'
    BY <2>1 DEF CallsInCallGraph
  <2>3. QED
    BY <2>1, <2>2 DEF MachineInv
<1>2. CASE Execute /\ UNCHANGED <<vars, frontend>>
  <2>1. exitCode = 0 /\ Linked
    BY <1>2, MachineStarts DEF Begin, MachineInv, ControlInv
  <2>2. WholeVisited
    BY <2>1 DEF RunVisited
  <2>3. UNCHANGED <<program, exitCode, callGraph>>
    BY <1>2 DEF vars, graphs, frontend
  <2>4. ControlInv'
    BY <1>2, <2>2, <2>3, ExecuteControl DEF MachineInv
  <2>5. (DefinedAhead => CallsInCallGraph)'
    BY <1>2, <2>2, <2>3, ExecuteRecords DEF MachineInv
  <2>6. QED
    BY <2>4, <2>5 DEF MachineInv
<1>3. CASE UNCHANGED <<vars, frontend, machine>>
  BY <1>3, MachineStutters DEF vars, graphs, frontend, machine
<1>4. QED
  BY <1>1, <1>2, <1>3 DEF MachineNext

\* Whatever the programs, when they run on from where ts-svf has analysed them: every call
\* by name that they ever make, over any number of calls and rounds of loops, is an edge
\* of the call graph, if each function is defined in the file of its caller or in one named
\* before it.  The visitor takes the n-th body for that of the n-th function it has put in
\* its list, whatever the names are; that this list and the bodies never fall out of step
\* is what makes the caller of the edge the function that calls.  Bodies that the visitor
\* passes over (a static function defined in two files) would break the step.
THEOREM CallsAreInCallGraph ==
  ASSUME "static function" \notin Constructs,
         \A text \in Texts(Invocations) : Structured(text)
  PROVE  MachineSpec => [](DefinedAhead => CallsInCallGraph)
<1>1. ~StaticFunctions
  BY Zenon DEF StaticFunctions, Uses
<1>2. TextsStructured
  BY Zenon DEF TextsStructured
<1>3. LineSpec => []RunVisited
  BY <1>1, <1>2, RunVisitedHolds
<1>4. MachineInit => MachineInv
  BY MachineInitInv
<1>5. LineInv /\ TextInv /\ RunVisited /\ MachineInv /\ [MachineNext]_<<vars, frontend, machine>>
        => MachineInv'
  BY MachineStepInv
<1>6. MachineInv => (DefinedAhead => CallsInCallGraph)
  BY DEF MachineInv
<1>7. QED
  BY <1>3, <1>4, <1>5, <1>6, MachineRunsLine, LineInvHolds, TextHolds, PTL DEF MachineSpec
=============================================================================
