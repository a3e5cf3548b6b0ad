----------------------------- MODULE CommandLine -----------------------------
(***************************************************************************)
(* ts-svf: src/src/main.cpp and the TSFrontend that it drives.  The words  *)
(* of the command line are read one by one, then every file is parsed,     *)
(* then all of them are visited, and the PAG that this leaves is verified, *)
(* written out and analysed as the options say.                            *)
(***************************************************************************)
EXTENDS Programs

CONSTANT Invocations  \* what it is started with: the command line and the files on disk

\* The programs that files hold.
Texts(invocations) == UNION {{i.disk[path] : path \in DOMAIN i.disk} : i \in invocations}
ASSUME FileAssumption == \A text \in Texts(Invocations) : WellFormed(text)

Options == {"--verify", "--dump-svfir", "--ander", "--dump-pts"}
IsOption(word) == word \in Options \cup {"--help", "--unknown"}

VARIABLES
  disk,      \* the files that can be read: from their name to their program
  args,      \* the words of the command line that are still to be read
  options,   \* the flags that are set
  srcs,      \* the files named, in their order
  stage,     \* what main does next
  exitCode,  \* -1 while it runs
  program,   \* TSFrontend::files, one after the other
  parsed,    \* how many files are in program
  pos,       \* how many tokens of program have been visited
  made,      \* the object that the visit of a token has made
  written,   \* the reports that it has written
  solution   \* the points-to facts that the analysis has found

frontend == <<disk, args, options, srcs, stage, exitCode, program, parsed, pos, made, written, solution>>

LineInit ==
  /\ Init
  /\ \E i \in Invocations : disk = i.disk /\ args = i.args
  /\ options = {} /\ srcs = <<>>
  /\ stage = "arguments" /\ exitCode = -1
  /\ program = <<>> /\ parsed = 0 /\ pos = 0 /\ made = [p \in {} |-> NullId]
  /\ written = {} /\ solution = {}

\* return code; from main.
Exit(code) == stage' = "exited" /\ exitCode' = code
Goto(next) == stage' = next /\ UNCHANGED exitCode

\* The loop over argv: --help and an unknown option end it at once.
ReadArgument ==
  /\ stage = "arguments" /\ args # <<>>
  /\ args' = Tail(args)
  /\ LET word == Head(args)
     IN  \/ word = "--help" /\ Exit(0) /\ UNCHANGED <<options, srcs>>
         \/ word = "--unknown" /\ Exit(1) /\ UNCHANGED <<options, srcs>>
         \/ /\ word \in Options
            /\ options' = options \cup {word} \cup (IF word = "--dump-pts" THEN {"--ander"} ELSE {})
            /\ UNCHANGED <<srcs, stage, exitCode>>
         \/ /\ ~IsOption(word)
            /\ srcs' = Append(srcs, word)
            /\ UNCHANGED <<options, stage, exitCode>>
  /\ UNCHANGED <<disk, program, parsed, pos, made, written, solution, vars>>

EndArguments ==
  /\ stage = "arguments" /\ args = <<>>
  /\ IF srcs = <<>> THEN Exit(1) ELSE Goto("files")
  /\ UNCHANGED <<disk, args, options, srcs, program, parsed, pos, made, written, solution, vars>>

\* addSourceFile.  A file that cannot be opened ends the run.
AddSourceFile ==
  /\ stage = "files" /\ parsed < Len(srcs)
  /\ LET path == srcs[parsed + 1]
     IN  \/ /\ path \in DOMAIN disk
            /\ program' = program \o disk[path] /\ parsed' = parsed + 1
            /\ UNCHANGED <<stage, exitCode>>
         \/ path \notin DOMAIN disk /\ Exit(1) /\ UNCHANGED <<program, parsed>>
  /\ UNCHANGED <<disk, args, options, srcs, pos, made, written, solution, vars>>

\* Mutant: a file is visited as soon as it is read.
FilesReadEarly == parsed > 0
FilesRead == parsed = Len(srcs)

\* One step of buildSVFIR's visit of the files.
Visit ==
  /\ stage = "files" /\ FilesRead /\ pos < Len(program)
  /\ Step(program[pos + 1])
  /\ pos' = pos + 1
  /\ LET new == Objects(pag') \ Objects(pag)
     IN  made' = IF new = {} THEN made ELSE Bind(made, pos + 1, CHOOSE o \in new : TRUE)
  /\ UNCHANGED <<disk, args, options, srcs, stage, exitCode, program, parsed, written, solution>>

EndVisit ==
  /\ stage = "files" /\ FilesRead /\ pos = Len(program)
  /\ Goto("built")
  /\ UNCHANGED <<disk, args, options, srcs, program, parsed, pos, made, written, solution, vars>>

\* Mutant: the verdict is not looked at.
RejectNothing == FALSE
Rejected == "--verify" \in options /\ ~Verify(pag)
VerifySVFIR ==
  /\ stage = "built"
  /\ IF Rejected THEN Exit(1) ELSE Goto("verified")
  /\ UNCHANGED <<disk, args, options, srcs, program, parsed, pos, made, written, solution, vars>>

DumpSVFIR ==
  /\ stage = "verified"
  /\ written' = written \cup ({"--dump-svfir"} \cap options)
  /\ Goto("solving")
  /\ UNCHANGED <<disk, args, options, srcs, program, parsed, pos, made, solution, vars>>

\* AndersenWaveDiff, round by round.
Solve ==
  /\ stage = "solving" /\ "--ander" \in options
  /\ ~IsSolved(pag, solution) /\ solution' = Round(pag, solution)
  /\ UNCHANGED <<disk, args, options, srcs, stage, exitCode, program, parsed, pos, made, written, vars>>

DumpPts ==
  /\ stage = "solving"
  /\ "--ander" \in options => IsSolved(pag, solution)
  /\ written' = written \cup ({"--dump-pts"} \cap options)
  /\ Exit(0)
  /\ UNCHANGED <<disk, args, options, srcs, program, parsed, pos, made, solution, vars>>

LineNext ==
  \/ ReadArgument \/ EndArguments \/ AddSourceFile
  \/ Visit \/ EndVisit \/ VerifySVFIR \/ DumpSVFIR \/ Solve \/ DumpPts

LineSpec == LineInit /\ [][LineNext]_<<vars, frontend>> /\ WF_<<vars, frontend>>(LineNext)

-----------------------------------------------------------------------------
\* A run that the verifier, an unreadable file or the command line ends has written
\* nothing, and one that succeeds has read every file before it visited the first
\* token and has visited them all to their end: a script that tests the exit code
\* alone never compares half a dump.  Only --help succeeds without a file.
AllOrNothing ==
  /\ exitCode = 1 => written = {} /\ solution = {}
  /\ pos > 0 => parsed = Len(srcs)
  /\ exitCode = 0 /\ parsed > 0 =>
       /\ args = <<>> /\ parsed = Len(srcs) /\ pos = Len(program)
       /\ written = options \cap {"--dump-svfir", "--dump-pts"}

\* With --verify, what the verifier rejects is neither dumped nor analysed.
RejectedNeverReported ==
  "--verify" \in options /\ (written # {} \/ solution # {}) => Verify(pag)

\* When the visit of the files has ended, nothing is left open: no operand or scope waits
\* for its construct, and every function that was registered has been visited.
VisitComplete ==
  pos = Len(program) =>
    /\ phase = "idle" /\ frames = <<>> /\ stack = <<>> /\ scopes = <<>>
    /\ \A f \in DOMAIN funcInfos : funcInfos[f].defined

\* What each stage of main leaves to the next: the property of the reports holds at the
\* end because nothing is written before the verdict and nothing is read after it.
StageInv ==
  /\ parsed \in Nat /\ (exitCode = -1 <=> stage # "exited")
  /\ stage = "arguments" => parsed = 0 /\ pos = 0
  /\ stage \in {"arguments", "files", "built", "verified"} => written = {} /\ solution = {}
  /\ stage \in {"files", "built", "verified", "solving"} => args = <<>>
  /\ stage \in {"built", "verified", "solving"} => parsed = Len(srcs) /\ pos = Len(program)
  /\ stage \in {"verified", "solving"} => ~Rejected
  /\ stage = "solving" => written = options \cap {"--dump-svfir"}
=============================================================================
