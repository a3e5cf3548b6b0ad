------------------------------- MODULE Layer3 -------------------------------
(***************************************************************************)
(* Layer 3 for one test: scripts/run_compare.sh has clang compile it, pipes *)
(* the points-to sets that wpa prints of the result, and then those that   *)
(* ts-svf prints of the source, into extract_pts.py, and ends with what    *)
(* compare_pts.py says of the two tables.  The tools are outside processes *)
(* and may die at any point of their output.                               *)
(***************************************************************************)
EXTENDS Integers

CONSTANTS
  Variables,  \* what the dumps have a line for
  Targets,    \* what they point to
  NameOf,     \* the normalised name of each of them
  Temporary   \* the name of a temporary

VARIABLES
  stage,     \* the command that the script is running
  result,    \* what each tool finds: its points-to sets
  dumped,    \* the variables of which the tool at hand has printed its line
  table,     \* extract_pts.py: the sets by name that a tool's lines have given
  died,      \* the tools that have died
  exitCode   \* -1 while the script runs

vars == <<stage, result, dumped, table, died, exitCode>>

Tools == {"wpa", "ts-svf"}
Names == {NameOf[v] : v \in Variables \cup Targets} \ {Temporary}
PointsTo == [Variables -> SUBSET Targets]
NamesOf(set) == {NameOf[t] : t \in set} \ {Temporary}

Init ==
  /\ stage = "clang" /\ exitCode = -1 /\ dumped = {} /\ died = {}
  /\ result \in [Tools -> PointsTo]
  /\ table = [tool \in Tools |-> [n \in Names |-> {}]]

\* set -e: the script fails with clang.
Compile ==
  /\ stage = "clang"
  /\ \/ stage' = "wpa" /\ UNCHANGED exitCode
     \/ stage' = "ended" /\ exitCode' = 1
  /\ UNCHANGED <<result, dumped, table, died>>

\* Mutant: the lines of two variables of one name are not merged.
MergedOver(set, targets) == targets
\* parse_ts and parse_wpa: setdefault(name, set()).update(targets).
Merged(set, targets) == set \cup targets
PrintLine(v) ==
  /\ stage \in Tools /\ v \notin dumped
  /\ dumped' = dumped \cup {v}
  /\ LET targets == NamesOf(result[stage][v])
     IN  table' = IF NameOf[v] = Temporary \/ targets = {} THEN table
                  ELSE [table EXCEPT ![stage][NameOf[v]] = Merged(@, targets)]
  /\ UNCHANGED <<stage, result, died, exitCode>>

\* The status of a pipeline is that of extract_pts.py, which reads what there is.
EndTool ==
  /\ stage \in Tools
  /\ \/ dumped = Variables /\ UNCHANGED died
     \/ died' = died \cup {stage}
  /\ stage' = IF stage = "wpa" THEN "ts-svf" ELSE "compare"
  /\ dumped' = {}
  /\ UNCHANGED <<result, table, exitCode>>

Overlap == {n \in Names : \A tool \in Tools : table[tool][n] # {}}
Unsound ==
  {n \in Overlap : table["ts-svf"][n] \subseteq table["wpa"][n] /\ table["ts-svf"][n] # table["wpa"][n]}
Mismatch ==
  {n \in Overlap : ~(table["ts-svf"][n] \subseteq table["wpa"][n])
                   /\ ~(table["wpa"][n] \subseteq table["ts-svf"][n])}
\* Mutant: a mismatch is let pass.
AcceptedMismatch == Unsound = {}
Accepted == Unsound = {} /\ Mismatch = {}
Compare ==
  /\ stage = "compare"
  /\ exitCode' = IF Accepted THEN 0 ELSE 1
  /\ stage' = "ended"
  /\ UNCHANGED <<result, dumped, table, died>>

Next == Compile \/ EndTool \/ Compare \/ \E v \in Variables : PrintLine(v)
Spec == Init /\ [][Next]_vars

-----------------------------------------------------------------------------
\* What a tool finds of a name, over all the variables of that name.
Finds(tool, n) == UNION {NamesOf(result[tool][v]) : v \in {w \in Variables : NameOf[w] = n}}
SupersetOnShared ==
  \A n \in Names :
    Finds("wpa", n) # {} /\ Finds("ts-svf", n) # {} => Finds("wpa", n) \subseteq Finds("ts-svf", n)

Superset == \A v \in Variables : result["wpa"][v] \subseteq result["ts-svf"][v]
\* No false alarm: where ts-svf finds of each variable what wpa finds, or more, the test
\* passes, though variables of one name share a line of the table, temporaries are
\* dropped, and wpa may have died.
SoundPasses == stage = "compare" /\ "ts-svf" \notin died /\ Superset => Accepted

\* A test that passes with both tools alive has shown the superset on the names that
\* the two share, in whatever order the lines came.
PassShowsSuperset == exitCode = 0 /\ died = {} => SupersetOnShared
=============================================================================
