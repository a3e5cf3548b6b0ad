---------------------------- MODULE Layer3Proofs ----------------------------
(* Layer 3's verdict, for all results of the tools, names and numbers of variables. *)
EXTENDS Layer3, TLAPS

\* The table of a tool has the lines of a set of variables.
Holds(tool, lines) ==
  \A v \in lines : NameOf[v] # Temporary => NamesOf(result[tool][v]) \subseteq table[tool][NameOf[v]]
Compared == stage = "compare" \/ exitCode = 0

TypeInv ==
  /\ stage \in {"clang", "wpa", "ts-svf", "compare", "ended"}
  /\ dumped \subseteq Variables
  /\ result \in [Tools -> PointsTo]
  /\ table \in [Tools -> [Names -> SUBSET Names]]
OnlyFindings == \A tool \in Tools, n \in Names : table[tool][n] \subseteq Finds(tool, n)
LinesRead ==
  /\ stage = "clang" => dumped = {}
  /\ stage \in Tools => Holds(stage, dumped)
  /\ stage = "ts-svf" \/ Compared => "wpa" \in died \/ Holds("wpa", Variables)
  /\ Compared => "ts-svf" \in died \/ Holds("ts-svf", Variables)
Verdict ==
  /\ stage # "ended" => exitCode = -1
  /\ exitCode = 0 => Accepted
Inv == TypeInv /\ OnlyFindings /\ LinesRead /\ Verdict

-----------------------------------------------------------------------------
LEMMA InitInv == Init => Inv
<1> SUFFICES ASSUME Init PROVE Inv
  OBVIOUS
<1>1. TypeInv
  BY DEF Init, TypeInv
<1>2. OnlyFindings
  BY DEF Init, OnlyFindings
<1>3. LinesRead
  BY DEF Init, LinesRead, Compared, Tools
<1>4. Verdict
  BY DEF Init, Verdict
<1>5. QED
  BY <1>1, <1>2, <1>3, <1>4 DEF Inv

LEMMA CompileInv == ASSUME Inv, Compile PROVE Inv'
<1>1. TypeInv'
  BY DEF Inv, TypeInv, Compile
<1>2. OnlyFindings'
  BY DEF Inv, OnlyFindings, Finds, Compile
<1>3. LinesRead'
  BY DEF Inv, LinesRead, Verdict, Compared, Holds, Tools, Compile
<1>4. Verdict'
  BY DEF Inv, Verdict, Compile
<1>5. QED
  BY <1>1, <1>2, <1>3, <1>4 DEF Inv

\* A line adds what its tool finds of its variable to the set of the variable's name, and
\* takes nothing from any set.
LEMMA PrintLineTable ==
  ASSUME TypeInv, NEW v \in Variables, PrintLine(v)
  PROVE  /\ table' \in [Tools -> [Names -> SUBSET Names]]
         /\ \A tool \in Tools, n \in Names :
              /\ table[tool][n] \subseteq table'[tool][n]
              /\ \A x \in table'[tool][n] :
                   x \in table[tool][n]
                     \/ (tool = stage /\ n = NameOf[v] /\ x \in NamesOf(result[tool][v]))
         /\ NameOf[v] # Temporary => NamesOf(result[stage][v]) \subseteq table'[stage][NameOf[v]]
<1> DEFINE targets == NamesOf(result[stage][v])
<1>1. stage \in Tools /\ targets \subseteq Names
  BY DEF PrintLine, TypeInv, NamesOf, Names, PointsTo
<1>2. CASE NameOf[v] = Temporary \/ targets = {}
  <2>1. table' = table
    BY <1>2 DEF PrintLine
  <2>2. NameOf[v] # Temporary => targets = {}
    BY <1>2
  <2>3. QED
    BY <2>1, <2>2 DEF TypeInv
<1>3. CASE NameOf[v] # Temporary /\ targets # {}
  <2>1. NameOf[v] \in Names
    BY <1>3 DEF Names
  <2>2. table' = [table EXCEPT ![stage][NameOf[v]] = @ \cup targets]
    BY <1>3 DEF PrintLine, Merged
  <2>3. \A tool \in Tools, n \in Names :
          table'[tool][n] = IF tool = stage /\ n = NameOf[v] THEN table[tool][n] \cup targets
                            ELSE table[tool][n]
    BY <1>1, <2>1, <2>2 DEF TypeInv
  <2>4. table' \in [Tools -> [Names -> SUBSET Names]]
    BY <1>1, <2>1, <2>2 DEF TypeInv
  <2>5. QED
    BY <1>1, <2>1, <2>3, <2>4
<1>4. QED
  BY <1>2, <1>3

LEMMA PrintLineInv == ASSUME Inv, NEW v \in Variables, PrintLine(v) PROVE Inv'
<1> USE DEF Inv
<1>1. /\ stage \in Tools /\ stage' = stage /\ result' = result /\ died' = died
      /\ exitCode' = exitCode /\ dumped' = dumped \cup {v}
  BY DEF PrintLine
<1>2. TypeInv'
  BY <1>1, PrintLineTable DEF TypeInv
<1>3. OnlyFindings'
  <2> SUFFICES ASSUME NEW tool \in Tools, NEW n \in Names, NEW x \in table'[tool][n]
               PROVE  x \in Finds(tool, n)'
    BY DEF OnlyFindings
  <2>1. Finds(tool, n)' = Finds(tool, n)
    BY <1>1 DEF Finds
  <2>2. CASE x \in table[tool][n]
    BY <2>1, <2>2 DEF OnlyFindings
  <2>3. CASE tool = stage /\ n = NameOf[v] /\ x \in NamesOf(result[tool][v])
    BY <2>1, <2>3 DEF Finds
  <2>4. QED
    BY <2>2, <2>3, PrintLineTable
<1>4. LinesRead'
  <2>1. ASSUME NEW tool \in Tools, NEW lines \in SUBSET Variables, Holds(tool, lines)
        PROVE  Holds(tool, lines)'
    <3> SUFFICES ASSUME NEW w \in lines, NameOf[w] # Temporary
                 PROVE  NamesOf(result[tool][w]) \subseteq table'[tool][NameOf[w]]
      BY <1>1 DEF Holds, NamesOf
    <3>1. NameOf[w] \in Names
      BY DEF Names
    <3>2. table[tool][NameOf[w]] \subseteq table'[tool][NameOf[w]]
      BY <3>1, PrintLineTable
    <3>3. QED
      BY <2>1, <3>2 DEF Holds
  <2>2. Holds(stage, dumped)'
    <3> SUFFICES ASSUME NEW w \in dumped \cup {v}, NameOf[w] # Temporary
                 PROVE  NamesOf(result[stage][w]) \subseteq table'[stage][NameOf[w]]
      BY <1>1 DEF Holds, NamesOf
    <3>1. CASE w = v
      BY <3>1, PrintLineTable
    <3>2. CASE w \in dumped
      <4>1. w \in Variables /\ NameOf[w] \in Names
        BY <3>2 DEF Names, TypeInv
      <4>2. NamesOf(result[stage][w]) \subseteq table[stage][NameOf[w]]
        BY <1>1, <3>2 DEF LinesRead, Holds
      <4>3. table[stage][NameOf[w]] \subseteq table'[stage][NameOf[w]]
        BY <1>1, <4>1, PrintLineTable
      <4>4. QED
        BY <4>2, <4>3
    <3>3. QED
      BY <3>1, <3>2
  <2>3. (Holds("wpa", Variables) => Holds("wpa", Variables)')
        /\ (Holds("ts-svf", Variables) => Holds("ts-svf", Variables)')
    BY <2>1 DEF Tools
  <2>4. QED
    BY <1>1, <2>2, <2>3 DEF LinesRead, Compared, Tools, Holds
<1>5. Verdict'
  BY <1>1 DEF Verdict, Tools
<1>6. QED
  BY <1>2, <1>3, <1>4, <1>5

LEMMA EndToolInv == ASSUME Inv, EndTool PROVE Inv'
<1> USE DEF Inv
<1>1. TypeInv'
  BY DEF TypeInv, EndTool
<1>2. OnlyFindings'
  BY DEF OnlyFindings, Finds, EndTool
<1>3. LinesRead'
  <2>1. exitCode # 0 /\ exitCode' = exitCode
    BY DEF EndTool, Verdict, Tools
  <2>2. stage \in died' \/ Holds(stage, Variables)
    BY DEF EndTool, LinesRead, TypeInv
  <2>3. died \subseteq died' /\ dumped' = {} /\ result' = result /\ table' = table
    BY DEF EndTool
  <2>4. CASE stage = "wpa"
    BY <2>1, <2>2, <2>3, <2>4 DEF EndTool, LinesRead, Compared, Holds, Tools
  <2>5. CASE stage = "ts-svf"
    BY <2>1, <2>2, <2>3, <2>5 DEF EndTool, LinesRead, Compared, Holds, Tools
  <2>6. QED
    BY <2>4, <2>5 DEF EndTool, Tools
<1>4. Verdict'
  BY DEF Verdict, EndTool, Tools
<1>5. QED
  BY <1>1, <1>2, <1>3, <1>4

LEMMA CompareInv == ASSUME Inv, Compare PROVE Inv'
<1> USE DEF Inv
<1>1. TypeInv'
  BY DEF TypeInv, Compare
<1>2. OnlyFindings'
  BY DEF OnlyFindings, Finds, Compare
<1>3. LinesRead'
  BY DEF LinesRead, Compared, Holds, Compare, Tools
<1>4. Verdict'
  BY DEF Verdict, Compare, Accepted, Unsound, Mismatch, Overlap
<1>5. QED
  BY <1>1, <1>2, <1>3, <1>4

LEMMA StepInv == Inv /\ [Next]_vars => Inv'
<1> SUFFICES ASSUME Inv, [Next]_vars PROVE Inv'
  OBVIOUS
<1>1. CASE Compile
  BY <1>1, CompileInv
<1>2. CASE EndTool
  BY <1>2, EndToolInv
<1>3. CASE Compare
  BY <1>3, CompareInv
<1>4. ASSUME NEW v \in Variables, PrintLine(v) PROVE Inv'
  BY <1>4, PrintLineInv
<1>5. CASE UNCHANGED vars
  <2>1. /\ stage' = stage /\ result' = result /\ dumped' = dumped /\ table' = table
        /\ died' = died /\ exitCode' = exitCode
    BY <1>5 DEF vars
  <2>2. TypeInv'
    BY <2>1 DEF Inv, TypeInv
  <2>3. OnlyFindings'
    BY <2>1 DEF Inv, OnlyFindings, Finds
  <2>4. LinesRead'
    BY <2>1 DEF Inv, LinesRead, Compared, Holds
  <2>5. Verdict'
    BY <2>1 DEF Inv, Verdict, Accepted, Unsound, Mismatch, Overlap
  <2>6. QED
    BY <2>2, <2>3, <2>4, <2>5 DEF Inv
<1>6. QED
  BY <1>1, <1>2, <1>3, <1>4, <1>5 DEF Next

LEMMA InvHolds == Spec => []Inv
<1>1. QED
  BY InitInv, StepInv, PTL DEF Spec

-----------------------------------------------------------------------------
\* The table of a tool that has printed every line has all it finds.
LEMMA AllFindings ==
  ASSUME NEW tool \in Tools, Holds(tool, Variables), NEW n \in Names
  PROVE  Finds(tool, n) \subseteq table[tool][n]
<1>1. n # Temporary
  BY DEF Names
<1>2. QED
  BY <1>1 DEF Holds, Finds

\* The verdict is about the superset.
LEMMA AcceptedSuperset ==
  Accepted <=> \A n \in Overlap : table["wpa"][n] \subseteq table["ts-svf"][n]
BY DEF Accepted, Unsound, Mismatch

\* In every run of the script a sound result of ts-svf passes, whatever wpa did: the
\* comparison by name of compare_pts.py raises no false alarm.
THEOREM NoFalseAlarm == Spec => []SoundPasses
<1>1. Inv => SoundPasses
  <2> SUFFICES ASSUME Inv, stage = "compare", "ts-svf" \notin died, Superset PROVE Accepted
    BY DEF SoundPasses
  <2> SUFFICES ASSUME NEW n \in Overlap PROVE table["wpa"][n] \subseteq table["ts-svf"][n]
    BY AcceptedSuperset
  <2>1. n \in Names
    BY DEF Overlap
  <2>2. table["wpa"][n] \subseteq Finds("wpa", n)
    BY <2>1 DEF Inv, OnlyFindings, Tools
  <2>3. Finds("wpa", n) \subseteq Finds("ts-svf", n)
    BY DEF Superset, Finds, NamesOf
  <2>4. Finds("ts-svf", n) \subseteq table["ts-svf"][n]
    BY <2>1, AllFindings DEF Inv, LinesRead, Compared, Tools
  <2>5. QED
    BY <2>2, <2>3, <2>4
<1>2. QED
  BY <1>1, InvHolds, PTL

\* In every run of the script that passes with both tools alive, ts-svf finds of every
\* name that the two share all that wpa finds.
THEOREM PassIsSuperset == Spec => []PassShowsSuperset
<1>1. Inv => PassShowsSuperset
  <2> SUFFICES ASSUME Inv, exitCode = 0, died = {}, NEW n \in Names,
                      Finds("wpa", n) # {}, Finds("ts-svf", n) # {}
               PROVE  Finds("wpa", n) \subseteq Finds("ts-svf", n)
    BY DEF PassShowsSuperset, SupersetOnShared
  <2>1. Finds("wpa", n) \subseteq table["wpa"][n] /\ Finds("ts-svf", n) \subseteq table["ts-svf"][n]
    BY AllFindings DEF Inv, LinesRead, Compared, Tools
  <2>2. table["ts-svf"][n] \subseteq Finds("ts-svf", n)
    BY DEF Inv, OnlyFindings, Tools
  <2>3. n \in Overlap
    BY <2>1 DEF Overlap, Tools
  <2>4. table["wpa"][n] \subseteq table["ts-svf"][n]
    BY <2>3, AcceptedSuperset DEF Inv, Verdict
  <2>5. QED
    BY <2>1, <2>2, <2>4
<1>2. QED
  BY <1>1, InvHolds, PTL
=============================================================================
