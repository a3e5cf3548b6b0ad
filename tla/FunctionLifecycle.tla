-------------------------- MODULE FunctionLifecycle --------------------------
(***************************************************************************)
(* What the two passes over the files of a program promise of each         *)
(* function, whatever the files hold: it is registered before any body is  *)
(* visited, its body is visited once, to its end and alone, calls are      *)
(* recorded while their caller is visited and only to functions that have  *)
(* been registered, and no file is done before its functions are.          *)
(***************************************************************************)
EXTENDS Naturals

CONSTANT Functions

VARIABLES
  pass,    \* what is done with the file at hand; "idle" between files
  status,  \* how far each function has come
  calls    \* the pairs <<caller, callee>>

Statuses == {"unknown", "registered", "visiting", "visited"}
InStatus(s) == {f \in Functions : status[f] = s}

Init ==
  /\ pass = "idle"
  /\ status = [f \in Functions |-> "unknown"]
  /\ calls = {}

StartPrescan == pass = "idle" /\ pass' = "prescan" /\ UNCHANGED <<status, calls>>

Register(f) ==
  /\ pass = "prescan" /\ status[f] = "unknown"
  /\ status' = [status EXCEPT ![f] = "registered"]
  /\ UNCHANGED <<pass, calls>>

StartVisit == pass = "prescan" /\ pass' = "main" /\ UNCHANGED <<status, calls>>

Enter(f) ==
  /\ pass = "main" /\ status[f] = "registered" /\ InStatus("visiting") = {}
  /\ status' = [status EXCEPT ![f] = "visiting"]
  /\ UNCHANGED <<pass, calls>>

Call(f, g) ==
  /\ status[f] = "visiting" /\ status[g] # "unknown"
  /\ calls' = calls \cup {<<f, g>>}
  /\ UNCHANGED <<pass, status>>

Leave(f) ==
  /\ status[f] = "visiting"
  /\ status' = [status EXCEPT ![f] = "visited"]
  /\ UNCHANGED <<pass, calls>>

Finish ==
  /\ pass = "main" /\ InStatus("registered") \cup InStatus("visiting") = {}
  /\ pass' = "idle"
  /\ UNCHANGED <<status, calls>>

Next ==
  \/ StartPrescan \/ StartVisit \/ Finish
  \/ \E f \in Functions : Register(f) \/ Enter(f) \/ Leave(f)
  \/ \E f, g \in Functions : Call(f, g)

Spec == Init /\ [][Next]_<<pass, status, calls>>
=============================================================================
