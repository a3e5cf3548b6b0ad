------------------------------ MODULE MCLayer3 ------------------------------
(* Two functions with a pointer x each, and an object without a name. *)
EXTENDS Layer3

NameOfNode ==
  [v \in Variables \cup Targets |->
     CASE v \in {"x of f", "x of g"} -> "x" [] v = "heap" -> Temporary [] OTHER -> v]
=============================================================================
