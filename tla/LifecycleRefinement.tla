------------------------- MODULE LifecycleRefinement -------------------------
(***************************************************************************)
(* The visitor implements FunctionLifecycle: the state of a function is    *)
(* read off funcInfos and currentFunc, the calls off the call graph.       *)
(***************************************************************************)
EXTENDS TSIRBuilder

Status ==
  [f \in Funs |->
     CASE f \notin DOMAIN funcInfos -> "unknown"
       [] f \in DOMAIN funcInfos /\ ~funcInfos[f].defined -> "registered"
       [] f \in DOMAIN funcInfos /\ funcInfos[f].defined /\ f = currentFunc -> "visiting"
       [] f \in DOMAIN funcInfos /\ funcInfos[f].defined /\ f # currentFunc -> "visited"]
Calls == {<<edge.caller, edge.callee>> : edge \in callGraph}

Lifecycle == INSTANCE FunctionLifecycle WITH
  Functions <- Funs, pass <- phase, status <- Status, calls <- Calls

\* Whatever the files, the visitor takes each function through its lifecycle: a body is
\* never visited twice or while another is, a call graph edge never starts outside the
\* function being visited or ends at one not registered, and a file whose visit is over
\* has left no registered function without its body.
ImplementsLifecycle == Lifecycle!Spec

-----------------------------------------------------------------------------
(* What the refinement rests on *)

\* The frames are those of one function: its parameters alone, or what encloses the
\* point of the visit in its body.
Outermost == {"params", "fun"}
Nested(fs) ==
  fs # <<>> =>
    /\ fs[1].kind = "fun" \/ (fs[1].kind = "params" /\ Len(fs) = 1)
    /\ \A i \in 2..Len(fs) : fs[i].kind \notin Outermost
FramesNested == Nested(frames)

\* There is a current function exactly while there are frames, in the main pass, and
\* its body counts as visited from the beginning.
CurrentIsVisited ==
  /\ currentFunc = None <=> frames = <<>>
  /\ currentFunc # None => phase = "main" /\ funcInfos[currentFunc].defined

\* The main pass still has to meet every function that has no body yet.
UndefinedArePending ==
  /\ \A f \in DOMAIN funcInfos : ~funcInfos[f].defined => \E i \in DOMAIN pending : pending[i] = f
  /\ phase = "idle" => pending = <<>>

\* Between its two passes, and at every point of a body, the visitor knows which
\* functions are done, which one it is in and which ones are left.
LifecycleInv == FramesNested /\ CurrentIsVisited /\ UndefinedArePending
=============================================================================
