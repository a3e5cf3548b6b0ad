---------------------------- MODULE SVFIRVerifier ----------------------------
(***************************************************************************)
(* Layer 1 of the test suite: the structural checks of                     *)
(* src/src/SVFIRVerifier.cpp, as a predicate on the PAG.  main.cpp runs    *)
(* them on the PAG that the visit of all files has left; here they are     *)
(* asked of the PAG after every step of the visit.                         *)
(***************************************************************************)
EXTENDS TSIRBuilder

IsPointerNode(g, i) == g.node[i].ptr

CheckEdge(g, s) == {s.src, s.dst} \subseteq Ids(g)

CheckAddr(g) ==
  \A s \in Stmts(g, "Addr") :
    CheckEdge(g, s) /\ g.node[s.src].kind \in ObjKinds /\ IsPointerNode(g, s.dst)
CheckCopy(g) ==
  \A s \in Stmts(g, "Copy") :
    CheckEdge(g, s) /\ IsPointerNode(g, s.src) /\ IsPointerNode(g, s.dst)
CheckLoad(g) == \A s \in Stmts(g, "Load") : CheckEdge(g, s) /\ IsPointerNode(g, s.src)
CheckStore(g) == \A s \in Stmts(g, "Store") : CheckEdge(g, s) /\ IsPointerNode(g, s.dst)
CheckGep(g) ==
  \A s \in Stmts(g, "Gep") \cup Stmts(g, "VarGep") : CheckEdge(g, s) /\ IsPointerNode(g, s.src)

\* Every object that the frontend made is the source of an AddrStmt.
CheckReachability(g) ==
  \A o \in Objects(g) : \E s \in Stmts(g, "Addr") : s.src = o

Verify(g) ==
  /\ CheckAddr(g) /\ CheckCopy(g) /\ CheckLoad(g) /\ CheckStore(g) /\ CheckGep(g)
  /\ CheckReachability(g)

\* ts-svf --verify accepts every program: the visitor never copies, loads from,
\* stores through or indexes a node that is not pointer-typed.
VerifierAccepts == Verify(pag)
=============================================================================
