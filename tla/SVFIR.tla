------------------------------- MODULE SVFIR -------------------------------
(***************************************************************************)
(* The part of SVF's IR that the frontend writes through SvfShim.h: the    *)
(* program assignment graph (PAG) and the interprocedural CFG (ICFG).      *)
(* SVF is not part of the repository; the graphs are modelled by what the  *)
(* frontend asks of them.                                                  *)
(*                                                                         *)
(* Both graphs number their nodes from 1 in the order of creation, and 0   *)
(* stands for a null node.  None is the name of what has none.             *)
(***************************************************************************)
EXTENDS Naturals, Sequences

NullId == 0
None == ""
LastId(g) == Len(g.node)
Ids(g) == 1..Len(g.node)

(***************************************************************************)
(* PAG nodes: a ValVar ("val") or an ObjVar of some memory kind.  ptr is   *)
(* SVFVar::isPointer, at the ICFG node the variable hangs on, name the     *)
(* source name (None for a temporary), size the number of flattened fields *)
(* of an object.                                                           *)
(***************************************************************************)
ObjKinds == {"stack", "heap", "global", "fun", "const"}
StmtOps == {"Addr", "Copy", "Load", "Store", "Gep", "VarGep", "CallPE", "RetPE"}

Node(kind, ptr, at, name, size) ==
  [kind |-> kind, ptr |-> ptr, at |-> at, name |-> name, size |-> size]
ValNode(at, name) == Node("val", TRUE, at, name, 0)

\* A statement is an edge of the PAG.  arg is the constant offset of a Gep,
\* the ICFG node of a Store, the call node of a CallPE or RetPE, and else 0.
Stmt(op, src, dst, arg) == [op |-> op, src |-> src, dst |-> dst, arg |-> arg]

EmptyPag == [node |-> <<>>, stmt |-> {}]

AddNode(g, n) == [g EXCEPT !.node = Append(@, n)]
AddVal(g, at, name) == AddNode(g, ValNode(at, name))
\* A ValVar for each name of a sequence, in its order.
AddVals(g, at, names) ==
  [g EXCEPT !.node = @ \o [i \in DOMAIN names |-> ValNode(at, names[i])]]

\* SVFIR keeps one edge per (kind, source, destination, label).
AddStmts(g, set) == [g EXCEPT !.stmt = @ \cup set]
AddStmt(g, op, src, dst, arg) == AddStmts(g, {Stmt(op, src, dst, arg)})

\* Mutants: the temporary is not added to the graph; the last node is used again; the
\* temporary has the type int.
EmitUnadded(g, op, src, arg, at) == AddStmt(g, op, src, LastId(g) + 1, arg)
EmitReused(g, op, src, arg, at) == AddStmt(g, op, src, LastId(g), arg)
EmitInt(g, op, src, arg, at) ==
  LET v == AddNode(g, Node("val", FALSE, at, None, 0)) IN AddStmt(v, op, src, LastId(v), arg)
\* A fresh pointer-typed temporary that statement op defines from src.
Emit(g, op, src, arg, at) ==
  LET v == AddVal(g, at, None) IN AddStmt(v, op, src, LastId(v), arg)

\* Mutant: the AddrStmt is forgotten.
AddObjectBare(g, kind, at, name, size) ==
  AddVal(AddNode(g, Node(kind, TRUE, at, name, size)), at, name)
\* An object, the ValVar that holds its address, and the AddrStmt between them.
AddObject(g, kind, at, name, size) ==
  LET o == AddNode(g, Node(kind, TRUE, at, name, size))
      v == AddVal(o, at, name)
  IN  AddStmt(v, "Addr", LastId(o), LastId(v), 0)

Stmts(g, op) == {s \in g.stmt : s.op = op}
Vals(g) == {i \in Ids(g) : g.node[i].kind = "val"}
Objects(g) == {i \in Ids(g) : g.node[i].kind \in ObjKinds}

(***************************************************************************)
(* ICFG nodes carry the function whose basic block they lie in (None for   *)
(* none).  Edges to or from a null node are dropped by the shim.           *)
(***************************************************************************)
GlobalNode == 1
EmptyIcfg == [node |-> <<[kind |-> "global", bb |-> None]>>, edge |-> {}]

AddIcfgNode(c, kind, bb) == [c EXCEPT !.node = Append(@, [kind |-> kind, bb |-> bb])]
AddIcfgEdge(c, kind, a, b) ==
  IF a = NullId \/ b = NullId THEN c
  ELSE [c EXCEPT !.edge = @ \cup {[kind |-> kind, from |-> a, to |-> b]}]

-----------------------------------------------------------------------------
(* The graphs over a set of names: endpoints are nodes of the graph, and the *)
(* source of a statement is an object where its address is taken, and only   *)
(* there.                                                                    *)

IcfgKinds == {"global", "entry", "exit", "intra", "call", "ret"}
EdgeKinds == {"seq", "call", "ret"}
IsIcfg(c, names) ==
  /\ c = [node |-> c.node, edge |-> c.edge]
  /\ c.node \in Seq([kind: IcfgKinds, bb: names]) /\ GlobalNode \in Ids(c)
  /\ c.edge \subseteq [kind: EdgeKinds, from: Ids(c), to: Ids(c)]

PagNode(c, names) ==
  [kind: ObjKinds \cup {"val"}, ptr: BOOLEAN, at: {NullId} \cup Ids(c), name: names, size: Nat]
IsStmt(g, s) ==
  /\ s \in [op: StmtOps, src: Ids(g), dst: Vals(g), arg: Nat]
  /\ s.src \in IF s.op = "Addr" THEN Objects(g) ELSE Vals(g)
IsPag(g, c, names) ==
  /\ g = [node |-> g.node, stmt |-> g.stmt]
  /\ g.node \in Seq(PagNode(c, names))
  /\ \A s \in g.stmt : IsStmt(g, s)
=============================================================================
