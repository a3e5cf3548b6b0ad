------------------------------ MODULE Andersen ------------------------------
(***************************************************************************)
(* The points-to sets that SVF's Andersen analysis computes from the PAG,  *)
(* and how main.cpp --dump-pts and extract_pts.py report them.  The solver *)
(* is not part of the repository: it is the least solution of the          *)
(* inclusion constraints that the statements stand for, field-sensitive    *)
(* for constant offsets.                                                   *)
(***************************************************************************)
EXTENDS SVFIR, FiniteSets

\* A cell is a ValVar <<id, 0>> or a field <<object, offset>>; a fact <<c, o>>
\* says that object field o is in the points-to set of cell c.
Cell(id) == <<id, 0>>
PtsOf(facts, c) == {f[2] : f \in {h \in facts : h[1] = c}}
FieldsOf(g, o) == {<<o, k>> : k \in 0..(g.node[o].size - 1)}

FlowsFrom(g, s, facts) ==
  LET src == PtsOf(facts, Cell(s.src))
      into(c, set) == {<<c, o>> : o \in set}
  IN  CASE s.op = "Addr" -> {<<Cell(s.dst), Cell(s.src)>>}
        [] s.op \in {"Copy", "CallPE", "RetPE"} -> into(Cell(s.dst), src)
        [] s.op = "Load" -> into(Cell(s.dst), UNION {PtsOf(facts, o) : o \in src})
        [] s.op = "Store" -> UNION {into(o, src) : o \in PtsOf(facts, Cell(s.dst))}
        [] s.op = "Gep" ->
             into(Cell(s.dst), {<<o[1], (o[2] + s.arg) % g.node[o[1]].size>> : o \in src})
        [] s.op = "VarGep" -> into(Cell(s.dst), UNION {FieldsOf(g, o[1]) : o \in src})

\* One round over the statements.  The solution is the least set that a round leaves alone.
Round(g, facts) == facts \cup UNION {FlowsFrom(g, s, facts) : s \in g.stmt}
IsSolved(g, facts) == Round(g, facts) = facts

\* A line of the normalised dump: the names of what the cells named x, the
\* variable and the fields of its slot alike, point to; nameless targets are skipped.
Report(g, facts, x) ==
  {g.node[f[2][1]].name : f \in {h \in facts : g.node[h[1][1]].name = x}} \ {""}

\* The counts that the verifier prints.
Counts(g) ==
  [addr  |-> Cardinality(Stmts(g, "Addr")),
   copy  |-> Cardinality(Stmts(g, "Copy")),
   load  |-> Cardinality(Stmts(g, "Load")),
   store |-> Cardinality(Stmts(g, "Store")),
   gep   |-> Cardinality(Stmts(g, "Gep") \cup Stmts(g, "VarGep"))]
=============================================================================
