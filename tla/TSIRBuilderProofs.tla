------------------------- MODULE TSIRBuilderProofs -------------------------
(***************************************************************************)
(* Proofs about TSIRBuilder, for every program over every choice of names, *)
(* signatures and bounds: TypeOK is inductive, and because each step only  *)
(* adds to the graphs (Grows), every object keeps its one AddrStmt.        *)
(***************************************************************************)
EXTENDS TSIRBuilder, SequenceTheorems, TLAPS

-----------------------------------------------------------------------------
(* The graph operators of SVFIR: each yields a well-formed graph again, and   *)
(* leaves the nodes that were there as they are.                              *)

\* No file has shown a struct without fields.
StructsHaveFields == \A s \in DOMAIN stInfo : stInfo[s] # 0

\* Every object of h that g lacks has its one AddrStmt, and a field unless a struct has
\* none; h has no other new AddrStmt.
AddrsKept(g, h) ==
  /\ \A s \in Stmts(h, "Addr") \ Stmts(g, "Addr") : s.src \notin Ids(g)
  /\ \A o \in Objects(h) \ Ids(g) : \E s \in Stmts(h, "Addr") :
       s.src = o /\ \A t \in Stmts(h, "Addr") : t.src = o => t = s
  /\ StructsHaveFields => \A o \in Objects(h) \ Ids(g) : h.node[o].size # 0

\* h is g with nodes and statements added, objects with their address.
Grows(g, h) ==
  /\ LastId(g) \in Nat /\ LastId(h) \in Nat /\ LastId(g) <= LastId(h)
  /\ \A i \in Ids(g) : h.node[i] = g.node[i]
  /\ g.stmt \subseteq h.stmt
  /\ AddrsKept(g, h)

\* What is a node of g keeps its kind in h.
LEMMA GrowsKinds ==
  ASSUME NEW g, NEW h, Grows(g, h)
  PROVE  Ids(g) \subseteq Ids(h) /\ Vals(g) \subseteq Vals(h) /\ Objects(g) \subseteq Objects(h)
<1>1. Ids(g) \subseteq Ids(h)
  BY DEF Grows, Ids, LastId
<1>2. QED
  BY <1>1 DEF Grows, Vals, Objects

\* A graph that does not change grows.
LEMMA GrowsRefl ==
  ASSUME NEW g, NEW c, NEW names, IsPag(g, c, names)
  PROVE  Grows(g, g)
<1>1. LastId(g) \in Nat
  BY LenProperties DEF IsPag, LastId
<1>2. Objects(g) \ Ids(g) = {}
  BY DEF Objects
<1>3. QED
  BY <1>1, <1>2 DEF Grows, AddrsKept

\* Two additions, one after the other, are an addition.
LEMMA GrowsTrans ==
  ASSUME NEW g, NEW h, NEW k, Grows(g, h), Grows(h, k)
  PROVE  Grows(g, k)
<1>1. LastId(g) \in Nat /\ LastId(k) \in Nat /\ LastId(g) <= LastId(k)
  BY DEF Grows
<1>2. Ids(g) \subseteq Ids(h) /\ Ids(h) \subseteq Ids(k)
  BY GrowsKinds
<1>3. \A i \in Ids(g) : k.node[i] = g.node[i]
  BY <1>2 DEF Grows
<1>4. g.stmt \subseteq k.stmt
  BY DEF Grows
<1>5. \A s \in Stmts(k, "Addr") \ Stmts(g, "Addr") : s.src \notin Ids(g)
  BY <1>2 DEF Grows, AddrsKept, Stmts
<1>6. ASSUME NEW o \in Objects(k) \ Ids(g)
      PROVE  \E s \in Stmts(k, "Addr") :
               s.src = o /\ \A t \in Stmts(k, "Addr") : t.src = o => t = s
  <2>1. CASE o \in Ids(h)
    <3>1. o \in Objects(h)
      BY <2>1, <1>2 DEF Grows, Objects
    <3>2. PICK s \in Stmts(h, "Addr") :
            s.src = o /\ \A t \in Stmts(h, "Addr") : t.src = o => t = s
      BY <3>1, <1>6 DEF Grows, AddrsKept
    <3>3. s \in Stmts(k, "Addr")
      BY <3>2 DEF Grows, Stmts
    <3>4. \A t \in Stmts(k, "Addr") : t.src = o => t \in Stmts(h, "Addr")
      BY <2>1 DEF Grows, AddrsKept
    <3>5. QED
      BY <3>2, <3>3, <3>4
  <2>2. CASE o \notin Ids(h)
    BY <2>2 DEF Grows, AddrsKept
  <2>3. QED
    BY <2>1, <2>2
<1>7. ASSUME NEW o \in Objects(k) \ Ids(g), StructsHaveFields
      PROVE  k.node[o].size # 0
  <2>1. CASE o \in Ids(h)
    <3>1. o \in Objects(h) \ Ids(g) /\ k.node[o] = h.node[o]
      BY <1>7, <2>1 DEF Grows, Objects
    <3>2. QED
      BY <1>7, <3>1 DEF Grows, AddrsKept
  <2>2. CASE o \notin Ids(h)
    BY <1>7, <2>2 DEF Grows, AddrsKept
  <2>3. QED
    BY <2>1, <2>2
<1>8. QED
  BY <1>1, <1>3, <1>4, <1>5, <1>6, <1>7 DEF Grows, AddrsKept

-----------------------------------------------------------------------------
(* The operators on the PAG *)

\* A statement stays one when the graph around it grows.
LEMMA IsStmtGrows ==
  ASSUME NEW g, NEW h, NEW s, IsStmt(g, s), Ids(g) \subseteq Ids(h),
         Vals(g) \subseteq Vals(h), Objects(g) \subseteq Objects(h)
  PROVE  IsStmt(h, s)
  BY DEF IsStmt

\* A node more.
LEMMA AddNodeFacts ==
  ASSUME NEW g, NEW c, NEW names, IsPag(g, c, names), NEW n \in PagNode(c, names)
  PROVE  /\ IsPag(AddNode(g, n), c, names)
         /\ LastId(AddNode(g, n)) = LastId(g) + 1
         /\ LastId(g) \in Nat
         /\ \A i \in Ids(g) : AddNode(g, n).node[i] = g.node[i]
         /\ AddNode(g, n).node[LastId(g) + 1] = n
         /\ AddNode(g, n).stmt = g.stmt
<1> DEFINE h == AddNode(g, n)
<1>1. g.node \in Seq(PagNode(c, names))
  BY DEF IsPag
<1>2. h = [node |-> Append(g.node, n), stmt |-> g.stmt]
  <2>1. g = [node |-> g.node, stmt |-> g.stmt]
    BY DEF IsPag
  <2>2. QED
    BY ONLY <2>1 DEF AddNode
<1>3. /\ h.node \in Seq(PagNode(c, names))
      /\ LastId(h) = LastId(g) + 1
      /\ LastId(g) \in Nat
      /\ \A i \in Ids(g) : h.node[i] = g.node[i]
      /\ h.node[LastId(g) + 1] = n
  BY <1>1, <1>2, AppendProperties, LenProperties DEF LastId, Ids
<1>4. Ids(g) \subseteq Ids(h)
  BY <1>3 DEF Ids, LastId
<1>5. Vals(g) \subseteq Vals(h) /\ Objects(g) \subseteq Objects(h)
  BY <1>3, <1>4 DEF Vals, Objects
<1>6. \A s \in g.stmt : IsStmt(h, s)
  BY <1>4, <1>5, IsStmtGrows DEF IsPag
<1>7. h = [node |-> h.node, stmt |-> h.stmt] /\ h.stmt = g.stmt
  BY <1>2
<1>8. IsPag(h, c, names)
  BY <1>3, <1>6, <1>7 DEF IsPag
<1>9. QED
  BY <1>3, <1>7, <1>8

\* Statements more, none of them an AddrStmt.
LEMMA AddStmtsFacts ==
  ASSUME NEW g, NEW c, NEW names, IsPag(g, c, names), NEW S,
         \A s \in S : IsStmt(g, s) /\ s.op # "Addr"
  PROVE  LET h == AddStmts(g, S)
         IN  IsPag(h, c, names) /\ LastId(h) = LastId(g) /\ h.node = g.node /\ Grows(g, h)
<1> DEFINE h == AddStmts(g, S)
<1>0. h = [g EXCEPT !.stmt = @ \cup S]
  BY DEF AddStmts
<1> HIDE DEF h
<1>1. h = [node |-> g.node, stmt |-> g.stmt \cup S]
  BY <1>0 DEF IsPag
<1>2. h = [node |-> h.node, stmt |-> h.stmt] /\ h.node = g.node /\ h.stmt = g.stmt \cup S
  BY <1>1
<1>3. LastId(h) = LastId(g) /\ Ids(h) = Ids(g) /\ Vals(h) = Vals(g) /\ Objects(h) = Objects(g)
  BY <1>2 DEF LastId, Ids, Vals, Objects
<1>4. \A s \in h.stmt : IsStmt(h, s)
  BY <1>2, <1>3, IsStmtGrows DEF IsPag
<1>5. IsPag(h, c, names)
  BY <1>2, <1>4 DEF IsPag
<1>6. Stmts(h, "Addr") = Stmts(g, "Addr")
  BY <1>2 DEF Stmts
<1>7. LastId(g) \in Nat
  BY LenProperties DEF IsPag, LastId
<1>8. Objects(h) \ Ids(g) = {}
  BY <1>3 DEF Objects
<1>9. Grows(g, h)
  <2>1. AddrsKept(g, h)
    BY <1>6, <1>8 DEF AddrsKept
  <2>2. LastId(g) <= LastId(h)
    BY <1>3, <1>7
  <2>3. QED
    BY <1>2, <1>3, <1>7, <2>1, <2>2 DEF Grows
<1>10. QED
  BY <1>2, <1>3, <1>5, <1>9 DEF h

\* A ValVar more.
LEMMA AddValFacts ==
  ASSUME NEW g, NEW c, NEW names, IsPag(g, c, names), NEW n \in PagNode(c, names), n.kind = "val"
  PROVE  /\ IsPag(AddNode(g, n), c, names) /\ Grows(g, AddNode(g, n))
         /\ LastId(g) \in Nat /\ LastId(AddNode(g, n)) = LastId(g) + 1
         /\ LastId(g) + 1 \in Vals(AddNode(g, n))
<1> DEFINE h == AddNode(g, n)
<1>1. /\ IsPag(h, c, names) /\ LastId(g) \in Nat /\ LastId(h) = LastId(g) + 1
      /\ \A i \in Ids(g) : h.node[i] = g.node[i]
      /\ h.node[LastId(g) + 1] = n /\ h.stmt = g.stmt
  BY AddNodeFacts
<1>2. LastId(g) + 1 \in Vals(h)
  BY <1>1 DEF Vals, Ids, LastId
<1>3. \A i \in Ids(h) : i \in Ids(g) \/ i = LastId(g) + 1
  BY <1>1 DEF Ids, LastId
<1>4. Objects(h) \ Ids(g) = {}
  BY <1>1, <1>3 DEF Objects, ObjKinds
<1>5. Stmts(h, "Addr") = Stmts(g, "Addr")
  BY <1>1 DEF Stmts
<1>6. Grows(g, h)
  BY <1>1, <1>4, <1>5 DEF Grows, AddrsKept
<1>7. QED
  BY <1>1, <1>2, <1>6

\* An object, the ValVar of its address and the AddrStmt.
LEMMA AddressedFacts ==
  ASSUME NEW g, NEW c, NEW names, IsPag(g, c, names),
         NEW n \in PagNode(c, names), n.kind \in ObjKinds, StructsHaveFields => n.size # 0,
         NEW v \in PagNode(c, names), v.kind = "val",
         NEW h, h = AddStmt(AddNode(AddNode(g, n), v), "Addr", LastId(g) + 1, LastId(g) + 2, 0)
  PROVE  /\ IsPag(h, c, names) /\ Grows(g, h)
         /\ LastId(g) \in Nat /\ LastId(h) = LastId(g) + 2
         /\ LastId(g) + 1 \in Objects(h) /\ LastId(g) + 2 \in Vals(h)
<1> DEFINE o == AddNode(g, n)
           w == AddNode(o, v)
           addr == Stmt("Addr", LastId(g) + 1, LastId(g) + 2, 0)
<1>1. /\ IsPag(o, c, names) /\ LastId(g) \in Nat /\ LastId(o) = LastId(g) + 1
      /\ \A i \in Ids(g) : o.node[i] = g.node[i]
      /\ o.node[LastId(g) + 1] = n /\ o.stmt = g.stmt
  BY AddNodeFacts
<1>2. /\ IsPag(w, c, names) /\ LastId(w) = LastId(o) + 1
      /\ \A i \in Ids(o) : w.node[i] = o.node[i]
      /\ w.node[LastId(o) + 1] = v /\ w.stmt = o.stmt
  BY <1>1, AddNodeFacts
<1> HIDE DEF o, w
<1>3. /\ LastId(w) = LastId(g) + 2 /\ w.stmt = g.stmt
      /\ \A i \in Ids(g) : w.node[i] = g.node[i]
      /\ w.node[LastId(g) + 1] = n /\ w.node[LastId(g) + 2] = v
  BY <1>1, <1>2 DEF Ids, LastId
<1>4. h = AddStmts(w, {addr})
  BY DEF AddStmt, o, w
<1>5. h = [node |-> w.node, stmt |-> g.stmt \cup {addr}]
  BY <1>2, <1>3, <1>4 DEF AddStmts, IsPag
<1>6. h = [node |-> h.node, stmt |-> h.stmt] /\ h.node = w.node /\ h.stmt = g.stmt \cup {addr}
  BY <1>5
<1>7. LastId(h) = LastId(g) + 2 /\ Ids(h) = Ids(w) /\ Vals(h) = Vals(w) /\ Objects(h) = Objects(w)
  BY <1>3, <1>6 DEF LastId, Ids, Vals, Objects
<1>8. \A i \in Ids(h) : i \in Ids(g) \/ i = LastId(g) + 1 \/ i = LastId(g) + 2
  BY <1>1, <1>7 DEF Ids, LastId
<1>9. LastId(g) + 1 \in Ids(h) /\ LastId(g) + 2 \in Ids(h)
  BY <1>1, <1>7 DEF Ids, LastId
<1>10. LastId(g) + 1 \in Objects(h) /\ LastId(g) + 2 \in Vals(h) \ Objects(h)
  BY <1>3, <1>6, <1>9 DEF Objects, Vals, ObjKinds
<1>11. IsStmt(h, addr)
  BY <1>9, <1>10 DEF IsStmt, Stmt, StmtOps
<1>12. \A s \in g.stmt : IsStmt(h, s)
  BY <1>2, <1>3, <1>7, IsStmtGrows DEF IsPag
<1>13. IsPag(h, c, names)
  BY <1>2, <1>6, <1>11, <1>12 DEF IsPag
<1>14. Stmts(h, "Addr") = Stmts(g, "Addr") \cup {addr}
  BY <1>6 DEF Stmts, Stmt
<1>15. LastId(g) + 1 \notin Ids(g)
  BY <1>1 DEF Ids, LastId
<1>16. \A s \in Stmts(g, "Addr") : s.src \in Ids(g)
  BY DEF Stmts, IsPag, IsStmt
<1>17. AddrsKept(g, h)
  <2>1. \A s \in Stmts(h, "Addr") \ Stmts(g, "Addr") : s.src \notin Ids(g)
    BY <1>14, <1>15 DEF Stmt
  <2>2. Objects(h) \ Ids(g) \subseteq {LastId(g) + 1}
    BY <1>8, <1>10 DEF Objects
  <2>3. addr \in Stmts(h, "Addr") /\ addr.src = LastId(g) + 1
    BY <1>14 DEF Stmt
  <2>4. \A t \in Stmts(h, "Addr") : t.src = LastId(g) + 1 => t = addr
    BY <1>14, <1>15, <1>16
  <2>5. StructsHaveFields => h.node[LastId(g) + 1].size # 0
    BY <1>3, <1>6
  <2>6. QED
    BY <2>1, <2>2, <2>3, <2>4, <2>5 DEF AddrsKept
<1>18. Grows(g, h)
  BY <1>1, <1>3, <1>6, <1>7, <1>17 DEF Grows
<1>19. QED
  BY <1>1, <1>7, <1>10, <1>13, <1>18

\* createLocal, createGlobal, visitString and malloc.
LEMMA AddObjectFacts ==
  ASSUME NEW g, NEW c, NEW names, IsPag(g, c, names), NEW kind \in ObjKinds,
         NEW at \in {NullId} \cup Ids(c), NEW name \in names, NEW size \in Nat,
         StructsHaveFields => size # 0
  PROVE  LET h == AddObject(g, kind, at, name, size)
         IN  /\ IsPag(h, c, names) /\ Grows(g, h)
             /\ LastId(g) \in Nat /\ LastId(h) = LastId(g) + 2
             /\ LastId(g) + 1 \in Objects(h) /\ LastId(g) + 2 \in Vals(h)
<1> DEFINE n == Node(kind, TRUE, at, name, size)
           v == ValNode(at, name)
<1>1. n \in PagNode(c, names) /\ n.kind \in ObjKinds /\ (StructsHaveFields => n.size # 0)
  BY DEF PagNode, Node
<1>2. v \in PagNode(c, names) /\ v.kind = "val"
  BY DEF PagNode, Node, ValNode
<1> HIDE DEF n, v
<1>3. LastId(AddNode(g, n)) = LastId(g) + 1 /\ LastId(g) \in Nat /\ IsPag(AddNode(g, n), c, names)
  BY <1>1, AddNodeFacts
<1>4. LastId(AddNode(AddNode(g, n), v)) = LastId(g) + 2
  BY <1>2, <1>3, AddNodeFacts
<1>5. AddObject(g, kind, at, name, size)
        = AddStmt(AddNode(AddNode(g, n), v), "Addr", LastId(g) + 1, LastId(g) + 2, 0)
  BY <1>3, <1>4 DEF AddObject, AddVal, n, v
<1>6. QED
  BY <1>1, <1>2, <1>5, AddressedFacts

\* A temporary and the statement that defines it.
LEMMA EmitFacts ==
  ASSUME NEW g, NEW c, NEW names, IsPag(g, c, names), None \in names,
         NEW op \in StmtOps \ {"Addr"}, NEW src \in Vals(g), NEW arg \in Nat,
         NEW at \in {NullId} \cup Ids(c)
  PROVE  LET h == Emit(g, op, src, arg, at)
         IN  /\ IsPag(h, c, names) /\ Grows(g, h)
             /\ LastId(g) \in Nat /\ LastId(h) = LastId(g) + 1
             /\ LastId(g) + 1 \in Vals(h)
<1> DEFINE n == ValNode(at, None)
           w == AddNode(g, n)
           s == Stmt(op, src, LastId(g) + 1, arg)
           h == Emit(g, op, src, arg, at)
<1>1. n \in PagNode(c, names) /\ n.kind = "val"
  BY DEF PagNode, Node, ValNode
<1> HIDE DEF n
<1>2. /\ IsPag(w, c, names) /\ Grows(g, w) /\ LastId(g) \in Nat /\ LastId(w) = LastId(g) + 1
      /\ LastId(g) + 1 \in Vals(w)
  BY <1>1, AddValFacts
<1>3. src \in Vals(w)
  BY <1>2, GrowsKinds
<1> HIDE DEF w
<1>4. IsStmt(w, s) /\ s.op # "Addr"
  BY <1>2, <1>3 DEF IsStmt, Stmt, StmtOps, Vals
<1>5. h = AddStmts(w, {s})
  BY <1>2 DEF Emit, AddVal, AddStmt, w, n
<1> HIDE DEF s, h
<1>6. \A t \in {s} : IsStmt(w, t) /\ t.op # "Addr"
  BY <1>4
<1>7. IsPag(h, c, names) /\ LastId(h) = LastId(w) /\ h.node = w.node /\ Grows(w, h)
  BY <1>2, <1>5, <1>6, AddStmtsFacts
<1>8. Grows(g, h)
  BY <1>2, <1>7, GrowsTrans
<1>9. LastId(g) + 1 \in Vals(h)
  BY <1>2, <1>7, GrowsKinds
<1>10. QED
  BY <1>2, <1>7, <1>8, <1>9 DEF h

\* A row of ValVars.
LEMMA AddValsFacts ==
  ASSUME NEW g, NEW c, NEW names, IsPag(g, c, names), NEW at \in {NullId} \cup Ids(c),
         NEW row \in Seq(names)
  PROVE  LET h == AddVals(g, at, row)
         IN  /\ IsPag(h, c, names) /\ Grows(g, h)
             /\ LastId(g) \in Nat /\ LastId(h) = LastId(g) + Len(row)
             /\ \A i \in 1..Len(row) : LastId(g) + i \in Vals(h)
<1> DEFINE more == [i \in DOMAIN row |-> ValNode(at, row[i])]
           h == AddVals(g, at, row)
<1>1. Len(row) \in Nat /\ DOMAIN row = 1..Len(row)
  BY LenProperties
<1>2. \A i \in DOMAIN row : row[i] \in names
  BY <1>1, ElementOfSeq
<1>3. \A i \in DOMAIN row : more[i] \in PagNode(c, names) /\ more[i].kind = "val"
  BY <1>2 DEF PagNode, Node, ValNode
<1>4. more \in [1..Len(row) -> PagNode(c, names)]
  BY <1>1, <1>3
<1>5. more \in Seq(PagNode(c, names)) /\ Len(more) = Len(row)
  BY <1>1, <1>4, SeqDef, LenProperties
<1>51. h = [g EXCEPT !.node = @ \o more]
  BY DEF AddVals
<1> HIDE DEF more, h
<1>6. h = [node |-> g.node \o more, stmt |-> g.stmt]
  BY <1>51 DEF IsPag
<1>7. g.node \in Seq(PagNode(c, names)) /\ LastId(g) \in Nat
  BY LenProperties DEF IsPag, LastId
<1>8. /\ h.node \in Seq(PagNode(c, names)) /\ LastId(h) = LastId(g) + Len(row)
      /\ \A i \in 1..(LastId(g) + Len(row)) :
           h.node[i] = IF i <= LastId(g) THEN g.node[i] ELSE more[i - LastId(g)]
  <2>1. h.node = g.node \o more
    BY <1>6
  <2>2. /\ g.node \o more \in Seq(PagNode(c, names))
        /\ Len(g.node \o more) = Len(g.node) + Len(more)
        /\ \A i \in 1..(Len(g.node) + Len(more)) :
             (g.node \o more)[i] = IF i <= Len(g.node) THEN g.node[i] ELSE more[i - Len(g.node)]
    BY <1>5, <1>7, ConcatProperties
  <2>3. QED
    BY <1>5, <2>1, <2>2 DEF LastId
<1>9. h = [node |-> h.node, stmt |-> h.stmt] /\ h.stmt = g.stmt
  BY <1>6
<1>10. \A i \in Ids(g) : i \in Ids(h) /\ h.node[i] = g.node[i]
  BY <1>1, <1>7, <1>8 DEF Ids, LastId
<1>11. \A i \in 1..Len(row) : LastId(g) + i \in Ids(h) /\ h.node[LastId(g) + i] = more[i]
  <2>1. ASSUME NEW i \in 1..Len(row)
        PROVE  /\ LastId(g) + i \in 1..(LastId(g) + Len(row))
               /\ ~(LastId(g) + i <= LastId(g)) /\ (LastId(g) + i) - LastId(g) = i
    BY <1>1, <1>7
  <2>2. Ids(h) = 1..(LastId(g) + Len(row))
    BY <1>8 DEF Ids, LastId
  <2>3. QED
    BY <1>8, <2>1, <2>2
<1>12. \A i \in 1..Len(row) : LastId(g) + i \in Vals(h)
  <2>1. ASSUME NEW i \in 1..Len(row)
        PROVE  LastId(g) + i \in Ids(h) /\ h.node[LastId(g) + i].kind = "val"
    BY <1>1, <1>3, <1>11
  <2>2. QED
    BY <2>1 DEF Vals
<1>13. Objects(h) \ Ids(g) = {}
  <2>1. SUFFICES ASSUME NEW i \in Ids(h), i \notin Ids(g)
                 PROVE  h.node[i].kind \notin ObjKinds
    BY DEF Objects
  <2>2. i - LastId(g) \in 1..Len(row) /\ h.node[i] = more[i - LastId(g)]
    BY <1>1, <1>7, <1>8, <2>1 DEF Ids, LastId
  <2>3. QED
    BY <1>1, <1>3, <2>2 DEF ObjKinds
<1>14. Ids(g) \subseteq Ids(h) /\ Vals(g) \subseteq Vals(h) /\ Objects(g) \subseteq Objects(h)
  BY <1>10 DEF Vals, Objects
<1>15. \A s \in h.stmt : IsStmt(h, s)
  BY <1>9, <1>14, IsStmtGrows DEF IsPag
<1>16. IsPag(h, c, names)
  BY <1>8, <1>9, <1>15 DEF IsPag
<1>17. AddrsKept(g, h)
  BY <1>9, <1>13 DEF AddrsKept, Stmts
<1>18. LastId(g) <= LastId(h) /\ LastId(h) \in Nat
  BY <1>1, <1>7, <1>8
<1>19. Grows(g, h)
  BY <1>7, <1>9, <1>10, <1>17, <1>18 DEF Grows
<1>20. QED
  BY <1>7, <1>8, <1>12, <1>16, <1>19 DEF h

-----------------------------------------------------------------------------
(* What exactly they add *)

\* The nodes that h has and g lacks.
Fresh(g, h) == Ids(h) \ Ids(g)

\* Statements more, and nothing else.
LEMMA AddStmtsAdds ==
  ASSUME NEW g, NEW c, NEW names, IsPag(g, c, names), NEW S
  PROVE  LET h == AddStmts(g, S)
         IN  h.node = g.node /\ h.stmt = g.stmt \cup S /\ Fresh(g, h) = {}
<1> DEFINE h == AddStmts(g, S)
<1>0. h = [g EXCEPT !.stmt = @ \cup S]
  BY DEF AddStmts
<1> HIDE DEF h
<1>1. h = [node |-> g.node, stmt |-> g.stmt \cup S]
  BY <1>0 DEF IsPag
<1>2. h.node = g.node /\ h.stmt = g.stmt \cup S
  BY <1>1
<1>3. QED
  BY <1>2 DEF Fresh, Ids, h

\* One node more, whatever it is.
LEMMA AddNodeAdds ==
  ASSUME NEW g, NEW c, NEW names, IsPag(g, c, names), NEW n \in PagNode(c, names)
  PROVE  LET h == AddNode(g, n)
         IN  /\ h.stmt = g.stmt /\ Fresh(g, h) = {LastId(g) + 1}
             /\ h.node[LastId(g) + 1] = n
<1> DEFINE h == AddNode(g, n)
<1>1. /\ LastId(h) = LastId(g) + 1 /\ LastId(g) \in Nat
      /\ h.node[LastId(g) + 1] = n /\ h.stmt = g.stmt
  BY AddNodeFacts
<1>2. QED
  BY <1>1 DEF Fresh, Ids, LastId

\* A temporary and the one statement that defines it.
LEMMA EmitAdds ==
  ASSUME NEW g, NEW c, NEW names, IsPag(g, c, names), None \in names, NEW op, NEW src, NEW arg,
         NEW at \in {NullId} \cup Ids(c)
  PROVE  LET h == Emit(g, op, src, arg, at)
             t == LastId(g) + 1
         IN  /\ h.stmt = g.stmt \cup {Stmt(op, src, t, arg)} /\ Fresh(g, h) = {t}
             /\ h.node[t] = ValNode(at, None)
<1> DEFINE n == ValNode(at, None)
           w == AddNode(g, n)
           t == LastId(g) + 1
<1>1. n \in PagNode(c, names)
  BY DEF PagNode, Node, ValNode
<1> HIDE DEF n
<1>2. /\ IsPag(w, c, names) /\ LastId(w) = t
      /\ w.stmt = g.stmt /\ Fresh(g, w) = {t} /\ w.node[t] = n
  BY <1>1, AddNodeFacts, AddNodeAdds
<1>3. Emit(g, op, src, arg, at) = AddStmts(w, {Stmt(op, src, t, arg)})
  BY <1>2 DEF Emit, AddVal, AddStmt, n
<1> HIDE DEF w, t
<1>4. QED
  BY <1>2, <1>3, AddStmtsAdds DEF n, Fresh, Ids, t

\* An object, the ValVar of its address and the AddrStmt.
LEMMA AddObjectAdds ==
  ASSUME NEW g, NEW c, NEW names, IsPag(g, c, names), NEW kind \in ObjKinds,
         NEW at \in {NullId} \cup Ids(c), NEW name \in names, NEW size \in Nat
  PROVE  LET h == AddObject(g, kind, at, name, size)
             o == LastId(g) + 1
         IN  /\ h.stmt = g.stmt \cup {Stmt("Addr", o, o + 1, 0)} /\ Fresh(g, h) = {o, o + 1}
             /\ h.node[o].at = at /\ h.node[o + 1] = ValNode(at, name)
<1> DEFINE n == Node(kind, TRUE, at, name, size)
           v == ValNode(at, name)
           o == LastId(g) + 1
           a == AddNode(g, n)
           w == AddNode(a, v)
<1>1. n \in PagNode(c, names) /\ v \in PagNode(c, names) /\ n.at = at
  BY DEF PagNode, Node, ValNode
<1> HIDE DEF n, v
<1>2. /\ IsPag(a, c, names) /\ LastId(a) = o /\ LastId(g) \in Nat
      /\ a.stmt = g.stmt /\ Fresh(g, a) = {o} /\ a.node[o] = n
  BY <1>1, AddNodeFacts, AddNodeAdds
<1> HIDE DEF a
<1>3. /\ IsPag(w, c, names) /\ LastId(w) = o + 1
      /\ \A i \in Ids(a) : w.node[i] = a.node[i]
      /\ w.stmt = g.stmt /\ Fresh(a, w) = {o + 1} /\ w.node[o + 1] = v
  BY <1>1, <1>2, AddNodeFacts, AddNodeAdds
<1>4. AddObject(g, kind, at, name, size) = AddStmts(w, {Stmt("Addr", o, o + 1, 0)})
  <2>1. AddNode(g, Node(kind, TRUE, at, name, size)) = a /\ AddVal(a, at, name) = w
    BY DEF AddVal, a, n, v
  <2>2. QED
    BY <1>2, <1>3, <2>1 DEF AddObject, AddStmt
<1> HIDE DEF w
<1>5. o \in Ids(a) /\ Fresh(g, w) = {o, o + 1}
  BY <1>2, <1>3 DEF Fresh, Ids, LastId
<1>6. w.node[o].at = at
  BY <1>1, <1>2, <1>3, <1>5
<1> HIDE DEF o
<1>7. QED
  BY <1>3, <1>4, <1>5, <1>6, AddStmtsAdds DEF v, Fresh, Ids, o

\* A row of ValVars, in its order.
LEMMA AddValsAdds ==
  ASSUME NEW g, NEW c, NEW names, IsPag(g, c, names), NEW at \in {NullId} \cup Ids(c),
         NEW row \in Seq(names)
  PROVE  LET h == AddVals(g, at, row)
         IN  /\ h.stmt = g.stmt
             /\ \A i \in 1..Len(row) : h.node[LastId(g) + i] = ValNode(at, row[i])
<1> DEFINE more == [i \in DOMAIN row |-> ValNode(at, row[i])]
           h == AddVals(g, at, row)
<1>1. Len(row) \in Nat /\ DOMAIN row = 1..Len(row)
  BY LenProperties
<1>2. \A i \in DOMAIN row : more[i] \in PagNode(c, names)
  <2>1. \A i \in DOMAIN row : row[i] \in names
    BY <1>1, ElementOfSeq
  <2>2. QED
    BY <2>1 DEF PagNode, Node, ValNode
<1>3. more \in [1..Len(row) -> PagNode(c, names)]
  BY <1>1, <1>2
<1>4. more \in Seq(PagNode(c, names)) /\ Len(more) = Len(row)
  BY <1>1, <1>3, SeqDef, LenProperties
<1>5. \A i \in 1..Len(row) : more[i] = ValNode(at, row[i])
  BY <1>1
<1>6. h = [g EXCEPT !.node = @ \o more]
  BY DEF AddVals
<1> HIDE DEF more, h
<1>7. h = [node |-> g.node \o more, stmt |-> g.stmt]
  BY <1>6 DEF IsPag
<1>8. g.node \in Seq(PagNode(c, names)) /\ Len(g.node) \in Nat
  BY LenProperties DEF IsPag
<1>9. \A i \in 1..Len(row) : h.node[LastId(g) + i] = more[i]
  <2> SUFFICES ASSUME NEW i \in 1..Len(row)
               PROVE  h.node[LastId(g) + i] = more[i]
    OBVIOUS
  <2> DEFINE k == LastId(g) + i
  <2>1. k \in 1..(Len(g.node) + Len(more)) /\ ~(k <= Len(g.node)) /\ k - Len(g.node) = i
    BY <1>1, <1>4, <1>8 DEF LastId
  <2> HIDE DEF k
  <2>2. (g.node \o more)[k] = more[k - Len(g.node)]
    BY <1>4, <1>8, <2>1, ConcatProperties
  <2>3. h.node = g.node \o more
    BY <1>7
  <2>4. QED
    BY <2>1, <2>2, <2>3 DEF k
<1>10. h.stmt = g.stmt /\ \A i \in 1..Len(row) : h.node[LastId(g) + i] = ValNode(at, row[i])
  BY <1>5, <1>7, <1>9
<1>11. QED
  BY <1>10 DEF h

-----------------------------------------------------------------------------
(* The operators on the ICFG *)

\* The ICFG c has the nodes of b, at least.
Covers(b, c) == LastId(b) \in Nat /\ LastId(c) \in Nat /\ LastId(b) <= LastId(c)

LEMMA CoversIds ==
  ASSUME NEW b, NEW c, Covers(b, c)
  PROVE  Ids(b) \subseteq Ids(c)
  BY DEF Covers, Ids, LastId

\* A PAG over an ICFG is one over a larger ICFG.
LEMMA IsPagCovers ==
  ASSUME NEW g, NEW b, NEW c, NEW names, IsPag(g, b, names), Covers(b, c)
  PROVE  IsPag(g, c, names)
<1>1. PagNode(b, names) \subseteq PagNode(c, names)
  BY CoversIds DEF PagNode
<1>2. g.node \in Seq(PagNode(c, names))
  BY <1>1, SeqMonotonic DEF IsPag
<1>3. QED
  BY <1>2 DEF IsPag

LEMMA AddIcfgNodeFacts ==
  ASSUME NEW c, NEW names, IsIcfg(c, names), NEW kind \in IcfgKinds, NEW bb \in names
  PROVE  LET d == AddIcfgNode(c, kind, bb)
         IN  /\ IsIcfg(d, names) /\ Covers(c, d)
             /\ LastId(c) \in Nat /\ LastId(d) = LastId(c) + 1
<1> DEFINE d == AddIcfgNode(c, kind, bb)
           n == [kind |-> kind, bb |-> bb]
<1>1. c.node \in Seq([kind: IcfgKinds, bb: names]) /\ n \in [kind: IcfgKinds, bb: names]
  BY DEF IsIcfg
<1>2. d = [node |-> Append(c.node, n), edge |-> c.edge]
  BY DEF AddIcfgNode, IsIcfg
<1> HIDE DEF n
<1>3. /\ d.node \in Seq([kind: IcfgKinds, bb: names])
      /\ LastId(c) \in Nat /\ LastId(d) = LastId(c) + 1
  BY <1>1, <1>2, AppendProperties, LenProperties DEF LastId
<1>4. Covers(c, d)
  BY <1>3 DEF Covers
<1>5. Ids(c) \subseteq Ids(d)
  BY <1>4, CoversIds
<1>6. d = [node |-> d.node, edge |-> d.edge] /\ d.edge = c.edge
  BY <1>2
<1>7. d.edge \subseteq [kind: EdgeKinds, from: Ids(d), to: Ids(d)]
  BY <1>5, <1>6 DEF IsIcfg
<1>8. GlobalNode \in Ids(d)
  BY <1>5 DEF IsIcfg
<1>9. QED
  BY <1>3, <1>4, <1>6, <1>7, <1>8 DEF IsIcfg

LEMMA AddIcfgEdgeFacts ==
  ASSUME NEW c, NEW names, IsIcfg(c, names), NEW kind \in EdgeKinds,
         NEW a \in {NullId} \cup Ids(c), NEW b \in {NullId} \cup Ids(c)
  PROVE  LET d == AddIcfgEdge(c, kind, a, b)
         IN  IsIcfg(d, names) /\ Covers(c, d) /\ LastId(d) = LastId(c)
<1> DEFINE d == AddIcfgEdge(c, kind, a, b)
           e == [kind |-> kind, from |-> a, to |-> b]
<1>1. LastId(c) \in Nat
  BY LenProperties DEF IsIcfg, LastId
<1>2. CASE a = NullId \/ b = NullId
  <2>1. d = c
    BY <1>2 DEF AddIcfgEdge
  <2>2. QED
    BY <1>1, <2>1 DEF Covers
<1>3. CASE ~(a = NullId \/ b = NullId)
  <2>1. d = [node |-> c.node, edge |-> c.edge \cup {e}]
    BY <1>3 DEF AddIcfgEdge, IsIcfg
  <2>2. d = [node |-> d.node, edge |-> d.edge] /\ d.node = c.node /\ d.edge = c.edge \cup {e}
    BY <2>1
  <2>3. LastId(d) = LastId(c) /\ Ids(d) = Ids(c)
    BY <2>2 DEF LastId, Ids
  <2>4. e \in [kind: EdgeKinds, from: Ids(d), to: Ids(d)]
    BY <1>3, <2>3
  <2>5. IsIcfg(d, names)
    BY <2>2, <2>3, <2>4 DEF IsIcfg
  <2>6. QED
    BY <1>1, <2>3, <2>5 DEF Covers
<1>4. QED
  BY <1>2, <1>3

\* The ICFG d has what c has, and the nodes of c as they are in c.
Extends(c, d) == Covers(c, d) /\ (\A i \in Ids(c) : d.node[i] = c.node[i]) /\ c.edge \subseteq d.edge

LEMMA ExtendsRefl ==
  ASSUME NEW c, NEW names, IsIcfg(c, names)
  PROVE  Extends(c, c)
BY LenProperties DEF Extends, Covers, IsIcfg, LastId

LEMMA ExtendsTrans ==
  ASSUME NEW b, NEW c, NEW d, Extends(b, c), Extends(c, d)
  PROVE  Extends(b, d)
BY CoversIds DEF Extends, Covers

LEMMA AddIcfgNodeAdds ==
  ASSUME NEW c, NEW names, IsIcfg(c, names), NEW kind \in IcfgKinds, NEW bb \in names
  PROVE  LET d == AddIcfgNode(c, kind, bb)
         IN  /\ Extends(c, d) /\ d.edge = c.edge
             /\ d.node[LastId(c) + 1] = [kind |-> kind, bb |-> bb]
<1> DEFINE d == AddIcfgNode(c, kind, bb)
           n == [kind |-> kind, bb |-> bb]
<1>1. c.node \in Seq([kind: IcfgKinds, bb: names]) /\ n \in [kind: IcfgKinds, bb: names]
  BY DEF IsIcfg
<1>2. d = [node |-> Append(c.node, n), edge |-> c.edge]
  BY DEF AddIcfgNode, IsIcfg
<1>3. Covers(c, d)
  BY AddIcfgNodeFacts
<1> HIDE DEF n, d
<1>4. d.node = Append(c.node, n) /\ d.edge = c.edge
  BY <1>2
<1>5. /\ Len(c.node) \in Nat /\ Append(c.node, n)[Len(c.node) + 1] = n
      /\ \A i \in 1..Len(c.node) : Append(c.node, n)[i] = c.node[i]
  BY <1>1, AppendProperties, LenProperties
<1>6. QED
  BY <1>3, <1>4, <1>5 DEF Extends, Ids, LastId, n, d

LEMMA AddIcfgEdgeAdds ==
  ASSUME NEW c, NEW names, IsIcfg(c, names), NEW kind,
         NEW a \in {NullId} \cup Ids(c), NEW b \in Ids(c)
  PROVE  LET d == AddIcfgEdge(c, kind, a, b)
         IN  /\ Extends(c, d) /\ d.node = c.node
             /\ d.edge = c.edge \cup (IF a = NullId THEN {} ELSE {[kind |-> kind, from |-> a, to |-> b]})
<1> DEFINE d == AddIcfgEdge(c, kind, a, b)
           E == IF a = NullId THEN {} ELSE {[kind |-> kind, from |-> a, to |-> b]}
<1>1. b # NullId
  BY DEF Ids, NullId
<1>2. d.node = c.node /\ d.edge = c.edge \cup E
  <2>1. CASE a = NullId
    BY <2>1 DEF AddIcfgEdge
  <2>2. CASE a # NullId
    <3>1. d = [node |-> c.node, edge |-> c.edge \cup E]
      BY <1>1, <2>2 DEF AddIcfgEdge, IsIcfg
    <3>2. QED
      BY <3>1
  <2>3. QED
    BY <2>1, <2>2
<1>3. LastId(c) \in Nat
  BY LenProperties DEF IsIcfg, LastId
<1> HIDE DEF d, E
<1>4. Extends(c, d)
  BY <1>2, <1>3 DEF Extends, Covers, LastId
<1>5. QED
  BY <1>2, <1>4 DEF d, E

-----------------------------------------------------------------------------
(* Sequences and tables *)

LEMMA SequenceFacts ==
  ASSUME NEW s, IsSequence(s)
  PROVE  Len(s) \in Nat /\ DOMAIN s = 1..Len(s)
  BY LenProperties DEF IsSequence

LEMMA AppendFacts ==
  ASSUME NEW s, NEW e, IsSequence(s)
  PROVE  LET t == Append(s, e)
         IN  /\ IsSequence(t) /\ t # <<>>
             /\ \A i \in DOMAIN t : t[i] = e \/ (i \in DOMAIN s /\ t[i] = s[i])
<1> DEFINE t == Append(s, e)
           R == {s[i] : i \in DOMAIN s} \cup {e}
<1>1. s \in Seq(R) /\ e \in R
  BY SeqMonotonic DEF IsSequence
<1>2. Len(s) \in Nat /\ DOMAIN s = 1..Len(s)
  BY SequenceFacts
<1> HIDE DEF R
<1>3. /\ t \in Seq(R) /\ t # <<>> /\ Len(t) = Len(s) + 1
      /\ \A i \in 1..Len(s) : t[i] = s[i]
      /\ t[Len(s) + 1] = e
  BY <1>1, AppendProperties
<1> HIDE DEF t
<1>4. t \in [1..Len(t) -> R] /\ DOMAIN t = 1..Len(t) /\ Len(t) \in Nat
  BY <1>3, LenProperties
<1>5. t \in [1..Len(t) -> {t[i] : i \in DOMAIN t}]
  BY <1>4
<1>6. IsSequence(t)
  BY <1>4, <1>5, SeqDef DEF IsSequence
<1>7. \A i \in DOMAIN t : t[i] = e \/ (i \in DOMAIN s /\ t[i] = s[i])
  BY <1>2, <1>3, <1>4
<1>8. QED
  BY <1>3, <1>6, <1>7 DEF t

LEMMA PrefixFacts ==
  ASSUME NEW s, NEW n \in Int, IsSequence(s), n <= Len(s)
  PROVE  LET t == SubSeq(s, 1, n)
         IN  /\ IsSequence(t)
             /\ \A i \in DOMAIN t : i \in DOMAIN s /\ t[i] = s[i]
<1> DEFINE t == SubSeq(s, 1, n)
           R == {s[i] : i \in DOMAIN s}
<1>1. Len(s) \in Nat /\ DOMAIN s = 1..Len(s)
  BY SequenceFacts
<1>2. \A i \in 1..n : s[i] \in R
  BY <1>1
<1> HIDE DEF R
<1>3. /\ t \in Seq(R)
      /\ Len(t) = IF 1 <= n THEN n - 1 + 1 ELSE 0
      /\ \A i \in 1..(n - 1 + 1) : t[i] = s[1 + i - 1]
  BY <1>2, SubSeqProperties
<1> HIDE DEF t
<1>4. t \in [1..Len(t) -> R] /\ DOMAIN t = 1..Len(t) /\ Len(t) \in Nat
  BY <1>3, LenProperties
<1>5. t \in [1..Len(t) -> {t[i] : i \in DOMAIN t}]
  BY <1>4
<1>6. IsSequence(t)
  BY <1>4, <1>5, SeqDef DEF IsSequence
<1>7. \A i \in DOMAIN t : i \in DOMAIN s /\ t[i] = s[i]
  BY <1>1, <1>3, <1>4
<1>8. QED
  BY <1>6, <1>7 DEF t

LEMMA ReplaceFacts ==
  ASSUME NEW s, NEW n, NEW e, IsSequence(s)
  PROVE  LET t == [s EXCEPT ![n] = e]
         IN  /\ IsSequence(t) /\ Len(t) = Len(s) /\ DOMAIN t = DOMAIN s
             /\ \A i \in DOMAIN t : (t[i] = e /\ i = n) \/ t[i] = s[i]
<1> DEFINE t == [s EXCEPT ![n] = e]
<1>1. Len(s) \in Nat /\ DOMAIN s = 1..Len(s)
  BY SequenceFacts
<1>2. /\ DOMAIN t = DOMAIN s
      /\ t = [i \in DOMAIN s |-> t[i]]
      /\ \A i \in DOMAIN t : (t[i] = e /\ i = n) \/ t[i] = s[i]
  OBVIOUS
<1> HIDE DEF t
<1>3. t \in [1..Len(s) -> {t[i] : i \in DOMAIN t}]
  BY <1>1, <1>2
<1>4. t \in Seq({t[i] : i \in DOMAIN t})
  BY <1>1, <1>3, SeqDef
<1>5. IsSequence(t)
  BY <1>4 DEF IsSequence
<1>6. Len(t) = Len(s)
  BY <1>1, <1>2, <1>4, LenProperties
<1>7. QED
  BY <1>2, <1>5, <1>6 DEF t

LEMMA BindIsTable ==
  ASSUME NEW m, NEW S, NEW T, IsTable(m, S, T), NEW x \in S, NEW v \in T
  PROVE  IsTable(Bind(m, x, v), S, T)
  BY DEF IsTable, Bind

LEMMA TableWidens ==
  ASSUME NEW m, NEW S, NEW T, NEW U, NEW V, IsTable(m, S, T), S \subseteq U, T \subseteq V
  PROVE  IsTable(m, U, V)
  BY DEF IsTable

-----------------------------------------------------------------------------
(* What a step leaves alone keeps its type while the graphs grow *)

LEMMA TypesWiden ==
  ASSUME Grows(pag, pag'), Covers(icfg, icfg')
  PROVE  /\ Vals(pag) \subseteq Vals(pag') /\ Objects(pag) \subseteq Objects(pag')
         /\ Ids(icfg) \subseteq Ids(icfg')
         /\ SymbolType \subseteq SymbolType' /\ FormalType \subseteq FormalType'
         /\ FuncInfoType \subseteq FuncInfoType' /\ OperandType \subseteq OperandType'
         /\ TargetType \subseteq TargetType'
<1>1. /\ Vals(pag) \subseteq Vals(pag') /\ Objects(pag) \subseteq Objects(pag')
      /\ Ids(icfg) \subseteq Ids(icfg')
  BY GrowsKinds, CoversIds
<1>2. SymbolType \subseteq SymbolType'
  BY <1>1 DEF SymbolType
<1>3. FormalType \subseteq FormalType'
  BY <1>1 DEF FormalType
<1>4. Seq(FormalType) \subseteq Seq(FormalType')
  BY <1>3, SeqMonotonic
<1>5. FuncInfoType \subseteq FuncInfoType'
  BY <1>1, <1>4 DEF FuncInfoType
<1>6. OperandType \subseteq OperandType'
  BY <1>1 DEF OperandType
<1>7. TargetType \subseteq TargetType'
  BY <1>1 DEF TargetType
<1>8. QED
  BY <1>1, <1>2, <1>3, <1>5, <1>6, <1>7

LEMMA FramesWiden ==
  ASSUME Grows(pag, pag'), NEW fr, IsFrame(fr, {NullId} \cup Vals(pag))
  PROVE  IsFrame(fr, {NullId} \cup Vals(pag'))
  BY GrowsKinds, TableWidens DEF IsFrame

LEMMA SymtabKept ==
  ASSUME TypeOK, Grows(pag, pag'), Covers(icfg, icfg'), UNCHANGED symtab
  PROVE  SymtabOK'
<1>1. SymbolType \subseteq SymbolType'
  BY TypesWiden
<1>2. globals' = globals /\ scopes' = scopes
  BY DEF symtab
<1>3. IsTable(globals', Vars \cup Funs, SymbolType')
  BY <1>1, <1>2, TableWidens DEF TypeOK, SymtabOK
<1>4. \A i \in DOMAIN scopes' : IsTable(scopes'[i], Vars \cup {QualifiedText}, SymbolType')
  BY <1>1, <1>2, TableWidens DEF TypeOK, SymtabOK
<1>5. QED
  BY <1>2, <1>3, <1>4 DEF TypeOK, SymtabOK

LEMMA TypesKept ==
  ASSUME TypeOK, UNCHANGED types
  PROVE  TypesOK'
  BY DEF TypeOK, TypesOK, types, FieldMetaType

LEMMA TagsKept ==
  ASSUME TypeOK, Grows(pag, pag'), UNCHANGED nodeStructTy
  PROVE  TagsOK'
  BY GrowsKinds, TableWidens DEF TypeOK, TagsOK

LEMMA FuncsKept ==
  ASSUME TypeOK, Grows(pag, pag'), Covers(icfg, icfg'), UNCHANGED funcInfos
  PROVE  FuncsOK'
  BY TypesWiden, TableWidens DEF TypeOK, FuncsOK

LEMMA CurrentKept ==
  ASSUME TypeOK, Grows(pag, pag'), Covers(icfg, icfg'),
         DOMAIN funcInfos \subseteq DOMAIN funcInfos', UNCHANGED current,
         frames' # <<>> => frames # <<>>
  PROVE  CurrentOK'
  BY TypesWiden DEF TypeOK, CurrentOK, current

LEMMA FileKept ==
  ASSUME TypeOK, DOMAIN funcInfos \subseteq DOMAIN funcInfos', UNCHANGED file
  PROVE  FileOK'
<1>1. pending \in Seq(DOMAIN funcInfos')
  BY SeqMonotonic DEF TypeOK, FileOK
<1>2. QED
  BY <1>1 DEF TypeOK, FileOK, file

LEMMA FramesKept ==
  ASSUME TypeOK, Grows(pag, pag'), Covers(icfg, icfg'), UNCHANGED <<frames, toBind>>
  PROVE  FramesOK'
<1>1. toBind \in Seq(FormalType')
  BY TypesWiden, SeqMonotonic DEF TypeOK, FramesOK
<1>2. \A i \in DOMAIN frames : IsFrame(frames[i], {NullId} \cup Vals(pag'))
  BY FramesWiden DEF TypeOK, FramesOK
<1>3. QED
  BY <1>1, <1>2 DEF TypeOK, FramesOK

LEMMA StackKept ==
  ASSUME TypeOK, Grows(pag, pag'), Covers(icfg, icfg'), UNCHANGED stack
  PROVE  StackOK'
  BY TypesWiden, SeqMonotonic DEF TypeOK, StackOK

LEMMA TargetKept ==
  ASSUME TypeOK, Grows(pag, pag'), Covers(icfg, icfg'), UNCHANGED target
  PROVE  TargetOK'
  BY TypesWiden DEF TypeOK, TargetOK, NoTarget

LEMMA GraphsKept ==
  ASSUME TypeOK, UNCHANGED graphs, DOMAIN funcInfos \subseteq DOMAIN funcInfos'
  PROVE  GraphsOK' /\ Grows(pag, pag') /\ Covers(icfg, icfg')
<1>1. pag' = pag /\ icfg' = icfg /\ callGraph' = callGraph
  BY DEF graphs
<1>2. GraphsOK'
  BY <1>1 DEF TypeOK, GraphsOK
<1>3. Grows(pag, pag)
  BY GrowsRefl DEF TypeOK, GraphsOK
<1>4. Covers(icfg, icfg)
  BY LenProperties DEF TypeOK, GraphsOK, IsIcfg, Covers, LastId
<1>5. QED
  BY <1>1, <1>2, <1>3, <1>4

\* A step that adds nodes to the PAG, and nothing to the other graphs.
LEMMA PagGrows ==
  ASSUME TypeOK, UNCHANGED <<icfg, callGraph>>, DOMAIN funcInfos \subseteq DOMAIN funcInfos',
         IsPag(pag', icfg, Names), Grows(pag, pag')
  PROVE  GraphsOK' /\ Covers(icfg, icfg')
<1>1. Covers(icfg, icfg)
  BY LenProperties DEF TypeOK, GraphsOK, IsIcfg, Covers, LastId
<1>2. QED
  BY <1>1 DEF TypeOK, GraphsOK, Names

-----------------------------------------------------------------------------
(* Operators of the visitor *)

LEMMA ParsedType ==
  ASSUME TypeOK, NEW spec
  PROVE  ParseType(spec) \in {IntTy} \cup Structs
  BY DEF ParseType, TypeOK, TypesOK, IsTable

LEMMA FlattenedNat ==
  ASSUME TypeOK, NEW ty
  PROVE  FlattenedFields(ty) \in Nat /\ (StructsHaveFields => FlattenedFields(ty) # 0)
  BY DEF FlattenedFields, TypeOK, TypesOK, IsTable, StructsHaveFields

LEMMA FormalTyped ==
  ASSUME NEW formal \in FormalType
  PROVE  /\ formal.val \in Vals(pag) /\ formal.source \in Vars
         /\ formal.name \in Vars \cup {QualifiedText} /\ formal.sty \in Structs \cup {None}
         /\ formal.name # formal.source => Uses("qualified parameter")
  BY DEF FormalType

LEMMA AsStructTyped ==
  ASSUME NEW ty
  PROVE  AsStruct(ty) \in Structs \cup {None}
  BY DEF AsStruct

LEMMA NodeStructTyped ==
  ASSUME TypeOK, NEW id
  PROVE  NodeStruct(id) \in Structs \cup {None}
  BY DEF NodeStruct, TypeOK, TagsOK, IsTable

LEMMA LookupTyped ==
  ASSUME TypeOK, NEW x, NEW sym \in Lookup(x)
  PROVE  sym \in SymbolType
  BY DEF Lookup, TypeOK, SymtabOK, IsTable

LEMMA TagIsTable ==
  ASSUME NEW tags, NEW ids, IsTable(tags, ids, Structs), NEW id \in ids,
         NEW sty \in Structs \cup {None}
  PROVE  IsTable(TagStruct(tags, id, sty), ids, Structs)
  BY BindIsTable DEF TagStruct

\* The tags, with one more on a node of the PAG that the step leaves behind.
LEMMA TagsWiden ==
  ASSUME TypeOK, Grows(pag, pag')
  PROVE  IsTable(nodeStructTy, Vals(pag'), Structs)
  BY GrowsKinds, TableWidens DEF TypeOK, TagsOK

LEMMA AnchorTyped ==
  ASSUME TypeOK
  PROVE  currentICFG \in {NullId} \cup Ids(icfg) /\ None \in Names
  BY DEF TypeOK, CurrentOK, Names

LEMMA PushTyped ==
  ASSUME TypeOK, Grows(pag, pag'), Covers(icfg, icfg'),
         NEW n \in 0..Len(stack), NEW e \in OperandType', Push(n, e)
  PROVE  StackOK'
<1>1. stack \in Seq(OperandType')
  BY TypesWiden, SeqMonotonic DEF TypeOK, StackOK
<1>2. Len(stack) \in Nat /\ \A i \in 1..Len(stack) : stack[i] \in OperandType'
  BY <1>1, LenProperties, ElementOfSeq
<1>3. Below(n) \in Seq(OperandType')
  BY <1>2, SubSeqProperties DEF Below
<1>4. Append(Below(n), e) \in Seq(OperandType')
  BY <1>3, AppendProperties
<1>5. QED
  BY <1>4 DEF Push, StackOK

LEMMA OperandTyped ==
  ASSUME TypeOK, NEW n \in 1..Len(stack)
  PROVE  /\ n - 1 \in 0..Len(stack) /\ n \in 0..Len(stack)
         /\ stack[Arg(n)] \in OperandType /\ stack[Arg(n)].id \in Vals(pag)
<1>1. Len(stack) \in Nat
  BY LenProperties DEF TypeOK, StackOK
<1>2. Arg(n) \in 1..Len(stack)
  BY <1>1 DEF Arg
<1>3. stack[Arg(n)] \in OperandType
  BY <1>2, ElementOfSeq DEF TypeOK, StackOK
<1>4. QED
  BY <1>1, <1>3 DEF OperandType

\* The operands are there.
LEMMA StackNotEmpty ==
  ASSUME TypeOK
  PROVE  /\ Len(stack) \in Nat /\ 0 \in 0..Len(stack)
         /\ stack # <<>> => 1 \in 1..Len(stack)
         /\ Len(stack) >= 1 => 1 \in 1..Len(stack)
         /\ Len(stack) >= 2 => 1 \in 1..Len(stack) /\ 2 \in 1..Len(stack)
<1>1. Len(stack) \in Nat
  BY LenProperties DEF TypeOK, StackOK
<1>2. stack # <<>> => Len(stack) # 0
  BY EmptySeq DEF TypeOK, StackOK
<1>3. QED
  BY <1>1, <1>2

-----------------------------------------------------------------------------
(* Expressions.  Every lemma about an action concludes Preserved. *)

Preserved == TypeOK' /\ Grows(pag, pag')

\* An expression handler: what remains to be shown of a step that leaves control alone.
LEMMA ExprStepTyped ==
  ASSUME TypeOK, UNCHANGED <<icfg, control>>, IsPag(pag', icfg, Names), Grows(pag, pag'),
         TagsOK', StackOK', stubbed' \subseteq Funs
  PROVE  Preserved
<1>1. /\ UNCHANGED <<callGraph, symtab, types, funcInfos, current, file, frames, toBind, target>>
      /\ UNCHANGED icfg
  BY DEF control
<1>2. GraphsOK' /\ Covers(icfg, icfg')
  BY <1>1, PagGrows
<1>3. SymtabOK' /\ TypesOK' /\ FuncsOK'
  BY <1>1, <1>2, SymtabKept, TypesKept, FuncsKept
<1>4. CurrentOK' /\ FileOK'
  BY <1>1, <1>2, CurrentKept, FileKept
<1>5. FramesOK' /\ TargetOK'
  BY <1>1, <1>2, FramesKept, TargetKept
<1>6. QED
  BY <1>2, <1>3, <1>4, <1>5 DEF TypeOK, Preserved

LEMMA OperandInType ==
  ASSUME NEW form \in Forms, NEW name \in Names, NEW id \in Vals(pag'),
         NEW as \in {Rvalue, Lvalue, Either}
  PROVE  Operand(form, name, id, as) \in OperandType'
  BY DEF Operand, OperandType

LEMMA UnchangedCovers ==
  ASSUME TypeOK, UNCHANGED icfg
  PROVE  Covers(icfg, icfg')
  BY LenProperties DEF TypeOK, GraphsOK, IsIcfg, Covers, LastId

LEMMA YieldTyped ==
  ASSUME TypeOK, UNCHANGED control, stubbed' \subseteq Funs,
         NEW n \in 0..Len(stack), NEW form \in Forms, NEW name \in Names,
         NEW as \in {Rvalue, Lvalue, Either}, NEW op \in StmtOps \ {"Addr"},
         NEW src \in Vals(pag), NEW arg \in Nat, NEW sty \in Structs \cup {None},
         Yield(n, form, name, as, op, src, arg, sty)
  PROVE  Preserved
<1>1. /\ pag' = Emit(pag, op, src, arg, currentICFG)
      /\ nodeStructTy' = TagStruct(nodeStructTy, LastId(pag) + 1, sty)
      /\ Push(n, Operand(form, name, LastId(pag) + 1, as))
      /\ UNCHANGED icfg
  BY DEF Yield
<1>2. IsPag(pag', icfg, Names) /\ Grows(pag, pag') /\ LastId(pag) + 1 \in Vals(pag')
  BY <1>1, AnchorTyped, EmitFacts DEF TypeOK, GraphsOK
<1>3. TagsOK'
  BY <1>1, <1>2, TagsWiden, TagIsTable DEF TagsOK
<1>4. StackOK'
  BY <1>1, <1>2, OperandInType, UnchangedCovers, PushTyped
<1>5. QED
  BY <1>1, <1>2, <1>3, <1>4, ExprStepTyped

LEMMA YieldFreshTyped ==
  ASSUME TypeOK, UNCHANGED control, stubbed' \subseteq Funs,
         NEW n \in 0..Len(stack), NEW form \in Forms, NEW name \in Names,
         NEW as \in {Rvalue, Lvalue, Either}, YieldFresh(n, form, name, as)
  PROVE  Preserved
<1> DEFINE v == ValNode(currentICFG, None)
<1>1. /\ pag' = AddNode(pag, v)
      /\ Push(n, Operand(form, name, LastId(pag) + 1, as))
      /\ UNCHANGED <<icfg, nodeStructTy>>
  BY DEF YieldFresh, AddVal
<1>2. v \in PagNode(icfg, Names) /\ v.kind = "val"
  BY AnchorTyped DEF PagNode, ValNode, Node
<1> HIDE DEF v
<1>3. IsPag(pag', icfg, Names) /\ Grows(pag, pag') /\ LastId(pag) + 1 \in Vals(pag')
  BY <1>1, <1>2, AddValFacts DEF TypeOK, GraphsOK
<1>4. TagsOK'
  BY <1>1, <1>3, TagsKept
<1>5. StackOK'
  BY <1>1, <1>3, OperandInType, UnchangedCovers, PushTyped
<1>6. QED
  BY <1>1, <1>3, <1>4, <1>5, ExprStepTyped

LEMMA ReturnTyped ==
  ASSUME TypeOK, UNCHANGED control, stubbed' \subseteq Funs,
         NEW n \in 0..Len(stack), NEW form \in Forms, NEW name \in Names,
         NEW id \in Vals(pag), NEW as \in {Rvalue, Lvalue, Either},
         Return(n, form, name, id, as)
  PROVE  Preserved
<1>1. Push(n, Operand(form, name, id, as)) /\ UNCHANGED <<pag, icfg, nodeStructTy>>
  BY DEF Return
<1>2. IsPag(pag', icfg, Names) /\ Grows(pag, pag')
  BY <1>1, GrowsRefl DEF TypeOK, GraphsOK
<1>3. TagsOK'
  BY <1>1, <1>2, TagsKept
<1>4. StackOK'
  BY <1>1, <1>2, OperandInType, UnchangedCovers, PushTyped
<1>5. QED
  BY <1>1, <1>2, <1>3, <1>4, ExprStepTyped

LEMMA IdentifierStep ==
  ASSUME TypeOK, NEW x \in Vars \cup Funs, VisitIdentifier(x)
  PROVE  Preserved
<1>1. UNCHANGED control /\ stubbed' \subseteq Funs
  BY DEF VisitIdentifier, TypeOK
<1>2. 0 \in 0..Len(stack) /\ "identifier" \in Forms /\ x \in Names
  BY StackNotEmpty DEF Forms, Names
<1>3. CASE YieldFresh(0, "identifier", x, Either)
  BY <1>1, <1>2, <1>3, YieldFreshTyped
<1>4. ASSUME NEW sym \in Lookup(x), NEW as \in {Rvalue, Lvalue, Either},
             Return(0, "identifier", x, sym.valId, as)
      PROVE  Preserved
  <2>1. sym.valId \in Vals(pag)
    BY LookupTyped DEF SymbolType
  <2>2. QED
    BY <1>1, <1>2, <1>4, <2>1, ReturnTyped
<1>5. ASSUME NEW sym \in Lookup(x),
             Yield(0, "identifier", x, Rvalue, "Load", sym.valId, 0, NodeStruct(sym.valId))
      PROVE  Preserved
  <2>1. sym.valId \in Vals(pag) /\ NodeStruct(sym.valId) \in Structs \cup {None}
    BY LookupTyped, NodeStructTyped DEF SymbolType
  <2>2. "Load" \in StmtOps \ {"Addr"}
    BY DEF StmtOps
  <2>3. QED
    BY <1>1, <1>2, <1>5, <2>1, <2>2, YieldTyped
<1>6. QED
  BY <1>3, <1>4, <1>5 DEF VisitIdentifier

LEMMA NumberStep ==
  ASSUME TypeOK, VisitNumber
  PROVE  Preserved
<1> DEFINE v == Node("val", FALSE, currentICFG, None, 0)
<1>1. /\ pag' = AddNode(pag, v)
      /\ Push(0, Operand("literal", None, LastId(pag) + 1, Either))
      /\ UNCHANGED <<icfg, nodeStructTy, control>> /\ stubbed' \subseteq Funs
  BY DEF VisitNumber, TypeOK
<1>2. v \in PagNode(icfg, Names) /\ v.kind = "val"
  BY AnchorTyped DEF PagNode, Node
<1> HIDE DEF v
<1>3. IsPag(pag', icfg, Names) /\ Grows(pag, pag') /\ LastId(pag) + 1 \in Vals(pag')
  BY <1>1, <1>2, AddValFacts DEF TypeOK, GraphsOK
<1>4. TagsOK'
  BY <1>1, <1>3, TagsKept
<1>5. 0 \in 0..Len(stack) /\ Operand("literal", None, LastId(pag) + 1, Either) \in OperandType'
  BY <1>3, StackNotEmpty, OperandInType DEF Forms, Names
<1>6. StackOK'
  BY <1>1, <1>3, <1>5, UnchangedCovers, PushTyped
<1>7. QED
  BY <1>1, <1>3, <1>4, <1>6, ExprStepTyped

\* A handler that makes an object and returns its address.
LEMMA ObjectExprStep ==
  ASSUME TypeOK, UNCHANGED <<icfg, nodeStructTy, control>>, stubbed' \subseteq Funs,
         NEW kind \in ObjKinds, NEW form \in Forms,
         pag' = AddObject(pag, kind, currentICFG, None, 1),
         Push(0, Operand(form, None, LastId(pag) + 2, Either))
  PROVE  Preserved
<1>1. IsPag(pag', icfg, Names) /\ Grows(pag, pag') /\ LastId(pag) + 2 \in Vals(pag')
  <2>1. /\ IsPag(pag, icfg, Names) /\ currentICFG \in {NullId} \cup Ids(icfg)
        /\ None \in Names /\ 1 \in Nat /\ 1 # 0
    BY AnchorTyped DEF TypeOK, GraphsOK, Names
  <2>2. QED
    BY <2>1, AddObjectFacts
<1>2. TagsOK'
  BY <1>1, TagsKept
<1>3. 0 \in 0..Len(stack) /\ Operand(form, None, LastId(pag) + 2, Either) \in OperandType'
  BY <1>1, StackNotEmpty, OperandInType DEF Names
<1>4. StackOK'
  BY <1>1, <1>3, UnchangedCovers, PushTyped
<1>5. QED
  BY <1>1, <1>2, <1>4, ExprStepTyped

LEMMA StringStep ==
  ASSUME TypeOK, VisitString
  PROVE  Preserved
<1>1. stubbed' \subseteq Funs /\ "const" \in ObjKinds /\ "string" \in Forms
  BY DEF VisitString, TypeOK, ObjKinds, Forms
<1>2. QED
  BY <1>1, ObjectExprStep DEF VisitString

LEMMA AllocationStep ==
  ASSUME TypeOK, VisitAllocation
  PROVE  Preserved
<1>1. stubbed' \subseteq Funs /\ "heap" \in ObjKinds /\ "call" \in Forms
  BY DEF VisitAllocation, TypeOK, ObjKinds, Forms
<1>2. QED
  BY <1>1, ObjectExprStep DEF VisitAllocation

LEMMA NullStep ==
  ASSUME TypeOK, VisitNull
  PROVE  Preserved
<1>1. UNCHANGED control /\ stubbed' \subseteq Funs
  BY DEF VisitNull, TypeOK
<1>2. 0 \in 0..Len(stack) /\ "other" \in Forms /\ None \in Names
  BY StackNotEmpty DEF Forms, Names
<1>3. QED
  BY <1>1, <1>2, YieldFreshTyped DEF VisitNull

LEMMA ParenthesizedStep ==
  ASSUME TypeOK, VisitParenthesized
  PROVE  Preserved
<1>1. UNCHANGED control /\ stubbed' \subseteq Funs
  BY DEF VisitParenthesized, TypeOK
<1>2. 1 \in 1..Len(stack)
  BY StackNotEmpty DEF VisitParenthesized
<1>3. 1 \in 0..Len(stack) /\ stack[Arg(1)] \in OperandType
  BY <1>2, OperandTyped
<1>4. stack[Arg(1)].id \in Vals(pag) /\ stack[Arg(1)].as \in {Rvalue, Lvalue, Either}
  BY <1>3 DEF OperandType
<1>5. "parenthesized" \in Forms /\ None \in Names
  BY DEF Forms, Names
<1>6. QED
  BY <1>1, <1>3, <1>4, <1>5, ReturnTyped DEF VisitParenthesized

LEMMA AddressOfStep ==
  ASSUME TypeOK, VisitAddressOf
  PROVE  Preserved
<1>1. UNCHANGED control /\ stubbed' \subseteq Funs
  BY DEF VisitAddressOf, TypeOK
<1>2. 1 \in 1..Len(stack)
  BY StackNotEmpty DEF VisitAddressOf
<1>3. 1 \in 0..Len(stack) /\ stack[Arg(1)].id \in Vals(pag)
  BY <1>2, OperandTyped
<1>4. "address" \in Forms /\ None \in Names
  BY DEF Forms, Names
<1>5. QED
  BY <1>1, <1>3, <1>4, ReturnTyped DEF VisitAddressOf

LEMMA DerefStep ==
  ASSUME TypeOK, VisitDeref
  PROVE  Preserved
<1>1. UNCHANGED control /\ stubbed' \subseteq Funs
  BY DEF VisitDeref, TypeOK
<1>2. 1 \in 1..Len(stack)
  BY StackNotEmpty DEF VisitDeref
<1>3. 1 \in 0..Len(stack) /\ stack[Arg(1)].id \in Vals(pag)
  BY <1>2, OperandTyped
<1>4. "deref" \in Forms /\ None \in Names /\ "Load" \in StmtOps \ {"Addr"}
  BY DEF Forms, Names, StmtOps
<1>5. CASE Yield(1, "deref", None, Rvalue, "Load", stack[Arg(1)].id, 0, None)
  BY <1>1, <1>3, <1>4, <1>5, YieldTyped
<1>6. CASE Return(1, "deref", None, stack[Arg(1)].id, Lvalue)
  BY <1>1, <1>3, <1>4, <1>6, ReturnTyped
<1>7. QED
  BY <1>5, <1>6 DEF VisitDeref

LEMMA LastChildStep ==
  ASSUME TypeOK, VisitLastChild
  PROVE  Preserved
<1>1. UNCHANGED control /\ stubbed' \subseteq Funs
  BY DEF VisitLastChild, TypeOK
<1>2. 1 \in 1..Len(stack)
  BY StackNotEmpty DEF VisitLastChild
<1>3. 1 \in 0..Len(stack) /\ stack[Arg(1)].id \in Vals(pag)
  BY <1>2, OperandTyped
<1>4. "other" \in Forms /\ None \in Names
  BY DEF Forms, Names
<1>5. QED
  BY <1>1, <1>3, <1>4, ReturnTyped DEF VisitLastChild

LEMMA BinaryStep ==
  ASSUME TypeOK, NEW additive, VisitBinary(additive)
  PROVE  Preserved
<1> DEFINE l == stack[Arg(2)]
           r == stack[Arg(1)]
           base == IF IsCPointerExpr(l) THEN l.id ELSE r.id
<1>1. UNCHANGED control /\ stubbed' \subseteq Funs
  BY DEF VisitBinary, TypeOK
<1>2. 1 \in 1..Len(stack) /\ 2 \in 1..Len(stack)
  BY StackNotEmpty DEF VisitBinary
<1>3. 2 \in 0..Len(stack) /\ base \in Vals(pag)
  BY <1>2, OperandTyped
<1>4. "binary" \in Forms /\ None \in Names /\ "Gep" \in StmtOps \ {"Addr"}
  BY DEF Forms, Names, StmtOps
<1>5. NodeStruct(base) \in Structs \cup {None}
  BY NodeStructTyped
<1>6. \/ Yield(2, "binary", None, Either, "Gep", base, 0, NodeStruct(base))
      \/ YieldFresh(2, "binary", None, Either)
  BY DEF VisitBinary
<1> HIDE DEF base
<1>7. CASE Yield(2, "binary", None, Either, "Gep", base, 0, NodeStruct(base))
  BY <1>1, <1>3, <1>4, <1>5, <1>7, YieldTyped
<1>8. CASE YieldFresh(2, "binary", None, Either)
  BY <1>1, <1>3, <1>4, <1>8, YieldFreshTyped
<1>9. QED
  BY <1>6, <1>7, <1>8

\* A field or an element, addressed or loaded.
LEMMA PlaceTyped ==
  ASSUME TypeOK, UNCHANGED control, stubbed' \subseteq Funs,
         NEW n \in 0..Len(stack), NEW form \in Forms, NEW op \in StmtOps \ {"Addr"},
         NEW base \in Vals(pag), NEW arg \in Nat,
         NEW placeSty \in Structs \cup {None}, NEW valueSty \in Structs \cup {None},
         YieldPlace(n, form, op, base, arg, placeSty, valueSty)
  PROVE  Preserved
<1> DEFINE g == LastId(pag) + 1
           gep == Emit(pag, op, base, arg, currentICFG)
<1>1. None \in Names /\ "Load" \in StmtOps \ {"Addr"}
  BY DEF Names, StmtOps
<1>2. CASE Yield(n, form, None, Lvalue, op, base, arg, placeSty)
  BY <1>1, <1>2, YieldTyped
<1>3. CASE YieldLoaded(n, form, op, base, arg, placeSty, valueSty)
  <2>1. /\ pag' = Emit(gep, "Load", g, 0, currentICFG)
        /\ nodeStructTy' = TagStruct(TagStruct(nodeStructTy, g, placeSty), g + 1, valueSty)
        /\ Push(n, Operand(form, None, g + 1, Rvalue))
        /\ UNCHANGED icfg
    BY <1>3 DEF YieldLoaded
  <2>2. /\ IsPag(gep, icfg, Names) /\ Grows(pag, gep)
        /\ LastId(gep) = g /\ g \in Vals(gep)
    <3>1. /\ IsPag(pag, icfg, Names) /\ None \in Names
          /\ currentICFG \in {NullId} \cup Ids(icfg)
      BY AnchorTyped DEF TypeOK, GraphsOK
    <3>2. QED
      BY <3>1, EmitFacts
  <2> HIDE DEF gep
  <2> HIDE DEF g
  <2>3. IsPag(pag', icfg, Names) /\ Grows(gep, pag') /\ LastId(gep) + 1 \in Vals(pag')
    <3>1. None \in Names /\ currentICFG \in {NullId} \cup Ids(icfg) /\ 0 \in Nat
      BY AnchorTyped
    <3>2. QED
      BY <1>1, <2>1, <2>2, <3>1, EmitFacts
  <2>4. Grows(pag, pag') /\ g \in Vals(pag') /\ g + 1 \in Vals(pag')
    BY <2>2, <2>3, GrowsTrans, GrowsKinds
  <2>5. IsTable(TagStruct(nodeStructTy, g, placeSty), Vals(pag'), Structs)
    BY <2>4, TagsWiden, TagIsTable
  <2>6. TagsOK'
    BY <2>1, <2>4, <2>5, TagIsTable DEF TagsOK
  <2>7. StackOK'
    BY <1>1, <2>1, <2>4, OperandInType, UnchangedCovers, PushTyped
  <2>8. QED
    BY <2>1, <2>3, <2>4, <2>6, <2>7, ExprStepTyped
<1>4. QED
  BY <1>2, <1>3 DEF YieldPlace

LEMMA FieldStep ==
  ASSUME TypeOK, NEW f, NEW arrow, VisitField(f, arrow)
  PROVE  Preserved
<1> DEFINE e == stack[Arg(1)]
           sty == NodeStruct(e.id)
<1>1. UNCHANGED control /\ stubbed' \subseteq Funs
  BY DEF VisitField, TypeOK
<1>2. 1 \in 1..Len(stack)
  BY StackNotEmpty DEF VisitField
<1>3. 1 \in 0..Len(stack) /\ e.id \in Vals(pag)
  BY <1>2, OperandTyped
<1>4. /\ "field" \in Forms /\ None \in Structs \cup {None}
      /\ "Gep" \in StmtOps \ {"Addr"} /\ "VarGep" \in StmtOps \ {"Addr"}
  BY DEF Forms, StmtOps
<1>5. sty \in Structs \cup {None}
  BY NodeStructTyped
<1> DEFINE known == IF sty = None THEN {} ELSE FieldMetaIdx(sty, f)
<1>6. \/ \E i \in known :
           LET meta == structFields[sty][i]
           IN  YieldPlace(1, "field", "Gep", e.id, FlatFldIdx(i),
                          IF meta.isPointer THEN None ELSE meta.pointee,
                          IF meta.isPointer THEN meta.pointee ELSE None)
      \/ YieldPlace(1, "field", "VarGep", e.id, 0, None, None)
  BY DEF VisitField
<1> HIDE DEF e, sty
<1>7. ASSUME NEW i \in known
      PROVE  FlatFldIdx(i) \in Nat /\ structFields[sty][i].pointee \in Structs \cup {None}
  <2>1. sty \in Structs /\ i \in 1..Len(structFields[sty])
    BY <1>5, <1>7 DEF FieldMetaIdx
  <2>2. structFields[sty] \in Seq(FieldMetaType)
    BY <2>1 DEF TypeOK, TypesOK
  <2>3. structFields[sty][i] \in FieldMetaType
    BY <2>1, <2>2, ElementOfSeq
  <2>4. QED
    BY <2>1, <2>3 DEF FieldMetaType, FlatFldIdx
<1> HIDE DEF known
<1>8. ASSUME NEW i \in known, NEW p \in Structs \cup {None}, NEW v \in Structs \cup {None},
             YieldPlace(1, "field", "Gep", e.id, FlatFldIdx(i), p, v)
      PROVE  Preserved
  BY <1>1, <1>3, <1>4, <1>7, <1>8, PlaceTyped
<1>9. ASSUME YieldPlace(1, "field", "VarGep", e.id, 0, None, None)
      PROVE  Preserved
  BY <1>1, <1>3, <1>4, <1>9, PlaceTyped
<1>10. QED
  BY <1>4, <1>6, <1>7, <1>8, <1>9

LEMMA SubscriptStep ==
  ASSUME TypeOK, VisitSubscript
  PROVE  Preserved
<1> DEFINE a == stack[Arg(2)]
<1>1. UNCHANGED control /\ stubbed' \subseteq Funs
  BY DEF VisitSubscript, TypeOK
<1>2. 2 \in 1..Len(stack)
  BY StackNotEmpty DEF VisitSubscript
<1>3. 2 \in 0..Len(stack) /\ a.id \in Vals(pag)
  BY <1>2, OperandTyped
<1>4. /\ NodeStruct(a.id) \in Structs \cup {None} /\ "subscript" \in Forms
      /\ "Gep" \in StmtOps \ {"Addr"}
  BY NodeStructTyped DEF Forms, StmtOps
<1>5. YieldPlace(2, "subscript", "Gep", a.id, 0, NodeStruct(a.id), NodeStruct(a.id))
  BY DEF VisitSubscript
<1> HIDE DEF a
<1>6. QED
  BY <1>1, <1>3, <1>4, <1>5, PlaceTyped

LEMMA CastStep ==
  ASSUME TypeOK, NEW spec, VisitCast(spec)
  PROVE  Preserved
<1> DEFINE e == stack[Arg(1)]
           own == AsStruct(ParseType(spec))
           sty == IF own # None THEN own ELSE NodeStruct(e.id)
<1>1. UNCHANGED control /\ stubbed' \subseteq Funs
  BY DEF VisitCast, TypeOK
<1>2. 1 \in 1..Len(stack)
  BY StackNotEmpty DEF VisitCast
<1>3. 1 \in 0..Len(stack) /\ e.id \in Vals(pag)
  BY <1>2, OperandTyped
<1>4. sty \in Structs \cup {None} /\ "cast" \in Forms /\ None \in Names
  BY NodeStructTyped, AsStructTyped DEF Forms, Names
<1>5. \/ Yield(1, "cast", None, Either, "Copy", e.id, 0, sty)
      \/ Return(1, "cast", None, e.id, Either)
  BY DEF VisitCast
<1>6. "Copy" \in StmtOps \ {"Addr"}
  BY DEF StmtOps
<1> HIDE DEF e, sty
<1>7. CASE Yield(1, "cast", None, Either, "Copy", e.id, 0, sty)
  BY <1>1, <1>3, <1>4, <1>6, <1>7, YieldTyped
<1>8. CASE Return(1, "cast", None, e.id, Either)
  BY <1>1, <1>3, <1>4, <1>8, ReturnTyped
<1>9. QED
  BY <1>5, <1>7, <1>8

\* Stores of one operand through others, all of which are nodes of the PAG.
LEMMA AssignedTyped ==
  ASSUME TypeOK, NEW n \in Nat, n + 1 \in 1..Len(stack), NEW dsts \in SUBSET Vals(pag),
         Assigned(n, dsts)
  PROVE  Preserved
<1> DEFINE rhs == stack[Arg(n + 1)]
           S == {Stmt("Store", rhs.id, d, currentICFG) : d \in dsts}
<1>1. /\ pag' = AddStmts(pag, S)
      /\ Push(n + 1, Operand("assign", None, rhs.id, Either))
      /\ UNCHANGED <<icfg, nodeStructTy, control>> /\ stubbed' \subseteq Funs
  BY DEF Assigned, TypeOK
<1>2. n + 1 \in 0..Len(stack) /\ rhs.id \in Vals(pag)
  BY OperandTyped
<1> HIDE DEF rhs
<1>3. currentICFG \in Nat
  BY AnchorTyped DEF NullId, Ids
<1>4. \A s \in S : IsStmt(pag, s) /\ s.op # "Addr"
  BY <1>2, <1>3 DEF Stmt, IsStmt, StmtOps, Vals
<1> HIDE DEF S
<1>5. IsPag(pag', icfg, Names) /\ Grows(pag, pag')
  BY <1>1, <1>4, AddStmtsFacts DEF TypeOK, GraphsOK
<1>6. TagsOK'
  BY <1>1, <1>5, TagsKept
<1>7. rhs.id \in Vals(pag')
  BY <1>2, <1>5, GrowsKinds
<1>8. "assign" \in Forms /\ None \in Names
  BY DEF Forms, Names
<1>9. StackOK'
  BY <1>1, <1>2, <1>5, <1>7, <1>8, OperandInType, UnchangedCovers, PushTyped
<1>10. QED
  BY <1>1, <1>5, <1>6, <1>9, ExprStepTyped

LEMMA AssignStep ==
  ASSUME TypeOK,
         \/ \E x \in Vars : VisitAssignIdentifier(x)
         \/ VisitAssignThrough
         \/ VisitAssignParenthesized
  PROVE  Preserved
<1>1. ASSUME NEW x \in Vars, VisitAssignIdentifier(x)
      PROVE  Preserved
  <2>1. 0 + 1 \in 1..Len(stack)
    <3>1. Len(stack) >= 1
      BY <1>1 DEF VisitAssignIdentifier
    <3>2. QED
      BY <3>1, StackNotEmpty
  <2>2. {sym.valId : sym \in Lookup(x)} \in SUBSET Vals(pag)
    BY LookupTyped DEF SymbolType
  <2>3. QED
    BY <1>1, <2>1, <2>2, AssignedTyped DEF VisitAssignIdentifier
<1>2. CASE VisitAssignThrough
  <2>1. 1 + 1 \in 1..Len(stack) /\ 1 \in 1..Len(stack)
    BY <1>2, StackNotEmpty DEF VisitAssignThrough
  <2>2. {stack[Arg(1)].id} \in SUBSET Vals(pag)
    BY <2>1, OperandTyped
  <2>3. QED
    BY <1>2, <2>1, <2>2, AssignedTyped DEF VisitAssignThrough
<1>3. CASE VisitAssignParenthesized
  <2>1. 0 + 1 \in 1..Len(stack) /\ {} \in SUBSET Vals(pag)
    BY <1>3, StackNotEmpty DEF VisitAssignParenthesized
  <2>2. QED
    BY <1>3, <2>1, AssignedTyped DEF VisitAssignParenthesized
<1>4. QED
  BY <1>1, <1>2, <1>3

\* The operands of a call are on the stack.
LEMMA ArgumentsTyped ==
  ASSUME TypeOK, NEW n \in 0..MaxStack, ArgumentsVisited(n)
  PROVE  /\ n \in 0..Len(stack)
         /\ \A i \in 1..n : Argument(n, i).id \in Vals(pag)
<1>1. MaxStack \in Nat /\ Len(stack) \in Nat
  BY BoundAssumption, StackNotEmpty
<1>2. n \in Nat /\ n <= Len(stack)
  BY <1>1 DEF ArgumentsVisited
<1>3. ASSUME NEW i \in 1..n
      PROVE  Argument(n, i).id \in Vals(pag)
  <2>1. Len(stack) - n + i \in 1..Len(stack)
    BY <1>1, <1>2
  <2>2. stack[Len(stack) - n + i] \in OperandType
    BY <2>1, ElementOfSeq DEF TypeOK, StackOK
  <2>3. QED
    BY <2>2 DEF Argument, OperandType
<1>4. QED
  BY <1>1, <1>2, <1>3

LEMMA UnknownCallStep ==
  ASSUME TypeOK, NEW f, NEW n \in 0..MaxStack, VisitUnknownCall(f, n)
  PROVE  Preserved
<1>1. UNCHANGED control /\ stubbed' \subseteq Funs
  BY DEF VisitUnknownCall, TypeOK
<1>2. n \in 0..Len(stack)
  <2>1. ArgumentsVisited(n)
    BY DEF VisitUnknownCall
  <2>2. QED
    BY <2>1, ArgumentsTyped
<1>3. "call" \in Forms /\ None \in Names
  BY DEF Forms, Names
<1>4. YieldFresh(n, "call", None, Either)
  BY DEF VisitUnknownCall
<1>5. QED
  BY <1>1, <1>2, <1>3, <1>4, YieldFreshTyped

LEMMA FuncInfoTyped ==
  ASSUME TypeOK, NEW f \in DOMAIN funcInfos
  PROVE  funcInfos[f] \in FuncInfoType /\ f \in Funs
  BY DEF TypeOK, FuncsOK, IsTable

\* The two ICFG nodes of a call by the function bb, and their edges.
LEMMA CallNodes ==
  ASSUME NEW c, NEW names, IsIcfg(c, names), NEW bb \in names,
         NEW from \in {NullId} \cup Ids(c), NEW entry \in Ids(c), NEW exit \in Ids(c),
         NEW d,
         d = AddIcfgEdge(AddIcfgEdge(
               AddIcfgEdge(AddIcfgNode(AddIcfgNode(c, "call", bb), "ret", bb),
                           "seq", from, LastId(c) + 1),
               "call", LastId(c) + 1, entry), "ret", exit, LastId(c) + 2)
  PROVE  IsIcfg(d, names) /\ Covers(c, d) /\ LastId(c) + 1 \in Ids(d)
<1> DEFINE c1 == AddIcfgNode(c, "call", bb)
           c2 == AddIcfgNode(c1, "ret", bb)
           c3 == AddIcfgEdge(c2, "seq", from, LastId(c) + 1)
           c4 == AddIcfgEdge(c3, "call", LastId(c) + 1, entry)
<1>1. /\ "call" \in IcfgKinds /\ "ret" \in IcfgKinds
      /\ "seq" \in EdgeKinds /\ "call" \in EdgeKinds /\ "ret" \in EdgeKinds
  BY DEF IcfgKinds, EdgeKinds
<1>2. IsIcfg(c1, names) /\ LastId(c) \in Nat /\ LastId(c1) = LastId(c) + 1
  BY <1>1, AddIcfgNodeFacts
<1> HIDE DEF c1
<1>3. IsIcfg(c2, names) /\ LastId(c2) = LastId(c) + 2
  BY <1>1, <1>2, AddIcfgNodeFacts
<1>4. \A i \in Ids(c) \cup {LastId(c) + 1, LastId(c) + 2} : i \in Ids(c2)
  BY <1>2, <1>3 DEF Ids, LastId
<1> DEFINE call == LastId(c) + 1
           ret == LastId(c) + 2
           ends == {NullId} \cup Ids(c2)
<1>5. from \in ends /\ call \in ends /\ ret \in ends /\ entry \in ends /\ exit \in ends
  BY <1>4
<1>6. c3 = AddIcfgEdge(c2, "seq", from, call) /\ c4 = AddIcfgEdge(c3, "call", call, entry)
  OBVIOUS
<1>7. d = AddIcfgEdge(c4, "ret", exit, ret)
  BY DEF c1, c2
<1> HIDE DEF c2, c3, c4, call, ret
<1>8. IsIcfg(c3, names) /\ LastId(c3) = LastId(c2)
  BY <1>1, <1>3, <1>5, <1>6, AddIcfgEdgeFacts
<1>9. Ids(c3) = Ids(c2)
  BY <1>8 DEF Ids, LastId
<1>10. IsIcfg(c4, names) /\ LastId(c4) = LastId(c2)
  BY <1>1, <1>5, <1>6, <1>8, <1>9, AddIcfgEdgeFacts
<1>11. Ids(c4) = Ids(c2)
  BY <1>10 DEF Ids, LastId
<1>12. IsIcfg(d, names) /\ LastId(d) = LastId(c2)
  BY <1>1, <1>5, <1>7, <1>10, <1>11, AddIcfgEdgeFacts
<1>13. Ids(d) = Ids(c2)
  BY <1>12 DEF Ids, LastId
<1>14. Covers(c, d)
  BY <1>2, <1>3, <1>12 DEF Covers
<1>15. QED
  BY <1>4, <1>12, <1>13, <1>14

\* The bindings of a call's arguments, and of its result.
LEMMA CallFlowTyped ==
  ASSUME TypeOK, NEW fi \in FuncInfoType, NEW n \in 0..Len(stack), NEW call \in Nat,
         \A i \in 1..n : Argument(n, i).id \in Vals(pag),
         pag' = CallFlow(fi, n, call)
  PROVE  IsPag(pag', icfg, Names) /\ Grows(pag, pag') /\ LastId(pag) + 1 \in Vals(pag')
<1> DEFINE passed == {i \in 1..n : i <= Len(fi.formals)}
           S == {Stmt("CallPE", Argument(n, i).id, fi.formals[i].val, call) : i \in passed}
           bound == AddStmts(pag, S)
<1>1. pag' = Emit(bound, "RetPE", fi.retVal, call, currentICFG)
  BY DEF CallFlow
<1>2. fi.formals \in Seq(FormalType) /\ fi.retVal \in Vals(pag)
  BY DEF FuncInfoType
<1>3. ASSUME NEW i \in passed
      PROVE  fi.formals[i].val \in Vals(pag) /\ Argument(n, i).id \in Vals(pag)
  <2>1. n \in Nat /\ Len(fi.formals) \in Nat
    BY <1>2, StackNotEmpty, LenProperties
  <2>2. i \in 1..Len(fi.formals)
    BY <2>1
  <2>3. fi.formals[i] \in FormalType
    BY <1>2, <2>2, ElementOfSeq
  <2>4. QED
    BY <2>3 DEF FormalType
<1> HIDE DEF passed
<1>4. \A s \in S : IsStmt(pag, s) /\ s.op # "Addr"
  BY <1>3 DEF Stmt, IsStmt, StmtOps, Vals
<1> HIDE DEF S
<1>5. IsPag(pag, icfg, Names) /\ None \in Names /\ currentICFG \in {NullId} \cup Ids(icfg)
  BY AnchorTyped DEF TypeOK, GraphsOK
<1>6. /\ IsPag(bound, icfg, Names) /\ Grows(pag, bound)
      /\ LastId(bound) = LastId(pag) /\ fi.retVal \in Vals(bound)
  BY <1>2, <1>4, <1>5, AddStmtsFacts, GrowsKinds
<1> HIDE DEF bound
<1>7. "RetPE" \in StmtOps \ {"Addr"}
  BY DEF StmtOps
<1>8. IsPag(pag', icfg, Names) /\ Grows(bound, pag') /\ LastId(bound) + 1 \in Vals(pag')
  BY <1>1, <1>5, <1>6, <1>7, EmitFacts
<1>9. QED
  BY <1>6, <1>8, GrowsTrans

LEMMA CallStep ==
  ASSUME TypeOK, NEW f \in Funs, NEW n \in 0..MaxStack, VisitCall(f, n)
  PROVE  Preserved
<1> DEFINE fi == funcInfos[f]
           call == LastId(icfg) + 1
<1>1. /\ UNCHANGED <<symtab, types, nodeStructTy, funcInfos, current, file, frames, toBind,
                     target, stubbed>>
      /\ f \in DOMAIN funcInfos /\ ArgumentsVisited(n)
      /\ pag' = CallFlow(fi, n, call)
      /\ Push(n, Operand("call", None, LastId(pag) + 1, Either))
      /\ callGraph' = callGraph \cup {[call |-> call, caller |-> currentFunc, callee |-> f]}
  BY DEF VisitCall, Callable
<1>2. icfg' = AddIcfgEdge(AddIcfgEdge(
                AddIcfgEdge(AddIcfgNode(AddIcfgNode(icfg, "call", currentBB), "ret", currentBB),
                            "seq", currentICFG, LastId(icfg) + 1),
                "call", LastId(icfg) + 1, fi.entry), "ret", fi.exit, LastId(icfg) + 2)
  BY DEF VisitCall
<1>3. fi \in FuncInfoType /\ fi.entry \in Ids(icfg) /\ fi.exit \in Ids(icfg)
  BY <1>1, FuncInfoTyped DEF FuncInfoType
<1>4. currentBB \in Funs \cup {None} /\ currentFunc \in Funs \cup {None}
  BY DEF TypeOK, CurrentOK, FuncsOK, IsTable
<1>5. IsIcfg(icfg, Funs \cup {None}) /\ currentICFG \in {NullId} \cup Ids(icfg)
  BY AnchorTyped DEF TypeOK, GraphsOK
<1> HIDE DEF fi
<1>6. IsIcfg(icfg', Funs \cup {None}) /\ Covers(icfg, icfg') /\ call \in Ids(icfg')
  BY <1>2, <1>3, <1>4, <1>5, CallNodes
<1>7. n \in 0..Len(stack) /\ \A i \in 1..n : Argument(n, i).id \in Vals(pag)
  BY <1>1, ArgumentsTyped
<1>8. call \in Nat
  BY <1>6 DEF Ids
<1> HIDE DEF call
<1>9. IsPag(pag', icfg, Names) /\ Grows(pag, pag') /\ LastId(pag) + 1 \in Vals(pag')
  BY <1>1, <1>3, <1>7, <1>8, CallFlowTyped
<1>10. GraphsOK'
  <2>1. IsPag(pag', icfg', Names)
    BY <1>6, <1>9, IsPagCovers
  <2>2. Ids(icfg) \subseteq Ids(icfg')
    BY <1>6, CoversIds
  <2>3. callGraph' \subseteq
          [call: Ids(icfg'), caller: Funs \cup {None}, callee: DOMAIN funcInfos]
    BY <1>1, <1>4, <1>6, <2>2 DEF TypeOK, GraphsOK
  <2>4. QED
    BY <1>1, <1>6, <2>1, <2>3 DEF GraphsOK, Names
<1>11. StackOK'
  <2>1. "call" \in Forms /\ None \in Names
    BY DEF Forms, Names
  <2>2. Operand("call", None, LastId(pag) + 1, Either) \in OperandType'
    BY <1>9, <2>1, OperandInType
  <2>3. QED
    BY <1>1, <1>6, <1>7, <1>9, <2>2, PushTyped
<1>12. SymtabOK' /\ TypesOK' /\ TagsOK' /\ FuncsOK'
  BY <1>1, <1>6, <1>9, SymtabKept, TypesKept, TagsKept, FuncsKept
<1>13. CurrentOK' /\ FileOK' /\ FramesOK' /\ TargetOK'
  BY <1>1, <1>6, <1>9, CurrentKept, FileKept, FramesKept, TargetKept
<1>14. QED
  BY <1>1, <1>9, <1>10, <1>11, <1>12, <1>13 DEF TypeOK, Preserved

LEMMA ExprStepPreserves ==
  ASSUME TypeOK, ExprStep
  PROVE  Preserved
<1>1. ASSUME NEW x \in Vars \cup Funs, VisitIdentifier(x)
      PROVE  Preserved
  BY <1>1, IdentifierStep
<1>2. ASSUME VisitNumber \/ VisitString \/ VisitNull \/ VisitAllocation
      PROVE  Preserved
  BY <1>2, NumberStep, StringStep, NullStep, AllocationStep
<1>3. ASSUME VisitParenthesized \/ VisitAddressOf \/ VisitDeref \/ VisitLastChild
      PROVE  Preserved
  BY <1>3, ParenthesizedStep, AddressOfStep, DerefStep, LastChildStep
<1>4. ASSUME NEW additive \in BOOLEAN, VisitBinary(additive)
      PROVE  Preserved
  BY <1>4, BinaryStep
<1>5. ASSUME \/ \E x \in Vars : VisitAssignIdentifier(x)
             \/ VisitAssignThrough
             \/ VisitAssignParenthesized
      PROVE  Preserved
  BY <1>5, AssignStep
<1>6. ASSUME NEW f \in Fields, NEW arrow \in BOOLEAN, VisitField(f, arrow)
      PROVE  Preserved
  BY <1>6, FieldStep
<1>7. ASSUME VisitSubscript
      PROVE  Preserved
  BY <1>7, SubscriptStep
<1>8. ASSUME NEW f \in Funs, NEW n \in 0..MaxStack, VisitCall(f, n)
      PROVE  Preserved
  BY <1>8, CallStep
<1>9. ASSUME NEW f \in Funs \cup {None}, NEW n \in 0..MaxStack, VisitUnknownCall(f, n)
      PROVE  Preserved
  BY <1>9, UnknownCallStep
<1>10. ASSUME NEW spec \in Specifiers, VisitCast(spec)
       PROVE  Preserved
  BY <1>10, CastStep
<1>11. QED
  BY <1>1, <1>2, <1>3, <1>4, <1>5, <1>6, <1>7, <1>8, <1>9, <1>10 DEF ExprStep

-----------------------------------------------------------------------------
(* The symbol table and the frames *)

LEMMA EmptyIsTable ==
  ASSUME NEW S, NEW T, NEW v
  PROVE  IsTable([x \in {} |-> v], S, T)
  BY DEF IsTable

LEMMA GlobalsKept ==
  ASSUME TypeOK, Grows(pag, pag'), Covers(icfg, icfg'), UNCHANGED globals
  PROVE  IsTable(globals', Vars \cup Funs, SymbolType')
  BY TypesWiden, TableWidens DEF TypeOK, SymtabOK

LEMMA ScopesWiden ==
  ASSUME TypeOK, Grows(pag, pag'), Covers(icfg, icfg')
  PROVE  IsSequence(scopes) /\ \A i \in DOMAIN scopes : IsTable(scopes[i], Vars \cup {QualifiedText}, SymbolType')
  BY TypesWiden, TableWidens DEF TypeOK, SymtabOK

LEMMA EnterScopeTyped ==
  ASSUME TypeOK, Grows(pag, pag'), Covers(icfg, icfg'), UNCHANGED globals, EnterScope
  PROVE  SymtabOK'
<1>1. IsSequence(scopes) /\ \A i \in DOMAIN scopes : IsTable(scopes[i], Vars \cup {QualifiedText}, SymbolType')
  BY ScopesWiden
<1>2. /\ IsSequence(scopes')
      /\ \A i \in DOMAIN scopes' :
           scopes'[i] = NoSymbols \/ (i \in DOMAIN scopes /\ scopes'[i] = scopes[i])
  BY <1>1, AppendFacts DEF EnterScope
<1>3. IsTable(NoSymbols, Vars \cup {QualifiedText}, SymbolType')
  BY EmptyIsTable DEF NoSymbols
<1>4. \A i \in DOMAIN scopes' : IsTable(scopes'[i], Vars \cup {QualifiedText}, SymbolType')
  BY <1>1, <1>2, <1>3
<1>5. QED
  BY <1>2, <1>4, GlobalsKept DEF SymtabOK

LEMMA ExitScopeTyped ==
  ASSUME TypeOK, Grows(pag, pag'), Covers(icfg, icfg'), UNCHANGED globals, ExitScope
  PROVE  SymtabOK'
<1>1. IsSequence(scopes) /\ \A i \in DOMAIN scopes : IsTable(scopes[i], Vars \cup {QualifiedText}, SymbolType')
  BY ScopesWiden
<1>2. Len(scopes) \in Nat
  BY <1>1, SequenceFacts
<1>3. Len(scopes) - 1 \in Int /\ Len(scopes) - 1 <= Len(scopes)
  BY <1>2
<1>4. /\ IsSequence(scopes')
      /\ \A i \in DOMAIN scopes' : i \in DOMAIN scopes /\ scopes'[i] = scopes[i]
  BY <1>1, <1>3, PrefixFacts DEF ExitScope
<1>5. \A i \in DOMAIN scopes' : IsTable(scopes'[i], Vars \cup {QualifiedText}, SymbolType')
  BY <1>1, <1>4
<1>6. QED
  BY <1>4, <1>5, GlobalsKept DEF SymtabOK

DataType == {IntTy, PtrTy, FunTy} \cup Structs

LEMMA SymbolTyped ==
  ASSUME NEW ty \in DataType, NEW obj \in Objects(pag'), NEW val \in Vals(pag'),
         NEW isFunction \in BOOLEAN, NEW isArray \in BOOLEAN
  PROVE  Symbol(ty, obj, val, isFunction, isArray) \in SymbolType'
  BY DEF Symbol, SymbolType, DataType

LEMMA DeclaredInDataType ==
  ASSUME TypeOK, NEW spec, NEW d
  PROVE  DeclaredType(spec, d) \in DataType
  BY ParsedType DEF DeclaredType, DataType

LEMMA BindLocalTyped ==
  ASSUME TypeOK, Grows(pag, pag'), Covers(icfg, icfg'), UNCHANGED globals,
         NEW x \in Vars \cup {QualifiedText}, NEW ty \in DataType, NEW isArray \in BOOLEAN,
         LastId(pag) + 1 \in Objects(pag'), LastId(pag) + 2 \in Vals(pag'),
         BindLocal(x, ty, isArray)
  PROVE  SymtabOK'
<1> DEFINE sym == Symbol(ty, LastId(pag) + 1, LastId(pag) + 2, FALSE, isArray)
           n == Len(scopes)
           inner == Bind(scopes[n], x, sym)
<1>1. IsSequence(scopes) /\ \A i \in DOMAIN scopes : IsTable(scopes[i], Vars \cup {QualifiedText}, SymbolType')
  BY ScopesWiden
<1>2. sym \in SymbolType'
  BY SymbolTyped
<1>3. scopes' = [scopes EXCEPT ![n] = inner]
  BY DEF BindLocal
<1> HIDE DEF sym
<1>4. n \in DOMAIN scopes => IsTable(inner, Vars \cup {QualifiedText}, SymbolType')
  BY <1>1, <1>2, BindIsTable
<1> HIDE DEF inner, n
<1>5. /\ IsSequence(scopes') /\ DOMAIN scopes' = DOMAIN scopes
      /\ \A i \in DOMAIN scopes' : (scopes'[i] = inner /\ i = n) \/ scopes'[i] = scopes[i]
  BY <1>1, <1>3, ReplaceFacts
<1>6. \A i \in DOMAIN scopes' : IsTable(scopes'[i], Vars \cup {QualifiedText}, SymbolType')
  BY <1>1, <1>4, <1>5
<1>7. QED
  BY <1>5, <1>6, GlobalsKept DEF SymtabOK

LEMMA FrameIsFrame ==
  ASSUME NEW kind \in FrameKinds
  PROVE  IsFrame(Frame(kind), {NullId} \cup Vals(pag'))
  BY EmptyIsTable DEF IsFrame, Frame

\* The frames, as the step finds them, are frames over the PAG that it leaves behind.
LEMMA FramesStay ==
  ASSUME TypeOK, Grows(pag, pag'), Covers(icfg, icfg')
  PROVE  /\ IsSequence(frames) /\ Len(frames) \in Nat /\ DOMAIN frames = 1..Len(frames)
         /\ \A i \in DOMAIN frames : IsFrame(frames[i], {NullId} \cup Vals(pag'))
         /\ toBind \in Seq(FormalType')
<1>1. IsSequence(frames) /\ \A i \in DOMAIN frames : IsFrame(frames[i], {NullId} \cup Vals(pag'))
  BY FramesWiden DEF TypeOK, FramesOK
<1>2. toBind \in Seq(FormalType')
  BY TypesWiden, SeqMonotonic DEF TypeOK, FramesOK
<1>3. QED
  BY <1>1, <1>2, SequenceFacts

LEMMA PushFrame ==
  ASSUME TypeOK, Grows(pag, pag'), Covers(icfg, icfg'), NEW kind \in FrameKinds,
         frames' = Append(frames, Frame(kind)), UNCHANGED toBind
  PROVE  FramesOK'
<1>1. /\ IsSequence(frames) /\ \A i \in DOMAIN frames : IsFrame(frames[i], {NullId} \cup Vals(pag'))
      /\ toBind \in Seq(FormalType')
  BY FramesStay
<1>2. /\ IsSequence(frames')
      /\ \A i \in DOMAIN frames' :
           frames'[i] = Frame(kind) \/ (i \in DOMAIN frames /\ frames'[i] = frames[i])
  BY <1>1, AppendFacts
<1>3. IsFrame(Frame(kind), {NullId} \cup Vals(pag'))
  BY FrameIsFrame
<1>4. \A i \in DOMAIN frames' : IsFrame(frames'[i], {NullId} \cup Vals(pag'))
  BY <1>1, <1>2, <1>3
<1>5. QED
  BY <1>1, <1>2, <1>4 DEF FramesOK

LEMMA PopFrames ==
  ASSUME TypeOK, Grows(pag, pag'), Covers(icfg, icfg'), NEW n \in Nat,
         frames' = SubSeq(frames, 1, Len(frames) - n), UNCHANGED toBind
  PROVE  FramesOK'
<1>1. /\ IsSequence(frames) /\ \A i \in DOMAIN frames : IsFrame(frames[i], {NullId} \cup Vals(pag'))
      /\ toBind \in Seq(FormalType') /\ Len(frames) \in Nat
  BY FramesStay
<1>2. Len(frames) - n \in Int /\ Len(frames) - n <= Len(frames)
  BY <1>1
<1>3. /\ IsSequence(frames')
      /\ \A i \in DOMAIN frames' : i \in DOMAIN frames /\ frames'[i] = frames[i]
  BY <1>1, <1>2, PrefixFacts
<1>4. \A i \in DOMAIN frames' : IsFrame(frames'[i], {NullId} \cup Vals(pag'))
  BY <1>1, <1>3
<1>5. QED
  BY <1>1, <1>3, <1>4 DEF FramesOK

LEMMA ReplaceFrame ==
  ASSUME TypeOK, Grows(pag, pag'), Covers(icfg, icfg'), NEW n, NEW fr,
         n \in DOMAIN frames => IsFrame(fr, {NullId} \cup Vals(pag')),
         frames' = [frames EXCEPT ![n] = fr], toBind' \in Seq(FormalType')
  PROVE  FramesOK' /\ (frames' # <<>> => frames # <<>>)
<1>1. IsSequence(frames) /\ \A i \in DOMAIN frames : IsFrame(frames[i], {NullId} \cup Vals(pag'))
  BY FramesStay
<1>2. /\ IsSequence(frames') /\ Len(frames') = Len(frames) /\ DOMAIN frames' = DOMAIN frames
      /\ \A i \in DOMAIN frames' : (frames'[i] = fr /\ i = n) \/ frames'[i] = frames[i]
  BY <1>1, ReplaceFacts
<1>3. \A i \in DOMAIN frames' : IsFrame(frames'[i], {NullId} \cup Vals(pag'))
  BY <1>1, <1>2
<1>4. FramesOK'
  BY <1>2, <1>3 DEF FramesOK
<1>5. ASSUME frames' # <<>>
      PROVE  frames # <<>>
  BY <1>2, <1>5, EmptySeq DEF IsSequence
<1>6. QED
  BY <1>4, <1>5

LEMMA DeclaredTyped ==
  ASSUME TypeOK, Grows(pag, pag'), Covers(icfg, icfg'), NEW x \in Vars,
         NEW id \in {NullId} \cup Vals(pag'), frames' = Declared(frames, x, id), toBind' \in Seq(FormalType')
  PROVE  FramesOK' /\ (frames' # <<>> => frames # <<>>)
<1> DEFINE n == Len(frames)
           fr == [frames[n] EXCEPT !.env = Bind(frames[n].env, x, id)]
<1>1. frames' = [frames EXCEPT ![n] = fr]
  BY DEF Declared
<1>2. ASSUME n \in DOMAIN frames
      PROVE  IsFrame(fr, {NullId} \cup Vals(pag'))
  <2>1. IsFrame(frames[n], {NullId} \cup Vals(pag'))
    BY <1>2, FramesStay
  <2>2. IsTable(Bind(frames[n].env, x, id), Vars, {NullId} \cup Vals(pag'))
    BY <2>1, BindIsTable DEF IsFrame
  <2>3. fr = [kind |-> frames[n].kind, env |-> Bind(frames[n].env, x, id)]
    BY <2>1 DEF IsFrame
  <2>4. fr.kind = frames[n].kind /\ fr.env = Bind(frames[n].env, x, id)
    BY <2>3
  <2>5. QED
    BY <2>1, <2>2, <2>3, <2>4 DEF IsFrame
<1> HIDE DEF n, fr
<1>3. QED
  BY <1>1, <1>2, ReplaceFrame

-----------------------------------------------------------------------------
(* Function bodies and statements *)

\* A step that touches scopes, frames or operands and none of the graphs.
LEMMA QuietStep ==
  ASSUME TypeOK,
         UNCHANGED <<graphs, globals, types, nodeStructTy, funcInfos, current, file, target,
                     stubbed>>,
         SymtabOK', FramesOK', StackOK', frames' # <<>> => frames # <<>>
  PROVE  Preserved
<1>1. GraphsOK' /\ Grows(pag, pag') /\ Covers(icfg, icfg')
  BY GraphsKept
<1>2. TypesOK' /\ TagsOK' /\ FuncsOK' /\ CurrentOK' /\ FileOK' /\ TargetOK'
  BY <1>1, TypesKept, TagsKept, FuncsKept, CurrentKept, FileKept, TargetKept
<1>3. QED
  BY <1>1, <1>2 DEF TypeOK, Preserved

LEMMA EmptyStackOK ==
  ASSUME stack' = <<>>
  PROVE  StackOK'
  BY EmptySeq DEF StackOK

LEMMA EnterBodyStep ==
  ASSUME TypeOK, EnterBody
  PROVE  Preserved
<1> DEFINE fun == [frames[1] EXCEPT !.kind = "fun"]
           block == Frame("block")
<1>1. Grows(pag, pag') /\ Covers(icfg, icfg')
  BY GraphsKept DEF EnterBody
<1>2. SymtabOK' /\ StackOK'
  BY <1>1, EnterScopeTyped, StackKept DEF EnterBody
<1>3. 1 \in DOMAIN frames
  BY FramesStay, <1>1, EmptySeq DEF EnterBody, IsSequence
<1>4. IsFrame(frames[1], {NullId} \cup Vals(pag'))
  BY <1>1, <1>3, FramesStay
<1>5. fun = [kind |-> "fun", env |-> frames[1].env]
  BY <1>4 DEF IsFrame
<1>6. IsFrame(fun, {NullId} \cup Vals(pag')) /\ IsFrame(block, {NullId} \cup Vals(pag'))
  BY <1>4, <1>5, FrameIsFrame DEF IsFrame, FrameKinds
<1> HIDE DEF fun, block
<1>7. frames' = <<fun, block>> /\ UNCHANGED toBind /\ frames # <<>>
  BY DEF EnterBody, fun, block
<1>8. frames' \in Seq({fun, block}) /\ DOMAIN frames' = 1..2
  BY <1>7
<1>9. IsSequence(frames')
  BY <1>7, <1>8 DEF IsSequence
<1>10. \A i \in DOMAIN frames' : IsFrame(frames'[i], {NullId} \cup Vals(pag'))
  BY <1>6, <1>7, <1>8
<1>11. FramesOK'
  BY <1>1, <1>7, <1>9, <1>10, FramesStay DEF FramesOK
<1>12. QED
  BY <1>2, <1>7, <1>11, QuietStep DEF EnterBody

\* A step of the blocks and for statements: what is left to show of it.
LEMMA FrameStep ==
  ASSUME TypeOK,
         UNCHANGED <<graphs, globals, types, nodeStructTy, funcInfos, current, file, toBind, stack,
                     target, stubbed>>,
         frames # <<>>, FramesOK',
         EnterScope \/ (ExitScope \/ UNCHANGED scopes)
  PROVE  Preserved
<1>1. Grows(pag, pag') /\ Covers(icfg, icfg')
  BY GraphsKept
<1>2. ASSUME UNCHANGED scopes
      PROVE  SymtabOK'
  BY <1>1, <1>2, SymtabKept DEF symtab
<1>3. SymtabOK'
  BY <1>1, <1>2, EnterScopeTyped, ExitScopeTyped
<1>4. StackOK'
  BY <1>1, StackKept
<1>5. QED
  BY <1>3, <1>4, QuietStep

LEMMA BlockStep ==
  ASSUME TypeOK, EnterBlock \/ VisitFor
  PROVE  Preserved
<1>1. "block" \in FrameKinds /\ "for" \in FrameKinds
  BY DEF FrameKinds
<1>2. CASE EnterBlock
  <2>1. Grows(pag, pag') /\ Covers(icfg, icfg')
    BY <1>2, GraphsKept DEF EnterBlock
  <2>2. frames' = Append(frames, Frame("block")) /\ UNCHANGED toBind
    BY <1>2 DEF EnterBlock
  <2>3. FramesOK'
    BY <1>1, <2>1, <2>2, PushFrame
  <2>4. frames # <<>>
    BY <1>2 DEF EnterBlock, AtStatement, InBody
  <2>5. QED
    BY <1>2, <2>3, <2>4, FrameStep DEF EnterBlock
<1>3. CASE VisitFor
  <2>1. Grows(pag, pag') /\ Covers(icfg, icfg')
    BY <1>3, GraphsKept DEF VisitFor
  <2>2. frames' = Append(frames, Frame("for")) /\ UNCHANGED toBind
    BY <1>3 DEF VisitFor
  <2>3. FramesOK'
    BY <1>1, <2>1, <2>2, PushFrame
  <2>4. frames # <<>>
    BY <1>3 DEF VisitFor, AtStatement, InBody
  <2>5. QED
    BY <1>3, <2>3, <2>4, FrameStep DEF VisitFor, symtab
<1>4. QED
  BY <1>2, <1>3

LEMMA EndBlockStep ==
  ASSUME TypeOK, ExitBlock \/ EndFor
  PROVE  Preserved
<1>1. CASE ExitBlock
  <2>1. Grows(pag, pag') /\ Covers(icfg, icfg')
    BY <1>1, GraphsKept DEF ExitBlock
  <2>2. /\ \/ frames' = SubSeq(frames, 1, Len(frames) - 1)
           \/ frames' = SubSeq(frames, 1, Len(frames) - 2)
        /\ UNCHANGED toBind
    BY <1>1 DEF ExitBlock, Enclosing
  <2>3. FramesOK'
    BY <2>1, <2>2, PopFrames
  <2>4. frames # <<>>
    BY <1>1 DEF ExitBlock, AtStatement, InBody
  <2>5. QED
    BY <1>1, <2>3, <2>4, FrameStep DEF ExitBlock
<1>2. CASE EndFor
  <2>1. Grows(pag, pag') /\ Covers(icfg, icfg')
    BY <1>2, GraphsKept DEF EndFor
  <2>2. frames' = SubSeq(frames, 1, Len(frames) - 1) /\ UNCHANGED toBind
    BY <1>2 DEF EndFor, Enclosing
  <2>3. FramesOK'
    BY <2>1, <2>2, PopFrames
  <2>4. frames # <<>>
    BY <1>2 DEF EndFor, AtStatement, InBody
  <2>5. QED
    BY <1>2, <2>3, <2>4, FrameStep DEF EndFor, symtab
<1>3. QED
  BY <1>1, <1>2

LEMMA ForClauseStep ==
  ASSUME TypeOK, VisitForClause
  PROVE  Preserved
<1> DEFINE n == Len(frames)
           fr == [frames[n] EXCEPT !.kind = "loop"]
<1>1. Grows(pag, pag') /\ Covers(icfg, icfg')
  BY GraphsKept DEF VisitForClause
<1>2. SymtabOK' /\ StackOK'
  BY <1>1, SymtabKept, EmptyStackOK DEF VisitForClause
<1>3. frames' = [frames EXCEPT ![n] = fr] /\ UNCHANGED toBind
  BY DEF VisitForClause
<1>4. ASSUME n \in DOMAIN frames
      PROVE  IsFrame(fr, {NullId} \cup Vals(pag'))
  <2>1. IsFrame(frames[n], {NullId} \cup Vals(pag'))
    BY <1>1, <1>4, FramesStay
  <2>2. fr = [kind |-> "loop", env |-> frames[n].env]
    BY <2>1 DEF IsFrame
  <2>3. QED
    BY <2>1, <2>2 DEF IsFrame, FrameKinds
<1>5. toBind' \in Seq(FormalType')
  BY <1>1, <1>3, FramesStay
<1> HIDE DEF n, fr
<1>6. FramesOK' /\ (frames' # <<>> => frames # <<>>)
  BY <1>1, <1>3, <1>4, <1>5, ReplaceFrame
<1>7. QED
  BY <1>2, <1>6, QuietStep DEF VisitForClause, symtab

LEMMA ExprStmtStep ==
  ASSUME TypeOK, VisitExprStmt
  PROVE  Preserved
<1>1. Grows(pag, pag') /\ Covers(icfg, icfg')
  BY GraphsKept DEF VisitExprStmt
<1>2. SymtabOK' /\ StackOK' /\ FramesOK'
  BY <1>1, SymtabKept, EmptyStackOK, FramesKept DEF VisitExprStmt
<1>3. QED
  BY <1>2, QuietStep DEF VisitExprStmt, symtab

\* A store or copy that ends a statement: the PAG and the operands change.
LEMMA FlowStep ==
  ASSUME TypeOK,
         UNCHANGED <<icfg, callGraph, symtab, types, nodeStructTy, funcInfos, current, file,
                     frames, toBind, stubbed>>,
         IsPag(pag', icfg, Names), Grows(pag, pag'), stack' = <<>>, TargetOK'
  PROVE  Preserved
<1>1. GraphsOK' /\ Covers(icfg, icfg')
  BY PagGrows
<1>2. SymtabOK' /\ TypesOK' /\ TagsOK' /\ FuncsOK'
  BY <1>1, SymtabKept, TypesKept, TagsKept, FuncsKept
<1>3. CurrentOK' /\ FileOK' /\ FramesOK' /\ StackOK'
  BY <1>1, CurrentKept, FileKept, FramesKept, EmptyStackOK
<1>4. QED
  BY <1>1, <1>2, <1>3 DEF TypeOK, Preserved

LEMMA AddFlow ==
  ASSUME TypeOK, NEW op \in StmtOps \ {"Addr"}, NEW src \in Vals(pag), NEW dst \in Vals(pag),
         NEW arg \in Nat, pag' = AddStmt(pag, op, src, dst, arg)
  PROVE  IsPag(pag', icfg, Names) /\ Grows(pag, pag')
<1> DEFINE S == {Stmt(op, src, dst, arg)}
<1>1. \A s \in S : IsStmt(pag, s) /\ s.op # "Addr"
  BY DEF Stmt, IsStmt, Vals
<1>2. pag' = AddStmts(pag, S)
  BY DEF AddStmt
<1> HIDE DEF S
<1>3. QED
  BY <1>1, <1>2, AddStmtsFacts DEF TypeOK, GraphsOK

LEMMA OneOperand ==
  ASSUME TypeOK, Len(stack) = 1
  PROVE  stack[1].id \in Vals(pag)
<1>1. stack[1] \in OperandType
  BY ElementOfSeq DEF TypeOK, StackOK
<1>2. QED
  BY <1>1 DEF OperandType

LEMMA EndInitializerStep ==
  ASSUME TypeOK, EndInitializer
  PROVE  Preserved
<1>1. stack[1].id \in Vals(pag)
  BY OneOperand DEF EndInitializer
<1>2. target.val \in Vals(pag)
  BY DEF EndInitializer, TypeOK, TargetOK, TargetType
<1>3. currentICFG \in Nat /\ "Store" \in StmtOps \ {"Addr"}
  BY AnchorTyped DEF NullId, Ids, StmtOps
<1>4. IsPag(pag', icfg, Names) /\ Grows(pag, pag')
  BY <1>1, <1>2, <1>3, AddFlow DEF EndInitializer
<1>5. TargetOK'
  BY DEF EndInitializer, TargetOK, TargetType, NoTarget
<1>6. QED
  BY <1>4, <1>5, FlowStep DEF EndInitializer

LEMMA ReturnStep ==
  ASSUME TypeOK, VisitReturn
  PROVE  Preserved
<1> DEFINE v == stack[1].id
<1>1. v \in Vals(pag)
  BY OneOperand DEF VisitReturn, ExprVisited
<1>2. pag' = ReturnFlow(v)
  BY DEF VisitReturn
<1> HIDE DEF v
<1>3. ASSUME currentRetIsPtr /\ pag.node[v].ptr
      PROVE  IsPag(pag', icfg, Names) /\ Grows(pag, pag')
  <2>1. currentRetVal \in Vals(pag)
    BY <1>3 DEF TypeOK, CurrentOK
  <2>2. 0 \in Nat /\ "Copy" \in StmtOps \ {"Addr"}
    BY DEF StmtOps
  <2>3. pag' = AddStmt(pag, "Copy", v, currentRetVal, 0)
    BY <1>2, <1>3 DEF ReturnFlow
  <2>4. QED
    BY <1>1, <2>1, <2>2, <2>3, AddFlow
<1>4. ASSUME ~(currentRetIsPtr /\ pag.node[v].ptr)
      PROVE  IsPag(pag', icfg, Names) /\ Grows(pag, pag')
  BY <1>2, <1>4, GrowsRefl DEF ReturnFlow, TypeOK, GraphsOK
<1>5. IsPag(pag', icfg, Names) /\ Grows(pag, pag')
  BY <1>3, <1>4
<1>6. TargetOK'
  BY <1>5, TargetKept, UnchangedCovers DEF VisitReturn
<1>7. QED
  BY <1>5, <1>6, FlowStep DEF VisitReturn

-----------------------------------------------------------------------------
(* Files and their top-level declarations *)

\* A step between the bodies that adds to none of the graphs.
LEMMA QuietUnitStep ==
  ASSUME TypeOK, UNCHANGED <<graphs, nodeStructTy, funcInfos, cursor, stubbed>>,
         Grows(pag, pag') /\ Covers(icfg, icfg')
           => SymtabOK' /\ TypesOK' /\ CurrentOK' /\ FileOK'
  PROVE  Preserved
<1>1. GraphsOK' /\ Grows(pag, pag') /\ Covers(icfg, icfg')
  BY GraphsKept
<1>2. UNCHANGED <<frames, toBind, stack, target>>
  BY DEF cursor
<1>3. TagsOK' /\ FuncsOK' /\ FramesOK' /\ StackOK' /\ TargetOK'
  BY <1>1, <1>2, TagsKept, FuncsKept, FramesKept, StackKept, TargetKept
<1>4. QED
  BY <1>1, <1>3 DEF TypeOK, Preserved

LEMMA StartUnitStep ==
  ASSUME TypeOK, StartUnit
  PROVE  Preserved
<1>1. ASSUME Grows(pag, pag') /\ Covers(icfg, icfg')
      PROVE  SymtabOK' /\ TypesOK' /\ CurrentOK' /\ FileOK'
  <2>1. SymtabOK'
    BY <1>1, EnterScopeTyped DEF StartUnit
  <2>2. TypesOK'
    BY TypesKept DEF StartUnit
  <2>3. GlobalNode \in Ids(icfg) /\ icfg' = icfg /\ pag' = pag
    BY DEF TypeOK, GraphsOK, IsIcfg, StartUnit, graphs
  <2>4. CurrentOK'
    BY <2>3 DEF StartUnit, AnchorGlobally, TypeOK, CurrentOK, cursor
  <2>5. FileOK'
    BY DEF StartUnit, TypeOK, FileOK
  <2>6. QED
    BY <2>1, <2>2, <2>4, <2>5
<1>2. QED
  BY <1>1, QuietUnitStep DEF StartUnit

LEMMA EndPrescanStep ==
  ASSUME TypeOK, EndPrescan
  PROVE  Preserved
<1>1. ASSUME Grows(pag, pag') /\ Covers(icfg, icfg')
      PROVE  SymtabOK' /\ TypesOK' /\ CurrentOK' /\ FileOK'
  <2>1. FileOK'
    BY DEF EndPrescan, TypeOK, FileOK
  <2>2. QED
    BY <1>1, <2>1, SymtabKept, TypesKept, CurrentKept DEF EndPrescan, cursor
<1>2. QED
  BY <1>1, QuietUnitStep DEF EndPrescan

LEMMA EndUnitStep ==
  ASSUME TypeOK, EndUnit
  PROVE  Preserved
<1>1. ASSUME Grows(pag, pag') /\ Covers(icfg, icfg')
      PROVE  SymtabOK' /\ TypesOK' /\ CurrentOK' /\ FileOK'
  <2>1. FileOK'
    BY DEF EndUnit, TypeOK, FileOK
  <2>2. QED
    BY <1>1, <2>1, ExitScopeTyped, TypesKept, CurrentKept DEF EndUnit, cursor
<1>2. QED
  BY <1>1, QuietUnitStep DEF EndUnit

\* The rows of the field table that a struct definition adds.
LEMMA FieldMetasTyped ==
  ASSUME TypeOK, NEW def \in Seq(FieldDecl)
  PROVE  FieldMetas(def) \in Seq(FieldMetaType) /\ Len(def) \in Nat
<1>1. Len(def) \in Nat /\ DOMAIN def = 1..Len(def)
  BY LenProperties
<1>2. \A i \in DOMAIN def : def[i] \in FieldDecl
  BY <1>1, ElementOfSeq
<1>3. \A decl \in FieldDecl : FieldMeta(decl) \in FieldMetaType
  BY AsStructTyped DEF FieldDecl, FieldMeta, FieldMetaType
<1>4. FieldMetas(def) \in [1..Len(def) -> FieldMetaType]
  BY <1>1, <1>2, <1>3 DEF FieldMetas
<1>5. QED
  BY <1>1, <1>4, SeqDef

LEMMA StructSpecifierStep ==
  ASSUME TypeOK, NEW s \in Structs, NEW def \in StructDefs, VisitStructSpecifier(s, def)
  PROVE  Preserved
<1>1. def \in Seq(FieldDecl)
  BY ShapeAssumption
<1>2. FieldMetas(def) \in Seq(FieldMetaType) /\ Len(def) \in Nat
  BY <1>1, FieldMetasTyped
<1>3. /\ typedefs' = typedefs
      /\ stInfo' = Bind(stInfo, s, Len(def))
      /\ structFields' = [structFields EXCEPT ![s] = structFields[s] \o FieldMetas(def)]
  BY DEF VisitStructSpecifier
<1>4. structFields[s] \o FieldMetas(def) \in Seq(FieldMetaType)
  BY <1>2, ConcatProperties DEF TypeOK, TypesOK
<1>5. FieldMetaType' = FieldMetaType
  BY DEF FieldMetaType
<1>6. TypesOK'
  <2>1. IsTable(stInfo', Structs, Nat)
    BY <1>2, <1>3, BindIsTable DEF TypeOK, TypesOK
  <2>2. QED
    BY <1>3, <1>4, <1>5, <2>1 DEF TypeOK, TypesOK
<1>7. FileOK'
  BY DEF VisitStructSpecifier, TypeOK, FileOK
<1>8. ASSUME Grows(pag, pag') /\ Covers(icfg, icfg')
      PROVE  SymtabOK' /\ CurrentOK'
  BY <1>8, SymtabKept, CurrentKept DEF VisitStructSpecifier, cursor
<1>9. QED
  BY <1>6, <1>7, <1>8, QuietUnitStep DEF VisitStructSpecifier

LEMMA TypeDefinitionStep ==
  ASSUME TypeOK, NEW alias \in Aliases, NEW spec, VisitTypeDefinition(alias, spec)
  PROVE  Preserved
<1>1. /\ typedefs' = Bind(typedefs, alias, ParseType(spec))
      /\ UNCHANGED <<structFields, stInfo>>
  BY DEF VisitTypeDefinition
<1>2. IsTable(Bind(typedefs, alias, ParseType(spec)), Aliases, {IntTy} \cup Structs)
  BY ParsedType, BindIsTable DEF TypeOK, TypesOK
<1>3. TypesOK'
  BY <1>1, <1>2 DEF TypeOK, TypesOK, FieldMetaType
<1>4. ASSUME Grows(pag, pag') /\ Covers(icfg, icfg')
      PROVE  SymtabOK' /\ CurrentOK' /\ FileOK'
  BY <1>4, SymtabKept, CurrentKept, FileKept DEF VisitTypeDefinition, cursor
<1>5. QED
  BY <1>3, <1>4, QuietUnitStep DEF VisitTypeDefinition

\* Where declarations and bodies put an object: what AddObjectFacts says at the anchor.
LEMMA ObjectAtAnchor ==
  ASSUME TypeOK, NEW kind \in ObjKinds, NEW name \in Names, NEW size \in Nat,
         StructsHaveFields => size # 0, NEW h, h = AddObject(pag, kind, currentICFG, name, size)
  PROVE  /\ IsPag(h, icfg, Names) /\ Grows(pag, h)
         /\ LastId(pag) \in Nat /\ LastId(h) = LastId(pag) + 2
         /\ LastId(pag) + 1 \in Objects(h) /\ LastId(pag) + 2 \in Vals(h)
<1>1. IsPag(pag, icfg, Names) /\ currentICFG \in {NullId} \cup Ids(icfg)
  BY AnchorTyped DEF TypeOK, GraphsOK
<1>2. QED
  BY <1>1, AddObjectFacts

LEMMA OpenTarget ==
  ASSUME NEW id \in Vals(pag'), NEW text \in SUBSET {"*", "["},
         target' = NoTarget \/ target' = [val |-> id, text |-> text]
  PROVE  TargetOK'
<1>1. id # NullId
  BY DEF Vals, Ids, NullId
<1>2. NoTarget \in TargetType' /\ NoTarget.val = NullId
  BY DEF NoTarget, TargetType
<1>3. ASSUME NEW t, t = [val |-> id, text |-> text]
      PROVE  t \in TargetType' /\ t.val = id
  BY <1>3 DEF TargetType
<1>4. NoTarget' = NoTarget
  BY DEF NoTarget
<1>5. QED
  BY <1>1, <1>2, <1>3, <1>4 DEF TargetOK

LEMMA GlobalDeclStep ==
  ASSUME TypeOK, NEW x \in Vars \cup Funs, NEW spec, NEW d \in Declarators, NEW init \in BOOLEAN,
         VisitGlobalDecl(x, spec, d, init)
  PROVE  Preserved
<1> DEFINE ty == DeclaredType(spec, d)
           text == {c \in {"*", "["} : IF c = "*" THEN d.star ELSE d.bracket}
           sym == Symbol(ty, LastId(pag) + 1, LastId(pag) + 2, FALSE, d.bracket)
<1>1. /\ ty \in DataType /\ FlattenedFields(ty) \in Nat
      /\ StructsHaveFields => FlattenedFields(ty) # 0
  BY DeclaredInDataType, FlattenedNat
<1>2. /\ pag' = AddObject(pag, "global", currentICFG, x, FlattenedFields(ty))
      /\ globals' = Bind(globals, x, sym)
      /\ nodeStructTy' = TagStruct(nodeStructTy, LastId(pag) + 2, AsStruct(ParseType(spec)))
      /\ target' = NoTarget \/ target' = [val |-> LastId(pag) + 2, text |-> text]
      /\ UNCHANGED <<icfg, callGraph, scopes, types, funcInfos, current, file, frames, toBind,
                     stack, stubbed>>
  BY DEF VisitGlobalDecl
<1>3. "global" \in ObjKinds /\ x \in Names /\ d.bracket \in BOOLEAN
  BY DEF ObjKinds, Names, Declarators
<1>4. text \in SUBSET {"*", "["}
  OBVIOUS
<1> HIDE DEF ty, text
<1>5. /\ IsPag(pag', icfg, Names) /\ Grows(pag, pag')
      /\ LastId(pag) + 1 \in Objects(pag') /\ LastId(pag) + 2 \in Vals(pag')
  BY <1>1, <1>2, <1>3, ObjectAtAnchor
<1>6. GraphsOK' /\ Covers(icfg, icfg')
  BY <1>2, <1>5, PagGrows
<1>7. sym \in SymbolType'
  BY <1>1, <1>3, <1>5, SymbolTyped
<1> HIDE DEF sym
<1>8. IsTable(globals, Vars \cup Funs, SymbolType')
  BY <1>5, <1>6, TypesWiden, TableWidens DEF TypeOK, SymtabOK
<1>9. SymtabOK'
  BY <1>2, <1>5, <1>6, <1>7, <1>8, ScopesWiden, BindIsTable DEF SymtabOK
<1>10. TagsOK'
  BY <1>2, <1>5, TagsWiden, AsStructTyped, TagIsTable DEF TagsOK
<1>11. TargetOK'
  BY <1>2, <1>4, <1>5, OpenTarget
<1>12. TypesOK' /\ FuncsOK' /\ CurrentOK' /\ FileOK' /\ FramesOK' /\ StackOK'
  BY <1>2, <1>5, <1>6, TypesKept, FuncsKept, CurrentKept, FileKept, FramesKept, StackKept
<1>13. QED
  BY <1>2, <1>5, <1>6, <1>9, <1>10, <1>11, <1>12 DEF TypeOK, Preserved

LEMMA PrototypeStep ==
  ASSUME TypeOK, NEW f \in Funs, VisitPrototype(f)
  PROVE  Preserved
  BY GlobalDeclStep DEF VisitPrototype, Declarators

\* The return ValVar of a new function, behind its formals.
LEMMA RegisterVals ==
  ASSUME NEW g, NEW c, IsPag(g, c, Names), NEW entry \in Ids(c), NEW exit \in Ids(c),
         NEW row \in Seq(Names), NEW h, h = AddVal(AddVals(g, entry, row), exit, None)
  PROVE  /\ IsPag(h, c, Names) /\ Grows(g, h)
         /\ LastId(g) \in Nat /\ LastId(h) \in Vals(h)
         /\ \A i \in 1..Len(row) : LastId(g) + i \in Vals(h)
<1> DEFINE bound == AddVals(g, entry, row)
           n == ValNode(exit, None)
<1>1. /\ IsPag(bound, c, Names) /\ Grows(g, bound)
      /\ LastId(g) \in Nat
      /\ \A i \in 1..Len(row) : LastId(g) + i \in Vals(bound)
  BY AddValsFacts
<1>2. n \in PagNode(c, Names) /\ n.kind = "val"
  BY DEF PagNode, ValNode, Node, Names
<1>3. h = AddNode(bound, n)
  BY DEF AddVal
<1> HIDE DEF bound, n
<1>4. /\ IsPag(h, c, Names) /\ Grows(bound, h)
      /\ LastId(bound) \in Nat /\ LastId(h) = LastId(bound) + 1
      /\ LastId(bound) + 1 \in Vals(h)
  BY <1>1, <1>2, <1>3, AddValFacts
<1>5. Grows(g, h) /\ Vals(bound) \subseteq Vals(h)
  BY <1>1, <1>4, GrowsTrans, GrowsKinds
<1>6. QED
  BY <1>1, <1>4, <1>5

\* The FunObj of a new function and the ValVar of its address.
LEMMA RegisterObject ==
  ASSUME NEW g, NEW c, IsPag(g, c, Names), GlobalNode \in Ids(c), NEW f \in Funs,
         NEW h, h = AddStmt(AddVal(AddNode(g, Node("fun", TRUE, NullId, None, 1)), GlobalNode, f),
                            "Addr", LastId(g) + 1, LastId(g) + 2, 0)
  PROVE  /\ IsPag(h, c, Names) /\ Grows(g, h)
         /\ LastId(g) \in Nat /\ LastId(h) = LastId(g) + 2
         /\ LastId(g) + 1 \in Objects(h) /\ LastId(g) + 2 \in Vals(h)
<1> DEFINE o == Node("fun", TRUE, NullId, None, 1)
           v == ValNode(GlobalNode, f)
<1>1. o \in PagNode(c, Names) /\ o.kind \in ObjKinds /\ o.size # 0
  BY DEF PagNode, Node, Names, ObjKinds
<1>2. v \in PagNode(c, Names) /\ v.kind = "val"
  BY DEF PagNode, Node, ValNode, Names
<1>3. h = AddStmt(AddNode(AddNode(g, o), v), "Addr", LastId(g) + 1, LastId(g) + 2, 0)
  BY DEF AddVal
<1> HIDE DEF o, v
<1>4. IsPag(g, c, Names)
  OBVIOUS
<1>5. QED
  BY ONLY <1>1, <1>2, <1>3, <1>4, AddressedFacts

\* The entry and the exit node of a new function.
LEMMA RegisterBlocks ==
  ASSUME TypeOK, NEW f \in Funs,
         NEW c, c = AddIcfgNode(AddIcfgNode(icfg, "entry", f), "exit", f)
  PROVE  /\ IsIcfg(c, Funs \cup {None}) /\ Covers(icfg, c)
         /\ LastId(icfg) + 1 \in Ids(c) /\ LastId(icfg) + 2 \in Ids(c)
<1> DEFINE b == AddIcfgNode(icfg, "entry", f)
<1>1. IsIcfg(icfg, Funs \cup {None}) /\ f \in Funs \cup {None}
  BY DEF TypeOK, GraphsOK
<1>2. "entry" \in IcfgKinds /\ "exit" \in IcfgKinds
  BY DEF IcfgKinds
<1>3. /\ IsIcfg(b, Funs \cup {None}) /\ Covers(icfg, b)
      /\ LastId(icfg) \in Nat /\ LastId(b) = LastId(icfg) + 1
  BY <1>1, <1>2, AddIcfgNodeFacts
<1> HIDE DEF b
<1>4. c = AddIcfgNode(b, "exit", f)
  BY DEF b
<1>5. IsIcfg(c, Funs \cup {None}) /\ Covers(b, c) /\ LastId(c) = LastId(b) + 1
  BY <1>1, <1>2, <1>3, <1>4, AddIcfgNodeFacts
<1>6. QED
  BY <1>3, <1>5 DEF Covers, Ids, LastId

LEMMA RowIsSeq ==
  ASSUME NEW n \in Nat, NEW S, NEW r \in [1..n -> S]
  PROVE  r \in Seq(S) /\ Len(r) = n
<1>1. r \in Seq(S) /\ DOMAIN r = 1..n
  BY SeqDef
<1>2. QED
  BY <1>1, LenProperties

\* A signature may qualify its parameters only in programs that do.
Qualifies(sig) ==
  \A i \in DOMAIN sig.params : sig.params[i].qualified => Uses("qualified parameter")

\* What a step that registers a function leaves to show.
LEMMA RegisterStep ==
  ASSUME TypeOK, NEW f \in Funs, NEW sig \in Signatures, Register(f, sig),
         Qualifies(sig),
         UNCHANGED <<callGraph, scopes, types, nodeStructTy, current, cursor>>
  PROVE  /\ Grows(pag, pag') /\ Covers(icfg, icfg')
         /\ GraphsOK' /\ SymtabOK' /\ TypesOK' /\ TagsOK' /\ FuncsOK' /\ CurrentOK' /\ FramesOK'
         /\ StackOK' /\ TargetOK'
         /\ DOMAIN funcInfos' = DOMAIN funcInfos \cup {f}
<1> DEFINE blocks == AddIcfgNode(AddIcfgNode(icfg, "entry", f), "exit", f)
           entry == LastId(icfg) + 1
           exit == LastId(icfg) + 2
           obj == LastId(pag) + 1
           named == AddVal(AddNode(pag, Node("fun", TRUE, NullId, None, 1)), GlobalNode, f)
           addr == AddStmt(named, "Addr", obj, obj + 1, 0)
           row == [i \in DOMAIN sig.params |-> BoundName(sig.params[i])]
           whole == AddVal(AddVals(addr, entry, row), exit, None)
           formals == [i \in DOMAIN sig.params |->
                         [val  |-> obj + 1 + i,
                          name |-> BoundName(sig.params[i]),
                          source |-> sig.params[i].name,
                          sty  |-> AsStruct(ParseType(sig.params[i].spec))]]
           info == [funObjId |-> obj, entry |-> entry, exit |-> exit, retVal |-> LastId(whole),
                    formals |-> formals, defined |-> FALSE, retIsPtr |-> sig.ret]
           sym == Symbol(FunTy, obj, obj + 1, TRUE, FALSE)
<1>1. /\ pag' = whole /\ icfg' = blocks
      /\ globals' = Bind(globals, f, sym) /\ funcInfos' = Bind(funcInfos, f, info)
  BY DEF Register
<1>2. /\ IsIcfg(blocks, Funs \cup {None}) /\ Covers(icfg, blocks)
      /\ entry \in Ids(blocks) /\ exit \in Ids(blocks)
  BY RegisterBlocks
<1>3. sig.ret \in BOOLEAN /\ sig.params \in Seq(Param)
  BY ShapeAssumption
<1>4. /\ Len(sig.params) \in Nat /\ DOMAIN sig.params = 1..Len(sig.params)
      /\ \A i \in DOMAIN sig.params :
           /\ sig.params[i].name \in Vars /\ BoundName(sig.params[i]) \in Vars \cup {QualifiedText}
           /\ BoundName(sig.params[i]) # sig.params[i].name => Uses("qualified parameter")
  <2>1. Len(sig.params) \in Nat /\ DOMAIN sig.params = 1..Len(sig.params)
    BY <1>3, LenProperties
  <2>2. \A i \in DOMAIN sig.params : sig.params[i] \in Param
    BY <1>3, <2>1, ElementOfSeq
  <2>3. QED
    BY <2>1, <2>2 DEF Param, BoundName, Qualifies
<1>5. row \in Seq(Names) /\ Len(row) = Len(sig.params)
  <2>1. row \in [1..Len(sig.params) -> Names]
    BY <1>4 DEF Names
  <2> HIDE DEF row
  <2>2. QED
    BY <1>4, <2>1, RowIsSeq
<1>6. IsPag(pag, blocks, Names) /\ GlobalNode \in Ids(blocks)
  BY <1>2, IsPagCovers DEF TypeOK, GraphsOK, IsIcfg
<1> HIDE DEF blocks, entry, exit, row
<1>7. /\ IsPag(addr, blocks, Names) /\ Grows(pag, addr)
      /\ LastId(pag) \in Nat /\ LastId(addr) = LastId(pag) + 2
      /\ obj \in Objects(addr) /\ obj + 1 \in Vals(addr)
  <2>1. addr = AddStmt(AddVal(AddNode(pag, Node("fun", TRUE, NullId, None, 1)), GlobalNode, f),
                       "Addr", LastId(pag) + 1, LastId(pag) + 2, 0)
    BY LenProperties DEF TypeOK, GraphsOK, IsPag, LastId
  <2>2. /\ IsPag(addr, blocks, Names) /\ Grows(pag, addr)
        /\ LastId(pag) \in Nat /\ LastId(addr) = LastId(pag) + 2
        /\ LastId(pag) + 1 \in Objects(addr) /\ LastId(pag) + 2 \in Vals(addr)
    BY <1>6, <2>1, RegisterObject
  <2>3. obj + 1 = LastId(pag) + 2
    BY <2>2
  <2>4. QED
    BY <2>2, <2>3
<1> HIDE DEF addr
<1>8. /\ IsPag(whole, blocks, Names) /\ Grows(addr, whole)
      /\ LastId(whole) \in Vals(whole)
      /\ \A i \in 1..Len(row) : LastId(addr) + i \in Vals(whole)
  BY <1>2, <1>5, <1>7, RegisterVals
<1> HIDE DEF whole
<1>9. /\ Grows(pag, pag') /\ Covers(icfg, icfg')
      /\ obj \in Objects(pag') /\ obj + 1 \in Vals(pag') /\ LastId(whole) \in Vals(pag')
  BY <1>1, <1>2, <1>7, <1>8, GrowsTrans, GrowsKinds
<1>10. \A i \in DOMAIN sig.params : obj + 1 + i \in Vals(pag')
  <2> SUFFICES ASSUME NEW i \in DOMAIN sig.params
               PROVE  obj + 1 + i \in Vals(pag')
    OBVIOUS
  <2>1. i \in Nat /\ i \in 1..Len(row)
    <3>1. DOMAIN sig.params = 1..Len(sig.params) /\ Len(row) = Len(sig.params)
      BY <1>4, <1>5
    <3>2. QED
      BY ONLY <3>1, i \in DOMAIN sig.params
  <2>2. LastId(addr) + i \in Vals(pag')
    BY <1>1, <1>8, <2>1
  <2>3. obj + 1 + i = LastId(addr) + i
    BY <1>7, <2>1
  <2>4. QED
    BY <2>2, <2>3
<1> HIDE DEF obj
<1>11. formals \in Seq(FormalType')
  <2>1. \A i \in DOMAIN sig.params : formals[i] \in FormalType'
    <3> SUFFICES ASSUME NEW i \in DOMAIN sig.params
                 PROVE  formals[i] \in FormalType'
      OBVIOUS
    <3>1. /\ sig.params[i].name \in Vars
          /\ BoundName(sig.params[i]) \in Vars \cup {QualifiedText}
          /\ BoundName(sig.params[i]) # sig.params[i].name => Uses("qualified parameter")
      BY <1>4
    <3>2. AsStruct(ParseType(sig.params[i].spec)) \in Structs \cup {None}
      BY AsStructTyped
    <3>3. obj + 1 + i \in Vals(pag')
      BY <1>10
    <3>4. QED
      BY <3>1, <3>2, <3>3 DEF FormalType, Uses
  <2>2. formals \in [1..Len(sig.params) -> FormalType']
    BY <1>4, <2>1
  <2> HIDE DEF formals
  <2>3. QED
    BY <1>4, <2>2, RowIsSeq
<1> HIDE DEF formals
<1>12. info \in FuncInfoType'
  BY <1>1, <1>2, <1>3, <1>9, <1>11 DEF FuncInfoType
<1> HIDE DEF info
<1>13. IsTable(funcInfos, Funs, FuncInfoType')
  BY <1>9, TypesWiden, TableWidens DEF TypeOK, FuncsOK
<1>14. FuncsOK' /\ DOMAIN funcInfos' = DOMAIN funcInfos \cup {f}
  BY <1>1, <1>12, <1>13, BindIsTable DEF FuncsOK, Bind
<1>15. GraphsOK'
  BY <1>1, <1>2, <1>8, <1>9, <1>14, CoversIds DEF GraphsOK, TypeOK, Names
<1>16. SymtabOK'
  <2>1. sym \in SymbolType'
    BY <1>9, SymbolTyped DEF DataType
  <2>2. IsTable(globals, Vars \cup Funs, SymbolType')
    BY <1>9, TypesWiden, TableWidens DEF TypeOK, SymtabOK
  <2> HIDE DEF sym
  <2>3. QED
    BY <1>1, <1>9, <2>1, <2>2, ScopesWiden, BindIsTable DEF SymtabOK
<1>17. UNCHANGED <<frames, toBind, stack, target>>
  BY DEF cursor
<1>18. TypesOK' /\ TagsOK' /\ CurrentOK' /\ FramesOK' /\ StackOK' /\ TargetOK'
  BY <1>9, <1>14, <1>17, TypesKept, TagsKept, CurrentKept, FramesKept, StackKept, TargetKept
<1>19. QED
  BY <1>9, <1>14, <1>15, <1>16, <1>18

LEMMA PrescanFunctionDefStep ==
  ASSUME TypeOK, NEW f \in Funs, NEW sig \in Signatures, PrescanFunctionDef(f, sig)
  PROVE  Preserved
<1>1. /\ pending' = Append(pending, f)
      /\ UNCHANGED <<callGraph, scopes, types, nodeStructTy, current, unit, phase, seen, cursor,
                     stubbed>>
  BY DEF PrescanFunctionDef
<1>2. ASSUME DOMAIN funcInfos \cup {f} = DOMAIN funcInfos'
      PROVE  FileOK'
  <2>1. pending \in Seq(DOMAIN funcInfos')
    BY <1>2, SeqMonotonic DEF TypeOK, FileOK
  <2>2. pending' \in Seq(DOMAIN funcInfos')
    BY <1>1, <1>2, <2>1, AppendProperties
  <2>3. QED
    BY <1>1, <2>2 DEF TypeOK, FileOK
<1>3. CASE f \in DOMAIN funcInfos /\ UNCHANGED <<pag, icfg, globals, funcInfos>>
  <2>1. UNCHANGED graphs /\ UNCHANGED symtab
    BY <1>1, <1>3 DEF graphs, symtab
  <2>2. FileOK'
    BY <1>2, <1>3
  <2>3. ASSUME Grows(pag, pag') /\ Covers(icfg, icfg')
        PROVE  SymtabOK' /\ TypesOK' /\ CurrentOK'
    BY <1>1, <1>3, <2>1, <2>3, SymtabKept, TypesKept, CurrentKept DEF cursor
  <2>4. QED
    BY <1>1, <1>3, <2>1, <2>2, <2>3, QuietUnitStep
<1>4. CASE Register(f, sig) /\ Qualifies(sig)
  <2>1. /\ Grows(pag, pag') /\ Covers(icfg, icfg')
        /\ GraphsOK' /\ SymtabOK' /\ TypesOK' /\ TagsOK' /\ FuncsOK' /\ CurrentOK' /\ FramesOK'
        /\ StackOK' /\ TargetOK'
        /\ DOMAIN funcInfos' = DOMAIN funcInfos \cup {f}
    BY <1>1, <1>4, RegisterStep
  <2>2. FileOK'
    BY <1>2, <2>1
  <2>3. QED
    BY <1>1, <2>1, <2>2 DEF TypeOK, Preserved
<1>5. QED
  BY <1>3, <1>4 DEF PrescanFunctionDef, Qualifies

LEMMA UnitStepPreserves ==
  ASSUME TypeOK, UnitStep
  PROVE  Preserved
<1>1. ASSUME StartUnit \/ EndPrescan \/ EndUnit
      PROVE  Preserved
  BY <1>1, StartUnitStep, EndPrescanStep, EndUnitStep
<1>2. ASSUME NEW f \in Funs, NEW sig \in Signatures, PrescanFunctionDef(f, sig)
      PROVE  Preserved
  BY <1>2, PrescanFunctionDefStep
<1>3. ASSUME NEW s \in Structs, NEW def \in StructDefs, VisitStructSpecifier(s, def)
      PROVE  Preserved
  BY <1>3, StructSpecifierStep
<1>4. ASSUME NEW alias \in Aliases, NEW spec \in Specifiers, VisitTypeDefinition(alias, spec)
      PROVE  Preserved
  BY <1>4, TypeDefinitionStep
<1>5. ASSUME NEW x \in Vars, NEW spec \in Specifiers, NEW d \in Declarators, NEW init \in BOOLEAN,
             VisitGlobalDecl(x, spec, d, init)
      PROVE  Preserved
  BY <1>5, GlobalDeclStep
<1>6. ASSUME NEW f \in Funs, VisitPrototype(f)
      PROVE  Preserved
  BY <1>6, PrototypeStep
<1>7. QED
  BY <1>1, <1>2, <1>3, <1>4, <1>5, <1>6 DEF UnitStep

-----------------------------------------------------------------------------
(* Function definitions and locals *)

\* The node of a function's body, behind its entry.
LEMMA BodyNode ==
  ASSUME TypeOK, NEW f \in DOMAIN funcInfos,
         icfg' = AddIcfgEdge(AddIcfgNode(icfg, "intra", f), "seq", funcInfos[f].entry,
                             LastId(icfg) + 1)
  PROVE  /\ IsIcfg(icfg', Funs \cup {None}) /\ Covers(icfg, icfg')
         /\ LastId(icfg) + 1 \in Ids(icfg')
<1> DEFINE b == AddIcfgNode(icfg, "intra", f)
           entry == funcInfos[f].entry
<1>1. IsIcfg(icfg, Funs \cup {None}) /\ f \in Funs \cup {None}
  BY DEF TypeOK, GraphsOK, FuncsOK, IsTable
<1>2. "intra" \in IcfgKinds /\ "seq" \in EdgeKinds
  BY DEF IcfgKinds, EdgeKinds
<1>3. entry \in Ids(icfg)
  BY DEF TypeOK, FuncsOK, IsTable, FuncInfoType
<1>4. icfg' = AddIcfgEdge(b, "seq", entry, LastId(icfg) + 1)
  OBVIOUS
<1>5. /\ IsIcfg(b, Funs \cup {None}) /\ Covers(icfg, b)
      /\ LastId(icfg) \in Nat /\ LastId(b) = LastId(icfg) + 1
  BY <1>1, <1>2, AddIcfgNodeFacts
<1> HIDE DEF b, entry
<1>6. entry \in Ids(b) /\ LastId(icfg) + 1 \in Ids(b)
  BY <1>3, <1>5, CoversIds DEF Ids, LastId
<1>7. /\ IsIcfg(icfg', Funs \cup {None}) /\ Covers(b, icfg')
      /\ LastId(icfg') = LastId(b)
  BY <1>2, <1>4, <1>5, <1>6, AddIcfgEdgeFacts
<1>8. QED
  BY <1>5, <1>6, <1>7, CoversIds DEF Covers

\* The graphs, when a step adds to the ICFG alone.
LEMMA IcfgGrows ==
  ASSUME TypeOK, UNCHANGED <<pag, callGraph>>, DOMAIN funcInfos \subseteq DOMAIN funcInfos',
         IsIcfg(icfg', Funs \cup {None}), Covers(icfg, icfg')
  PROVE  GraphsOK' /\ Grows(pag, pag')
<1>1. IsPag(pag, icfg, Names)
  BY DEF TypeOK, GraphsOK
<1>2. IsPag(pag, icfg', Names) /\ Grows(pag, pag)
  BY <1>1, IsPagCovers, GrowsRefl
<1>3. Ids(icfg) \subseteq Ids(icfg')
  BY CoversIds
<1>4. QED
  BY <1>2, <1>3 DEF TypeOK, GraphsOK, Names

LEMMA FunctionDefStep ==
  ASSUME TypeOK, VisitFunctionDef
  PROVE  Preserved
<1> DEFINE f == Head(pending)
           fi == funcInfos[f]
<1>1. /\ pending # <<>> /\ pending' = Tail(pending) /\ seen' = seen \cup {f}
      /\ UNCHANGED <<pag, callGraph, globals, types, nodeStructTy, unit, phase, stack, target,
                     stubbed>>
  BY DEF VisitFunctionDef, MarkVisited
<1>2. f \in DOMAIN funcInfos /\ Tail(pending) \in Seq(DOMAIN funcInfos)
  BY <1>1, HeadTailProperties DEF TypeOK, FileOK
<1>3. DOMAIN funcInfos \subseteq Funs /\ fi \in FuncInfoType
  BY <1>2 DEF TypeOK, FuncsOK, IsTable
<1>4. ASSUME DOMAIN funcInfos' = DOMAIN funcInfos
      PROVE  FileOK'
  BY <1>1, <1>2, <1>3, <1>4 DEF TypeOK, FileOK
<1>5. CASE UNCHANGED <<icfg, scopes, funcInfos, current, frames, toBind>>
  <2>1. UNCHANGED <<graphs, symtab, current, frames, toBind, funcInfos>>
    BY <1>1, <1>5 DEF graphs, symtab
  <2>2. GraphsOK' /\ Grows(pag, pag') /\ Covers(icfg, icfg')
    BY <2>1, GraphsKept
  <2>3. SymtabOK' /\ TypesOK' /\ TagsOK' /\ FuncsOK' /\ CurrentOK'
    BY <1>1, <2>1, <2>2, SymtabKept, TypesKept, TagsKept, FuncsKept, CurrentKept
  <2>4. FileOK' /\ FramesOK' /\ StackOK' /\ TargetOK'
    BY <1>1, <1>4, <2>1, <2>2, FramesKept, StackKept, TargetKept
  <2>5. QED
    BY <1>1, <2>2, <2>3, <2>4 DEF TypeOK, Preserved
<1>6. CASE /\ funcInfos' = [funcInfos EXCEPT ![f].defined = TRUE]
           /\ currentFunc' = f /\ currentBB' = f
           /\ currentRetVal' = fi.retVal /\ currentRetIsPtr' = fi.retIsPtr
           /\ icfg' = AddIcfgEdge(AddIcfgNode(icfg, "intra", f), "seq", fi.entry, LastId(icfg) + 1)
           /\ currentICFG' = LastId(icfg) + 1
           /\ EnterScope
           /\ frames' = <<Frame("params")>> /\ toBind' = fi.formals
  <2>1. /\ IsIcfg(icfg', Funs \cup {None}) /\ Covers(icfg, icfg')
        /\ currentICFG' \in Ids(icfg')
    BY <1>2, <1>6, BodyNode
  <2>2. DOMAIN funcInfos' = DOMAIN funcInfos
    BY <1>6
  <2>3. GraphsOK' /\ Grows(pag, pag')
    BY <1>1, <2>1, <2>2, IcfgGrows
  <2>4. SymtabOK'
    BY <1>1, <1>6, <2>1, <2>3, EnterScopeTyped
  <2>5. IsTable(funcInfos, Funs, FuncInfoType') /\ fi \in FuncInfoType'
    BY <1>3, <2>1, <2>3, TypesWiden, TableWidens DEF TypeOK, FuncsOK
  <2>6. [fi EXCEPT !.defined = TRUE] \in FuncInfoType'
    BY <2>5 DEF FuncInfoType
  <2>7. FuncsOK'
    BY <1>2, <1>6, <2>5, <2>6 DEF FuncsOK, IsTable
  <2>8. /\ fi.retVal \in Vals(pag') /\ fi.retIsPtr \in BOOLEAN /\ fi.retVal # NullId
        /\ fi.formals \in Seq(FormalType')
    BY <2>5 DEF FuncInfoType, Vals, Ids, NullId
  <2>9. CurrentOK'
    BY <1>2, <1>6, <2>1, <2>2, <2>8 DEF CurrentOK
  <2>10. FramesOK'
    <3> DEFINE fr == Frame("params")
    <3>1. IsFrame(fr, {NullId} \cup Vals(pag'))
      BY FrameIsFrame DEF FrameKinds
    <3> HIDE DEF fr
    <3>2. frames' = <<fr>>
      BY <1>6 DEF fr
    <3>3. frames' \in Seq({fr}) /\ DOMAIN frames' = {1}
      BY <3>2
    <3>4. IsSequence(frames') /\ \A i \in DOMAIN frames' : IsFrame(frames'[i], {NullId} \cup Vals(pag'))
      BY <3>1, <3>2, <3>3 DEF IsSequence
    <3>5. QED
      BY <1>6, <2>8, <3>4 DEF FramesOK
  <2>11. TypesOK' /\ TagsOK' /\ FileOK' /\ StackOK' /\ TargetOK'
    BY <1>1, <1>4, <2>1, <2>2, <2>3, TypesKept, TagsKept, StackKept, TargetKept
  <2>12. QED
    BY <1>1, <2>3, <2>4, <2>7, <2>9, <2>10, <2>11 DEF TypeOK, Preserved
<1>7. QED
  BY <1>5, <1>6 DEF VisitFunctionDef, MarkVisited

\* The slot of a formal, with the formal stored in it.
LEMMA FormalStored ==
  ASSUME TypeOK, NEW formal \in FormalType,
         NEW made, made = AddObject(pag, "stack", currentICFG, formal.name, 1),
         NEW h, h = AddStmt(made, "Store", formal.val, LastId(pag) + 2, currentICFG)
  PROVE  /\ IsPag(h, icfg, Names) /\ Grows(pag, h)
         /\ LastId(pag) + 1 \in Objects(h) /\ LastId(pag) + 2 \in Vals(h)
<1> DEFINE S == {Stmt("Store", formal.val, LastId(pag) + 2, currentICFG)}
<1>1. formal.val \in Vals(pag) /\ formal.name \in Names
  BY DEF FormalType, Names
<1>2. "stack" \in ObjKinds /\ "Store" \in StmtOps /\ 1 \in Nat /\ currentICFG \in Nat
  BY AnchorTyped DEF ObjKinds, StmtOps, NullId, Ids
<1>3. /\ IsPag(made, icfg, Names) /\ Grows(pag, made)
      /\ LastId(pag) + 1 \in Objects(made) /\ LastId(pag) + 2 \in Vals(made)
  BY <1>1, <1>2, ObjectAtAnchor
<1>4. formal.val \in Vals(made)
  BY <1>1, <1>3, GrowsKinds
<1>5. \A s \in S : IsStmt(made, s) /\ s.op # "Addr"
  BY <1>2, <1>3, <1>4 DEF Stmt, IsStmt, Vals
<1>6. h = AddStmts(made, S)
  BY DEF AddStmt
<1> HIDE DEF S
<1>7. IsPag(h, icfg, Names) /\ Grows(made, h)
  BY <1>3, <1>5, <1>6, AddStmtsFacts
<1>8. QED
  BY <1>3, <1>7, GrowsTrans, GrowsKinds

LEMMA BindFormalStep ==
  ASSUME TypeOK, BindFormal
  PROVE  Preserved
<1> DEFINE formal == Head(toBind)
           slot == LastId(pag) + 2
           made == AddObject(pag, "stack", currentICFG, formal.name, 1)
<1>1. /\ toBind # <<>> /\ toBind' = Tail(toBind)
      /\ pag' = AddStmt(made, "Store", formal.val, LastId(pag) + 2, currentICFG)
      /\ BindLocal(formal.name, PtrTy, FALSE)
      /\ nodeStructTy' = TagStruct(TagStruct(nodeStructTy, slot, formal.sty),
                                   formal.val, formal.sty)
      /\ frames' = Declared(frames, formal.source, slot)
      /\ UNCHANGED <<icfg, callGraph, globals, types, funcInfos, current, file, stack, target,
                     stubbed>>
  BY DEF BindFormal
<1>2. formal \in FormalType /\ Tail(toBind) \in Seq(FormalType)
  BY <1>1, HeadTailProperties DEF TypeOK, FramesOK
<1> HIDE DEF formal, made
<1>3. /\ IsPag(pag', icfg, Names) /\ Grows(pag, pag')
      /\ LastId(pag) + 1 \in Objects(pag') /\ slot \in Vals(pag')
  BY <1>1, <1>2, FormalStored DEF made
<1>4. GraphsOK' /\ Covers(icfg, icfg')
  BY <1>1, <1>3, PagGrows
<1>5. /\ formal.name \in Vars \cup {QualifiedText} /\ formal.source \in Vars
      /\ formal.sty \in Structs \cup {None} /\ formal.val \in Vals(pag')
  BY <1>2, <1>3, GrowsKinds DEF FormalType
<1>6. SymtabOK'
  BY <1>1, <1>3, <1>4, <1>5, BindLocalTyped DEF DataType
<1>7. TagsOK'
  BY <1>1, <1>3, <1>5, TagsWiden, TagIsTable DEF TagsOK
<1>8. toBind' \in Seq(FormalType')
  BY <1>1, <1>2, <1>3, <1>4, TypesWiden, SeqMonotonic
<1>9. FramesOK' /\ (frames' # <<>> => frames # <<>>)
  BY <1>1, <1>3, <1>4, <1>5, <1>8, DeclaredTyped
<1>10. TypesOK' /\ FuncsOK' /\ CurrentOK' /\ FileOK' /\ StackOK' /\ TargetOK'
  BY <1>1, <1>3, <1>4, <1>9, TypesKept, FuncsKept, CurrentKept, FileKept, StackKept, TargetKept
<1>11. QED
  BY <1>1, <1>3, <1>4, <1>6, <1>7, <1>9, <1>10 DEF TypeOK, Preserved

LEMMA LeaveFunctionDefStep ==
  ASSUME TypeOK, LeaveFunctionDef
  PROVE  Preserved
<1> DEFINE exit == funcInfos[currentFunc].exit
<1>1. /\ frames # <<>> /\ frames' = <<>>
      /\ icfg' = AddIcfgEdge(icfg, "seq", currentICFG, exit)
      /\ ExitScope
      /\ currentFunc' = None /\ currentICFG' = NullId
      /\ currentRetVal' = NullId /\ currentRetIsPtr' = FALSE
      /\ UNCHANGED <<pag, callGraph, globals, types, nodeStructTy, funcInfos, currentBB, file,
                     toBind, stack, target, stubbed>>
  BY DEF LeaveFunctionDef
<1>2. currentFunc \in DOMAIN funcInfos
  BY <1>1 DEF TypeOK, CurrentOK
<1>3. exit \in Ids(icfg)
  BY <1>2 DEF TypeOK, FuncsOK, IsTable, FuncInfoType
<1>4. IsIcfg(icfg, Funs \cup {None}) /\ "seq" \in EdgeKinds
  BY DEF TypeOK, GraphsOK, EdgeKinds
<1> HIDE DEF exit
<1>5. IsIcfg(icfg', Funs \cup {None}) /\ Covers(icfg, icfg')
  BY <1>1, <1>3, <1>4, AnchorTyped, AddIcfgEdgeFacts
<1>6. GraphsOK' /\ Grows(pag, pag')
  BY <1>1, <1>5, IcfgGrows
<1>7. SymtabOK'
  BY <1>1, <1>5, <1>6, ExitScopeTyped
<1>8. CurrentOK'
  BY <1>1 DEF CurrentOK, TypeOK
<1>9. FramesOK'
  <2>1. IsSequence(frames') /\ \A i \in DOMAIN frames' : IsFrame(frames'[i], {NullId} \cup Vals(pag'))
    BY <1>1, EmptySeq DEF IsSequence
  <2>2. toBind' \in Seq(FormalType')
    BY <1>1, <1>5, <1>6, FramesStay
  <2>3. QED
    BY <2>1, <2>2 DEF FramesOK
<1>10. TypesOK' /\ TagsOK' /\ FuncsOK' /\ FileOK' /\ StackOK' /\ TargetOK'
  BY <1>1, <1>5, <1>6, TypesKept, TagsKept, FuncsKept, FileKept, StackKept, TargetKept
<1>11. QED
  BY <1>1, <1>6, <1>7, <1>8, <1>9, <1>10 DEF TypeOK, Preserved

LEMMA LocalDeclStep ==
  ASSUME TypeOK, NEW x \in Vars, NEW spec, NEW d \in Declarators, NEW init \in BOOLEAN,
         VisitLocalDecl(x, spec, d, init)
  PROVE  Preserved
<1> DEFINE ty == DeclaredType(spec, d)
           slot == LastId(pag) + 2
<1>1. /\ pag' = AddObject(pag, "stack", currentICFG, x, FlattenedFields(ty))
      /\ BindLocal(x, ty, d.bracket)
      /\ nodeStructTy' = TagStruct(nodeStructTy, slot, AsStruct(ParseType(spec)))
      /\ frames' = Declared(frames, x, slot)
      /\ target' = NoTarget \/ target' = [val |-> LastId(pag) + 2, text |-> {"*", "["}]
      /\ UNCHANGED <<icfg, callGraph, globals, types, funcInfos, current, file, toBind, stack,
                     stubbed>>
  BY DEF VisitLocalDecl, CreateLocal
<1>2. /\ ty \in DataType /\ FlattenedFields(ty) \in Nat
      /\ StructsHaveFields => FlattenedFields(ty) # 0
  BY DeclaredInDataType, FlattenedNat
<1>3. "stack" \in ObjKinds /\ x \in Names /\ d.bracket \in BOOLEAN
  BY DEF ObjKinds, Names, Declarators
<1> HIDE DEF ty
<1>4. /\ IsPag(pag', icfg, Names) /\ Grows(pag, pag')
      /\ LastId(pag) + 1 \in Objects(pag') /\ LastId(pag) + 2 \in Vals(pag')
  BY <1>1, <1>2, <1>3, ObjectAtAnchor
<1>5. GraphsOK' /\ Covers(icfg, icfg')
  BY <1>1, <1>4, PagGrows
<1>6. SymtabOK'
  BY <1>1, <1>2, <1>3, <1>4, <1>5, BindLocalTyped
<1>7. TagsOK'
  BY <1>1, <1>4, TagsWiden, AsStructTyped, TagIsTable DEF TagsOK
<1>8. toBind' \in Seq(FormalType')
  BY <1>1, <1>4, <1>5, FramesStay
<1>9. FramesOK' /\ (frames' # <<>> => frames # <<>>)
  BY <1>1, <1>4, <1>5, <1>8, DeclaredTyped
<1>10. TargetOK'
  BY <1>1, <1>4, OpenTarget
<1>11. TypesOK' /\ FuncsOK' /\ CurrentOK' /\ FileOK' /\ StackOK'
  BY <1>1, <1>4, <1>5, <1>9, TypesKept, FuncsKept, CurrentKept, FileKept, StackKept
<1>12. QED
  BY <1>1, <1>4, <1>5, <1>6, <1>7, <1>9, <1>10, <1>11 DEF TypeOK, Preserved

LEMMA SkipFunctionPointerStep ==
  ASSUME TypeOK, NEW x \in Vars, SkipFunctionPointer(x)
  PROVE  Preserved
<1>1. /\ frames' = Declared(frames, x, NullId)
      /\ UNCHANGED <<graphs, symtab, types, nodeStructTy, funcInfos, current, file, toBind, stack,
                     target, stubbed>>
  BY DEF SkipFunctionPointer
<1>2. Grows(pag, pag') /\ Covers(icfg, icfg')
  BY <1>1, GraphsKept
<1>3. toBind' \in Seq(FormalType')
  BY <1>1, <1>2, FramesStay
<1>4. FramesOK' /\ (frames' # <<>> => frames # <<>>)
  BY <1>1, <1>2, <1>3, DeclaredTyped
<1>5. SymtabOK' /\ StackOK'
  BY <1>1, <1>2, SymtabKept, StackKept
<1>6. QED
  BY <1>1, <1>4, <1>5, QuietStep DEF symtab

LEMMA BodyStepPreserves ==
  ASSUME TypeOK, BodyStep
  PROVE  Preserved
<1>1. ASSUME VisitFunctionDef \/ BindFormal \/ EnterBody \/ LeaveFunctionDef
      PROVE  Preserved
  BY <1>1, FunctionDefStep, BindFormalStep, EnterBodyStep, LeaveFunctionDefStep
<1>2. ASSUME EnterBlock \/ ExitBlock \/ VisitFor \/ VisitForClause \/ EndFor
      PROVE  Preserved
  BY <1>2, BlockStep, EndBlockStep, ForClauseStep
<1>3. ASSUME NEW x \in Vars, NEW spec \in Specifiers, NEW d \in Declarators, NEW init \in BOOLEAN,
             VisitLocalDecl(x, spec, d, init)
      PROVE  Preserved
  BY <1>3, LocalDeclStep
<1>4. ASSUME EndInitializer \/ VisitExprStmt \/ VisitReturn
      PROVE  Preserved
  BY <1>4, EndInitializerStep, ExprStmtStep, ReturnStep
<1>5. ASSUME NEW x \in Vars, SkipFunctionPointer(x)
      PROVE  Preserved
  BY <1>5, SkipFunctionPointerStep
<1>6. QED
  BY <1>1, <1>2, <1>3, <1>4, <1>5 DEF BodyStep

-----------------------------------------------------------------------------
(* What steps leave alone *)

\* An expression changes neither the symbol table nor the types nor the place in the
\* source.
LEMMA ExprStepControls ==
  ASSUME ExprStep
  PROVE  /\ UNCHANGED symtab /\ UNCHANGED types /\ UNCHANGED funcInfos /\ UNCHANGED current
         /\ UNCHANGED file /\ UNCHANGED frames /\ UNCHANGED toBind /\ UNCHANGED target
<1> DEFINE Idle == /\ UNCHANGED symtab /\ UNCHANGED types /\ UNCHANGED funcInfos /\ UNCHANGED current
                   /\ UNCHANGED file /\ UNCHANGED frames /\ UNCHANGED toBind /\ UNCHANGED target
<1>1. ASSUME control' = control
      PROVE  Idle
  BY <1>1 DEF control
<1>2. ASSUME NEW f \in Funs, NEW n \in 0..MaxStack, VisitCall(f, n)
      PROVE  Idle
  BY <1>2 DEF VisitCall
<1> HIDE DEF Idle
<1>3. Idle
  BY <1>1, <1>2
  DEF ExprStep, VisitIdentifier, VisitNumber, VisitString, VisitNull, VisitParenthesized,
      VisitAddressOf, VisitDeref, VisitLastChild, VisitBinary, VisitAssignIdentifier,
      VisitAssignThrough, VisitAssignParenthesized, Assigned, VisitField, VisitSubscript,
      VisitAllocation, VisitUnknownCall, VisitCast
<1>4. QED
  BY <1>3 DEF Idle

\* What a step of a body leaves alone.
LEMMA BodyStepKeeps ==
  ASSUME BodyStep
  PROVE  UNCHANGED globals /\ UNCHANGED types /\ UNCHANGED stubbed /\ UNCHANGED <<unit, phase>>
<1> DEFINE Idle ==
  UNCHANGED globals /\ UNCHANGED types /\ UNCHANGED stubbed /\ UNCHANGED <<unit, phase>>
<1>1. ASSUME VisitFunctionDef \/ BindFormal \/ EnterBody \/ LeaveFunctionDef \/ EnterBlock \/ ExitBlock
      PROVE  Idle
  BY <1>1 DEF VisitFunctionDef, MarkVisited, BindFormal, EnterBody, LeaveFunctionDef, EnterBlock, ExitBlock, file
<1>2. ASSUME VisitFor \/ VisitForClause \/ EndFor \/ EndInitializer \/ VisitExprStmt \/ VisitReturn
      PROVE  Idle
  BY <1>2 DEF VisitFor, VisitForClause, EndFor, EndInitializer, VisitExprStmt, VisitReturn, symtab, file
<1>3. ASSUME NEW x \in Vars, NEW spec \in Specifiers, NEW d \in Declarators, NEW init \in BOOLEAN,
             VisitLocalDecl(x, spec, d, init)
      PROVE  Idle
  BY <1>3 DEF VisitLocalDecl, file
<1>4. ASSUME NEW x \in Vars, SkipFunctionPointer(x)
      PROVE  Idle
  BY <1>4 DEF SkipFunctionPointer, symtab, file
<1> HIDE DEF Idle
<1>5. Idle
  BY <1>1, <1>2, <1>3, <1>4 DEF BodyStep
<1>6. QED
  BY <1>5 DEF Idle

\* The definition of struct s extends its row of the field table and gives it a StInfo;
\* nothing else changes one.
DefinesStruct(s, def) ==
  /\ def \in StructDefs /\ s \in Structs
  /\ def = <<>> => Uses("empty struct")
  /\ s \in DOMAIN stInfo => Uses("differing structs") \/ SameStruct(s, def)
  /\ stInfo' = Bind(stInfo, s, Len(def))
  /\ structFields' = [structFields EXCEPT ![s] = @ \o FieldMetas(def)]

LEMMA StepTable ==
  ASSUME [Next]_vars
  PROVE  UNCHANGED <<structFields, stInfo>> \/ \E s, def : DefinesStruct(s, def)
<1>1. CASE ExprStep \/ BodyStep \/ UNCHANGED vars
  BY <1>1, ExprStepControls, BodyStepKeeps DEF types, vars
<1>2. CASE UnitStep
  <2>1. ASSUME NEW s \in Structs, NEW def \in StructDefs, VisitStructSpecifier(s, def)
        PROVE  DefinesStruct(s, def)
    BY <2>1, Zenon DEF VisitStructSpecifier, DefinesStruct
  <2>2. ASSUME NEW f \in Funs, VisitPrototype(f)
        PROVE  UNCHANGED <<structFields, stInfo>>
    BY <2>2 DEF VisitPrototype, VisitGlobalDecl, types
  <2>3. ASSUME NEW x, NEW spec, NEW d, NEW init, VisitGlobalDecl(x, spec, d, init)
        PROVE  UNCHANGED <<structFields, stInfo>>
    BY <2>3, Zenon DEF VisitGlobalDecl, types
  <2>4. ASSUME \/ StartUnit \/ EndPrescan \/ EndUnit
               \/ \E f \in Funs, sig \in Signatures : PrescanFunctionDef(f, sig)
               \/ \E alias \in Aliases, spec \in Specifiers : VisitTypeDefinition(alias, spec)
        PROVE  UNCHANGED <<structFields, stInfo>>
    BY <2>4, Zenon DEF StartUnit, EndPrescan, EndUnit, PrescanFunctionDef, VisitTypeDefinition, types
  <2>5. QED
    BY <1>2, <2>1, <2>2, <2>3, <2>4 DEF UnitStep
<1>3. QED
  BY <1>1, <1>2 DEF Next

-----------------------------------------------------------------------------
(* The theorems *)

LEMMA StepPreserves ==
  ASSUME TypeOK, [Next]_vars
  PROVE  Preserved
<1>1. CASE UnitStep
  BY <1>1, UnitStepPreserves
<1>2. CASE BodyStep
  BY <1>2, BodyStepPreserves
<1>3. CASE ExprStep
  BY <1>3, ExprStepPreserves
<1>4. CASE UNCHANGED vars
  <2>1. /\ UNCHANGED <<graphs, symtab, types, nodeStructTy, funcInfos, current, file, stubbed>>
        /\ UNCHANGED <<frames, toBind, stack, target>>
    BY <1>4 DEF vars, cursor
  <2>2. UNCHANGED <<globals, scopes>>
    BY <2>1 DEF symtab
  <2>3. Grows(pag, pag') /\ Covers(icfg, icfg')
    BY <2>1, GraphsKept
  <2>4. SymtabOK' /\ FramesOK' /\ StackOK'
    BY <2>1, <2>3, SymtabKept, FramesKept, StackKept
  <2>5. QED
    BY <2>1, <2>2, <2>4, QuietStep
<1>5. QED
  BY <1>1, <1>2, <1>3, <1>4 DEF Next

LEMMA InitTyped ==
  ASSUME Init
  PROVE  TypeOK /\ EveryObjectHasAddr
<1>1. IsIcfg(icfg, Funs \cup {None})
  <2> DEFINE n == [kind |-> "global", bb |-> None]
  <2>1. n \in [kind: IcfgKinds, bb: Funs \cup {None}]
    BY DEF IcfgKinds
  <2> HIDE DEF n
  <2>2. icfg = [node |-> <<n>>, edge |-> {}]
    BY DEF Init, EmptyIcfg, n
  <2>3. icfg.node = <<n>> /\ icfg.edge = {}
    BY <2>2
  <2>4. <<n>> \in Seq([kind: IcfgKinds, bb: Funs \cup {None}]) /\ Len(<<n>>) = 1
    BY <2>1
  <2>5. QED
    BY <2>2, <2>3, <2>4 DEF IsIcfg, Ids, GlobalNode
<1>2. pag = [node |-> <<>>, stmt |-> {}] /\ pag.node = <<>> /\ pag.stmt = {}
  BY DEF Init, EmptyPag
<1>3. IsPag(pag, icfg, Names)
  BY <1>2, EmptySeq DEF IsPag
<1>4. GraphsOK
  BY <1>1, <1>3 DEF Init, GraphsOK
<1>5. \A S : IsSequence(<<>>) /\ <<>> \in Seq(S) /\ DOMAIN <<>> = {}
  BY EmptySeq DEF IsSequence
<1>6. SymtabOK
  BY <1>5, EmptyIsTable DEF Init, SymtabOK, NoSymbols
<1>7. TypesOK
  BY <1>5, EmptyIsTable DEF Init, TypesOK, NoSymbols
<1>8. TagsOK /\ FuncsOK
  BY EmptyIsTable DEF Init, TagsOK, FuncsOK
<1>9. CurrentOK /\ FileOK
  BY <1>5 DEF Init, CurrentOK, FileOK
<1>10. FramesOK /\ StackOK
  BY <1>5 DEF Init, FramesOK, StackOK
<1>11. TargetOK
  BY DEF Init, TargetOK, TargetType, NoTarget
<1>12. EveryObjectHasAddr
  BY <1>2 DEF EveryObjectHasAddr, Objects, Ids
<1>13. QED
  BY <1>4, <1>6, <1>7, <1>8, <1>9, <1>10, <1>11, <1>12 DEF Init, TypeOK

\* Every id that the visitor keeps, hands to SVF or returns is that of a node of the
\* right kind, in the visit of any sequence of files.
THEOREM TypeCorrect == Spec => []TypeOK
<1>1. Init => TypeOK
  BY InitTyped
<1>2. TypeOK /\ [Next]_vars => TypeOK'
  BY StepPreserves DEF Preserved
<1>3. QED
  BY <1>1, <1>2, PTL DEF Spec

\* Each step that makes an object makes its one AddrStmt with it, and no step gives an
\* older object a second one: so it is for every program, whatever its nesting.
THEOREM ObjectsAddressed == Spec => []EveryObjectHasAddr
<1> DEFINE IInv == TypeOK /\ EveryObjectHasAddr
<1>1. Init => IInv
  BY InitTyped
<1>2. IInv /\ [Next]_vars => IInv'
  <2> SUFFICES ASSUME IInv, [Next]_vars
               PROVE  IInv'
    OBVIOUS
  <2>1. TypeOK' /\ Grows(pag, pag')
    BY StepPreserves DEF Preserved
  <2>2. ASSUME NEW o \in Objects(pag')
        PROVE  \E s \in Stmts(pag', "Addr") :
                 s.src = o /\ \A t \in Stmts(pag', "Addr") : t.src = o => t = s
    <3>1. CASE o \in Ids(pag)
      <4>1. o \in Objects(pag)
        BY <2>1, <3>1, <2>2, GrowsKinds DEF Grows, Objects
      <4>2. PICK s \in Stmts(pag, "Addr") :
              s.src = o /\ \A t \in Stmts(pag, "Addr") : t.src = o => t = s
        BY <4>1 DEF EveryObjectHasAddr
      <4>3. s \in Stmts(pag', "Addr")
        BY <2>1, <4>2 DEF Grows, Stmts
      <4>4. \A t \in Stmts(pag', "Addr") : t.src = o => t \in Stmts(pag, "Addr")
        BY <2>1, <3>1 DEF Grows, AddrsKept
      <4>5. QED
        BY <4>2, <4>3, <4>4
    <3>2. CASE o \notin Ids(pag)
      BY <2>1, <2>2, <3>2 DEF Grows, AddrsKept
    <3>3. QED
      BY <3>1, <3>2
  <2>3. EveryObjectHasAddr'
    BY <2>2 DEF EveryObjectHasAddr
  <2>4. QED
    BY <2>1, <2>3
<1>3. IInv => EveryObjectHasAddr
  OBVIOUS
<1>4. QED
  BY <1>1, <1>2, <1>3, PTL DEF Spec

\* The only step that shows a struct shows one with a field.
LEMMA StructsStayNonempty ==
  ASSUME ~Uses("empty struct"), StructsHaveFields, [Next]_vars
  PROVE  StructsHaveFields'
<1>1. CASE UNCHANGED stInfo
  BY <1>1 DEF StructsHaveFields
<1>2. ASSUME NEW s, NEW def, DefinesStruct(s, def)
      PROVE  StructsHaveFields'
  <2>1. stInfo' = Bind(stInfo, s, Len(def)) /\ def # <<>>
    BY <1>2 DEF DefinesStruct
  <2>2. def \in Seq(FieldDecl)
    BY <1>2, ShapeAssumption DEF DefinesStruct
  <2>3. Len(def) # 0
    BY <2>1, <2>2, EmptySeq
  <2>4. QED
    BY <2>1, <2>3 DEF Bind, StructsHaveFields
<1>3. QED
  BY <1>1, <1>2, StepTable

\* Where no struct is empty an object has a field, be its struct shown or not: the
\* offsets of the analysis, which are taken modulo the number of fields, are defined.
\* An object of a struct without fields has none (TSTypeBuilder.cpp gives SVF the
\* StInfo, whose count is 0).
EveryObjectHasField == \A o \in Objects(pag) : pag.node[o].size # 0

LEMMA InitFields ==
  ASSUME Init
  PROVE  StructsHaveFields /\ EveryObjectHasField
<1>1. pag = [node |-> <<>>, stmt |-> {}] /\ pag.node = <<>>
  BY DEF Init, EmptyPag
<1>2. StructsHaveFields
  BY DEF Init, StructsHaveFields
<1>3. QED
  BY <1>1, <1>2 DEF EveryObjectHasField, Objects, Ids

THEOREM ObjectsHaveFields ==
  ASSUME ~Uses("empty struct")
  PROVE  Spec => []EveryObjectHasField
<1> DEFINE FInv == StructsHaveFields /\ EveryObjectHasField
<1>1. Init => FInv
  BY InitFields
<1>2. TypeOK /\ FInv /\ [Next]_vars => FInv'
  <2> SUFFICES ASSUME TypeOK, FInv, [Next]_vars
               PROVE  FInv'
    OBVIOUS
  <2>1. Grows(pag, pag')
    BY StepPreserves DEF Preserved
  <2>2. ASSUME NEW o \in Objects(pag')
        PROVE  pag'.node[o].size # 0
    <3>1. CASE o \in Ids(pag)
      <4>1. o \in Objects(pag) /\ pag'.node[o] = pag.node[o]
        BY <2>1, <2>2, <3>1 DEF Grows, Objects
      <4>2. QED
        BY <4>1 DEF EveryObjectHasField
    <3>2. CASE o \notin Ids(pag)
      BY <2>1, <2>2, <3>2 DEF Grows, AddrsKept
    <3>3. QED
      BY <3>1, <3>2
  <2>3. EveryObjectHasField'
    BY <2>2 DEF EveryObjectHasField
  <2>4. StructsHaveFields'
    BY StructsStayNonempty
  <2>5. QED
    BY <2>3, <2>4
<1>3. FInv => EveryObjectHasField
  OBVIOUS
<1>4. QED
  BY <1>1, <1>2, <1>3, TypeCorrect, PTL DEF Spec
=============================================================================
