--------------------------- MODULE MCTSIRBuilder ---------------------------
(* Values for the constants of TSIRBuilder that a .cfg cannot write. *)
EXTENDS SVFIRVerifier, VisitorInvariants

IntParam(x) == [name |-> x, spec |-> IntTy, qualified |-> FALSE]
StructParam(x) == [name |-> x, spec |-> "S", qualified |-> FALSE]
QualifiedParam(x) == [name |-> x, spec |-> IntTy, qualified |-> TRUE]

\* T *f(int *x)
PointerSignature == {[ret |-> TRUE, params |-> <<IntParam("x")>>]}
\* and T *f(int *const x)
QualifiedSignatures == PointerSignature \cup {[ret |-> TRUE, params |-> <<QualifiedParam("x")>>]}
\* void f(void)
ProcedureSignature == {[ret |-> FALSE, params |-> <<>>]}
\* T *f(struct S *x)
StructSignature == {[ret |-> TRUE, params |-> <<StructParam("x")>>]}

\* struct { int f; struct S *g; }, struct { int f; struct T g; }, struct { int f, g; }
\* and struct { }
Plain(f) == [name |-> f, spec |-> IntTy, star |-> FALSE, others |-> {}]
Link(f, s) == [name |-> f, spec |-> s, star |-> TRUE, others |-> {}]
Embedded(f, s) == [name |-> f, spec |-> s, star |-> FALSE, others |-> {}]
Joint(f, others) == [name |-> f, spec |-> IntTy, star |-> FALSE, others |-> others]
FieldDefs ==
  {<<Plain("f"), Link("g", "S")>>, <<Plain("f"), Embedded("g", "T")>>, <<Joint("f", {"g"})>>, <<>>}
NoDefs == {}
=============================================================================
