----------------------------- MODULE Divergences -----------------------------
(***************************************************************************)
(* C programs of which the README or a comment says that the analysis      *)
(* covers them, and the run of which shows that it does not.               *)
(***************************************************************************)
EXTENDS CMachine

CONSTANT Case  \* the program

Id == Fun("id", Sig(TRUE, <<IntArg("x")>>))
IntsAB == Decl("a", IntTy, "") \o Decl("b", IntTy, "")
P == Decl("p", IntTy, "*")
S == Struct("S", <<PtrFld("f", IntTy), PtrFld("g", IntTy)>>)

\* int *(*fp)(int *) = id; p = fp(&a);
IndirectId ==
  OnlyMain(File(<<Id, Fun("main", Sig(FALSE, <<>>))>>, <<>>,
    Body(1, ReturnOf(Val("x")))
    \o Body(0, IntsAB \o P \o DeclInit("fp", IntTy, "*", Val("id"))
                 \o Assign("p", CallPointer("fp", RefTo("a"), 1)))))

\* p = c ? &a : &b;
ConditionalValue ==
  OnlyMain(Main(IntsAB \o P \o Assign("p", Conditional(Val("a"), RefTo("a"), RefTo("b")))))

\* (p) = &a;
ParenthesizedLeft == OnlyMain(Main(IntsAB \o P \o AssignParens("p", RefTo("a"))))

\* s.g = &a; t = s;
StructCopy ==
  OnlyMain(MainWith(S, IntsAB \o Decl("s", "S", "") \o Decl("t", "S", "")
    \o AssignTo(DotPlace(Place("s"), "g"), RefTo("a")) \o Assign("t", Val("s"))
    \o P \o Assign("p", Dot(Place("t"), "g"))))

\* union { int *i; int *j; } u; u.i = &a; p = u.j;
UnionMembers ==
  OnlyMain(MainWith(Struct("U", <<PtrFld("i", IntTy), PtrFld("j", IntTy)>>),
    IntsAB \o Decl("u", "U", "") \o P
    \o AssignTo(DotPlace(Place("u"), "i"), RefTo("a")) \o Assign("p", Dot(Place("u"), "j"))))

\* struct S { int **f; int *g; } s; int *arr[2]; s.f = arr; arr[0] = &a; p = s.f[0];
PointerFieldSubscript ==
  OnlyMain(MainWith(S, IntsAB \o Decl("s", "S", "") \o Decl("arr", IntTy, "*[]") \o P
    \o AssignTo(DotPlace(Place("s"), "f"), Val("arr"))
    \o AssignTo(IndexPlace(Val("arr"), Num), RefTo("a"))
    \o Assign("p", Index(DotPlace(Place("s"), "f"), Num))))

\* int *id(int *x) { for (; c; ) return x; } ... p = id(&a);
UnbracedFor ==
  OnlyMain(File(<<Id, Fun("main", Sig(FALSE, <<>>))>>, Global("c", IntTy, ""),
    Body(1, ForReturn(Val("c"), Num, Val("x")))
    \o Body(0, IntsAB \o P \o Assign("p", Call("id", RefTo("a"), 1)))))

\* typedef int *T; T id(T x) { return x; } ... p = id(&a);
TypedefReturn ==
  OnlyMain(File(<<Fun("id", Sig(FALSE, <<StructArg("x", "T")>>)), Fun("main", Sig(FALSE, <<>>))>>,
    Typedef("T", IntTy),
    Body(1, ReturnOf(Val("x"))) \o Body(0, IntsAB \o P \o Assign("p", Call("id", RefTo("a"), 1)))))

\* lib.c: int *gp; void init(int *x) { gp = x; }   main.c: extern int *gp; init(&a); p = gp;
SharedGlobal ==
  LibAndMain(
    File(<<Fun("init", Sig(FALSE, <<IntArg("x")>>))>>, Global("gp", IntTy, "*"),
         Body(1, Assign("gp", Val("x")))),
    File(<<Fun("main", Sig(FALSE, <<>>))>>, Global("gp", IntTy, "*"),
         Body(0, IntsAB \o P \o Do(Call("init", RefTo("a"), 1)) \o Assign("p", Val("gp")))))

\* int *arr[2]; int **gp = &arr[0]; ... gp = &p; q = *gp;
GlobalInitializer ==
  OnlyMain(MainWith(Global("arr", IntTy, "*[]")
      \o GlobalInit("gp", IntTy, "*=[]", Ref(IndexPlace(Val("arr"), Num))),
    IntsAB \o P \o Decl("q", IntTy, "*") \o Assign("p", RefTo("a")) \o Assign("gp", RefTo("p"))
    \o Assign("q", Deref(Val("gp")))))

\* struct S *r = &s; struct S **pp = &r; p = (*pp)->g;
DerefField ==
  OnlyMain(MainWith(S, Decl("s", "S", "") \o DeclInit("r", "S", "*", RefTo("s"))
    \o DeclInit("pp", "S", "*", RefTo("r")) \o P
    \o Assign("p", Arrow(Parens(Deref(Val("pp"))), "g"))))

\* typedef struct S { int *f; int *g; } T; T s; s.g = &a;
TypedefStruct ==
  OnlyMain(MainWith(Typedef("T", "S"),
    IntsAB \o Decl("s", "T", "") \o AssignTo(DotPlace(Place("s"), "g"), RefTo("a"))))

\* struct S { int *f, *g; };  ...  s.g = &a;
DeclaratorList ==
  OnlyMain(MainWith(Struct("S", <<[PtrFld("f", IntTy) EXCEPT !.others = {"g"}]>>),
    IntsAB \o Decl("s", "S", "") \o AssignTo(DotPlace(Place("s"), "g"), RefTo("a"))))

\* struct S { int *f; int * g; };  whose second field is named " g";  ...  s.g = &a;
SpacedField ==
  OnlyMain(MainWith(Struct("S", <<PtrFld("f", IntTy), PtrFld(" g", IntTy)>>),
    IntsAB \o Decl("s", "S", "") \o AssignTo(DotPlace(Place("s"), "g"), RefTo("a"))))

\* struct S { int *f; int *g; } s;  at top level, as one declaration;  ...  s.g = &a;
DeclarationBody ==
  OnlyMain(MainWith(Global("s", "S", ""), IntsAB \o AssignTo(DotPlace(Place("s"), "g"), RefTo("a"))))

\* int *id(int *const x) { return x; } ... p = id(&a);
QualifiedParameter ==
  OnlyMain(File(<<Fun("id", Sig(TRUE, <<[IntArg("x") EXCEPT !.qualified = TRUE]>>)),
                  Fun("main", Sig(FALSE, <<>>))>>, <<>>,
    Body(1, ReturnOf(Val("x"))) \o Body(0, IntsAB \o P \o Assign("p", Call("id", RefTo("a"), 1)))))

\* void init(int *x) {} ... void (*fp)(int *);  fp = init;
FunctionPointer ==
  OnlyMain(File(<<Fun("init", Sig(FALSE, <<IntArg("x")>>)), Fun("main", Sig(FALSE, <<>>))>>, <<>>,
    Body(1, <<>>) \o Body(0, DeclFunctionPointer("fp") \o Assign("fp", Val("init")))))

\* lib.c: struct S { int *g; };   main.c: struct S { int *f; int *g; };
DifferingStructs ==
  LibAndMain(File(<<Id>>, Struct("S", <<PtrFld("g", IntTy)>>), Body(1, ReturnOf(Val("x")))),
             File(<<Fun("main", Sig(FALSE, <<>>))>>, S, Body(0, <<>>)))

Started ==
  {Dump(CASE Case = "indirect call" -> IndirectId
          [] Case = "conditional" -> ConditionalValue
          [] Case = "parenthesized left" -> ParenthesizedLeft
          [] Case = "struct copy" -> StructCopy
          [] Case = "union members" -> UnionMembers
          [] Case = "pointer field" -> PointerFieldSubscript
          [] Case = "unbraced for" -> UnbracedFor
          [] Case = "typedef return" -> TypedefReturn
          [] Case = "shared global" -> SharedGlobal
          [] Case = "global initializer" -> GlobalInitializer
          [] Case = "deref field" -> DerefField
          [] Case = "typedef struct" -> TypedefStruct
          [] Case = "declarator list" -> DeclaratorList
          [] Case = "spaced field" -> SpacedField
          [] Case = "declaration body" -> DeclarationBody
          [] Case = "qualified parameter" -> QualifiedParameter
          [] Case = "function pointer" -> FunctionPointer
          [] Case = "differing structs" -> DifferingStructs)}

\* What the programs declare.
SignaturesUsed == Declarations(Texts(Started), "fun")
DefsUsed == Declarations(Texts(Started), "struct")
=============================================================================
