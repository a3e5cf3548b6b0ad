------------------------------ MODULE Soundness ------------------------------
(***************************************************************************)
(* The test suite, and three families of C programs, for CMachine.  Each   *)
(* program of a family is a loop around a few statements of the family's   *)
(* menu, any of which an iteration may skip: its runs are all the orders   *)
(* of those statements.                                                    *)
(***************************************************************************)
EXTENDS CMachine, TestSuite, TLC
LOCAL INSTANCE SequencesExt

CONSTANTS
  \* bounds on the statements that a program takes from each menu
  PointerStatements, StructStatements, CallStatements

\* while (c) { if (c) s1; if (c) s2; ... }
Condition == Val("c")
Option(stmt) == IF stmt = <<>> THEN <<>> ELSE If(Condition, stmt, <<>>)
Shuffled(stmts) ==
  While(Condition, Block(FlattenSeq([i \in DOMAIN stmts |-> Option(stmts[i])])))
Ints == FlattenSeq([i \in 1..3 |-> Decl(<<"a", "b", "c">>[i], IntTy, "")])
Pointers(names) == FlattenSeq([i \in DOMAIN names |-> Decl(names[i], IntTy, "*")])

-----------------------------------------------------------------------------
(* Pointers to pointers, arrays, the heap *)

PointerMenu ==
  <<Assign("p", RefTo("a")),
    Assign("p", Assigning("q", RefTo("b"))),
    Assign("q", Val("p")),
    Assign("pp", RefTo("p")),
    Assign("pp", RefTo("q")) \o AssignTo(DerefPlace(Val("pp")), Val("p")),
    Assign("p", Deref(Val("pp"))),
    Assign("pp", Malloc) \o AssignTo(DerefPlace(Val("pp")), Val("q")),
    Assign("pp", Sum(Cast(IntTy, Val("pp")), Num)),
    AssignTo(IndexPlace(Val("arr"), Num), Val("q")),
    Assign("pp", Val("arr")) \o Assign("p", Index(Val("pp"), Num)),
    Assign("pp", Ref(IndexPlace(Val("arr"), Val("c")))),
    Assign("q", Deref(Ref(DerefPlace(Val("pp")))))>>
PointerProgram(stmts) ==
  OnlyMain(Main(Ints \o Pointers(<<"p", "q", "pp">>) \o Decl("arr", IntTy, "*[]") \o Shuffled(stmts)
    \o ReturnOf(Num)))

-----------------------------------------------------------------------------
(* struct S { int x; int *f; struct S *g; int *arr[2]; }; struct T { int x; struct S in; } *)

StructS == Struct("S", <<Fld("x"), PtrFld("f", IntTy), PtrFld("g", "S"), PtrFld("arr", IntTy)>>)
StructT == Struct("T", <<Fld("x"), SubFld("in", "S")>>)
StructMenu ==
  <<AssignTo(DotPlace(Place("s"), "f"), RefTo("a")),
    AssignTo(DotPlace(Place("s"), "g"), RefTo("s")) \o AssignTo(ArrowPlace(Val("r"), "g"), Val("r")),
    Assign("r", Arrow(Val("r"), "g")),
    Assign("r", RefTo("s")) \o Assign("p", Arrow(Val("r"), "f")),
    AssignTo(IndexPlace(DotPlace(Place("s"), "arr"), Num), RefTo("b")),
    Assign("p", Index(ArrowPlace(Val("r"), "arr"), Num)),
    Assign("r", Ref(DotPlace(Place("t"), "in"))),
    AssignTo(DotPlace(DotPlace(Place("t"), "in"), "f"), Val("p")),
    Assign("r", Malloc) \o AssignTo(ArrowPlace(Val("r"), "f"), RefTo("b")),
    Assign("r", Ref(IndexPlace(Val("items"), Num))),
    Assign("p", Dot(IndexPlace(Val("items"), Num), "f")),
    Assign("p", Arrow(Dot(IndexPlace(Val("items"), Num), "g"), "f")),
    ForBraced(Condition, Assigning("r", Arrow(Val("r"), "g")), Assign("p", Arrow(Val("r"), "f")))>>
StructProgram(stmts) ==
  OnlyMain(MainWith(StructS \o StructT \o Global("s", "S", "") \o Global("t", "T", ""),
    Ints \o Pointers(<<"p">>) \o Decl("items", "S", "[]") \o DeclInit("r", "S", "*", RefTo("s"))
      \o Shuffled(stmts) \o ReturnOf(Num)))

-----------------------------------------------------------------------------
(* lib.c:  void set(int **d, int *v) { *d = v; }   void noop(void) {}
   main.c: int *loop(int *x) { gp = x; if (c) return loop(gp); return id(x); }
           int *id(int *x) { return x; }                                     *)

CallMenu ==
  <<Assign("p", Call("id", RefTo("a"), 1)),
    Assign("q", Call("id", Call("id", Val("p"), 1), 1)),
    Do(Call("set", RefTo("q") \o RefTo("b"), 2)),
    Do(Call("set", Call("id", RefTo("gp"), 1) \o Call("loop", Val("q"), 1), 2)),
    Assign("p", Call("loop", Val("q"), 1)),
    Assign("gp", Val("q")),
    Do(Call("loop", Assigning("gp", RefTo("a")), 1)),
    Do(CallPointer("fp", <<>>, 0))>>
Library ==
  File(<<Fun("set", Sig(FALSE, <<IntArg("d"), IntArg("v")>>)), Fun("noop", Sig(FALSE, <<>>))>>, <<>>,
    Body(2, AssignTo(DerefPlace(Val("d")), Val("v"))) \o Body(0, <<>>))
CallProgram(stmts) ==
  LibAndMain(Library,
    File(<<Fun("main", Sig(FALSE, <<>>)), Fun("loop", Sig(TRUE, <<IntArg("x")>>)),
           Fun("id", Sig(TRUE, <<IntArg("x")>>))>>,
      Global("gp", IntTy, "*") \o GlobalInit("fp", IntTy, "*", Val("noop")) \o Global("c", IntTy, ""),
      Body(0, Decl("a", IntTy, "") \o Decl("b", IntTy, "") \o Pointers(<<"p", "q">>)
                \o Shuffled(stmts) \o ReturnOf(Num))
      \o Body(1, Assign("gp", Val("x")) \o If(Val("c"), ReturnOf(Call("loop", Val("gp"), 1)), <<>>)
                   \o ReturnOf(Call("id", Val("x"), 1)))
      \o Body(1, ReturnOf(Val("x")))))

-----------------------------------------------------------------------------
Picks(menu, most) ==
  {[i \in DOMAIN menu |-> IF i \in pick THEN menu[i] ELSE <<>>] :
     pick \in {p \in SUBSET DOMAIN menu : Cardinality(p) \in 1..most}}
Analysed ==
  Suite
    \cup {Dump(PointerProgram(stmts)) : stmts \in Picks(PointerMenu, PointerStatements)}
    \cup {Dump(StructProgram(stmts)) : stmts \in Picks(StructMenu, StructStatements)}
    \cup {Dump(CallProgram(stmts)) : stmts \in Picks(CallMenu, CallStatements)}

ASSUME StructureAssumption == \A text \in Texts(Analysed) : Structured(text)

\* What the programs declare; the menus declare nothing.
Surroundings == Texts(Suite \cup {Dump(StructProgram(<<>>)), Dump(CallProgram(<<>>))})
SignaturesUsed == Declarations(Surroundings, "fun")
DefsUsed == Declarations(Surroundings, "struct")
=============================================================================
