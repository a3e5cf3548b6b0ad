------------------------------ MODULE TestSuite ------------------------------
(***************************************************************************)
(* The programs of src/tests, with the "EXPECTED:" block that layer 2      *)
(* (scripts/check_expected.py) compares the output of ts-svf with.         *)
(***************************************************************************)
EXTENDS CommandLine

-----------------------------------------------------------------------------
(* The tests *)

List == <<Fld("data"), PtrFld("next", "Node")>>

\* Declarations the tests share: int a; int *p = &a;
IntA == Decl("a", IntTy, "")
PtrToA == DeclInit("p", IntTy, "*", RefTo("a"))
Return0 == ReturnOf(Num)

Tests ==
  [addr |-> Main(IntA \o PtrToA \o Return0),
   copy |-> Main(IntA \o PtrToA \o DeclInit("q", IntTy, "*", Val("p")) \o Return0),
   load |-> Main(DeclInit("a", IntTy, "", Num) \o PtrToA
                   \o DeclInit("x", IntTy, "", Deref(Val("p"))) \o ReturnOf(Val("x"))),
   store |-> Main(IntA \o PtrToA \o AssignTo(DerefPlace(Val("p")), Num) \o Return0),
   multi_level |-> Main(IntA \o PtrToA \o DeclInit("pp", IntTy, "*", RefTo("p"))
                   \o DeclInit("x", IntTy, "", Deref(Deref(Val("pp")))) \o ReturnOf(Val("x"))),
   global |-> MainWith(Global("g", IntTy, "") \o GlobalInit("gp", IntTy, "*", RefTo("g")),
                   ReturnOf(Deref(Val("gp")))),
   if |-> Main(IntA \o Decl("b", IntTy, "") \o Decl("p", IntTy, "*")
                   \o If(Parens(Val("a")), Assign("p", RefTo("a")), Assign("p", RefTo("b")))
                   \o ReturnOf(Deref(Val("p")))),
   loop |-> Main(IntA \o PtrToA \o DeclInit("i", IntTy, "", Num)
                   \o While(Parens(Less(Val("i"), Num)),
                        Block(AssignTo(DerefPlace(Val("p")), Val("i"))
                                \o Assign("i", Sum(Val("i"), Num)))) \o Return0),
   call |-> File(<<Fun("foo", Sig(TRUE, <<IntArg("p")>>)), Fun("main", Sig(FALSE, <<>>))>>, <<>>,
                   Body(1, ReturnOf(Val("p")))
                   \o Body(0, IntA \o DeclInit("q", IntTy, "*", Call("foo", RefTo("a"), 1))
                              \o ReturnOf(Deref(Val("q"))))),
   struct_field |-> MainWith(Struct("S", <<Fld("x"), Fld("y")>>),
                   Decl("s", "S", "") \o AssignTo(DotPlace(Place("s"), "x"), Num)
                   \o DeclInit("v", IntTy, "", Dot(Place("s"), "x")) \o ReturnOf(Val("v"))),
   struct_ptr |-> MainWith(Struct("Node", List),
                   Decl("n", "Node", "") \o DeclInit("p", "Node", "*", RefTo("n"))
                   \o DeclInit("v", IntTy, "", Arrow(Val("p"), "data")) \o ReturnOf(Val("v"))),
   nested_dot |-> MainWith(Struct("S", <<Fld("x"), PtrFld("px", IntTy)>>)
                   \o Struct("Outer", <<Fld("head"), SubFld("inner", "S")>>),
                   IntA \o Decl("s", "Outer", "")
                   \o AssignTo(DotPlace(DotPlace(Place("s"), "inner"), "px"), RefTo("a"))
                   \o DeclInit("q", IntTy, "*", Dot(DotPlace(Place("s"), "inner"), "px"))
                   \o Return0),
   chain_arrow |-> MainWith(Struct("Node", List),
                   IntA \o Decl("n1", "Node", "") \o Decl("n2", "Node", "")
                   \o AssignTo(DotPlace(Place("n2"), "next"), RefTo("n1"))
                   \o AssignTo(DotPlace(Place("n1"), "next"), Num)
                   \o DeclInit("p", "Node", "*", RefTo("n2"))
                   \o DeclInit("q", "Node", "*", Arrow(Val("p"), "next")) \o Return0),
   global_struct |-> MainWith(Struct("S", <<PtrFld("p", IntTy), Fld("tag")>>)
                   \o Global("a", IntTy, "") \o Global("g", "S", ""),
                   AssignTo(DotPlace(Place("g"), "p"), RefTo("a"))
                   \o DeclInit("q", IntTy, "*", Dot(Place("g"), "p")) \o Return0),
   param_struct |-> File(<<Fun("foo", Sig(FALSE, <<StructArg("s", "S"), IntArg("v")>>)),
                          Fun("main", Sig(FALSE, <<>>))>>, Struct("S", <<PtrFld("p", IntTy)>>),
                   Body(2, AssignTo(ArrowPlace(Val("s"), "p"), Val("v")))
                   \o Body(0, IntA \o Decl("s", "S", "")
                              \o Do(Call("foo", RefTo("s") \o RefTo("a"), 2))
                              \o DeclInit("q", IntTy, "*", Dot(Place("s"), "p")) \o Return0)),
   array_basic |-> Main(IntA \o Decl("arr", IntTy, "*[]")
                   \o AssignTo(IndexPlace(Val("arr"), Num), RefTo("a"))
                   \o DeclInit("q", IntTy, "*", Index(Val("arr"), Num)) \o Return0),
   array_var_index |-> Main(IntA \o Decl("b", IntTy, "") \o Decl("arr", IntTy, "*[]")
                   \o AssignTo(IndexPlace(Val("arr"), Num), RefTo("a"))
                   \o AssignTo(IndexPlace(Val("arr"), Num), RefTo("b")) \o Decl("i", IntTy, "")
                   \o DeclInit("q", IntTy, "*", Index(Val("arr"), Val("i"))) \o Return0),
   array_of_struct |-> MainWith(Struct("S", <<PtrFld("p", IntTy), Fld("tag")>>),
                   IntA \o Decl("arr", "S", "[]")
                   \o AssignTo(DotPlace(IndexPlace(Val("arr"), Num), "p"), RefTo("a"))
                   \o DeclInit("q", IntTy, "*", Dot(IndexPlace(Val("arr"), Num), "p")) \o Return0),
   ptr_add |-> Main(IntA \o PtrToA \o DeclInit("q", IntTy, "*", Sum(Val("p"), Num)) \o Return0),
   cast_ptr |-> MainWith(Struct("S", <<Fld("x"), PtrFld("px", IntTy)>>)
                   \o Struct("Outer", <<Fld("x"), PtrFld("px", IntTy)>>),
                   IntA \o Decl("s", "S", "")
                   \o AssignTo(DotPlace(Place("s"), "px"), RefTo("a"))
                   \o DeclInit("p", "Outer", "*", Cast("Outer", RefTo("s")))
                   \o DeclInit("q", IntTy, "*", Arrow(Val("p"), "px")) \o Return0)]

Stats(addr, copy, load, store, gep) ==
  [addr |-> addr, copy |-> copy, load |-> load, store |-> store, gep |-> gep]
a == {"a"}

\* The EXPECTED blocks, with the names the programs above give the variables.
ExpectedCounts ==
  [addr |-> Stats(3, 0, 0, 1, 0), copy |-> Stats(4, 0, 1, 2, 0), load |-> Stats(4, 0, 3, 3, 0),
   store |-> Stats(3, 0, 1, 2, 0), multi_level |-> Stats(5, 0, 4, 3, 0),
   global |-> Stats(3, 0, 2, 1, 0), if |-> Stats(4, 0, 3, 2, 0), loop |-> Stats(4, 0, 4, 4, 0),
   call |-> Stats(5, 1, 3, 2, 0), struct_field |-> Stats(3, 0, 2, 2, 2),
   struct_ptr |-> Stats(4, 0, 3, 2, 1), nested_dot |-> Stats(4, 0, 1, 2, 4),
   chain_arrow |-> Stats(6, 0, 2, 4, 3), global_struct |-> Stats(4, 0, 1, 2, 2),
   param_struct |-> Stats(7, 0, 3, 4, 2), array_basic |-> Stats(4, 0, 1, 2, 2),
   array_var_index |-> Stats(6, 0, 2, 3, 3), array_of_struct |-> Stats(4, 0, 1, 2, 4),
   ptr_add |-> Stats(4, 0, 1, 2, 1), cast_ptr |-> Stats(5, 1, 2, 3, 2)]

ExpectedPts ==
  [addr |-> [a |-> a, p |-> {"a", "p"}],
   copy |-> [a |-> a, p |-> {"a", "p"}, q |-> {"a", "q"}],
   load |-> [a |-> a, p |-> {"a", "p"}, x |-> {"x"}],
   store |-> [a |-> a, p |-> {"a", "p"}],
   multi_level |-> [a |-> a, p |-> {"a", "p"}, pp |-> {"p", "pp"}, x |-> {"x"}],
   global |-> [g |-> {"g"}, gp |-> {"g", "gp"}],
   if |-> [a |-> a, p |-> {"a", "b", "p"}],
   loop |-> [a |-> a, i |-> {"i"}, p |-> {"a", "p"}],
   call |-> [a |-> a, p |-> {"a", "p"}, q |-> {"a", "q"}],
   struct_field |-> [s |-> {"s"}, v |-> {"v"}],
   struct_ptr |-> [n |-> {"n"}, p |-> {"n", "p"}, v |-> {"v"}],
   nested_dot |-> [a |-> a, s |-> {"a", "s"}, q |-> {"a", "q"}],
   chain_arrow |-> [a |-> a, n1 |-> {"n1"}, n2 |-> {"n1", "n2"}, p |-> {"n2", "p"},
                    q |-> {"n1", "q"}],
   global_struct |-> [a |-> a, g |-> {"a", "g"}, q |-> {"a", "q"}],
   param_struct |-> [a |-> a, s |-> {"a", "s"}, q |-> {"a", "q"}, v |-> {"a", "v"}],
   array_basic |-> [a |-> a, arr |-> {"a", "arr"}, q |-> {"a", "q"}],
   array_var_index |-> [a |-> a, b |-> {"b"}, arr |-> {"a", "b", "arr"}, q |-> {"a", "b", "q"}],
   array_of_struct |-> [a |-> a, arr |-> {"a", "arr"}, q |-> {"a", "q"}],
   ptr_add |-> [a |-> a, p |-> {"a", "p"}, q |-> {"a", "q"}],
   cast_ptr |-> [a |-> a, s |-> {"a", "s"}, p |-> {"s", "p"}, q |-> {"a", "q"}]]

-----------------------------------------------------------------------------
\* A test is a file of its own, named after it.
Suite ==
  {[args |-> <<"--verify", "--dump-pts", test>>, disk |-> [path \in {test} |-> Tests[test]]] :
     test \in DOMAIN Tests}

\* Layer 2: each test ends with the statement counts and the points-to sets of its
\* EXPECTED block.
ExpectedBlock ==
  exitCode = 0 /\ srcs # <<>> /\ srcs[1] \in DOMAIN Tests =>
    LET test == srcs[1]
    IN  /\ Counts(pag) = ExpectedCounts[test]
        /\ \A x \in DOMAIN ExpectedPts[test] : Report(pag, solution, x) = ExpectedPts[test][x]

\* The command line with its end made a step, so that a visit which the guards of the
\* visitor stop before the end of its program is a deadlock, and nothing else is.
Exited == stage = "exited" /\ UNCHANGED <<vars, frontend>>
SuiteNext == LineNext \/ Exited
SuiteSpec == LineInit /\ [][SuiteNext]_<<vars, frontend>> /\ WF_<<vars, frontend>>(LineNext)
=============================================================================
