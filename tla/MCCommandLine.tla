---------------------------- MODULE MCCommandLine ----------------------------
(* The tests, and all short command lines over two files and a missing one. *)
EXTENDS TestSuite

CONSTANT MaxWords  \* bound on the words of a command line

\* good.c: int *id(int *x) { return x; }
\* bad.c:  void sum(void) { int y = (long)1 + 2; }, which the verifier rejects
Files ==
  [path \in {"good.c", "bad.c"} |->
     IF path = "good.c"
     THEN File(<<Fun("id", Sig(TRUE, <<IntArg("x")>>))>>, <<>>, Body(1, ReturnOf(Val("x"))))
     ELSE File(<<Fun("sum", Sig(FALSE, <<>>))>>, <<>>,
               Body(0, DeclInit("y", IntTy, "", Sum(Cast(IntTy, Num), Num))))]
Words == {"--verify", "--dump-svfir", "--dump-pts", "--help", "--unknown", "good.c", "bad.c", "missing.c"}
\* No file is named twice: its functions would be defined twice.
Lines ==
  {line \in UNION {[1..n -> Words] : n \in 0..MaxWords} :
     \A i, j \in DOMAIN line : line[i] \in DOMAIN Files /\ line[i] = line[j] => i = j}
Started == Suite \cup [args : Lines, disk : {Files}]

\* What the programs declare.
AllTexts == Texts(Suite \cup [args : {<<>>}, disk : {Files}])
SignaturesUsed == Declarations(AllTexts, "fun")
DefsUsed == Declarations(AllTexts, "struct")

\* Whatever the prescan of a file registers has its body visited in the end, be it
\* called before, defined in a second file, or the last of a test.
RegisteredIsVisited ==
  (\E f \in DOMAIN funcInfos : ~funcInfos[f].defined)
    ~> (\A f \in DOMAIN funcInfos : funcInfos[f].defined)
=============================================================================
