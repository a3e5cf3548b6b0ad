------------------------------ MODULE Programs ------------------------------
(***************************************************************************)
(* C programs.  A program is the sequence of the visitor's steps on the    *)
(* syntax tree of its files, written as tokens; CMachine gives the same    *)
(* tokens the meaning they have in C.                                      *)
(***************************************************************************)
EXTENDS SVFIRVerifier, Andersen, Integers

-----------------------------------------------------------------------------
(* Tokens *)

Sig(ret, params) == [ret |-> ret, params |-> params]
IntArg(x) == [name |-> x, spec |-> IntTy, qualified |-> FALSE]
StructArg(x, s) == [name |-> x, spec |-> s, qualified |-> FALSE]
Fld(f) == [name |-> f, spec |-> IntTy, star |-> FALSE, others |-> {}]
PtrFld(f, s) == [name |-> f, spec |-> s, star |-> TRUE, others |-> {}]
SubFld(f, s) == [name |-> f, spec |-> s, star |-> FALSE, others |-> {}]

\* One file: its function signatures, what precedes the bodies, the bodies.
File(funs, globalDecls, functionBodies) ==
  <<<<"file">>>> \o funs \o <<<<"scanned">>>> \o globalDecls \o functionBodies \o <<<<"eof">>>>
Fun(f, sig) == <<"fun", f, sig>>
Body(binds, stmts) ==
  <<<<"enter">>>> \o [i \in 1..binds |-> <<"bind">>] \o <<<<"body">>>> \o stmts
    \o <<<<"}">>, <<"leave">>>>
Main(stmts) == File(<<Fun("main", Sig(FALSE, <<>>))>>, <<>>, Body(0, stmts))
MainWith(globalDecls, stmts) ==
  File(<<Fun("main", Sig(FALSE, <<>>))>>, globalDecls, Body(0, stmts))

Decl(x, spec, flags) == <<<<"local", x, spec, flags, FALSE>>>>
DeclInit(x, spec, flags, e) == <<<<"local", x, spec, flags, TRUE>>>> \o e \o <<<<"init">>>>
DeclFunctionPointer(x) == <<<<"local*", x, IntTy, "", FALSE>>>>
Global(x, spec, flags) == <<<<"global", x, spec, flags, FALSE>>>>
GlobalInit(x, spec, flags, e) == <<<<"global", x, spec, flags, TRUE>>>> \o e \o <<<<"init">>>>
Struct(s, def) == <<<<"struct", s, def>>>>
Do(e) == e \o <<<<";">>>>
ReturnOf(e) == e \o <<<<"return">>>>
Block(stmts) == <<<<"{">>>> \o stmts \o <<<<"}">>>>

\* Expressions, as values (visitExpr) and as places (lvalueAddress).
Val(x) == <<<<"val", x>>>>
Place(x) == <<<<"place", x>>>>
Num == <<<<"num">>>>
Ref(place) == place \o <<<<"&">>>>
RefTo(x) == Ref(Place(x))
Deref(e) == e \o <<<<"*", "rvalue">>>>
DerefPlace(e) == e \o <<<<"*", "lvalue">>>>
Dot(place, f) == place \o <<<<"field", f, FALSE, "rvalue">>>>
DotPlace(place, f) == place \o <<<<"field", f, FALSE, "lvalue">>>>
Arrow(e, f) == e \o <<<<"field", f, TRUE, "rvalue">>>>
ArrowPlace(e, f) == e \o <<<<"field", f, TRUE, "lvalue">>>>
Index(a, i) == a \o i \o <<<<"[]", "rvalue">>>>
IndexPlace(a, i) == a \o i \o <<<<"[]", "lvalue">>>>
Sum(l, r) == l \o r \o <<<<"binary", TRUE>>>>
Less(l, r) == l \o r \o <<<<"binary", FALSE>>>>
Parens(e) == e \o <<<<"()">>>>
Cast(spec, e) == e \o <<<<"cast", spec>>>>
Assign(x, e) == Do(e \o <<<<"=", x>>>>)
Assigning(x, e) == e \o <<<<"=", x>>>>
AssignTo(place, e) == Do(e \o place \o <<<<"=*">>>>)
Call(f, args, n) == args \o <<<<"call", f, n>>>>
Malloc == <<<<"malloc">>>>
Typedef(alias, spec) == <<<<"typedef", alias, spec>>>>

(***************************************************************************)
(* Tokens that only the run of the program follows.  The visitor passes    *)
(* over a branch (to the next token or n further) and a jump; it never     *)
(* visits the subtree of which lost tokens are the code.                   *)
(***************************************************************************)
Branch(n) == <<<<"branch", n>>>>
Jump(n) == <<<<"jump", n>>>>
Lost(tokens) == [i \in DOMAIN tokens |-> <<"lost", tokens[i]>>]

If(c, then, else) ==
  Do(c) \o Branch(Len(then) + 2) \o then \o Jump(Len(else) + 1) \o else
While(c, body) ==
  Do(c) \o Branch(Len(body) + 2) \o body \o Jump(-(Len(Do(c)) + Len(body) + 1))

\* The visitor meets the three clauses of a for statement before its body, and the
\* braces of a body end its visit of the statement.
Clause(e) == e \o <<<<"clause">>>>
For(c, s, body, end) ==
  <<<<"for">>>> \o Clause(c) \o Branch(Len(Clause(s)) + Len(body) + 4)
    \o Jump(Len(Clause(s)) + 2)
    \o Clause(s) \o Jump(-(Len(Clause(c)) + Len(Clause(s)) + 2))
    \o body \o Jump(-(Len(Clause(s)) + Len(body) + 1)) \o end
ForBraced(c, s, stmts) == For(c, s, Block(stmts), Lost(<<<<"endfor">>>>))
\* for (...; c; s) return e;
ForReturn(c, s, e) == For(c, s, e \o Lost(<<<<"return">>>>) \o <<<<"clause">>>>, <<<<"endfor">>>>)

\* Of c ? x : y the visitor sees y, of (x, y) too.
Conditional(c, x, y) ==
  Lost(Do(c)) \o Branch(Len(x) + 2) \o Lost(x) \o Jump(Len(y) + 1) \o y \o <<<<"last">>>>
\* f(args) where f is a variable: its text finds no function.
CallPointer(f, args, n) == Lost(Val(f)) \o args \o <<<<"call*", n>>>>
\* (x) = e as a statement.
AssignParens(x, e) == Lost(Place(x)) \o e \o <<<<"(=">>>> \o <<<<";">>>>

Pushes(as) == as \in stack'[Len(stack')].as
\* What the text of a declarator shows; "*=[]" is a pointer with brackets in its initializer.
Flags(text) == [star |-> text # "" /\ text # "[]", bracket |-> text \in {"[]", "*[]", "*=[]"}]

Step(t) ==
  CASE t[1] = "file" -> StartUnit
    [] t[1] = "fun" -> PrescanFunctionDef(t[2], t[3])
    [] t[1] = "scanned" -> EndPrescan
    [] t[1] = "eof" -> EndUnit
    [] t[1] = "struct" -> VisitStructSpecifier(t[2], t[3])
    [] t[1] = "global" -> VisitGlobalDecl(t[2], t[3], Flags(t[4]), t[5])
    [] t[1] = "local" -> VisitLocalDecl(t[2], t[3], Flags(t[4]), t[5])
    [] t[1] = "local*" -> SkipFunctionPointer(t[2])
    [] t[1] = "init" -> EndInitializer
    [] t[1] = "enter" -> VisitFunctionDef
    [] t[1] = "bind" -> BindFormal
    [] t[1] = "body" -> EnterBody
    [] t[1] = "leave" -> LeaveFunctionDef
    [] t[1] = "{" -> EnterBlock
    [] t[1] = "}" -> ExitBlock
    [] t[1] = ";" -> VisitExprStmt
    [] t[1] = "return" -> VisitReturn
    [] t[1] = "val" -> VisitIdentifier(t[2]) /\ Pushes("rvalue")
    [] t[1] = "place" -> VisitIdentifier(t[2]) /\ Pushes("lvalue")
    [] t[1] = "num" -> VisitNumber
    [] t[1] = "&" -> VisitAddressOf
    [] t[1] = "*" -> VisitDeref /\ Pushes(t[2])
    [] t[1] = "field" -> VisitField(t[2], t[3]) /\ Pushes(t[4])
    [] t[1] = "[]" -> VisitSubscript /\ Pushes(t[2])
    [] t[1] = "binary" -> VisitBinary(t[2])
    [] t[1] = "()" -> VisitParenthesized
    [] t[1] = "cast" -> VisitCast(t[2])
    [] t[1] = "=" -> VisitAssignIdentifier(t[2])
    [] t[1] = "=*" -> VisitAssignThrough
    [] t[1] = "call" -> VisitCall(t[2], t[3]) \/ VisitUnknownCall(t[2], t[3])
    [] t[1] = "malloc" -> VisitAllocation
    [] t[1] = "typedef" -> VisitTypeDefinition(t[2], t[3])
    [] t[1] = "for" -> VisitFor
    [] t[1] = "clause" -> VisitForClause
    [] t[1] = "endfor" -> EndFor
    [] t[1] = "last" -> VisitLastChild
    [] t[1] = "call*" -> VisitUnknownCall(None, t[2])
    [] t[1] = "(=" -> VisitAssignParenthesized
    [] t[1] \in {"branch", "jump", "lost"} -> UNCHANGED vars

UnitTokens == {"file", "fun", "scanned", "eof", "struct", "global", "typedef"}
BodyTokens ==
  {"local", "local*", "init", "enter", "bind", "body", "leave", "{", "}", ";", "return", "for", "clause", "endfor"}
ExprTokens ==
  {"val", "place", "num", "&", "*", "field", "[]", "binary", "()", "cast", "=", "=*", "call",
   "malloc", "last", "call*", "(="}
\* A token that names what the constants let a program name.
Written(t) ==
  /\ t[1] \in UnitTokens \cup BodyTokens \cup ExprTokens \cup {"branch", "jump", "lost"}
  /\ t[1] = "fun" => t[2] \in Funs /\ t[3] \in Signatures
  /\ t[1] = "struct" => t[2] \in Structs /\ t[3] \in StructDefs
  /\ t[1] = "typedef" => t[2] \in Aliases /\ t[3] \in Specifiers
  /\ t[1] \in {"global", "local"} => t[2] \in Vars /\ t[3] \in Specifiers /\ t[5] \in BOOLEAN
  /\ t[1] = "local*" => t[2] \in Vars
  /\ t[1] \in {"val", "place"} => t[2] \in Vars \cup Funs
  /\ t[1] = "=" => t[2] \in Vars
  /\ t[1] = "field" => t[2] \in Fields /\ t[3] \in BOOLEAN
  /\ t[1] = "binary" => t[2] \in BOOLEAN
  /\ t[1] = "cast" => t[2] \in Specifiers
  /\ t[1] = "call" => t[2] \in Funs /\ t[3] \in 0..MaxStack
  /\ t[1] = "call*" => t[2] \in 0..MaxStack

\* What the parser makes of a file: tokens, the last of which ends the file.
WellFormed(text) ==
  /\ text # <<>> /\ text[Len(text)] = <<"eof">>
  /\ IsSequence(text) /\ \A k \in DOMAIN text : Written(text[k])

\* What texts declare with tokens of a kind: the signatures of their functions ("fun")
\* or the bodies of their structs ("struct").
Declarations(texts, kind) ==
  UNION {{text[k][3] : k \in {l \in DOMAIN text : text[l][1] = kind}} : text \in texts}
=============================================================================
