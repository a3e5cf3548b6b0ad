---------------------------- MODULE TSTypeBuilder ----------------------------
(***************************************************************************)
(* The registry of types (src/src/TSTypeBuilder.cpp) under the visits of   *)
(* declarations that reach it, and the byte sizes that the objects of      *)
(* declared variables get from SimpleDataLayout.  TSIRBuilder knows one    *)
(* arithmetic type; here each has its width, and what C says a type is     *)
(* (members, plain, meaning) is kept beside what the registry makes of it. *)
(***************************************************************************)
EXTENDS SimpleDataLayout

CONSTANTS
  Specifiers,  \* type specifiers of the source: see Primitive, Identifier, StructWithBody
  MemberTypes, \* those that a member of a struct may have
  Tags,        \* struct tags
  Aliases,     \* names that typedef may introduce
  MaxMembers,  \* bound on the members of a struct
  MaxTypeId    \* bound on the types created

Specifier(kind, words, name, shown) == [kind |-> kind, words |-> words, name |-> name, shown |-> shown]
Primitive(words) == Specifier("primitive_type", words, "", <<>>)
Identifier(alias) == Specifier("type_identifier", {}, alias, <<>>)
\* With the number of members of the body, if the specifier of a declaration shows one.
StructWithBody(tag, shown) == Specifier("struct_specifier", {}, tag, shown)
Struct(tag) == StructWithBody(tag, <<>>)
AnonymousStruct == Struct("")
Enum == Specifier("enum_specifier", {}, "", <<>>)

VARIABLES
  structs,     \* TSTypeBuilder::structs
  typedefs,    \* TSTypeBuilder::typedefs
  nextTypeId,
  stInfo,      \* the flattened field types of the types that have a StInfo
  object,      \* the object made last for a declaration, with its type in C
  body,        \* the struct whose members are being visited, in a sequence
  members,     \* what C knows of a struct, by its name: the number of its members
  plain,       \* the structs defined on their own, one member to a field declaration
  meaning,     \* what C knows of a typedef name
  anonymous    \* how many structs without a tag the source has shown

c == <<members, plain, meaning, anonymous>>
vars == <<structs, typedefs, nextTypeId, stInfo, object, body, c>>

Put(m, k, v) == [x \in DOMAIN m \cup {k} |-> IF x = k THEN v ELSE m[x]]
Empty == [x \in {} |-> <<>>]
NoObject == [fields |-> 1, bytes |-> 8, ctype |-> PointerType, star |-> TRUE]

-----------------------------------------------------------------------------
(* The registry *)

VoidType == OtherType("void", 0)
DoubleType == OtherType("double", 8)
FloatType == OtherType("float", 4)
Builtin == {VoidType, PointerType, FloatType, DoubleType} \cup {IntType(w) : w \in {1, 2, 4, 8}}

GetIntType(bytes) ==
  LET asked == IF bytes \in 1..8 THEN bytes ELSE 4
  IN  IntType(CHOOSE w \in {1, 2, 4, 8} : w >= asked /\ \A v \in {1, 2, 4, 8} : v >= asked => w <= v)

\* Mutant: only the integer keywords are looked for.
ParsePrimitiveLongFirst(words) ==
  IF words \cap {"long", "long long"} # {} THEN GetIntType(8)
  ELSE IF "short" \in words THEN GetIntType(2)
  ELSE GetIntType(4)
\* The first of the keywords that the specifier's text contains decides; the grammar's
\* names of the standard library's types (size_t, int64_t, ...) contain none, or char.
ParsePrimitive(words) ==
  IF words \cap {"char", "char8_t", "char16_t", "char32_t"} # {} THEN GetIntType(1)
  ELSE IF "short" \in words THEN GetIntType(2)
  ELSE IF words \cap {"long", "long long"} # {} THEN GetIntType(8)
  ELSE IF "double" \in words THEN DoubleType
  ELSE IF "float" \in words THEN FloatType
  ELSE IF "void" \in words THEN VoidType
  ELSE IF "bool" \in words THEN GetIntType(1)
  ELSE GetIntType(4)

\* What parseTypeFromNode answers, and the registry that it leaves.
Registry == [structs |-> structs, next |-> nextTypeId]
Known(ty, r) == [ty |-> ty, reg |-> r]
\* Mutant: a struct without a name is anon, as in visitTopLevelDecl.
NameOfShared(tag, r) == IF tag = "" THEN "anon" ELSE tag
AnonymousName(n) == "anon_struct_" \o ToString(n)
NameOf(tag, r) == IF tag = "" THEN AnonymousName(r.next) ELSE tag
\* Mutant: the struct is made anew each time.
GetOrCreateStructTypeAnew(name, r) ==
  LET st == StructType(AnonymousName(r.next), <<>>)
  IN  Known(st, [structs |-> Put(r.structs, name, st), next |-> r.next + 1])
\* A struct is created without fields, and never gets any.
GetOrCreateStructType(name, r) ==
  IF name \in DOMAIN r.structs THEN Known(r.structs[name], r)
  ELSE Known(StructType(name, <<>>),
             [structs |-> Put(r.structs, name, StructType(name, <<>>)), next |-> r.next + 1])
ParseTypeFromNode(spec, r) ==
  CASE spec.kind = "primitive_type" -> Known(ParsePrimitive(spec.words), r)
    [] spec.kind = "type_identifier" ->
         Known(IF spec.name \in DOMAIN typedefs THEN typedefs[spec.name] ELSE GetIntType(4), r)
    [] spec.kind = "struct_specifier" -> GetOrCreateStructType(NameOf(spec.name, r), r)
    [] spec.kind = "enum_specifier" -> Known(GetIntType(4), r)

\* What C allows to write, and that numbers are printed one to one.  (A tag spelled
\* like the name of an anonymous struct would be taken for it.)
ASSUME SpecifierAssumption ==
  /\ \A spec \in Specifiers \cup MemberTypes :
       /\ spec \in [kind : {"primitive_type", "type_identifier", "struct_specifier", "enum_specifier"},
                   words : SUBSET STRING, name : STRING, shown : Seq(Nat)]
       /\ "bool" \in spec.words => spec.words = {"bool"}
       /\ spec.kind = "struct_specifier" => spec.name \in Tags \cup {""}
       /\ spec.shown # <<>> => spec.kind = "struct_specifier" /\ spec.name # ""
       /\ spec.kind = "struct_specifier" => spec = StructWithBody(spec.name, spec.shown)
  /\ "" \notin Tags /\ MaxTypeId \in Nat /\ MaxMembers \in Nat
  /\ \A m, n \in 108..MaxTypeId :
       /\ AnonymousName(m) \notin Tags \cup {""}
       /\ AnonymousName(m) = AnonymousName(n) => m = n
  /\ Builtin \subseteq Types

\* buildStInfo: the leaves of a struct, the element type of an array, the type itself.
BuildStInfo(ty) ==
  CASE ty.kind = "struct" -> IF Flatten[ty] = <<>> THEN <<ty>> ELSE Flatten[ty]
    [] ty.kind = "array" -> ty.elem
    [] OTHER -> <<ty>>

-----------------------------------------------------------------------------
(* What C says of a specifier *)

\* The standard library's types that the grammar knows, with their bytes in LP64.
NamedSize ==
  [size_t |-> 8, ssize_t |-> 8, ptrdiff_t |-> 8, intptr_t |-> 8, uintptr_t |-> 8, max_align_t |-> 32,
   int8_t |-> 1, int16_t |-> 2, int32_t |-> 4, int64_t |-> 8, uint8_t |-> 1, uint16_t |-> 2,
   uint32_t |-> 4, uint64_t |-> 8, char8_t |-> 1, char16_t |-> 2, char32_t |-> 4]
CPrimitive(words) ==
  IF words \cap DOMAIN NamedSize # {}
  THEN LET name == CHOOSE name \in DOMAIN NamedSize : name \in words IN OtherType(name, NamedSize[name])
  ELSE IF "char" \in words \/ "bool" \in words THEN IntType(1)
  ELSE IF "short" \in words THEN IntType(2)
  ELSE IF {"long", "double"} \subseteq words THEN OtherType("long double", 16)
  ELSE IF words \cap {"long", "long long"} # {} THEN IntType(8)
  ELSE IF "double" \in words THEN DoubleType
  ELSE IF "float" \in words THEN FloatType
  ELSE IF "void" \in words THEN VoidType
  ELSE IntType(4)
\* A struct stands for its name.  The members of a struct without a tag are left out,
\* and so are variables of such a type.
Meaning(spec, ty) ==
  CASE spec.kind = "primitive_type" -> CPrimitive(spec.words)
    [] spec.kind = "type_identifier" -> meaning[spec.name]
    [] spec.kind = "struct_specifier" ->
         StructType(IF spec.name = "" THEN ty.name ELSE spec.name, <<>>)
    [] spec.kind = "enum_specifier" -> IntType(4)
\* The members that are known behind a specifier: it may show a body itself.
MembersBehind(spec) == IF spec.shown = <<>> THEN members ELSE Put(members, spec.name, spec.shown[1])
Complete(spec, ct) ==
  IF ct.kind = "struct" THEN ct.name \in DOMAIN MembersBehind(spec) ELSE ct # VoidType

Writable(spec) ==
  /\ spec.kind = "type_identifier" => spec.name \in DOMAIN typedefs
  /\ spec.shown # <<>> => /\ spec.name \notin DOMAIN members
                          /\ body # <<>> => spec.name # body[1].tag
  /\ nextTypeId < MaxTypeId

-----------------------------------------------------------------------------
Init ==
  /\ structs = Empty /\ typedefs = Empty /\ nextTypeId = 108
  /\ stInfo = [ty \in Builtin |-> BuildStInfo(ty)]
  /\ object = NoObject /\ body = <<>>
  /\ members = Empty /\ plain = {} /\ meaning = Empty /\ anonymous = 0

\* A body that the specifier shows is passed over.
Learn(spec, parsed) ==
  /\ structs' = parsed.reg.structs /\ nextTypeId' = parsed.reg.next
  /\ members' = MembersBehind(spec)
  /\ anonymous' = IF spec = AnonymousStruct THEN anonymous + 1 ELSE anonymous

\* The type of a parameter or of a function's result, in the prescan.
ParseInterface(spec) ==
  /\ body = <<>> /\ Writable(spec)
  /\ Learn(spec, ParseTypeFromNode(spec, Registry))
  /\ UNCHANGED <<typedefs, stInfo, object, body, plain, meaning>>

\* typedef spec alias;  or  typedef spec *alias;  whose star is lost.  alias is new:
\* another meaning would be another file's.
AddTypedef(alias, spec, star) ==
  /\ body = <<>> /\ alias \notin DOMAIN typedefs /\ Writable(spec)
  /\ LET parsed == ParseTypeFromNode(spec, Registry)
     IN  /\ Learn(spec, parsed)
         /\ typedefs' = Put(typedefs, alias, parsed.ty)
         /\ meaning' = Put(meaning, alias, IF star THEN PointerType ELSE Meaning(spec, parsed.ty))
  /\ UNCHANGED <<stInfo, object, body, plain>>

\* struct tag { ... };  its members are visited one by one.
VisitStructSpecifier(tag) ==
  /\ body = <<>> /\ tag \notin DOMAIN members /\ nextTypeId < MaxTypeId
  /\ Learn(Struct(tag), GetOrCreateStructType(tag, Registry))
  /\ body' = <<[tag |-> tag, fields |-> <<>>, members |-> 0]>>
  /\ UNCHANGED <<typedefs, stInfo, object, plain, meaning>>

\* spec x, *y, ...;  in the body of a struct, with a star or none to each declarator:
\* the first declarator alone becomes a field.
VisitField(spec, stars) ==
  /\ body # <<>> /\ body[1].members + Len(stars) <= MaxMembers /\ Writable(spec)
  /\ LET parsed == ParseTypeFromNode(spec, Registry)
         ty == IF stars[1] THEN PointerType ELSE parsed.ty
     IN  /\ FALSE \in Range(stars) => Complete(spec, Meaning(spec, parsed.ty))
         /\ Learn(spec, parsed)
         /\ body' = <<[tag |-> body[1].tag, fields |-> Append(body[1].fields, ty),
                        members |-> body[1].members + Len(stars)]>>
  /\ UNCHANGED <<typedefs, stInfo, object, plain, meaning>>

\* Behind the body the struct's StInfo gets the fields.
EndStructSpecifier ==
  /\ body # <<>>
  /\ stInfo' = Put(stInfo, structs[body[1].tag], body[1].fields)
  /\ members' = Put(members, body[1].tag, body[1].members)
  /\ plain' = IF Len(body[1].fields) = body[1].members THEN plain \cup {body[1].tag} ELSE plain
  /\ body' = <<>>
  /\ UNCHANGED <<structs, typedefs, nextTypeId, object, meaning, anonymous>>

\* spec x;  or  spec *x;  and the object that freshObjVar makes for it.
Declare(spec, star) ==
  /\ body = <<>> /\ Writable(spec)
  /\ LET parsed == ParseTypeFromNode(spec, Registry)
         ct == IF star THEN PointerType ELSE Meaning(spec, parsed.ty)
         ty == IF star THEN PointerType ELSE parsed.ty
     IN  /\ Complete(spec, ct)
         /\ Learn(spec, parsed)
         /\ object' = [fields |-> IF ty \in DOMAIN stInfo THEN Len(stInfo[ty]) ELSE 1,
                       bytes |-> GetTypeSize[ty], ctype |-> ct, star |-> star]
  /\ UNCHANGED <<typedefs, stInfo, body, plain, meaning>>

Next ==
  \/ \E spec \in Specifiers : ParseInterface(spec)
  \/ \E alias \in Aliases, spec \in Specifiers, star \in BOOLEAN : AddTypedef(alias, spec, star)
  \/ \E tag \in Tags : VisitStructSpecifier(tag)
  \/ \E spec \in MemberTypes, n \in 1..MaxMembers : \E stars \in [1..n -> BOOLEAN] : VisitField(spec, stars)
  \/ EndStructSpecifier
  \/ \E spec \in Specifiers, star \in BOOLEAN : Declare(spec, star)

Spec == Init /\ [][Next]_vars

-----------------------------------------------------------------------------
\* A pointer typedef loses its star (TSIRBuilder.cpp:181): what is said of a declared
\* object is said of the others.
ThroughPointerTypedef == object.ctype = PointerType /\ ~object.star

\* The object of a declared variable of scalar type has one field.  One of a struct has a
\* field for each member, whichever of the tag, a typedef of the complete struct or a
\* typedef made before the struct was defined names the type, when the struct is
\* defined on its own and each of its field declarations declares one member; and never
\* more fields than that.
ObjectHasItsMembers ==
  ~ThroughPointerTypedef =>
    IF object.ctype.kind # "struct" THEN object.fields = 1
    ELSE LET name == object.ctype.name
         IN  /\ name \in plain => object.fields = members[name]
             /\ name \notin plain => object.fields <= Greater(members[name], 1)

\* Every struct without a tag is a type of its own, though the registry knows types
\* by name: none is confused with another.
AnonymousStructsDistinct == Cardinality(DOMAIN structs \ Tags) = anonymous

\* The byte size of an object of pointer, enum or keyword type other than long double is
\* the size LP64 gives the type.  (Not that of size_t, int64_t and the like.)
ScalarSize ==
  object.ctype \in Builtin /\ ~ThroughPointerTypedef => object.bytes = AbiSize[object.ctype]
=============================================================================
