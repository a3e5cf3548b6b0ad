-------------------------- MODULE MCTSTypeBuilder --------------------------
(* Values for the constants of TSTypeBuilder that a .cfg cannot write. *)
EXTENDS TSTypeBuilder

\* The specifiers of the arithmetic types, and two of the library's.
Arithmetic ==
  {Primitive(words) : words \in
     {{"char"}, {"unsigned", "char"}, {"short"}, {"unsigned", "short", "int"}, {"int"}, {"unsigned"},
      {"long"}, {"unsigned", "long", "int"}, {"long long"}, {"bool"}, {"float"}, {"double"},
      {"long", "double"}, {"size_t"}, {"char16_t"}}}
InStructs == {Struct("S"), Struct("T"), StructWithBody("T", <<2>>), Identifier("A"), Primitive({"int"})}
RegistryTypes ==
  Builtin \cup {StructType(name, <<>>) : name \in Tags \cup {AnonymousName(n) : n \in 108..MaxTypeId}}
Flat == [ty \in RegistryTypes |-> 0]
All == InStructs \cup Arithmetic \cup {Enum, Primitive({"void"}), AnonymousStruct}
============================================================================
