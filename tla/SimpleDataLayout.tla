-------------------------- MODULE SimpleDataLayout --------------------------
(***************************************************************************)
(* src/src/SimpleDataLayout.cpp: byte sizes, alignments and field offsets  *)
(* of SVF types, beside what the x86-64 psABI says of the same types.      *)
(*                                                                         *)
(* A type is a record: its kind, the name of a struct, the byte size it    *)
(* stores (0 when SVFType stores none), the fields of a struct, and the    *)
(* element type of an array as a sequence of one.                          *)
(***************************************************************************)
EXTENDS Integers, SequencesExt

CONSTANTS
  Types,  \* the types in use
  Depth   \* how deep a type nests: what its parts are is known before it is

Type(kind, name, bytes, fields, elem) ==
  [kind |-> kind, name |-> name, bytes |-> bytes, fields |-> fields, elem |-> elem]
IntType(bytes) == Type("int", "", bytes, <<>>, <<>>)
PointerType == Type("ptr", "", 8, <<>>, <<>>)
OtherType(name, bytes) == Type("other", name, bytes, <<>>, <<>>)
StructType(name, fields) == Type("struct", name, 0, fields, <<>>)
ArrayType(elem, bytes) == Type("array", "", bytes, <<>>, <<elem>>)

\* Types are finite trees.
ASSUME TypeAssumption ==
  /\ Types \subseteq [kind : {"int", "ptr", "other", "struct", "array"}, name : STRING,
                      bytes : Nat, fields : Seq(Types), elem : Seq(Types)]
  /\ Depth \in [Types -> Nat]
  /\ \A ty \in Types :
       /\ \A i \in DOMAIN ty.fields : Depth[ty.fields[i]] < Depth[ty]
       /\ ty.kind = "array" => Len(ty.elem) = 1 /\ Depth[ty.elem[1]] < Depth[ty]

Smaller(a, b) == IF a <= b THEN a ELSE b
Greater(a, b) == IF a <= b THEN b ELSE a

\* Mutant: rounds down.
AlignToBelow(offset, align) == IF align = 0 THEN offset ELSE (offset \div align) * align
AlignTo(offset, align) ==
  IF align = 0 THEN offset ELSE ((offset + align - 1) \div align) * align

\* The loop over the fields of a struct, which starts from 1.
Strictest(alignments) == Max({1} \cup Range(alignments))
BasicAlignment(ty) ==
  CASE ty.kind = "ptr" -> 8
    [] ty.kind = "int" -> IF ty.bytes = 0 THEN 4 ELSE Smaller(ty.bytes, 8)
    [] ty.kind = "other" -> IF ty.bytes = 0 THEN 1 ELSE Smaller(ty.bytes, 8)
GetTypeAlignment[ty \in Types] ==
  IF ty.kind = "struct" THEN Strictest([i \in DOMAIN ty.fields |-> GetTypeAlignment[ty.fields[i]]])
  ELSE IF ty.kind = "array" THEN GetTypeAlignment[ty.elem[1]]
  ELSE BasicAlignment(ty)
Alignments(fields) == [i \in DOMAIN fields |-> GetTypeAlignment[fields[i]]]

\* Where the loop of getTypeSize, getFieldByteOffset and byteOffsetToFieldIdx has
\* brought offset when it has passed the first n fields.
PassFields(sizes, alignments, n) ==
  LET offset[i \in 0..n] ==
        IF i = 0 THEN 0
        ELSE LET end == offset[i - 1] + sizes[i]
             IN  IF i < Len(sizes) THEN AlignTo(end, alignments[i + 1]) ELSE end
  IN  offset[n]
BasicSize(ty) ==
  CASE ty.kind = "ptr" -> 8
    [] ty.kind = "int" -> IF ty.bytes = 0 THEN 4 ELSE ty.bytes
    [] ty.kind = "other" -> ty.bytes
GetTypeSize[ty \in Types] ==
  IF ty.kind = "struct"
  THEN PassFields([i \in DOMAIN ty.fields |-> GetTypeSize[ty.fields[i]]], Alignments(ty.fields), Len(ty.fields))
  ELSE IF ty.kind = "array" THEN IF ty.bytes # 0 THEN ty.bytes ELSE GetTypeSize[ty.elem[1]]
  ELSE BasicSize(ty)
Sizes(fields) == [i \in DOMAIN fields |-> GetTypeSize[fields[i]]]

\* Fields are numbered from 0.
OffsetIn(st, n) == PassFields(Sizes(st.fields), Alignments(st.fields), n)
GetFieldByteOffset(st, fieldIdx) == OffsetIn(st, Smaller(fieldIdx, Len(st.fields)))

-----------------------------------------------------------------------------
(* The psABI: an aggregate is aligned like its strictest member, a member    *)
(* lies at the lowest properly aligned offset behind the one before it, and  *)
(* the size of an aggregate is a multiple of its alignment.  An array stores *)
(* the bytes that getArrayType computed, as many times getTypeSize of the    *)
(* element as the array has elements.                                        *)

AbiAlign[ty \in Types] ==
  IF ty.kind = "struct" THEN Strictest([i \in DOMAIN ty.fields |-> AbiAlign[ty.fields[i]]])
  ELSE IF ty.kind = "array" THEN AbiAlign[ty.elem[1]]
  ELSE Greater(ty.bytes, 1)
AbiAligns(fields) == [i \in DOMAIN fields |-> AbiAlign[fields[i]]]
NextMultiple(n, a) == CHOOSE m \in n..(n + a - 1) : m % a = 0
AbiOffset(sizes, aligns, n) ==
  LET offset[i \in 1..n] ==
        IF i = 1 THEN 0 ELSE NextMultiple(offset[i - 1] + sizes[i - 1], aligns[i])
  IN  offset[n]
AbiEnd(sizes, aligns) == AbiOffset(sizes, aligns, Len(sizes)) + Last(sizes)
Elements(ty) ==
  LET size == GetTypeSize[ty.elem[1]] IN IF size = 0 THEN 0 ELSE ty.bytes \div size
AbiSize[ty \in Types] ==
  IF ty.kind = "array" THEN Elements(ty) * AbiSize[ty.elem[1]]
  ELSE IF ty.kind # "struct" \/ ty.fields = <<>> THEN ty.bytes
  ELSE NextMultiple(AbiEnd([i \in DOMAIN ty.fields |-> AbiSize[ty.fields[i]]], AbiAligns(ty.fields)),
                    AbiAlign[ty])
AbiSizes(fields) == [i \in DOMAIN fields |-> AbiSize[fields[i]]]

\* No struct in a type ends with padding: it ends where its last field ends.
Unpadded[ty \in Types] ==
  IF ty.kind = "struct"
  THEN /\ AbiSize[ty] = AbiEnd(AbiSizes(ty.fields), AbiAligns(ty.fields))
       /\ \A i \in DOMAIN ty.fields : Unpadded[ty.fields[i]]
  ELSE IF ty.kind = "array" THEN Unpadded[ty.elem[1]]
  ELSE TRUE

-----------------------------------------------------------------------------
(* The leaves of a type, in the order of buildStInfo's flatten.  *)

\* Mutant: an embedded struct counts as its first field.
FlattenFieldsOnce(leaves) == [i \in DOMAIN leaves |-> leaves[i][1]]
FlattenFields(leaves) == FlattenSeq(leaves)
Flatten[ty \in Types] ==
  IF ty.kind = "struct" THEN FlattenFields([i \in DOMAIN ty.fields |-> Flatten[ty.fields[i]]])
  ELSE IF ty.kind = "array" THEN Flatten[ty.elem[1]]
  ELSE <<ty>>
Leaves(fields) == [i \in DOMAIN fields |-> Flatten[fields[i]]]
=============================================================================
