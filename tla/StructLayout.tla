---------------------------- MODULE StructLayout ----------------------------
(***************************************************************************)
(* A struct that grows by one field at a time, and what the functions of   *)
(* SimpleDataLayout and buildStInfo say of it.                             *)
(***************************************************************************)
EXTENDS SimpleDataLayout

CONSTANTS
  FieldTypes,  \* the types that a field may have
  MaxFields    \* bound on the number of fields

\* What the registry stores in types: the sizes of scalars in C, and in an array those of
\* its elements as getTypeSize has them.  C has no struct without fields and no array
\* without elements.
Stored(ty) ==
  /\ ty.kind \in {"int", "other"} => ty.bytes \in 1..8
  /\ ty.kind = "ptr" => ty.bytes = 8
  /\ ty.kind = "array" =>
       /\ ty.elem[1] \in FieldTypes
       /\ \E n \in 1..ty.bytes : ty.bytes = n * GetTypeSize[ty.elem[1]]
  /\ ty.kind = "struct" => ty.fields \in Seq(FieldTypes) \ {<<>>}
ASSUME FieldAssumption ==
  /\ FieldTypes \subseteq Types /\ \A ty \in FieldTypes : Stored(ty)
  /\ MaxFields \in Nat

VARIABLE fields

LayoutInit == fields = <<>>
AddField(ty) == Len(fields) < MaxFields /\ fields' = Append(fields, ty)
LayoutNext == \E ty \in FieldTypes : AddField(ty)
LayoutSpec == LayoutInit /\ [][LayoutNext]_fields

TheStruct == StructType("S", fields)
AbiOffsetOf(i) == AbiOffset(AbiSizes(fields), AbiAligns(fields), i)

\* getFieldByteOffset places no field behind the place that the psABI gives it, and places
\* it there when no field before it has padding at its end or at the end of a
\* struct inside it, which getTypeSize leaves out.
OffsetsFollowAbi ==
  \A i \in DOMAIN fields :
    /\ GetFieldByteOffset(TheStruct, i - 1) <= AbiOffsetOf(i)
    /\ (\A j \in 1..(i - 1) : Unpadded[fields[j]]) =>
         GetFieldByteOffset(TheStruct, i - 1) = AbiOffsetOf(i)

\* Flattening a struct loses no field, and each field's leaves are contiguous: the
\* leaves of the first n fields are the first leaves of the struct.
LeavesInOrder ==
  \A n \in DOMAIN fields :
    LET before == FlattenFields(Leaves(SubSeq(fields, 1, n - 1)))
        here == Flatten[fields[n]]
        all == FlattenFields(Leaves(fields))
    IN  /\ here # <<>> /\ \A i \in DOMAIN here : here[i].kind \notin {"struct", "array"}
        /\ IsPrefix(before \o here, all)
=============================================================================
