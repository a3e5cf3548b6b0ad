------------------------- MODULE MCSimpleDataLayout -------------------------
(* Types for the fields of a struct. *)
EXTENDS StructLayout

Int1 == IntType(1)
Int2 == IntType(2)
Int4 == IntType(4)
Int8 == IntType(8)
Float == OtherType("float", 4)
Pair == StructType("Pair", <<Int4, Float>>)

\* { int; char; }, which ends with three bytes of padding, and a struct around it.
Padded == StructType("Padded", <<Int4, Int1>>)
Around == StructType("Around", <<Padded, Int2>>)

Scalars == {Int1, Int2, Int4, Int8, PointerType, Float}
Flat == Scalars \cup {Pair, Padded}
\* An array stores the bytes that getTypeSize counts: 3 chars, 2 pointers, 2 times 5.
LayoutTypes == Flat \cup {ArrayType(Int1, 3), ArrayType(PointerType, 16), ArrayType(Padded, 10), Around}
Nesting == [ty \in LayoutTypes |-> IF ty \in Scalars THEN 0 ELSE IF ty \in Flat THEN 1 ELSE 2]
=============================================================================
