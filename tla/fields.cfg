SPECIFICATION Spec
CONSTANTS
  Vars = {"x"}
  Funs = {"p"}
  Structs = {"S", "T"}
  Aliases = {"A"}
  Fields = {"f", "g"}
  Signatures <- StructSignature
  StructDefs <- FieldDefs
  Constructs = {"struct", "struct in two files", "declarator list", "empty struct", "body in declaration", "typedef", "local", "field", "deref", "address"}
  MaxUnits = 2
  MaxNodes = 10
  MaxTemps = 3
  MaxStack = 1
  MaxDepth = 2
INVARIANTS
  OffsetsInStruct FieldsFound
CHECK_DEADLOCK FALSE
