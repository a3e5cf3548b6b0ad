SPECIFICATION Spec
CONSTANTS
  Vars = {"x"}
  Funs = {"p"}
  Structs = {}
  Aliases = {}
  Fields = {}
  Signatures <- ProcedureSignature
  StructDefs <- NoDefs
  Constructs = {"literal", "address", "deref", "assign", "local", "sum", "other binary", "subscript"}
  MaxUnits = 1
  MaxNodes = 8
  MaxTemps = 3
  MaxStack = 2
  MaxDepth = 2
INVARIANTS
  PointersHeld VerifierAccepts DefinedOnce
CHECK_DEADLOCK FALSE
