SPECIFICATION Spec
CONSTANTS
  Vars = {"x"}
  Funs = {"p"}
  Structs = {}
  Aliases = {}
  Fields = {}
  Signatures <- ProcedureSignature
  StructDefs <- NoDefs
  Constructs = {"literal", "cast", "sum"}
  MaxUnits = 1
  MaxNodes = 16
  MaxTemps = 3
  MaxStack = 2
  MaxDepth = 3
INVARIANTS
  VerifierAccepts
CHECK_DEADLOCK FALSE
