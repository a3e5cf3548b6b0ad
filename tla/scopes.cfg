SPECIFICATION Spec
CONSTANTS
  Vars = {"x"}
  Funs = {"p", "q"}
  Structs = {}
  Aliases = {}
  Fields = {}
  Signatures <- ProcedureSignature
  StructDefs <- NoDefs
  Constructs = {"local", "global", "global after body", "block", "for", "initializer", "parentheses", "unknown name", "assign"}
  MaxUnits = 1
  MaxNodes = 11
  MaxTemps = 2
  MaxStack = 1
  MaxDepth = 4
INVARIANTS
  NamesResolveAsInC PlaceInv HeldOwned StayInFunction
CHECK_DEADLOCK FALSE
