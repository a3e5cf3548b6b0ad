SPECIFICATION MachineSpec
CONSTANTS
  Vars = {"a", "b", "c", "d", "fp", "g", "gp", "i", "items", "arr", "n", "n1", "n2", "p", "pp", "q", "r", "s", "t", "v", "x"}
  Funs = {"main", "foo", "id", "loop", "set", "noop"}
  Structs = {"S", "T", "Node", "Outer"}
  Aliases = {}
  Fields = {"x", "y", "px", "data", "next", "head", "inner", "p", "tag", "f", "g", "in", "arr"}
  Signatures <- SignaturesUsed
  StructDefs <- DefsUsed
  Constructs = {"struct", "global", "local", "initializer", "block", "for", "return", "array",
    "literal", "malloc", "parentheses", "address", "deref", "sum", "other binary", "assign", "field",
    "subscript", "call", "unknown call", "function name", "cast"}
  MaxUnits = 2
  MaxNodes = 90
  MaxTemps = 90
  MaxStack = 4
  MaxDepth = 6
  Invocations <- Analysed
  ArrayFields = {"arr"}
  UnionFields = {}
  MaxCalls = 4
  MaxHeap = 2
  PointerStatements = 4
  StructStatements = 3
  CallStatements = 4
INVARIANTS
  SoundPointsTo ConstantOffsets CallsInCallGraph
CHECK_DEADLOCK FALSE
