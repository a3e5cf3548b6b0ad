SPECIFICATION MachineSpec
CONSTANTS
  Vars = {"a", "b", "c", "p", "q", "pp", "r", "s", "t", "u", "x", "gp", "fp", "arr"}
  Funs = {"main", "id", "init"}
  Structs = {"S", "U"}
  Aliases = {"T"}
  Fields = {"f", "g", " g", "i", "j"}
  Signatures <- SignaturesUsed
  StructDefs <- DefsUsed
  Constructs = {"struct", "typedef", "global", "local", "initializer", "block", "for", "for declaration",
    "return", "array", "literal", "malloc", "parentheses", "address", "deref", "sum", "other binary",
    "assign", "field", "subscript", "call", "unknown call", "function name", "last child", "cast",
    "tentative definition", "unknown name", "declarator list", "qualified parameter",
    "function pointer", "differing structs"}
  MaxUnits = 2
  MaxNodes = 90
  MaxTemps = 90
  MaxStack = 4
  MaxDepth = 6
  Invocations <- Started
  ArrayFields = {}
  UnionFields = {"i", "j"}
  MaxCalls = 3
  MaxHeap = 2
  Case = "conditional"
INVARIANT
  SoundPointsTo
CHECK_DEADLOCK FALSE
