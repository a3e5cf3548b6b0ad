SPECIFICATION SuiteSpec
CONSTANTS
  Vars = {"a", "b", "g", "gp", "i", "n", "n1", "n2", "p", "pp", "q", "s", "v", "x", "y", "arr"}
  Funs = {"foo", "main", "id", "sum"}
  Structs = {"S", "Node", "Outer"}
  Aliases = {}
  Fields = {"x", "y", "px", "data", "next", "head", "inner", "p", "tag"}
  Signatures <- SignaturesUsed
  StructDefs <- DefsUsed
  Constructs = {"struct", "global", "local", "initializer", "block", "return", "array", "literal",
    "parentheses", "address", "deref", "sum", "other binary", "assign", "field", "subscript",
    "call", "cast", "static function"}
  MaxUnits = 4
  MaxNodes = 60
  MaxTemps = 60
  MaxStack = 4
  MaxDepth = 4
  Invocations <- Started
  MaxWords = 4
INVARIANTS
  StageInv AllOrNothing RejectedNeverReported VisitComplete ExpectedBlock
PROPERTY
  RegisteredIsVisited
