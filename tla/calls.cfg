SPECIFICATION Spec
CONSTANTS
  Vars = {"x"}
  Funs = {"p", "q"}
  Structs = {}
  Aliases = {}
  Fields = {}
  Signatures <- QualifiedSignatures
  StructDefs <- NoDefs
  Constructs = {"call", "block", "unknown call", "return", "pointer prototype", "for", "for declaration", "cast", "qualified parameter", "function pointer"}
  MaxUnits = 1
  MaxNodes = 12
  MaxTemps = 3
  MaxStack = 2
  MaxDepth = 3
INVARIANTS
  TypeOK InterfaceInv InterfaceFlow CallWiring ForwardReferences
CHECK_DEADLOCK FALSE
