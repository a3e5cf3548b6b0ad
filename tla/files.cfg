SPECIFICATION Spec
CONSTANTS
  Vars = {"x"}
  Funs = {"p", "q"}
  Structs = {}
  Aliases = {}
  Fields = {}
  Signatures <- ProcedureSignature
  StructDefs <- NoDefs
  Constructs = {"static function", "global", "tentative definition", "call", "unknown call", "function name", "string", "malloc", "array", "null", "last child"}
  MaxUnits = 2
  MaxNodes = 12
  MaxTemps = 2
  MaxStack = 1
  MaxDepth = 2
INVARIANTS
  LifecycleInv BodyOnce EveryObjectHasAddr AnchorSet Anchored
PROPERTY
  ImplementsLifecycle
CHECK_DEADLOCK FALSE
