SPECIFICATION Spec
CONSTANTS
  Variables = {"x of f", "x of g"}
  Targets = {"a", "b", "heap"}
  NameOf <- NameOfNode
  Temporary = "tmp"
INVARIANTS
  SoundPasses
  PassShowsSuperset
CHECK_DEADLOCK FALSE
