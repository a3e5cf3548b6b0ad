SPECIFICATION Spec
CONSTANTS
  Types <- RegistryTypes
  Depth <- Flat
  Specifiers <- All
  MemberTypes <- InStructs
  Tags = {"S", "T"}
  Aliases = {"A"}
  MaxMembers = 2
  MaxTypeId = 111
INVARIANTS
  ObjectHasItsMembers AnonymousStructsDistinct ScalarSize
CHECK_DEADLOCK FALSE
