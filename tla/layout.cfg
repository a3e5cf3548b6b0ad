SPECIFICATION LayoutSpec
CONSTANTS
  Types <- LayoutTypes
  Depth <- Nesting
  FieldTypes <- LayoutTypes
  MaxFields = 4
INVARIANTS
  OffsetsFollowAbi LeavesInOrder
CHECK_DEADLOCK FALSE
