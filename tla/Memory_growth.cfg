SPECIFICATION Spec
CONSTANTS
  MaxAddress = 9
  Sizes <- SmallSizes
  Kinds <- HeapOnly
  Resizes = {"shrink", "grow"}
  HostCanFail = FALSE
INVARIANTS
  NonOverlap
