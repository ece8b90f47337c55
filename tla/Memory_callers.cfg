SPECIFICATION WholeSpec
CONSTANTS
  MaxAddress = 6
  Sizes <- SmallSizes
  Kinds <- HeapOnly
  Resizes = {"shrink", "grow"}
  HostCanFail = TRUE
INVARIANTS
  NonOverlap
PROPERTIES
  
  ImplementsAddressSpace
