SPECIFICATION Spec
CONSTANTS
  MaxAddress = 6
  Sizes <- SmallSizes
  Kinds <- EveryBehaviour
  Resizes = {"shrink"}
  HostCanFail = FALSE
INVARIANTS
  Tiled
  Coalesced
  ReturnsToInitial
  Addressable
