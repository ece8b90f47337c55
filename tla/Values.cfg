CONSTANTS
  ByteBits = 1
  SmallSize = 2
  MediumSize = 3
  BigSize = 4
  FloatLimit = 1
  Names = {"x", "y"}
  Scenes <- MCScenes
  ElementSize = 2
  ElementKind = "small_integer"
  Count = 2
SPECIFICATION Spec
INVARIANTS NaNPropagates RightRunsWhenNeeded OperatorsAgree PointersTurnBack RangeExact
PROPERTIES ConstKept RangeEnds
CHECK_DEADLOCK FALSE
