SPECIFICATION OpenSpec
CONSTANTS
  Nodes = {"try"}
  Chains <- CatchThenFinally
  Names = {}
  Objects = {}
  Errors = {"e1"}
  Raises = {}
  DestructorsThrow = FALSE
  MaxDepth = 1
INVARIANTS
  CatchHandles
