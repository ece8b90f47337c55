SPECIFICATION OpenSpec
CONSTANTS
  Nodes = {"while", "if"}
  Chains <- NoChain
  Names = {}
  Objects = {}
  Errors = {"e1"}
  Raises = {"break", "continue"}
  DestructorsThrow = FALSE
  MaxDepth = 2
PROPERTIES
  InterruptsReachIterations
