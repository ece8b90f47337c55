SPECIFICATION MCSpec
CONSTANTS
  Nodes = {"plain_function", "void_function", "value_function", "if", "while", "for", "do_while", "try"}
  Chains <- EveryChain
  Names = {"x"}
  Objects = {o1, o2}
  Errors = {"e1", "e2"}
  Raises = {"break", "continue", "return", "void_return", "valueless", "host"}
  DestructorsThrow = TRUE
  MaxDepth = 4
INVARIANTS
  Owned
  BodyScoped
  StorageIsInnermost
  NoStaleException
  HandlersSeeTheirs
  FinallyRunsOnce
CHECK_DEADLOCK FALSE
