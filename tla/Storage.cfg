CONSTANTS
  Threads = {"t1", "t2"}
  Storages = {"global", "class", "function"}
  Parent <- Nested
  NoStorage = "none"
  Classes = {"class"}
  Names = {"x"}
  NoName = ""
  MaxCalls = 3
  MaxDepth = 2
  MaxReferences = 3
  MaxBlocks = 3
  Statics = {"s"}
  MaxEvaluations = 2
SPECIFICATION SceneSpec
INVARIANTS UniqueNames NeverPastADeclaration BlocksKept StaticOnce
PROPERTIES CallsEnd
CHECK_DEADLOCK FALSE
