SPECIFICATION AccessSpec
VIEW accessView
CONSTANTS
  MaxAddress = 5
  Sizes <- OneOrTwo
  Kinds = {"heap", "protected"}
  Resizes = {"shrink", "grow"}
  HostCanFail = FALSE
  Bytes <- Bits
  Data <- UpToTwoBytes
  Spans = {0, 2}
PROPERTIES
  WritesAreFlat
  ReadsAreFlat
  ContentsStay
CHECK_DEADLOCK FALSE
