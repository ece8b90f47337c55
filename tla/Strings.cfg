CONSTANTS
  Strings = {s1, s2}
  Chars = {97}
  MaxText = 3
SYMMETRY StringsSymmetry
SPECIFICATION Spec
INVARIANTS
  Owned
  TextIsPromised
  ReadersAgree
PROPERTY
  ResizingIsSafe
CHECK_DEADLOCK FALSE
