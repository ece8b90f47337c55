CONSTANTS
  Count = 3
  Names = {"x", "y"}
  Sizes = {1, 2}
  Operations = {"member", "static", "function", "base", "variable", "item", "compile"}
  MaxDeclared = 6
SPECIFICATION MCSpec
INVARIANTS
  MembersApart
  FoundWhereCast
  PlacesApart
CHECK_DEADLOCK FALSE
