CONSTANTS
  Derives <- MCDerives
  Constructors <- MCConstructors
  Self <- MCSelf
  Functions <- MCFunctions
  HasRoom <- MCHasRoom
  Contexts <- MCContexts
  Arguments <- MCArguments
SPECIFICATION Spec
INVARIANTS ChoosesBest QualifiersKept ChosenAccepts ConstPairResolved
PROPERTIES DefinitionsStand
