SPECIFICATION Spec
CONSTANTS
  ExpressionSets <- MCExpressionSets
  Constructions <- MCConstructions
  Inputs <- MCInputs
  MaxStates = 12
  MaxEliminated = 4
  MaxLength = 2
INVARIANTS
  AsPromised
  EndsStayFree
  TransitionsAreNew
  DerivationIsExpansion
  FewDerivedTerms
CHECK_DEADLOCK FALSE
