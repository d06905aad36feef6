SPECIFICATION Spec
CONSTANTS
  Letter = {"a", "b"}
  Special = "$"
  zero <- Zero
  one <- One
  Plus <- Add
  Times <- Mul
  Algorithms <- Tag
  Inputs <- ValidInputs
  MaxLength = 4
INVARIANTS TypeOK EquivalentButHopcroft
PROPERTY Refinement
CHECK_DEADLOCK FALSE
