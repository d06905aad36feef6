SPECIFICATION Spec
CONSTANTS
  Letter = {"a", "b"}
  Special = "$"
  zero <- Zero
  one <- One
  Plus <- Add
  Times <- Mul
  Algorithms = {"hopcroft"}
  Inputs <- AnyInputs
  MaxLength = 4
INVARIANT Equivalent
CHECK_DEADLOCK FALSE
