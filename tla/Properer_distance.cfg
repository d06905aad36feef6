SPECIFICATION Spec
CONSTANTS
  Letter = {"a"}
  Automata <- TinyAutomata
  Length = 2
  Algorithms = {"distance"}
INVARIANTS AnyAlgorithmKeepsSeries
