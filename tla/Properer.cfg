SPECIFICATION Spec
CONSTANTS
  Letter = {"a"}
  Automata <- TinyAutomata
  Length = 2
  Algorithms = {"inplace", "separate", "distance", "lazy"}
INVARIANTS NothingEscapes ProfilesAreFresh SeriesKept RefusedIffNotSummable NeverRaisesOnceChecked
PROPERTIES SeparateFollowsInPlace AnswersStand
