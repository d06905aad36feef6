SPECIFICATION Spec
CONSTANTS
  Proc = {p1, p2}
  NoPython = {p2}
  Sig = {s1, s2}
  Worlds = {{"kill", "new_signature"}}
  MaxCalls = 3
  MaxEdits = 0
CHECK_DEADLOCK FALSE
INVARIANT LoadedIsAsAsked
