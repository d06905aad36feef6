\* Worlds: anything but builds with different signatures; those, one at a
\* time; and what a process may rely on when builds run together.
SPECIFICATION Spec
CONSTANTS
  Proc = {p1, p2}
  NoPython = {p2}
  Sig = {s1, s2}
  Worlds = {
    {"concurrency", "no_python", "edit_in_build", "failure", "kill", "torn_deps"},
    {"new_signature"},
    {"concurrency", "failure", "kill", "no_python"}}
  MaxCalls = 3
  MaxEdits = 1
CHECK_DEADLOCK FALSE
INVARIANTS TypeOK OnlyWholeFiles  AsAskedOneByOne NoNeedlessBuild
