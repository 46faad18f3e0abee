CONSTANTS
  o1 = o1
  o2 = o2
  o3 = o3
  s1 = s1
  s2 = s2
  None = None
  Ops = {o1, o2}
  Runs <- OneRun
  LastWindow = 0
  Attempts = 2
  Faults = {}
SPECIFICATION Spec
SYMMETRY EpochSymmetry
INVARIANTS
  AllAreLeaves
\* Time ends after the last window.
CHECK_DEADLOCK FALSE
