CONSTANTS
  o1 = o1
  o2 = o2
  o3 = o3
  s1 = s1
  s2 = s2
  None = None
  Ops = {o1, o2}
  Runs <- RollingUpdate
  LastWindow = 1
  Attempts = 2
  Faults = {"missed", "error", "tsa"}
SPECIFICATION FairSpec
INVARIANTS
  PunctualAreLeaves
PROPERTIES
  PunctualAnchored
\* Time ends after the last window.
CHECK_DEADLOCK FALSE
