CONSTANTS
  h1 = h1
  h2 = h2
  h3 = h3
  e1 = e1
  None = None
  Hooks = {h1, h2, h3}
  Earlier = {e1}
  MaxAttempts = 5
  MaxCrashes = 0
  Faults = {"timeout", "unwritten"}
SPECIFICATION Spec
SYMMETRY HookSymmetry
INVARIANTS
  LockExclusive
  NobodyGivesUp
  CaughtUp
PROPERTIES
  NeverRegresses
\* Every hook ends.
CHECK_DEADLOCK FALSE
