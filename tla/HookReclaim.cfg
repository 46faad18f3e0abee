CONSTANTS
  h1 = h1
  h2 = h2
  h3 = h3
  e1 = e1
  None = None
  Hooks = {h1, h2}
  Earlier = {e1}
  MaxAttempts = 5
  MaxCrashes = 0
  Faults = {"deadLock"}
SPECIFICATION Spec
SYMMETRY HookSymmetry
PROPERTIES
  NeverRegresses
\* Every hook ends.
CHECK_DEADLOCK FALSE
