CONSTANTS
  h1 = h1
  h2 = h2
  h3 = h3
  e1 = e1
  None = None
  Hooks = {h1, h2}
  Earlier = {e1}
  MaxAttempts = 2
  MaxCrashes = 1
  Faults = {"abort", "deadLock", "unnamed", "unwritten"}
SPECIFICATION FairSpec
INVARIANTS
  LocalOnChain
  RecordedOnce
PROPERTIES
  EveryHookEnds
\* Every hook ends.
CHECK_DEADLOCK FALSE
