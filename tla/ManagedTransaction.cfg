CONSTANTS
  e1 = e1
  e2 = e2
  None = None
  Files <- MCFiles
  Pos <- MCPos
  Merged <- MCMerged
  Conditions <- MCConditions
  Edits = {e1, e2}
  MaxFaults = 2
SPECIFICATION MCSpec
SYMMETRY MCSymmetry
INVARIANTS
  OriginalKept
  HooksNeedRuntime
  AllOrNothing
PROPERTIES
  EditsSurvive
\* A transaction ends.
CHECK_DEADLOCK FALSE
