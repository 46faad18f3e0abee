CONSTANTS
  c1 = c1
  c2 = c2
  Clients = {c1, c2}
  LastOp = 4
  LastDate = 1
  Others <- MCOthers
  Limits <- MCLimits
  HashRank <- MCHashRank
  MaxEpochs = 2
SPECIFICATION Spec
SYMMETRY ClientSymmetry
INVARIANTS
  AcceptedInOrder
  PagesComplete
  ProofsVerify
  RootTellsLeaves
\* Every operation gets in, the auditor has read the last page.
CHECK_DEADLOCK FALSE
