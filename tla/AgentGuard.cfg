CONSTANTS
  a1 = a1
  k1 = k1
  c1 = c1
  c2 = c2
  c3 = c3
  g1 = g1
  g2 = g2
  Agents = {a1}
  Kids = {k1}
  KeyAgent <- MCKeyAgent
  Seeded = {a1}
  Callers = {c1, c2, c3}
  Commands <- MCCommands
  Guards = {g1, g2}
  Guarded = a1
  TTL = 2
  Timeout = 1
  LastTime = 3
SPECIFICATION MCGuardSpec
SYMMETRY ProcessSymmetry
INVARIANTS
  TrailExplainsStatus
  KeysFollowAgents
  GuessNeedsFault
PROPERTIES
  RevocationIsFinal
  VerdictIsRecent
\* The clock stops and every request and guard ends.
CHECK_DEADLOCK FALSE
