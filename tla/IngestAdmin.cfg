CONSTANTS
  a1 = a1
  k1 = k1
  o1 = o1
  o2 = o2
  p1 = p1
  p2 = p2
  n1 = n1
  n2 = n2
  r1 = r1
  r2 = r2
  r3 = r3
  c1 = c1
  c2 = c2
  c3 = c3
  None = None
  Agents = {a1}
  Kids = {k1}
  KeyAgent <- MCKeyAgent
  Seeded = {a1}
  OpIds = {o1, o2}
  Payloads = {p1}
  Nonces = {n1, n2}
  Callers = {c1, c2}
  Commands <- Administration
  Requests = {r1, r2}
  Bodies <- TwoBodies
SPECIFICATION MCSpec
SYMMETRY IngestSymmetry
INVARIANTS
  IInv
  BarredStoreNothing
  ConflictHasWinner
  StoredVerifies
PROPERTIES
  ImplementsAuditChain
