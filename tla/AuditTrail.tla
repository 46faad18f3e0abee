----------------------------- MODULE AuditTrail -----------------------------
(***************************************************************************)
(* What an auditor sees of the operations that SDK clients submit: pages   *)
(* of the audit log (services/audit-service.ts), read while operations are *)
(* still being stored, and the Merkle trees of the epochs they are rolled  *)
(* up into (createEpoch, with the trees themselves where EpochRollup has   *)
(* the sets of their leaves).                                              *)
(***************************************************************************)
EXTENDS SdkClient, MerkleTree, FiniteSets

CONSTANTS
  Limits,     \* page sizes that a query may ask for
  Others,     \* operations of other agents of the organization
  HashRank,   \* the order of the chain hashes, which is not that of the ids
  MaxEpochs   \* bound: epochs made of the window 0

ASSUME AuditAssumption ==
  /\ Limits \subseteq Nat \ {0}
  /\ Others \cap Ops = {} /\ IsFiniteSet(Others)
  /\ HashRank \in [Ops \cup Others -> Nat]
  /\ \A o, p \in Ops \cup Others : HashRank[o] = HashRank[p] => o = p

VARIABLES
  cursor,     \* the last operation of the last page, NoCursor before the first
  done,       \* whether the last page had no cursor
  seen,       \* the operations on the pages so far
  due,        \* history: the operations stored when the first page was asked for
  epochs      \* the Merkle trees of the epochs, by their layers

auditVars == <<cursor, done, seen, due>>
vars == <<sdkVars, auditVars, epochs>>

NoCursor == 0
Stored == {chain[i] : i \in DOMAIN chain}

TypeOK ==
  /\ SdkTypeOK
  /\ cursor \in {NoCursor} \cup Ops
  /\ done \in BOOLEAN
  /\ seen \in Seq(Ops)
  /\ due \subseteq Stored
  /\ \A layers \in epochs : layers[1] \in Seq({Leaf(o) : o \in Ops \cup Others})

Init ==
  /\ SdkInit
  /\ cursor = NoCursor
  /\ done = FALSE
  /\ seen = <<>>
  /\ due = {}
  /\ epochs = {}

(* The members of S, each behind those that come before it.                *)
Sorted(S, order) ==
  [i \in 1 .. Cardinality(S) |->
     CHOOSE o \in S : Cardinality({p \in S : <<p, o>> \in order}) = i - 1]

(* ORDER BY created_at DESC, operation_id DESC: o comes before p.          *)
Before(o, p) == date[o] > date[p] \/ (date[o] = date[p] /\ o > p)
NewestFirst == {q \in Ops \X Ops : Before(q[1], q[2])}

(* The leaves of a tree are the chain hashes, in their own order.          *)
ByHash == {q \in (Ops \cup Others) \X (Ops \cup Others) : HashRank[q[1]] < HashRank[q[2]]}

Leaves(window) ==
  LET sorted == Sorted(window, ByHash) IN [i \in DOMAIN sorted |-> Leaf(sorted[i])]

(* Mutant: a page ends with a date.                                        *)
BeyondByDate(o) == cursor = NoCursor \/ date[o] < date[cursor]

(* A cursor holds created_at and the id of the last operation of a page.   *)
Beyond(o) == cursor = NoCursor \/ Before(cursor, o)
Remaining == {o \in Stored : Beyond(o)}

Page(limit) ==
  LET rows == Sorted(Remaining, NewestFirst) IN
  SubSeq(rows, 1, IF limit < Len(rows) THEN limit ELSE Len(rows))

HasMore(limit) == Cardinality(Remaining) > limit

(* queryAudit: one page, of limit + 1 rows read at once.                   *)
QueryAudit(limit) ==
  /\ ~done
  /\ seen' = seen \o Page(limit)
  /\ done' = ~HasMore(limit)
  /\ cursor' = IF HasMore(limit) THEN Last(Page(limit)) ELSE cursor
  /\ due' = IF cursor = NoCursor THEN Stored ELSE due
  /\ UNCHANGED <<sdkVars, epochs>>

(* createEpoch, for the first window, when it is over: the operations of   *)
(* all agents that it finds.                                               *)
CreateEpoch(others) ==
  LET window == {o \in Stored : date[o] = 0} \cup others IN
  /\ now > 0
  /\ window # {}
  /\ Cardinality(epochs) < MaxEpochs
  /\ epochs' = epochs \cup {BuildMerkleTree(Leaves(window))}
  /\ UNCHANGED <<sdkVars, auditVars>>

Next ==
  \/ SdkNext /\ UNCHANGED <<auditVars, epochs>>
  \/ \E limit \in Limits : QueryAudit(limit)
  \/ \E others \in SUBSET Others : CreateEpoch(others)

Spec == Init /\ [][Next]_vars
-----------------------------------------------------------------------------
(* An auditor who follows the cursor to the end gets every operation that  *)
(* was stored when he began, each once and newest first, although rows are *)
(* added meanwhile, behind the cursor as well as before it, and many have  *)
(* the same created_at (audit-service.ts:66-71, 95-109).                   *)
PagesComplete ==
  /\ \A i \in 1 .. Len(seen) - 1 : Before(seen[i], seen[i + 1])
  /\ done => due \subseteq {seen[i] : i \in DOMAIN seen}

(* verifyOperation finds a proof for every leaf of an epoch, and the proof *)
(* leads to the root of the epoch, whatever the number of its leaves       *)
(* (merkle.ts:53-142, operation-verify.ts:168-184).                        *)
ProofsVerify ==
  \A layers \in epochs : \A i \in DOMAIN layers[1] :
    VerifyMerkleProof(layers[1][i], GetMerkleProof(layers, layers[1][i]), Root(layers))

(* The root commits to the leaves: two epochs with the same root have the  *)
(* same leaves.  An odd layer repeats its last node, so this rests on the  *)
(* chain hashes being distinct (merkle.ts:71-73).  It is what lets         *)
(* EpochRollup stand a root for the set of its leaves.                     *)
RootTellsLeaves ==
  \A d, e \in epochs : Root(d) = Root(e) => d[1] = e[1]
-----------------------------------------------------------------------------
(* Why.                                                                    *)

(* The date of an operation is that of the submission it was stored with.  *)
Settled == \A o \in Stored : request[o] = "accepted"

(* The pages so far end at the cursor, and hold what is due before it.     *)
PagesSoFar ==
  /\ {seen[i] : i \in DOMAIN seen} \subseteq Stored
  /\ ~done /\ cursor = NoCursor => seen = <<>> /\ due = {}
  /\ ~done /\ cursor # NoCursor => seen # <<>> /\ cursor = seen[Len(seen)]
  /\ ~done => \A o \in due : Beyond(o) \/ o \in {seen[i] : i \in DOMAIN seen}

(* Each tree was built from some operations.                               *)
Grown ==
  \A layers \in epochs : \E window \in SUBSET (Ops \cup Others) :
    window # {} /\ layers = BuildMerkleTree(Leaves(window))

AuditInv == SdkInv /\ TypeOK /\ Settled /\ PagesSoFar /\ PagesComplete /\ Grown
=============================================================================
