------------------------- MODULE MCOperationIngest -------------------------
(* Bounded instances of OperationIngest.                                   *)
EXTENDS OperationIngest, TLC

CONSTANTS a1, k1, o1, o2, p1, p2, n1, n2, r1, r2, r3, c1, c2, c3

MCKeyAgent == k1 :> a1

Signed(o, p, n, s) ==
  [op |-> o, agent |-> a1, payload |-> p, nonce |-> n, kid |-> k1, signed |-> s]

(* Two operations, the second under a nonce of its own.                    *)
TwoBodies == {Signed(o1, p1, n1, TRUE), Signed(o2, p1, n2, TRUE)}
(* Besides, the first operation id signed again over another payload, and  *)
(* the second with a signature that does not verify.                       *)
OddBodies == TwoBodies \cup {Signed(o1, p2, n2, TRUE), Signed(o2, p1, n2, FALSE)}

Named(names) == {[name |-> n, agent |-> a1, kid |-> k1] : n \in names}
NoCommands == Named({"freeze"})
Administration == Named({"register", "freeze", "unfreeze", "revoke", "delete"})

IngestSymmetry == Permutations(Requests) \cup Permutations(Callers)

Finished ==
  /\ \A r \in Requests : pc[r] = "done"
  /\ \A c \in Callers : call[c].at = "done"
  /\ nonces = {}
  /\ UNCHANGED vars

(* Only the dates of the events depend on when administrative requests     *)
(* arrive, and no property of these runs reads a date: they arrive first.  *)
ArriveFirst == arrivals' # arrivals \/ arrivals = Cardinality(Callers)

MCSpec == Init /\ [][(Next /\ ArriveFirst) \/ Finished]_vars
=============================================================================
