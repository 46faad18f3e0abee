----------------------- MODULE MCManagedTransaction -----------------------
(* A bounded instance of ManagedTransaction: a runtime file and two hook   *)
(* files of an installation, and two files its plan depends on, one that   *)
(* is there and one that is not. Nothing tells one edit from the other.    *)
EXTENDS ManagedTransaction, TLC

CONSTANTS e1, e2

MCFiles == {"runtime", "hooks", "legacy"}
MCPos == [runtime |-> 1, hooks |-> 2, legacy |-> 3]
MCMerged == {"hooks", "legacy"}
MCConditions == {"policy", "settings"}
MCSymmetry == Permutations({e1, e2})
MCInit == Init /\ disk["policy"] = Was /\ disk["settings"] = None
MCSpec == MCInit /\ [][Next]_vars
===========================================================================
