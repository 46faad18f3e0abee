---------------------------- MODULE MCAuditTrail ----------------------------
(* A bounded instance of AuditTrail: four operations of two clients of an  *)
(* agent, one after the other or at the same time, two dates, and two      *)
(* operations of other agents.                                             *)
EXTENDS AuditTrail, TLC

CONSTANTS c1, c2

MCHashRank == <<3, 1, 6, 5, 2, 4>>
MCOthers == {5, 6}
MCLimits == {1, 2}

ClientSymmetry == Permutations(Clients)
=============================================================================
