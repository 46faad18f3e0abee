---------------------------- MODULE MCAgentGuard ----------------------------
(* A bounded instance of AgentGuard: one agent with one key, three         *)
(* concurrent administrative requests of any kind and two guards.          *)
EXTENDS AgentGuard, FiniteSets, TLC

CONSTANTS a1, k1, c1, c2, c3, g1, g2

MCKeyAgent == k1 :> a1
MCCommands == [name : CommandNames, agent : {a1}, kid : {k1}]

(* The trail depends on the dates and not on the guards; the guards do not *)
(* depend on the dates.  So requests arrive at any time while the guards   *)
(* are idle; where the guards are run, they have all arrived first, dated  *)
(* in a fixed order of what they ask for, and none revokes a key, which is *)
(* nothing to the guards.                                                  *)
Quiet == now = 0 /\ \A g \in Guards : At(g, "idle")
Rank == [register |-> 1, freeze |-> 2, unfreeze |-> 3, delete |-> 4]
ArrivedFirst ==
  /\ arrivals = Cardinality(Callers)
  /\ \A i \in DOMAIN events : events[i].committed = arrivals
  /\ \A c \in Callers : call[c].cmd.name \in DOMAIN Rank
  /\ \A c, d \in Callers : call[c].created < call[d].created =>
                              Rank[call[c].cmd.name] <= Rank[call[d].cmd.name]

MCGuardSpec == GuardInit /\ [][GuardNext /\ (Quiet' \/ ArrivedFirst)]_guardedVars

ProcessSymmetry == Permutations(Callers) \cup Permutations(Guards)
=============================================================================
