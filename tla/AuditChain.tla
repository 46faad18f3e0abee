----------------------------- MODULE AuditChain -----------------------------
(***************************************************************************)
(* What the server promises about an agent's audit trail: one list of      *)
(* operations per agent that grows only at its end, one operation at a     *)
(* time, never holds an operation id twice, and disappears as a whole when *)
(* the agent is deleted.  How requests race, what they store besides and   *)
(* how they fail does not show.                                            *)
(***************************************************************************)
EXTENDS Sequences

CONSTANTS Agents, OpIds, Payloads

Link == [op : OpIds, payload : Payloads]

VARIABLE log
logVars == log

(* Some log holds operation id o.                                          *)
Recorded(o) == \E a \in Agents : \E i \in DOMAIN log[a] : log[a][i].op = o

LogInit == log = [a \in Agents |-> <<>>]

Record(a, link) ==
  /\ ~Recorded(link.op)
  /\ log' = [log EXCEPT ![a] = Append(@, link)]

Erase(a) == log' = [log EXCEPT ![a] = <<>>]

LogNext ==
  \E a \in Agents :
    \/ \E link \in Link : Record(a, link)
    \/ Erase(a)

LogSpec == LogInit /\ [][LogNext]_logVars
=============================================================================
