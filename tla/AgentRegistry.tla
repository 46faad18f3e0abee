--------------------------- MODULE AgentRegistry ---------------------------
(***************************************************************************)
(* The agents and agent_keys tables, and the administrative requests that  *)
(* change them (services/agent-service.ts).                                *)
(*                                                                         *)
(* Every handler first takes the date, then reads the rows it is about and *)
(* rejects the request (404, 409) from what it read; it then runs ONE      *)
(* batch, which the Postgres adapter turns into a transaction.  Nothing    *)
(* holds a lock between these, so a call is three steps here: Arrive,      *)
(* Examine, then the write.  The write does not look again: a freeze       *)
(* updates the row whatever its status has become, and updates no row when *)
(* the agent is gone.                                                      *)
(*                                                                         *)
(* A row of admin_events is dated created_at, the date its handler took    *)
(* before it read anything; no column tells when the row was committed.    *)
(* Dates are counted in requests begun, by a clock that does not go back.  *)
(*                                                                         *)
(* One organisation is modelled; the org_id conditions of the queries are  *)
(* true of its callers.                                                    *)
(***************************************************************************)
EXTENDS Naturals, Sequences

CONSTANTS
  Agents,      \* agent ids
  Kids,        \* key ids
  KeyAgent,    \* the agent each key id is registered for
  Seeded,      \* the agents registered when a behaviour starts
  Callers,     \* administrative requests; each is handled once
  Commands     \* what such a request may ask for

CommandNames == {"register", "freeze", "unfreeze", "revoke", "delete"}
Command == [name : CommandNames, agent : Agents, kid : Kids]

ASSUME RegistryAssumption ==
  /\ KeyAgent \in [Kids -> Agents]
  /\ Seeded \subseteq Agents
  /\ Commands \subseteq Command

VARIABLES
  agents,      \* status of each agents row, "absent" when there is none
  keys,        \* status of each agent_keys row, "absent" when there is none
  call,        \* progress of each administrative request
  events,      \* the admin_events rows, in the order they were committed
  arrivals,    \* the date: the number of requests begun
  deleted,     \* history: the agents that were deleted at some time
  reborn       \* history: the agents registered again after a deletion

registryVars == <<agents, keys, call, events, arrivals, deleted, reborn>>

AgentStatus == {"absent", "active", "frozen"}
KeyStatus == {"absent", "active", "revoked"}
CallState == {"idle", "read", "write", "done"}
Call == [at : CallState, cmd : Commands, created : Nat]
(* `committed`, the date of the commit, is history: no column holds it.    *)
Event == [cmd : Commands, created : Nat, committed : Nat]

RegistryTypeOK ==
  /\ agents \in [Agents -> AgentStatus]
  /\ keys \in [Kids -> KeyStatus]
  /\ call \in [Callers -> Call]
  /\ events \in Seq(Event)
  /\ arrivals \in Nat
  /\ deleted \subseteq Agents
  /\ reborn \subseteq Agents

RegistryInit ==
  /\ agents = [a \in Agents |-> IF a \in Seeded THEN "active" ELSE "absent"]
  /\ keys = [k \in Kids |-> IF KeyAgent[k] \in Seeded THEN "active" ELSE "absent"]
  /\ call \in [Callers -> [at : {"idle"}, cmd : Commands, created : {0}]]
  /\ events = <<>>
  /\ arrivals = 0
  /\ deleted = {}
  /\ reborn = {}

Present(a) == agents[a] # "absent"

(* What the reads of a handler must show for it to go on to its batch.     *)
Admissible(m) ==
  CASE m.name = "register" -> ~Present(m.agent)
    [] m.name = "freeze"   -> agents[m.agent] = "active"
    [] m.name = "unfreeze" -> agents[m.agent] = "frozen"
    [] m.name = "revoke"   -> /\ Present(m.agent)
                              /\ KeyAgent[m.kid] = m.agent
                              /\ keys[m.kid] = "active"
    [] m.name = "delete"   -> Present(m.agent)

(* The handler is called and takes the date.                               *)
Arrive(c) ==
  /\ call[c].at = "idle"
  /\ arrivals' = arrivals + 1
  /\ call' = [call EXCEPT ![c].at = "read", ![c].created = arrivals']
  /\ UNCHANGED <<agents, keys, events, deleted, reborn>>

(* The handler reads; on an inadmissible request it answers 404 or 409.    *)
Examine(c) ==
  /\ call[c].at = "read"
  /\ call' = [call EXCEPT ![c].at = IF Admissible(call[c].cmd) THEN "write" ELSE "done"]
  /\ UNCHANGED <<agents, keys, events, arrivals, deleted, reborn>>

(* Mutant: the batch is not a transaction, its event can be lost.          *)
WritesEventLater(c, name) ==
  /\ call[c].at = "write"
  /\ call[c].cmd.name = name
  /\ call' = [call EXCEPT ![c].at = "done"]
  /\ UNCHANGED <<events, arrivals>>

(* The batch commits, with its admin_events row, dated by its handler.     *)
Writes(c, name) ==
  /\ call[c].at = "write"
  /\ call[c].cmd.name = name
  /\ call' = [call EXCEPT ![c].at = "done"]
  /\ events' = Append(events, [cmd |-> call[c].cmd, created |-> call[c].created,
                               committed |-> arrivals])
  /\ UNCHANGED arrivals

(* INSERT agents and agent_keys: the primary key refuses a second row.     *)
RegisterAgent(c) ==
  LET a == call[c].cmd.agent IN
  /\ Writes(c, "register")
  /\ ~Present(a)
  /\ agents' = [agents EXCEPT ![a] = "active"]
  /\ keys' = [k \in Kids |-> IF KeyAgent[k] = a THEN "active" ELSE keys[k]]
  /\ reborn' = IF a \in deleted THEN reborn \cup {a} ELSE reborn
  /\ UNCHANGED deleted

(* UPDATE agents SET status: no row to update when the agent is gone.      *)
SetStatus(a, status) ==
  agents' = IF Present(a) THEN [agents EXCEPT ![a] = status] ELSE agents

FreezeAgent(c) ==
  /\ Writes(c, "freeze")
  /\ SetStatus(call[c].cmd.agent, "frozen")
  /\ UNCHANGED <<keys, deleted, reborn>>

(* Mutant: an unfreeze gives the agent all its keys back.                  *)
UnfreezeAgentAndKeys(c) ==
  LET a == call[c].cmd.agent IN
  /\ Writes(c, "unfreeze")
  /\ SetStatus(a, "active")
  /\ keys' = [k \in Kids |-> IF KeyAgent[k] = a /\ Present(a) THEN "active" ELSE keys[k]]
  /\ UNCHANGED <<deleted, reborn>>

UnfreezeAgent(c) ==
  /\ Writes(c, "unfreeze")
  /\ SetStatus(call[c].cmd.agent, "active")
  /\ UNCHANGED <<keys, deleted, reborn>>

(* Mutant: the key row is written whether it is there or not.              *)
RevokeKeyUpserts(c) ==
  /\ Writes(c, "revoke")
  /\ keys' = [keys EXCEPT ![call[c].cmd.kid] = "revoked"]
  /\ UNCHANGED <<agents, deleted, reborn>>

RevokeKey(c) ==
  LET k == call[c].cmd.kid IN
  /\ Writes(c, "revoke")
  /\ keys' = IF keys[k] # "absent" THEN [keys EXCEPT ![k] = "revoked"] ELSE keys
  /\ UNCHANGED <<agents, deleted, reborn>>

(* DELETE of the agent and all it owns; OperationIngest adds its rows.     *)
DeleteAgent(c) ==
  LET a == call[c].cmd.agent IN
  /\ Writes(c, "delete")
  /\ agents' = [agents EXCEPT ![a] = "absent"]
  /\ keys' = [k \in Kids |-> IF KeyAgent[k] = a THEN "absent" ELSE keys[k]]
  /\ deleted' = IF Present(a) THEN deleted \cup {a} ELSE deleted
  /\ UNCHANGED reborn

(* The batch rolls back: a lost database, a primary key already taken, or  *)
(* a foreign key of a row that a concurrent submission committed between   *)
(* the DELETE statements.  The handler answers 500.                        *)
FailCall(c) ==
  /\ call[c].at = "write"
  /\ call' = [call EXCEPT ![c].at = "done"]
  /\ UNCHANGED <<agents, keys, events, arrivals, deleted, reborn>>

RegistryNext ==
  \E c \in Callers :
    \/ Arrive(c)
    \/ Examine(c)
    \/ RegisterAgent(c)
    \/ FreezeAgent(c)
    \/ UnfreezeAgent(c)
    \/ RevokeKey(c)
    \/ DeleteAgent(c)
    \/ FailCall(c)

RegistrySpec == RegistryInit /\ [][RegistryNext]_registryVars

---------------------------------------------------------------------------
(* The events that settle the status of an agent row that is there.        *)
StatusEvents(a) ==
  {i \in DOMAIN events : /\ events[i].cmd.agent = a
                         /\ events[i].cmd.name \in {"register", "freeze", "unfreeze"}}

(* The row e tells the status of a, and no row that settles it belongs to  *)
(* a request that began after e was committed.                             *)
Tells(e, a) ==
  /\ agents[a] = "frozen" <=> e.cmd.name = "freeze"
  /\ \A j \in StatusEvents(a) : events[j].created <= e.committed

(* Any handlers may interleave between their dates, their reads and their  *)
(* batches, and a batch may find the agent gone or registered anew.  The   *)
(* dates of the admin_events rows then tell the status of an agent that    *)
(* exists as far as requests did not overlap: the status is that of a row  *)
(* such that every row dated later belongs to a request that had begun     *)
(* when that row was committed.  It is the newest row when no two requests *)
(* about the agent overlap; when they do, a freeze that is dated first and *)
(* committed last leaves the agent frozen under a newer unfreeze.          *)
TrailExplainsStatus ==
  \A a \in Agents :
    Present(a) =>
      \/ StatusEvents(a) = {} /\ agents[a] = "active"
      \/ \E i \in StatusEvents(a) : Tells(events[i], a)

(* For its proof: no date lies in the future.                              *)
DatesPast ==
  /\ \A c \in Callers : call[c].created <= arrivals
  /\ \A i \in DOMAIN events : events[i].created <= arrivals

(* A key row exists exactly while its agent's row does, whatever the order *)
(* in which registrations, revocations and deletions commit: no key of a   *)
(* deleted agent is left behind, and a revocation that arrives late does   *)
(* not bring one back.                                                     *)
KeysFollowAgents ==
  \A k \in Kids : keys[k] # "absent" <=> Present(KeyAgent[k])

(* A revoked key becomes usable again only through the deletion and a new  *)
(* registration of its agent: no other step leaves "revoked".              *)
RevocationIsFinal ==
  [][\A k \in Kids :
       (keys[k] = "revoked" /\ keys'[k] # "revoked") => KeyAgent[k] \in deleted']_registryVars
=============================================================================
