----------------------------- MODULE AgentGuard -----------------------------
(***************************************************************************)
(* The guard that a coding agent runs before every tool call               *)
(* (sdks/node/src/plugins/guard-template.ts) beside the registry that      *)
(* freezes and deletes the agent: it asks GET /v1/agents/:id, keeps the    *)
(* answer in status-cache.json for CACHE_TTL_MS, and ends by allowing the  *)
(* call, by blocking it (exit code 2) or, when it is to fail closed, with  *)
(* an error (exit code 1).                                                 *)
(*                                                                         *)
(* Guards run concurrently, as many at a time as the host makes tool calls *)
(* at a time, and share the cache file without a lock; a write replaces    *)
(* the file by a rename.                                                   *)
(* Time is counted in steps shorter than the TTL; no step of a guard       *)
(* outlives its three-second timer.                                        *)
(***************************************************************************)
EXTENDS AgentRegistry, Integers

CONSTANTS
  Guards,      \* concurrent tool calls; each makes one guard after another
  Guarded,     \* that agent
  TTL,         \* CACHE_TTL_MS
  Timeout,     \* of the request
  LastTime     \* bound of the clock

ASSUME GuardAssumption ==
  /\ Guarded \in Agents
  /\ TTL \in Nat \ {0} /\ Timeout \in Nat \ {0} /\ LastTime \in Nat

VARIABLES
  now,         \* the clock
  failClosed,  \* FAIL_CLOSED of the generated script
  cache,       \* status-cache.json
  guard,       \* progress of each guard
  held         \* history: when the agent last had each status

guardVars == <<now, failClosed, cache, guard, held>>
guardedVars == <<registryVars, guardVars>>

Statuses == {"active", "frozen"}
Times == 0 .. LastTime
NoCache == [status |-> "none", at |-> 0]
Guard == [pc : {"idle", "open", "asked", "answered", "allowed", "blocked", "failed"},
          replaced : BOOLEAN,                 \* the file, after it was looked at
          since : Times,                      \* when the request was sent
          answer : Statuses \cup {"error"},
          known : BOOLEAN,                    \* the verdict rests on a status
          fault : BOOLEAN]                    \* history: the world failed it

NewGuard == [pc |-> "idle", replaced |-> FALSE, since |-> 0, answer |-> "error",
             known |-> FALSE, fault |-> FALSE]

GuardTypeOK ==
  /\ RegistryTypeOK
  /\ now \in Times
  /\ failClosed \in BOOLEAN
  /\ cache \in [status : Statuses \cup {"none"}, at : Times]
  /\ guard \in [Guards -> Guard]
  /\ held \in [Statuses -> Times \cup {-1}]

GuardInit ==
  /\ RegistryInit
  /\ now = 0
  /\ failClosed \in BOOLEAN
  /\ cache = NoCache
  /\ guard = [g \in Guards |-> NewGuard]
  /\ held = [s \in Statuses |-> IF agents[Guarded] = s THEN 0 ELSE -1]

-----------------------------------------------------------------------------
(* What the steps are made of.                                             *)

At(g, pc) == guard[g].pc = pc

End(g, pc, known, fault) ==
  guard' = [guard EXCEPT ![g] = [NewGuard EXCEPT !.pc = pc, !.known = known, !.fault = fault]]

(* Exit code 0 or 2, on a status from the cache or from the server.        *)
Decide(g, status) ==
  End(g, IF status = "active" THEN "allowed" ELSE "blocked", TRUE, FALSE)

(* An error that ends the guard: it fails open or closed.                  *)
GiveUp(g, fault) ==
  End(g, IF failClosed THEN "failed" ELSE "allowed", FALSE, guard[g].fault \/ fault)

(* The request leaves; its timer is started before.                        *)
Ask(g) ==
  guard' = [guard EXCEPT ![g].pc = "asked", ![g].since = now, ![g].replaced = FALSE]

(* Mutant: whatever goes wrong with the cache ends the guard.              *)
PastCacheEnds(g) == GiveUp(g, FALSE)

(* An error of the cache: a guard that fails open asks the server.         *)
PastCache(g) == IF failClosed THEN GiveUp(g, FALSE) ELSE Ask(g)

-----------------------------------------------------------------------------
Ended == {"idle", "allowed", "blocked", "failed"}

(* A tool call.  readInput and readConfig: the input or the configuration  *)
(* may be bad; bad input alone does not end a guard that fails open.  Then *)
(* the first half of readStatusCache, lstat.                               *)
BeginCall(g) ==
  /\ guard[g].pc \in Ended
  /\ now + Timeout <= LastTime
  /\ \/ guard' = [guard EXCEPT ![g] =
           IF cache = NoCache THEN [NewGuard EXCEPT !.pc = "asked", !.since = now]
           ELSE [NewGuard EXCEPT !.pc = "open"]]
     \/ guard' = [guard EXCEPT ![g] =
           [NewGuard EXCEPT !.pc = IF failClosed THEN "failed" ELSE "allowed",
                            !.fault = TRUE]]
  /\ UNCHANGED cache

(* Mutant: a status as old as the TTL is still good.                       *)
FreshInclusive == now - cache.at <= TTL

Fresh == now - cache.at < TTL

(* Second half: open, and compare with what lstat saw.  The age is that of *)
(* the file at this moment.                                                *)
OpenCache(g) ==
  /\ At(g, "open")
  /\ IF guard[g].replaced THEN PastCache(g)
     ELSE IF Fresh THEN Decide(g, cache.status)
     ELSE Ask(g)
  /\ UNCHANGED cache

(* getAgent reads the row, or fails; 404 when there is none.               *)
Serve(g, works) ==
  /\ At(g, "asked")
  /\ guard' = [guard EXCEPT ![g].pc = "answered",
       ![g].answer = IF works /\ Present(Guarded) THEN agents[Guarded] ELSE "error",
       ![g].fault = @ \/ ~works \/ ~Present(Guarded)]
  /\ UNCHANGED cache

(* The timer fires before the answer has arrived.                          *)
AbortRequest(g) ==
  /\ guard[g].pc \in {"asked", "answered"}
  /\ now = guard[g].since + Timeout
  /\ GiveUp(g, TRUE)
  /\ UNCHANGED cache

(* The new file; a guard that has looked at the old one will notice.       *)
Replace(g, status, at) ==
  /\ cache' = [status |-> status, at |-> at]
  /\ guard' = [h \in Guards |->
       IF h = g
       THEN [NewGuard EXCEPT !.pc = IF status = "active" THEN "allowed" ELSE "blocked",
                             !.known = TRUE]
       ELSE [guard[h] EXCEPT !.replaced = At(h, "open")]]

(* The answer is validated, writeStatusCache dates it now, and only then   *)
(* is the status looked at: when the file cannot be written, what was      *)
(* learned is forgotten.                                                   *)
Receive(g, written) ==
  /\ At(g, "answered")
  /\ IF guard[g].answer = "error" \/ ~written
     THEN UNCHANGED cache /\ GiveUp(g, TRUE)
     ELSE Replace(g, guard[g].answer, now)

-----------------------------------------------------------------------------
(* A request is over when its timer fires, not later.                      *)
Punctual(g) ==
  guard[g].pc \in {"asked", "answered"} => now < guard[g].since + Timeout

Tick ==
  /\ now < LastTime
  /\ \A g \in Guards : Punctual(g)
  /\ now' = now + 1
  /\ UNCHANGED <<cache, guard>>

GuardStep(g) ==
  \/ BeginCall(g) \/ OpenCache(g) \/ AbortRequest(g)
  \/ \E works \in BOOLEAN : Serve(g, works)
  \/ \E written \in BOOLEAN : Receive(g, written)

(* The history of the agent's status.                                      *)
Remember ==
  /\ held' = [s \in Statuses |-> IF agents'[Guarded] = s THEN now' ELSE held[s]]
  /\ UNCHANGED failClosed

GuardNext ==
  \/ (\E g \in Guards : GuardStep(g)) /\ UNCHANGED <<now, registryVars>> /\ Remember
  \/ Tick /\ UNCHANGED registryVars /\ Remember
  \/ RegistryNext /\ UNCHANGED <<now, cache, guard>> /\ Remember

GuardSpec == GuardInit /\ [][GuardNext]_guardedVars
-----------------------------------------------------------------------------
(* The verdict of a step that ends a guard on a status it read.            *)
Verdict(g) ==
  IF guard'[g].known /\ guard[g].pc \notin Ended
  THEN IF guard'[g].pc = "allowed" THEN {"active"} ELSE {"frozen"}
  ELSE {}

(* A guard that allows or blocks on a status, from the server or from a    *)
(* file that any other guard may have written meanwhile, an older answer   *)
(* over a newer one among them, goes by a status the agent really had less *)
(* than CACHE_TTL_MS and a request ago: a freeze takes effect, and an      *)
(* unfreeze gives the agent back, within that time                         *)
(* (guard-template.ts:142-166).                                            *)
VerdictIsRecent ==
  [][\A g \in Guards, s \in Statuses :
       s \in Verdict(g) =>
         /\ held[s] >= 0
         /\ now - held[s] < TTL + Timeout]_guardedVars

(* A call is allowed without knowing the status only when the world failed *)
(* the guard, its input, the request, an agent that is gone, or the disk,  *)
(* and the script is to fail open; that another guard replaces the cache   *)
(* while it is being opened is no such reason (guard-template.ts:148-151). *)
GuessNeedsFault ==
  \A g \in Guards :
    (At(g, "allowed") /\ ~guard[g].known) => guard[g].fault /\ ~failClosed

-----------------------------------------------------------------------------
(* Why: the history is up to date; the file holds a status the agent had   *)
(* at most a request before it was written; and each guard is sound.       *)
HistoryCurrent ==
  \A s \in Statuses : held[s] <= now /\ (agents[Guarded] = s => held[s] = now)

CacheHeld ==
  cache = NoCache \/
    /\ cache.status \in Statuses
    /\ held[cache.status] >= 0
    /\ cache.at <= held[cache.status] + Timeout

(* A request is in time, its answer was held since it left, a guard that   *)
(* opens the file has seen one, and what it knows it learns at its end.    *)
Sound(x) ==
  /\ x.pc \in {"asked", "answered"} => x.since <= now /\ now <= x.since + Timeout
  /\ x.pc = "answered" /\ x.answer # "error" => held[x.answer] >= x.since
  /\ x.pc = "open" => cache # NoCache
  /\ x.pc \notin Ended => ~x.known
  /\ x.pc = "allowed" /\ ~x.known => x.fault /\ ~failClosed

RegistryInv == RegistryTypeOK /\ DatesPast /\ TrailExplainsStatus /\ KeysFollowAgents

GuardInv ==
  /\ RegistryInv /\ GuardTypeOK
  /\ HistoryCurrent /\ CacheHeld
  /\ \A g \in Guards : Sound(guard[g])
=============================================================================
