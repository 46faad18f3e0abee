-------------------------- MODULE OperationIngest --------------------------
(***************************************************************************)
(* The submission of operations: POST /v1/operations and submitOperation   *)
(* (services/operation-submit.ts), run by any number of requests at once   *)
(* and against the administrative requests of AgentRegistry.               *)
(*                                                                         *)
(* A request awaits the cache, the database and the object store ten       *)
(* times; every await is a step of its own, so everything a request has    *)
(* read may be stale by the time it is used.  Only the last batch, the     *)
(* INSERT of the operation and its receipt, is a transaction.              *)
(*                                                                         *)
(* A chain hash is computed from the previous chain hash, the payload      *)
(* hash, the operation id and the issue time; hashes are taken to be free  *)
(* of collisions, so a hash is modelled by the sequence of what was hashed *)
(* to reach it, and the genesis hash by <<>>.                              *)
(***************************************************************************)
EXTENDS AgentRegistry, FiniteSets

CONSTANTS
  OpIds,       \* operation ids
  Payloads,    \* what payload_hash and issued_at tell apart
  Nonces,
  Requests,    \* submissions; each arrives at most once
  Bodies,      \* what clients sign, all but the previous chain hash
  None

Link == [op : OpIds, payload : Payloads]
Hash == Seq(Link)
Genesis == <<>>

Body == [op : OpIds, agent : Agents, payload : Payloads, nonce : Nonces,
         kid : Kids, signed : BOOLEAN]

(* An EOR: `signed` tells whether the signature verifies with key `kid`.   *)
Envelope == [op : OpIds, agent : Agents, payload : Payloads, nonce : Nonces,
             kid : Kids, signed : BOOLEAN, prev : Hash]

Eor(b, h) == [op |-> b.op, agent |-> b.agent, payload |-> b.payload, nonce |-> b.nonce,
              kid |-> b.kid, signed |-> b.signed, prev |-> h]

ChainHash(e) == Append(e.prev, [op |-> e.op, payload |-> e.payload])

ASSUME IngestAssumption ==
  /\ Bodies \subseteq Body
  /\ None \notin Requests
  /\ None \notin Envelope

VARIABLES
  operations,   \* the operations rows
  receipts,     \* the receipts rows
  evidence,     \* object store: the EOR under org/agent/op
  earObjects,   \* object store: whose EAR is under org/agent/receipts/op
  nonces,       \* cache: the nonces that have not expired
  queue,        \* the messages sent to the operation queue
  pc,           \* where each submission is
  env,          \* the EOR it carries
  slot,         \* the seq_no it computed
  reply,        \* what it answered
  barred,       \* history: the requests whose agent and key have not both
                \* been active at any time since they began
  orphaned      \* history: the requests whose agent was deleted while they
                \* went from a seq_no conflict to the winning row

storeVars == <<operations, receipts, evidence, earObjects, nonces, queue>>
requestVars == <<pc, env, slot, reply>>
historyVars == <<barred, orphaned>>
vars == <<registryVars, storeVars, requestVars, historyVars>>

Row == [env : Envelope, seq : Nat, chain : Hash]
(* A request reserves one receipt id and one message id, both its own      *)
(* UUIDs: the request names them.                                          *)
Receipt == [id : Requests, op : OpIds]
Message == [id : Requests, op : OpIds, agent : Agents]
Steps == {"idle", "readNonce", "storeNonce", "agent", "key", "chain", "payload", "receipt",
          "insert", "winner", "enqueue", "done"}
Codes == {"none", "accepted", "VALIDATION_ERROR", "REPLAY_DETECTED", "UNKNOWN_AGENT",
          "AGENT_FROZEN", "INVALID_SIGNATURE", "KEY_REVOKED", "PREV_HASH_MISMATCH",
          "CONFLICT_WITHOUT_ROW", "INTERNAL_ERROR"}
Reply == [code : Codes, hash : Hash]

Answer(code, hash) == [code |-> code, hash |-> hash]

TypeOK ==
  /\ RegistryTypeOK
  /\ operations \subseteq Row
  /\ receipts \subseteq Receipt
  /\ evidence \in [Agents \X OpIds -> Envelope \cup {None}]
  /\ earObjects \in [Agents \X OpIds -> Requests \cup {None}]
  /\ nonces \subseteq Nonces
  /\ queue \subseteq Message
  /\ pc \in [Requests -> Steps]
  /\ env \in [Requests -> Envelope \cup {None}]
  /\ slot \in [Requests -> Nat]
  /\ reply \in [Requests -> Reply]
  /\ barred \subseteq Requests
  /\ orphaned \subseteq Requests

Init ==
  /\ RegistryInit
  /\ operations = {}
  /\ receipts = {}
  /\ evidence = [k \in Agents \X OpIds |-> None]
  /\ earObjects = [k \in Agents \X OpIds |-> None]
  /\ nonces = {}
  /\ queue = {}
  /\ pc = [r \in Requests |-> "idle"]
  /\ env = [r \in Requests |-> None]
  /\ slot = [r \in Requests |-> 0]
  /\ reply = [r \in Requests |-> Answer("none", Genesis)]
  /\ barred = {}
  /\ orphaned = {}

Rows(a) == {x \in operations : x.env.agent = a}

(* ORDER BY seq_no DESC LIMIT 1                                            *)
IsLatest(x, a) == x \in Rows(a) /\ \A y \in Rows(a) : y.seq <= x.seq

ObjectKey(e) == <<e.agent, e.op>>

(* The hashes a client can name: the genesis hash, and that of every       *)
(* operation it has built, accepted or not.                                *)
Begun == {r \in Requests : pc[r] # "idle"}
KnownHashes == {Genesis} \cup {ChainHash(env[r]) : r \in Begun}

GoTo(r, step) ==
  /\ pc' = [pc EXCEPT ![r] = step]
  /\ UNCHANGED <<env, slot, reply>>

Respond(r, code, hash) ==
  /\ pc' = [pc EXCEPT ![r] = "done"]
  /\ reply' = [reply EXCEPT ![r] = Answer(code, hash)]
  /\ UNCHANGED <<env, slot>>

(* Route and validateEORFields: a field, the TTL or the size may be wrong. *)
Begin(r) ==
  /\ pc[r] = "idle"
  /\ \E b \in Bodies, h \in KnownHashes : env' = [env EXCEPT ![r] = Eor(b, h)]
  /\ \/ /\ pc' = [pc EXCEPT ![r] = "readNonce"]
        /\ UNCHANGED reply
     \/ /\ pc' = [pc EXCEPT ![r] = "done"]
        /\ reply' = [reply EXCEPT ![r] = Answer("VALIDATION_ERROR", Genesis)]
  /\ UNCHANGED <<storeVars, slot>>

ReadNonce(r) ==
  /\ pc[r] = "readNonce"
  /\ IF env[r].nonce \in nonces THEN Respond(r, "REPLAY_DETECTED", Genesis)
                                ELSE GoTo(r, "storeNonce")
  /\ UNCHANGED storeVars

StoreNonce(r) ==
  /\ pc[r] = "storeNonce"
  /\ nonces' = nonces \cup {env[r].nonce}
  /\ GoTo(r, "agent")
  /\ UNCHANGED <<operations, receipts, evidence, earObjects, queue>>

LookUpAgent(r) ==
  /\ pc[r] = "agent"
  /\ \/ agents[env[r].agent] = "absent" /\ Respond(r, "UNKNOWN_AGENT", Genesis)
     \/ agents[env[r].agent] = "frozen" /\ Respond(r, "AGENT_FROZEN", Genesis)
     \/ agents[env[r].agent] = "active" /\ GoTo(r, "key")
  /\ UNCHANGED storeVars

KeyOf(e) == IF KeyAgent[e.kid] = e.agent THEN keys[e.kid] ELSE "absent"

(* Mutant: a revoked key is looked up like an active one.                  *)
LookUpKeyAnyStatus(r) ==
  /\ pc[r] = "key"
  /\ IF KeyOf(env[r]) # "absent" /\ env[r].signed
       THEN GoTo(r, "chain")
       ELSE Respond(r, "INVALID_SIGNATURE", Genesis)
  /\ UNCHANGED storeVars

LookUpKey(r) ==
  /\ pc[r] = "key"
  /\ \/ KeyOf(env[r]) = "absent" /\ Respond(r, "INVALID_SIGNATURE", Genesis)
     \/ KeyOf(env[r]) = "revoked" /\ Respond(r, "KEY_REVOKED", Genesis)
     \/ /\ KeyOf(env[r]) = "active"
        /\ IF env[r].signed THEN GoTo(r, "chain")
                            ELSE Respond(r, "INVALID_SIGNATURE", Genesis)
  /\ UNCHANGED storeVars

(* Compare the EOR with what the latest row says and take the next seq_no. *)
Matches(r, expected, seq) ==
  IF env[r].prev = expected
    THEN /\ pc' = [pc EXCEPT ![r] = "payload"]
         /\ slot' = [slot EXCEPT ![r] = seq]
         /\ UNCHANGED <<env, reply>>
    ELSE Respond(r, "PREV_HASH_MISMATCH", expected)

CheckChain(r) ==
  /\ pc[r] = "chain"
  /\ \/ Rows(env[r].agent) = {} /\ Matches(r, Genesis, 1)
     \/ \E x \in operations : IsLatest(x, env[r].agent) /\ Matches(r, x.chain, x.seq + 1)
  /\ UNCHANGED storeVars

(* Mutant: the object store fails and the error is swallowed.              *)
StorePayloadBestEffort(r) ==
  /\ pc[r] = "payload"
  /\ GoTo(r, "receipt")
  /\ UNCHANGED storeVars

StorePayload(r) ==
  /\ pc[r] = "payload"
  /\ evidence' = [evidence EXCEPT ![ObjectKey(env[r])] = env[r]]
  /\ GoTo(r, "receipt")
  /\ UNCHANGED <<operations, receipts, earObjects, nonces, queue>>

(* Mutant: the message is sent before the commit.                          *)
StoreReceiptAndEnqueue(r) ==
  /\ pc[r] = "receipt"
  /\ earObjects' = [earObjects EXCEPT ![ObjectKey(env[r])] = r]
  /\ queue' = queue \cup {[id |-> r, op |-> env[r].op, agent |-> env[r].agent]}
  /\ GoTo(r, "insert")
  /\ UNCHANGED <<operations, receipts, evidence, nonces>>

StoreReceipt(r) ==
  /\ pc[r] = "receipt"
  /\ earObjects' = [earObjects EXCEPT ![ObjectKey(env[r])] = r]
  /\ GoTo(r, "insert")
  /\ UNCHANGED <<operations, receipts, evidence, nonces, queue>>

(* Mutants: tables without their constraints.                              *)
OpUnconstrained(r) == FALSE
SeqUnconstrained(r) == FALSE

(* The constraints of the operations table, in the order they are checked. *)
OpTaken(r) == \E x \in operations : x.env.op = env[r].op
SeqTaken(r) == \E x \in Rows(env[r].agent) : x.seq = slot[r]

NewRow(r) == [env |-> env[r], seq |-> slot[r], chain |-> ChainHash(env[r])]

(* Mutant: the batch without the foreign key on agents.                    *)
InsertCommitsWithoutAgent(r) ==
  /\ pc[r] = "insert"
  /\ ~OpTaken(r) /\ ~SeqTaken(r)
  /\ operations' = operations \cup {NewRow(r)}
  /\ receipts' = receipts \cup {[id |-> r, op |-> env[r].op]}
  /\ GoTo(r, "enqueue") \/ Respond(r, "INTERNAL_ERROR", Genesis)
  /\ UNCHANGED <<evidence, earObjects, nonces, queue>>

(* The transaction commits; the answer of the database may still be lost.  *)
InsertCommits(r) ==
  /\ pc[r] = "insert"
  /\ ~OpTaken(r) /\ ~SeqTaken(r) /\ Present(env[r].agent)
  /\ operations' = operations \cup {NewRow(r)}
  /\ receipts' = receipts \cup {[id |-> r, op |-> env[r].op]}
  /\ GoTo(r, "enqueue") \/ Respond(r, "INTERNAL_ERROR", Genesis)
  /\ UNCHANGED <<evidence, earObjects, nonces, queue>>

(* Mutant: a refusal is taken for a success.                               *)
InsertRefusedIgnored(r) ==
  /\ pc[r] = "insert"
  /\ OpTaken(r) \/ SeqTaken(r) \/ ~Present(env[r].agent)
  /\ GoTo(r, "enqueue")
  /\ UNCHANGED storeVars

InsertRefused(r) ==
  /\ pc[r] = "insert"
  /\ \/ OpTaken(r) /\ Respond(r, "INTERNAL_ERROR", Genesis)
     \/ ~OpTaken(r) /\ SeqTaken(r) /\ GoTo(r, "winner")
     \/ /\ ~OpTaken(r) /\ ~SeqTaken(r) /\ ~Present(env[r].agent)
        /\ Respond(r, "INTERNAL_ERROR", Genesis)
  /\ UNCHANGED storeVars

(* Mutants: the answer names the hash compared with before the insert; the *)
(* winning row is looked for by operation id.                              *)
ReadWinnerStale(r) ==
  /\ pc[r] = "winner"
  /\ Respond(r, "PREV_HASH_MISMATCH", env[r].prev)
  /\ UNCHANGED storeVars

ReadWinnerByOp(r) ==
  /\ pc[r] = "winner"
  /\ \/ ~OpTaken(r) /\ Respond(r, "CONFLICT_WITHOUT_ROW", Genesis)
     \/ \E x \in operations :
          x.env.op = env[r].op /\ Respond(r, "PREV_HASH_MISMATCH", x.chain)
  /\ UNCHANGED storeVars

ReadWinner(r) ==
  /\ pc[r] = "winner"
  /\ \/ Rows(env[r].agent) = {} /\ Respond(r, "CONFLICT_WITHOUT_ROW", Genesis)
     \/ \E x \in operations :
          IsLatest(x, env[r].agent) /\ Respond(r, "PREV_HASH_MISMATCH", x.chain)
  /\ UNCHANGED storeVars

(* A failed send is logged and the request accepted all the same.          *)
Enqueue(r) ==
  /\ pc[r] = "enqueue"
  /\ \/ queue' = queue \cup {[id |-> r, op |-> env[r].op, agent |-> env[r].agent]}
     \/ UNCHANGED queue
  /\ Respond(r, "accepted", ChainHash(env[r]))
  /\ UNCHANGED <<operations, receipts, evidence, earObjects, nonces>>

(* A store throws, or the process dies: the client gets a 500 or nothing.  *)
Abort(r) ==
  /\ pc[r] \notin {"idle", "done"}
  /\ Respond(r, "INTERNAL_ERROR", Genesis)
  /\ UNCHANGED storeVars

Submit(r) ==
  \/ Begin(r) \/ ReadNonce(r) \/ StoreNonce(r) \/ LookUpAgent(r) \/ LookUpKey(r)
  \/ CheckChain(r) \/ StorePayload(r) \/ StoreReceipt(r) \/ InsertCommits(r)
  \/ InsertRefused(r) \/ ReadWinner(r) \/ Enqueue(r) \/ Abort(r)

(* A nonce is kept for the TTL of its operation.                           *)
NonceExpires(n) ==
  /\ n \in nonces
  /\ nonces' = nonces \ {n}
  /\ UNCHANGED <<operations, receipts, evidence, earObjects, queue, requestVars>>

(* The batch of deleteAgent: receipts, operations, keys, agent.            *)
DeleteAgentRows(c) ==
  LET gone == Rows(call[c].cmd.agent) IN
  /\ DeleteAgent(c)
  /\ operations' = operations \ gone
  /\ receipts' = {y \in receipts : \A x \in gone : x.env.op # y.op}
  /\ UNCHANGED <<evidence, earObjects, nonces, queue, requestVars>>

Administer(c) ==
  \/ DeleteAgentRows(c)
  \/ /\ \/ Arrive(c) \/ Examine(c) \/ RegisterAgent(c) \/ FreezeAgent(c)
        \/ UnfreezeAgent(c) \/ RevokeKey(c) \/ FailCall(c)
     /\ UNCHANGED <<storeVars, requestVars>>

(* The agent and the key of an EOR are both in order.                      *)
Standing(e) == agents[e.agent] = "active" /\ KeyOf(e) = "active"

KeepHistory ==
  /\ barred' = {r \in Requests : /\ pc'[r] # "idle"
                                 /\ pc[r] # "idle" => r \in barred
                                 /\ ~Standing(env[r])'}
  /\ orphaned' = orphaned \cup {r \in Requests : /\ pc[r] = "winner"
                                                /\ Present(env[r].agent)
                                                /\ agents'[env[r].agent] = "absent"}

Next ==
  /\ \/ \E r \in Requests : Submit(r) /\ UNCHANGED registryVars
     \/ \E n \in Nonces : NonceExpires(n) /\ UNCHANGED registryVars
     \/ \E c \in Callers : Administer(c)
  /\ KeepHistory

Spec == Init /\ [][Next]_vars

---------------------------------------------------------------------------
(* verifyOperation, on the rows and objects of one moment: what it reports *)
(* of a stored operation, the Merkle check excepted (see EpochRollup).     *)
(* Mutant: revoked keys verify nothing.                                    *)
SignatureVerifiesIfActive(x) ==
  LET e == evidence[ObjectKey(x.env)] IN
  e # None /\ KeyOf(e) = "active" /\ e.signed

SignatureVerifies(x) ==
  LET e == evidence[ObjectKey(x.env)] IN
  e # None /\ KeyOf(e) # "absent" /\ e.signed

ChainVerifies(x) ==
  /\ x.chain = ChainHash(x.env)
  /\ \A y \in Rows(x.env.agent) : y.seq = x.seq - 1 => y.chain = x.env.prev

ReceiptVerifies(x) ==
  /\ \E y \in receipts : y.op = x.env.op
  /\ earObjects[ObjectKey(x.env)] # None

Verifies(x) == SignatureVerifies(x) /\ ChainVerifies(x) /\ ReceiptVerifies(x)

---------------------------------------------------------------------------
(* The rows of agent a form one chain from the genesis hash: no seq_no     *)
(* twice, none missing, each prev_chain_hash the hash of the row before.   *)
ChainOf(a) ==
  \A x \in Rows(a) :
    /\ \A y \in Rows(a) : y.seq = x.seq => y = x
    /\ \/ x.seq = 1 /\ x.env.prev = Genesis
       \/ \E y \in Rows(a) : y.seq + 1 = x.seq /\ y.chain = x.env.prev

(* Whatever requests race past the comparison with the latest row, the     *)
(* operations of an agent form one unbroken chain: the unique constraint   *)
(* on (agent_id, seq_no) stops every request whose read went stale.  The   *)
(* agents deleted and registered again are the exception (next property).  *)
ChainIntact == \A a \in Agents \ reborn : ChainOf(a)

(* The same of every agent, as the protocol reference states it of         *)
(* prev_chain_hash.  A request that read the chain of an agent before it   *)
(* was deleted commits on top of the empty chain of the agent registered   *)
(* again under that id.                                                    *)
EveryChainIntact == \A a \in Agents : ChainOf(a)

(* A PREV_HASH_MISMATCH answer names a hash the client can go on from: one *)
(* that is not the one it was refused for, and that is the genesis hash or *)
(* the hash of a stored operation.  It holds of both places that answer    *)
(* it, the comparison and the conflict on insert.                          *)
MismatchNamesAnotherHead ==
  \A r \in Requests :
    reply[r].code = "PREV_HASH_MISMATCH" /\ env[r].agent \notin deleted =>
      /\ reply[r].hash # env[r].prev
      /\ \/ reply[r].hash = Genesis
         \/ \E x \in Rows(env[r].agent) : x.chain = reply[r].hash

(* submitOperation asserts that a seq_no conflict comes with a stored row; *)
(* the assertion fails only when the agent is deleted between the conflict *)
(* and the read of the winning row: no earlier deletion of the agent, and  *)
(* no other race, is an excuse.                                            *)
ConflictHasWinner ==
  \A r \in Requests : reply[r].code = "CONFLICT_WITHOUT_ROW" => r \in orphaned

(* An EAR is proof of ingestion: while the agent is not deleted, what an   *)
(* accepted request was told (operation, place in the chain, receipt id)   *)
(* is what the tables hold.                                                *)
AcceptedIsRecorded ==
  \A r \in Requests :
    reply[r].code = "accepted" /\ env[r].agent \notin deleted =>
      /\ [id |-> r, op |-> env[r].op] \in receipts
      /\ [env |-> env[r], seq |-> slot[r], chain |-> reply[r].hash] \in operations

(* Two requests are never both accepted for one operation id, although the *)
(* nonce is read and stored in two steps and may have expired; only the    *)
(* deletion of the agent frees its operation ids.                          *)
AcceptedOnce ==
  \A r, s \in Requests :
    /\ reply[r].code = "accepted" /\ reply[s].code = "accepted"
    /\ env[r].op = env[s].op /\ r # s
    => {env[r].agent, env[s].agent} \cap deleted # {}

(* The queue names only operations that are stored: a message is sent      *)
(* after the commit, and by the request whose receipt the operation has.   *)
QueueOnlyRecorded ==
  \A m \in queue : m.agent \notin deleted => [id |-> m.id, op |-> m.op] \in receipts

(* A request that finds its agent frozen or its key revoked when it begins *)
(* stores nothing, unless both are in order at some later moment before it *)
(* ends: two reads at different times never add up to one that no single   *)
(* moment would have allowed.                                              *)
BarredStoreNothing ==
  \A r \in barred : /\ reply[r].code # "accepted"
                    /\ \A y \in receipts : y.id # r
                    /\ \A m \in queue : m.id # r

(* Some EOR other than e was submitted under the operation id of e.        *)
IdReused(e) ==
  \E r \in Begun : ObjectKey(env[r]) = ObjectKey(e) /\ env[r] # e

(* The evidence object of a stored operation is the EOR it was stored for, *)
(* whatever other submissions wrote to that object before they were        *)
(* refused, as long as clients do not sign two EORs with one id.           *)
EvidenceIsTheEor ==
  \A x \in operations : ~IdReused(x.env) => evidence[ObjectKey(x.env)] = x.env

(* Such an operation verifies at any later moment: also while its agent is *)
(* frozen or its key revoked, and while others are being stored.           *)
StoredVerifies ==
  \A x \in operations :
    x.env.agent \notin reborn /\ ~IdReused(x.env) => Verifies(x)

---------------------------------------------------------------------------
(* The hash of an agent's latest row is the list of what it submitted.     *)
LatestHash(a) ==
  IF Rows(a) = {} THEN Genesis ELSE (CHOOSE x \in operations : IsLatest(x, a)).chain

(* The server implements AuditChain: commits extend the log of one agent   *)
(* by the one operation, and only a deletion shortens a log.  The log of   *)
(* an agent registered again after its deletion is kept empty: of those    *)
(* nothing of the kind is promised, see EveryChainIntact.                  *)
Log == [a \in Agents |-> IF a \in reborn THEN <<>> ELSE LatestHash(a)]
Chain == INSTANCE AuditChain WITH log <- Log
ImplementsAuditChain == Chain!LogSpec

---------------------------------------------------------------------------
(* The inductive invariant behind the properties above.                    *)

LookedUp == {"key", "chain", "payload", "receipt", "insert", "winner", "enqueue"}
Placed == {"payload", "receipt", "insert", "winner", "enqueue"}

(* A request that has begun carries an EOR.                                *)
EnvTyped == \A r \in Requests : pc[r] # "idle" => env[r] \in Envelope

(* Hashes grow by one link per seq_no, in the rows and in the requests     *)
(* that have been given their place.                                       *)
RowsHashed == \A x \in operations : x.chain = ChainHash(x.env) /\ x.seq = Len(x.env.prev) + 1
SlotsHashed == \A r \in Requests : pc[r] \in Placed => slot[r] = Len(env[r].prev) + 1

(* The two unique constraints.                                             *)
OpsUnique == \A x, y \in operations : x.env.op = y.env.op => x = y
SeqsUnique ==
  \A x, y \in operations : x.env.agent = y.env.agent /\ x.seq = y.seq => x = y

(* The foreign key.                                                        *)
RowsHaveAgents == \A x \in operations : Present(x.env.agent)

(* A request past its look-up saw the agent; it is gone only if deleted.   *)
LookedUpExisted ==
  \A r \in Requests :
    pc[r] \in LookedUp => Present(env[r].agent) \/ env[r].agent \in deleted

Extends(h, a) == h = Genesis \/ \E y \in Rows(a) : y.chain = h

(* What a row, and a request about to insert one, is linked to: the        *)
(* genesis hash or a stored operation of the same agent.  A deletion may   *)
(* take that operation from under the request, but then the insert fails   *)
(* until the agent is registered again.                                    *)
RowsLinked ==
  \A x \in operations : x.env.agent \notin reborn => Extends(x.env.prev, x.env.agent)
InsertsLinked ==
  \A r \in Requests :
    /\ pc[r] \in {"payload", "receipt", "insert"}
    /\ env[r].agent \notin reborn /\ Present(env[r].agent)
    => Extends(env[r].prev, env[r].agent)

(* A request that lost the race for its seq_no finds the winner.           *)
WinnersStored ==
  \A r \in Requests : pc[r] = "winner" /\ r \notin orphaned => SeqTaken(r)

OrphansDeleted ==
  \A r \in orphaned : pc[r] # "idle" /\ env[r].agent \in deleted

(* Between its commit and its answer a request is already recorded.        *)
CommittedRecorded ==
  \A r \in Requests :
    (pc[r] = "enqueue" \/ reply[r].code = "accepted") /\ env[r].agent \notin deleted =>
      /\ [id |-> r, op |-> env[r].op] \in receipts
      /\ NewRow(r) \in operations

AnswersMatch ==
  \A r \in Requests :
    /\ reply[r].code # "none" => pc[r] = "done"
    /\ reply[r].code = "accepted" => reply[r].hash = ChainHash(env[r])

(* A message was sent by a request that was then accepted, about its EOR.  *)
MessagesAnswered ==
  \A m \in queue :
    /\ pc[m.id] = "done" /\ reply[m.id].code = "accepted"
    /\ env[m.id].op = m.op /\ env[m.id].agent = m.agent

ReceiptsUnique == \A y, z \in receipts : y.op = z.op => y = z
ReceiptsHaveRows == \A y \in receipts : \E x \in operations : x.env.op = y.op

IInv ==
  /\ TypeOK /\ EnvTyped /\ RowsHashed /\ SlotsHashed /\ OpsUnique /\ SeqsUnique
  /\ RowsHaveAgents /\ LookedUpExisted /\ RowsLinked /\ InsertsLinked
  /\ WinnersStored /\ OrphansDeleted /\ MismatchNamesAnotherHead
  /\ AnswersMatch /\ CommittedRecorded /\ ReceiptsUnique /\ ReceiptsHaveRows /\ MessagesAnswered

(* For the refinement: the latest row of an agent and what its hash holds. *)
LatestExists == \A a \in Agents : Rows(a) = {} \/ \E x \in operations : IsLatest(x, a)
SeqsDense ==
  \A x \in operations : x.env.agent \notin reborn =>
    \A n \in 1..x.seq : \E y \in Rows(x.env.agent) : y.seq = n
LinksStored ==
  \A x \in operations : x.env.agent \notin reborn =>
    \A i \in DOMAIN x.chain : \E y \in Rows(x.env.agent) : y.env.op = x.chain[i].op
LogInv == LatestExists /\ SeqsDense /\ LinksStored

(* For BarredStoreNothing: a key comes into use only together with its     *)
(* agent, so a request that saw its agent active while it was barred finds *)
(* its key missing or revoked.                                             *)
ReceiptsCommitted == \A y \in receipts : pc[y.id] \in {"enqueue", "done"}
BarredRefused ==
  \A r \in barred :
    /\ pc[r] \in {"readNonce", "storeNonce", "agent", "key", "done"}
    /\ ~Standing(env[r])
    /\ pc[r] = "key" => KeyOf(env[r]) # "active"
BarredInv == ReceiptsCommitted /\ BarredRefused /\ BarredStoreNothing

(* For StoredVerifies: what verification needs is there when a request has *)
(* passed the step that looks for it or writes it, and stays.              *)
Signs(e) == e.signed /\ KeyAgent[e.kid] = e.agent
Evident(e) == ~IdReused(e) => evidence[ObjectKey(e)] = e
Filed(e) == earObjects[ObjectKey(e)] # None
RequestSound(r) ==
  /\ pc[r] \in {"chain", "payload", "receipt", "insert"} => Signs(env[r])
  /\ pc[r] \in {"receipt", "insert"} => Evident(env[r])
  /\ pc[r] = "insert" => Filed(env[r])
RowSound(x) ==
  /\ Signs(x.env) /\ Evident(x.env) /\ Filed(x.env)
  /\ \E y \in receipts : y.op = x.env.op
VerifyInv ==
  /\ KeysFollowAgents
  /\ \A r \in Requests : RequestSound(r)
  /\ \A x \in operations : RowSound(x)
=============================================================================
