------------------------- MODULE AgentRegistry_proofs -------------------------
(***************************************************************************)
(* The registry of agents and those who rely on it: the ingest of their    *)
(* operations (OperationIngest), for any number of agents, operations,     *)
(* submissions and administrative requests, with AuditChain, which it      *)
(* implements; and the guards of an agent (AgentGuard), for any number of  *)
(* agents, keys, requests and guards, and any TTL and timeout.             *)
(***************************************************************************)
EXTENDS OperationIngest, AgentGuard, TLAPS

---------------------------------------------------------------------------
(* Type correctness.  A request that has begun carries an EOR, which makes *)
(* the hashes it computes hashes.                                          *)

TypeInv == TypeOK /\ EnvTyped

LEMMA ChainHashType == ASSUME NEW e \in Envelope PROVE ChainHash(e) \in Hash
  BY DEF ChainHash, Envelope, Hash, Link

LEMMA EorType == ASSUME NEW b \in Bodies, NEW h \in Hash PROVE Eor(b, h) \in Envelope
  BY IngestAssumption DEF Eor, Body, Envelope

LEMMA InitTyped == Init => TypeInv
  BY RegistryAssumption
  DEF Init, TypeInv, TypeOK, EnvTyped, RegistryInit, RegistryTypeOK, Answer, Reply, Codes,
      Genesis, Hash, Steps, AgentStatus, KeyStatus, CallState, Call

(* The administrative requests keep the types of the registry.             *)
LEMMA RegistryTyped ==
  ASSUME RegistryTypeOK, NEW c \in Callers,
         \/ Arrive(c) \/ Examine(c) \/ RegisterAgent(c) \/ FreezeAgent(c)
         \/ UnfreezeAgent(c) \/ RevokeKey(c) \/ FailCall(c) \/ DeleteAgent(c)
  PROVE  RegistryTypeOK'
<1> USE RegistryAssumption DEF RegistryTypeOK, Command, Call, AgentStatus, KeyStatus, CallState
<1>1. CASE Examine(c)
  BY <1>1 DEF Examine
<1>r. CASE Arrive(c)
  <2>1. arrivals' \in Nat BY <1>r DEF Arrive
  <2>2. call' \in [Callers -> Call] BY <1>r, <2>1 DEF Arrive
  <2> QED BY <1>r, <2>1, <2>2 DEF Arrive
<1>0. ASSUME NEW name, Writes(c, name)
      PROVE  /\ call' \in [Callers -> Call] /\ events' \in Seq(Event)
             /\ arrivals' \in Nat
  BY <1>0 DEF Writes, Event
<1>2. CASE RegisterAgent(c)
  BY <1>2, <1>0 DEF RegisterAgent
<1>0a. ASSUME NEW a \in Agents, NEW s \in AgentStatus, SetStatus(a, s)
       PROVE  agents' \in [Agents -> AgentStatus]
  <2>1. CASE Present(a) BY <1>0a, <2>1 DEF SetStatus
  <2>2. CASE ~Present(a) BY <1>0a, <2>2 DEF SetStatus
  <2> QED BY <2>1, <2>2
<1>0b. call[c].cmd.agent \in Agents /\ call[c].cmd.kid \in Kids
  OBVIOUS
<1>3. CASE FreezeAgent(c)
  BY <1>3, <1>0, <1>0a, <1>0b DEF FreezeAgent
<1>4. CASE UnfreezeAgent(c)
  BY <1>4, <1>0, <1>0a, <1>0b DEF UnfreezeAgent
<1>5. CASE RevokeKey(c)
  <2>1. keys' \in [Kids -> KeyStatus]
    <3>1. CASE keys[call[c].cmd.kid] # "absent" BY <1>5, <1>0b, <3>1 DEF RevokeKey
    <3>2. CASE keys[call[c].cmd.kid] = "absent" BY <1>5, <1>0b, <3>2 DEF RevokeKey
    <3> QED BY <3>1, <3>2
  <2> QED BY <1>5, <1>0, <2>1 DEF RevokeKey
<1>6. CASE FailCall(c)
  BY <1>6 DEF FailCall
<1>7. CASE DeleteAgent(c)
  BY <1>7, <1>0 DEF DeleteAgent
<1> QED BY <1>r, <1>1, <1>2, <1>3, <1>4, <1>5, <1>6, <1>7

(* A step that goes on or answers keeps the types of the requests.         *)
LEMMA GoToTyped ==
  ASSUME TypeInv, NEW r \in Requests, NEW s \in Steps \ {"idle"}, pc[r] # "idle", GoTo(r, s)
  PROVE  /\ pc' \in [Requests -> Steps] /\ env' = env /\ slot' = slot /\ reply' = reply
         /\ EnvTyped'
  BY DEF TypeInv, TypeOK, EnvTyped, GoTo

LEMMA RespondTyped ==
  ASSUME TypeInv, NEW r \in Requests, NEW code \in Codes, NEW h \in Hash, pc[r] # "idle",
         Respond(r, code, h)
  PROVE  /\ pc' \in [Requests -> Steps] /\ env' = env /\ slot' = slot
         /\ reply' \in [Requests -> Reply]
         /\ EnvTyped'
  BY DEF TypeInv, TypeOK, EnvTyped, Respond, Answer, Reply, Steps

LEMMA RowTyped ==
  ASSUME TypeInv, NEW x \in operations
  PROVE  x.chain \in Hash /\ x.seq \in Nat /\ x.env \in Envelope
  BY DEF TypeInv, TypeOK, Row

(* One submission step, action by action.                                  *)
LEMMA SubmitTyped ==
  ASSUME TypeInv, NEW r \in Requests, Submit(r), UNCHANGED registryVars, KeepHistory
  PROVE  TypeInv'
<1> DEFINE Others == /\ pc' \in [Requests -> Steps] /\ env' \in [Requests -> Envelope \cup {None}]
                     /\ slot' \in [Requests -> Nat] /\ reply' \in [Requests -> Reply]
                     /\ EnvTyped'
           Stores == /\ operations' \subseteq Row /\ receipts' \subseteq Receipt
                     /\ evidence' \in [Agents \X OpIds -> Envelope \cup {None}]
                     /\ earObjects' \in [Agents \X OpIds -> Requests \cup {None}]
                     /\ nonces' \subseteq Nonces /\ queue' \subseteq Message
<1>1. RegistryTypeOK' /\ barred' \subseteq Requests /\ orphaned' \subseteq Requests
  BY DEF TypeInv, TypeOK, RegistryTypeOK, registryVars, KeepHistory
<1>2. SUFFICES Others /\ Stores
  BY <1>1, <1>2 DEF TypeInv, TypeOK
<1>3. Genesis \in Hash
  BY DEF Genesis, Hash
<1>4. ASSUME UNCHANGED storeVars PROVE Stores
  BY <1>4 DEF storeVars, TypeInv, TypeOK
<1>5. ASSUME pc[r] # "idle", NEW s \in Steps \ {"idle"}, GoTo(r, s) PROVE Others
  BY <1>5, GoToTyped DEF TypeInv, TypeOK
<1>6. ASSUME pc[r] # "idle", NEW code \in Codes, NEW h \in Hash, Respond(r, code, h) PROVE Others
  BY <1>6, RespondTyped DEF TypeInv, TypeOK
<1>7. pc[r] # "idle" => env[r] \in Envelope /\ ObjectKey(env[r]) \in Agents \X OpIds
  BY DEF TypeInv, EnvTyped, ObjectKey, Envelope
<1> HIDE DEF Others, Stores
<1>begin. CASE Begin(r)
  <2>1. PICK b \in Bodies, h \in KnownHashes : env' = [env EXCEPT ![r] = Eor(b, h)]
    BY <1>begin DEF Begin
  <2>2. h \in Hash
    BY <1>3, ChainHashType DEF KnownHashes, Begun, TypeInv, EnvTyped
  <2>3. Eor(b, h) \in Envelope
    BY <2>2, EorType
  <2>4. env' \in [Requests -> Envelope \cup {None}] /\ slot' \in [Requests -> Nat]
    BY <1>begin, <2>1, <2>3 DEF Begin, TypeInv, TypeOK
  <2>5. pc' \in [Requests -> Steps] /\ reply' \in [Requests -> Reply]
    <3>1. Answer("VALIDATION_ERROR", Genesis) \in Reply
      BY <1>3 DEF Answer, Reply, Codes
    <3>2. reply' = reply \/ reply' = [reply EXCEPT ![r] = Answer("VALIDATION_ERROR", Genesis)]
      BY <1>begin DEF Begin
    <3>3. pc' \in [Requests -> Steps]
      BY <1>begin DEF Begin, TypeInv, TypeOK, Steps
    <3> QED BY <3>1, <3>2, <3>3 DEF TypeInv, TypeOK
  <2>6. EnvTyped'
    <3>1. pc'[r] # "idle" => env'[r] \in Envelope
      BY <2>1, <2>3 DEF TypeInv, TypeOK
    <3>2. ASSUME NEW s \in Requests, s # r PROVE pc'[s] = pc[s] /\ env'[s] = env[s]
      BY <1>begin, <2>1, <3>2 DEF Begin, TypeInv, TypeOK
    <3> QED BY <3>1, <3>2 DEF TypeInv, EnvTyped
  <2> QED BY <1>4, <1>begin, <2>4, <2>5, <2>6 DEF Begin, Others
<1>readNonce. CASE ReadNonce(r)
  BY <1>readNonce, <1>3, <1>4, <1>5, <1>6 DEF ReadNonce, Steps, Codes
<1>storeNonce. CASE StoreNonce(r)
  <2>1. Stores
    BY <1>storeNonce, <1>7 DEF StoreNonce, Stores, TypeInv, TypeOK, Envelope
  <2> QED BY <1>storeNonce, <1>5, <2>1 DEF StoreNonce, Steps
<1>agent. CASE LookUpAgent(r)
  BY <1>agent, <1>3, <1>4, <1>5, <1>6 DEF LookUpAgent, Steps, Codes
<1>key. CASE LookUpKey(r)
  BY <1>key, <1>3, <1>4, <1>5, <1>6 DEF LookUpKey, Steps, Codes
<1>chain. CASE CheckChain(r)
  <2>1. ASSUME NEW h \in Hash, NEW n \in Nat, Matches(r, h, n) PROVE Others
    <3>1. CASE env[r].prev = h
      BY <1>chain, <2>1, <3>1 DEF CheckChain, Matches, Others, TypeInv, TypeOK, EnvTyped, Steps
    <3>2. CASE env[r].prev # h
      BY <1>chain, <1>6, <2>1, <3>2 DEF CheckChain, Matches, Codes
    <3> QED BY <3>1, <3>2
  <2>2. CASE Matches(r, Genesis, 1)
    BY <2>1, <2>2, <1>3, <1>4, <1>chain DEF CheckChain
  <2>3. ASSUME NEW x \in operations, Matches(r, x.chain, x.seq + 1) PROVE Others
    BY <2>1, <2>3, RowTyped
  <2> QED BY <2>2, <2>3, <1>4, <1>chain DEF CheckChain
<1>payload. CASE StorePayload(r)
  <2>1. Stores
    BY <1>payload, <1>7 DEF StorePayload, Stores, TypeInv, TypeOK
  <2> QED BY <1>payload, <1>5, <2>1 DEF StorePayload, Steps
<1>receipt. CASE StoreReceipt(r)
  <2>1. Stores
    BY <1>receipt, <1>7 DEF StoreReceipt, Stores, TypeInv, TypeOK
  <2> QED BY <1>receipt, <1>5, <2>1 DEF StoreReceipt, Steps
<1>commit. CASE InsertCommits(r)
  <2>1. NewRow(r) \in Row /\ [id |-> r, op |-> env[r].op] \in Receipt
    BY <1>commit, <1>7, ChainHashType
    DEF InsertCommits, NewRow, Row, Receipt, TypeInv, TypeOK, Envelope
  <2>2. Stores
    BY <1>commit, <2>1 DEF InsertCommits, Stores, TypeInv, TypeOK
  <2> QED BY <1>commit, <1>3, <1>5, <1>6, <2>2 DEF InsertCommits, Steps, Codes
<1>refused. CASE InsertRefused(r)
  BY <1>refused, <1>3, <1>4, <1>5, <1>6 DEF InsertRefused, Steps, Codes
<1>winner. CASE ReadWinner(r)
  <2>1. Stores BY <1>winner, <1>4 DEF ReadWinner
  <2>2. CASE Respond(r, "CONFLICT_WITHOUT_ROW", Genesis)
    BY <1>winner, <1>3, <1>6, <2>1, <2>2 DEF ReadWinner, Codes
  <2>3. ASSUME NEW x \in operations, Respond(r, "PREV_HASH_MISMATCH", x.chain) PROVE Others
    BY <1>winner, <1>6, <2>3, RowTyped DEF ReadWinner, Codes
  <2> QED BY <1>winner, <2>1, <2>2, <2>3 DEF ReadWinner
<1>enqueue. CASE Enqueue(r)
  <2>1. ChainHash(env[r]) \in Hash
    BY <1>enqueue, <1>7, ChainHashType DEF Enqueue
  <2>2. [id |-> r, op |-> env[r].op, agent |-> env[r].agent] \in Message
    BY <1>enqueue, <1>7 DEF Enqueue, Message, Envelope
  <2>3. Stores
    BY <1>enqueue, <2>2 DEF Enqueue, Stores, TypeInv, TypeOK
  <2> QED BY <1>enqueue, <1>6, <2>1, <2>3 DEF Enqueue, Codes
<1>abort. CASE Abort(r)
  BY <1>abort, <1>3, <1>4, <1>6 DEF Abort, Codes
<1> QED
  BY <1>begin, <1>readNonce, <1>storeNonce, <1>agent, <1>key, <1>chain, <1>payload, <1>receipt,
     <1>commit, <1>refused, <1>winner, <1>enqueue, <1>abort DEF Submit

LEMMA NextTyped == TypeInv /\ [Next]_vars => TypeInv'
<1> SUFFICES ASSUME TypeInv, [Next]_vars PROVE TypeInv'
  OBVIOUS
<1>1. ASSUME NEW r \in Requests, Submit(r), UNCHANGED registryVars, KeepHistory PROVE TypeInv'
  BY <1>1, SubmitTyped
<1>2. ASSUME NEW n \in Nonces, NonceExpires(n), UNCHANGED registryVars, KeepHistory PROVE TypeInv'
  BY <1>2 DEF NonceExpires, requestVars, registryVars, KeepHistory, TypeInv, TypeOK,
              RegistryTypeOK, EnvTyped
<1>3. ASSUME NEW c \in Callers, Administer(c), KeepHistory PROVE TypeInv'
  <2>1. RegistryTypeOK'
    BY <1>3, RegistryTyped DEF Administer, DeleteAgentRows, TypeInv, TypeOK
  <2>2. CASE DeleteAgentRows(c)
    BY <2>1, <2>2, <1>3 DEF DeleteAgentRows, requestVars, KeepHistory, TypeInv, TypeOK, EnvTyped
  <2>3. CASE UNCHANGED <<storeVars, requestVars>>
    BY <2>1, <2>3, <1>3 DEF storeVars, requestVars, KeepHistory, TypeInv, TypeOK, EnvTyped
  <2> QED BY <1>3, <2>2, <2>3 DEF Administer
<1>4. CASE UNCHANGED vars
  BY <1>4 DEF vars, historyVars, storeVars, requestVars, registryVars, TypeInv, TypeOK, RegistryTypeOK, EnvTyped
<1> QED BY <1>1, <1>2, <1>3, <1>4 DEF Next

(* Every variable keeps its type.                                          *)
THEOREM TypeCorrect == Spec => []TypeOK
<1>1. TypeInv => TypeOK BY DEF TypeInv
<1> QED BY <1>1, InitTyped, NextTyped, PTL DEF Spec
---------------------------------------------------------------------------
(* The inductive invariant, as what it says of the tables, of the queue    *)
(* and of each request by itself.                                          *)

RowsInv ==
  /\ RowsHashed /\ OpsUnique /\ SeqsUnique /\ RowsHaveAgents /\ RowsLinked
  /\ ReceiptsUnique /\ ReceiptsHaveRows

Recorded(r) ==
  [id |-> r, op |-> env[r].op] \in receipts /\ NewRow(r) \in operations

NamesAnotherHead(r) ==
  /\ reply[r].hash # env[r].prev
  /\ \/ reply[r].hash = Genesis
     \/ \E x \in Rows(env[r].agent) : x.chain = reply[r].hash

PlaceInv(r) ==
  /\ pc[r] \in Placed => slot[r] = Len(env[r].prev) + 1
  /\ pc[r] \in LookedUp => Present(env[r].agent) \/ env[r].agent \in deleted
  /\ /\ pc[r] \in {"payload", "receipt", "insert"}
     /\ env[r].agent \notin reborn /\ Present(env[r].agent)
     => Extends(env[r].prev, env[r].agent)
  /\ pc[r] = "winner" /\ r \notin orphaned => SeqTaken(r)
  /\ r \in orphaned => pc[r] # "idle" /\ env[r].agent \in deleted

AnswerInv(r) ==
  /\ reply[r].code # "none" => pc[r] = "done"
  /\ reply[r].code = "accepted" => reply[r].hash = ChainHash(env[r])
  /\ reply[r].code = "PREV_HASH_MISMATCH" /\ env[r].agent \notin deleted => NamesAnotherHead(r)
  /\ (pc[r] = "enqueue" \/ reply[r].code = "accepted") /\ env[r].agent \notin deleted
     => Recorded(r)

RequestInv(r) == PlaceInv(r) /\ AnswerInv(r)

AllInv == TypeInv /\ RowsInv /\ MessagesAnswered /\ \A r \in Requests : RequestInv(r)

LEMMA IInvIsAllInv == IInv <=> AllInv
<1>1. ASSUME orphaned \subseteq Requests
      PROVE  (SlotsHashed /\ LookedUpExisted /\ InsertsLinked /\ WinnersStored /\ OrphansDeleted)
             <=> \A r \in Requests : PlaceInv(r)
  BY <1>1 DEF SlotsHashed, LookedUpExisted, InsertsLinked, WinnersStored, OrphansDeleted, PlaceInv
<1>2. (AnswersMatch /\ MismatchNamesAnotherHead /\ CommittedRecorded)
      <=> \A r \in Requests : AnswerInv(r)
  BY DEF AnswersMatch, MismatchNamesAnotherHead, CommittedRecorded, AnswerInv, Recorded,
         NamesAnotherHead
<1> QED BY <1>1, <1>2 DEF IInv, AllInv, TypeInv, TypeOK, RowsInv, RequestInv

LEMMA InitAllInv == Init => AllInv
  BY InitTyped
  DEF Init, AllInv, RowsInv, RowsHashed, OpsUnique, SeqsUnique, RowsHaveAgents, RowsLinked,
      ReceiptsUnique, ReceiptsHaveRows, MessagesAnswered, RequestInv, PlaceInv, AnswerInv,
      Placed, LookedUp, Answer

(* Where a request stands after it went on, or answered.                   *)
LEMMA GoToEffect ==
  ASSUME TypeInv, NEW r \in Requests, NEW s, GoTo(r, s)
  PROVE  /\ pc'[r] = s /\ \A t \in Requests \ {r} : pc'[t] = pc[t]
         /\ env' = env /\ slot' = slot /\ reply' = reply
  BY DEF TypeInv, TypeOK, GoTo

LEMMA RespondEffect ==
  ASSUME TypeInv, NEW r \in Requests, NEW code, NEW h, Respond(r, code, h)
  PROVE  /\ pc'[r] = "done" /\ reply'[r].code = code /\ reply'[r].hash = h
         /\ \A t \in Requests \ {r} : pc'[t] = pc[t] /\ reply'[t] = reply[t]
         /\ env' = env /\ slot' = slot
  BY DEF TypeInv, TypeOK, Respond, Answer

(* A request that does not move keeps its part of the invariant while rows *)
(* and receipts are only added and the registry stays as it is.            *)
LEMMA OthersKeep ==
  ASSUME NEW t \in Requests, RequestInv(t), UNCHANGED <<registryVars, orphaned>>,
         operations \subseteq operations', receipts \subseteq receipts',
         pc'[t] = pc[t], env'[t] = env[t], slot'[t] = slot[t], reply'[t] = reply[t]
  PROVE  RequestInv(t)'
<1> USE DEF registryVars, Rows
<1>1. PlaceInv(t)'
  BY DEF RequestInv, PlaceInv, Present, Extends, SeqTaken
<1>2. AnswerInv(t)'
  BY DEF RequestInv, AnswerInv, NamesAnotherHead, Recorded, NewRow
<1> QED BY <1>1, <1>2 DEF RequestInv

(* The steps of a submission that leave the tables alone: it is enough to  *)
(* look at the request that moves, and at the queue if that changes.       *)
LEMMA QuietStep ==
  ASSUME AllInv, TypeInv', NEW r \in Requests, UNCHANGED <<registryVars, orphaned>>,
         UNCHANGED <<operations, receipts>>, queue' = queue \/ MessagesAnswered',
         pc[r] # "done",
         \A t \in Requests \ {r} : /\ pc'[t] = pc[t] /\ env'[t] = env[t]
                                   /\ slot'[t] = slot[t] /\ reply'[t] = reply[t],
         RequestInv(r)'
  PROVE  AllInv'
<1>1. RowsInv'
  BY DEF AllInv, RowsInv, RowsHashed, OpsUnique, SeqsUnique, RowsHaveAgents, RowsLinked,
         ReceiptsUnique, ReceiptsHaveRows, registryVars, Present, Extends, Rows
<1>2. MessagesAnswered'
  BY DEF AllInv, MessagesAnswered, TypeInv, TypeOK, Message
<1>3. ASSUME NEW t \in Requests PROVE RequestInv(t)'
  BY OthersKeep DEF AllInv
<1> QED BY <1>1, <1>2, <1>3 DEF AllInv

(* A request whose winner was deleted stays one.                           *)
LEMMA OrphanKept ==
  ASSUME AllInv, NEW r \in Requests, UNCHANGED <<registryVars, orphaned>>
  PROVE  r \in orphaned' => /\ pc[r] # "idle"
                            /\ env'[r] = env[r] => env'[r].agent \in deleted'
  BY DEF AllInv, RequestInv, PlaceInv, registryVars

(* Going on changes only the step: what the next step needs must be known. *)
LEMMA GoingOn ==
  ASSUME AllInv, TypeInv', NEW r \in Requests, NEW s \in Steps \ {"idle", "done", "enqueue"},
         GoTo(r, s), pc[r] \notin {"idle", "done"},
         UNCHANGED <<registryVars, orphaned>>, UNCHANGED <<operations, receipts, queue>>,
         s \in Placed => pc[r] \in Placed,
         s \in LookedUp => pc[r] \in LookedUp \/ Present(env[r].agent),
         s \in {"payload", "receipt", "insert"} => pc[r] \in {"payload", "receipt", "insert"},
         s = "winner" => SeqTaken(r)
  PROVE  AllInv'
<1>1. /\ pc'[r] = s /\ env' = env /\ slot' = slot /\ reply' = reply
      /\ \A t \in Requests \ {r} : pc'[t] = pc[t]
  BY GoToEffect DEF AllInv
<1>2. RequestInv(r) /\ reply[r].code = "none"
  BY DEF AllInv, RequestInv, AnswerInv
<1>3. PlaceInv(r)'
  BY <1>1, <1>2 DEF RequestInv, PlaceInv, registryVars, Present, Extends, Rows, SeqTaken
<1>4. AnswerInv(r)'
  BY <1>1, <1>2 DEF RequestInv, AnswerInv
<1> QED BY <1>1, <1>3, <1>4, QuietStep DEF RequestInv

(* Refusing needs nothing but a good hash in a PREV_HASH_MISMATCH.         *)
LEMMA Refusing ==
  ASSUME AllInv, TypeInv', NEW r \in Requests, NEW code \in Codes \ {"none", "accepted"}, NEW h,
         Respond(r, code, h), pc[r] # "done",
         UNCHANGED <<registryVars, orphaned>>, UNCHANGED <<operations, receipts, queue>>,
         code = "PREV_HASH_MISMATCH" /\ env[r].agent \notin deleted =>
           /\ h # env[r].prev
           /\ h = Genesis \/ \E x \in Rows(env[r].agent) : x.chain = h
  PROVE  AllInv'
<1>1. /\ pc'[r] = "done" /\ reply'[r].code = code /\ reply'[r].hash = h
      /\ env' = env /\ slot' = slot
      /\ \A t \in Requests \ {r} : pc'[t] = pc[t] /\ reply'[t] = reply[t]
  BY RespondEffect DEF AllInv
<1>2. PlaceInv(r)'
  BY <1>1, OrphanKept DEF PlaceInv, Placed, LookedUp
<1>3. AnswerInv(r)'
  BY <1>1 DEF AnswerInv, NamesAnotherHead, registryVars, Rows
<1> QED BY <1>1, <1>2, <1>3, QuietStep DEF RequestInv

(* The row a request found to be the latest of its agent.                  *)
LEMMA LatestRow ==
  ASSUME AllInv, NEW x \in operations, NEW a, IsLatest(x, a)
  PROVE  /\ x.env.agent = a /\ x.chain = Append(x.env.prev, [op |-> x.env.op, payload |-> x.env.payload])
         /\ x.seq = Len(x.env.prev) + 1 /\ x.env.prev \in Hash /\ Len(x.chain) = x.seq
  BY RowTyped DEF AllInv, RowsInv, RowsHashed, IsLatest, Rows, ChainHash, Envelope, Hash

(* The comparison: a request that passes is linked to what it read.        *)
LEMMA CheckChainStep ==
  ASSUME AllInv, TypeInv', NEW r \in Requests, CheckChain(r), UNCHANGED <<registryVars, orphaned>>
  PROVE  AllInv'
<1> USE DEF storeVars
<1>1. ASSUME NEW h, NEW n, Matches(r, h, n), n = Len(h) + 1,
             h = Genesis \/ \E x \in Rows(env[r].agent) : x.chain = h
      PROVE  AllInv'
  <2>1. CASE env[r].prev # h
    <3>1. Respond(r, "PREV_HASH_MISMATCH", h) BY <1>1, <2>1 DEF Matches
    <3> QED BY <1>1, <2>1, <3>1, Refusing DEF CheckChain, Codes
  <2>2. CASE env[r].prev = h
    <3>1. /\ pc'[r] = "payload" /\ slot'[r] = n /\ env' = env /\ reply' = reply
          /\ \A t \in Requests \ {r} : pc'[t] = pc[t] /\ slot'[t] = slot[t]
      BY <1>1, <2>2 DEF Matches, AllInv, TypeInv, TypeOK
    <3>2. RequestInv(r) /\ reply[r].code = "none"
      BY DEF AllInv, RequestInv, AnswerInv, CheckChain
    <3>3. PlaceInv(r)'
      BY <1>1, <2>2, <3>1, <3>2
      DEF CheckChain, RequestInv, PlaceInv, LookedUp, Extends, registryVars, Present, Rows
    <3>4. AnswerInv(r)'
      BY <3>1, <3>2 DEF AnswerInv
    <3> QED BY <3>1, <3>3, <3>4, QuietStep DEF CheckChain, RequestInv
  <2> QED BY <2>1, <2>2
<1>2. CASE Matches(r, Genesis, 1)
  BY <1>1, <1>2 DEF Genesis
<1>3. ASSUME NEW x \in operations, IsLatest(x, env[r].agent), Matches(r, x.chain, x.seq + 1)
      PROVE  AllInv'
  BY <1>1, <1>3, LatestRow DEF IsLatest
<1> QED BY <1>2, <1>3 DEF CheckChain

(* The winner has a longer chain than the hash the loser was built on.     *)
LEMMA ReadWinnerStep ==
  ASSUME AllInv, TypeInv', NEW r \in Requests, ReadWinner(r), UNCHANGED <<registryVars, orphaned>>
  PROVE  AllInv'
<1> USE DEF storeVars
<1>1. CASE Respond(r, "CONFLICT_WITHOUT_ROW", Genesis)
  BY <1>1, Refusing DEF ReadWinner, Codes
<1>2. ASSUME NEW x \in operations, IsLatest(x, env[r].agent),
             Respond(r, "PREV_HASH_MISMATCH", x.chain)
      PROVE  AllInv'
  <2>1. env[r].agent \notin deleted => x.chain # env[r].prev
    <3> SUFFICES ASSUME env[r].agent \notin deleted PROVE Len(x.chain) # Len(env[r].prev)
      OBVIOUS
    <3>1. PICK y \in Rows(env[r].agent) : y.seq = slot[r]
      BY DEF AllInv, RequestInv, PlaceInv, ReadWinner, SeqTaken
    <3>2. slot[r] = Len(env[r].prev) + 1
      BY DEF AllInv, RequestInv, PlaceInv, ReadWinner, Placed
    <3>3. y.seq <= x.seq
      BY <1>2, <3>1 DEF IsLatest
    <3>4. env[r].prev \in Hash
      BY DEF AllInv, TypeInv, EnvTyped, ReadWinner, Envelope
    <3>5. Len(x.chain) = x.seq
      BY <1>2, LatestRow
    <3>6. Len(env[r].prev) \in Nat /\ x.seq \in Nat /\ y.seq \in Nat
      BY <3>1, <3>4, RowTyped DEF Hash, AllInv, Rows
    <3> QED BY <3>1, <3>2, <3>3, <3>5, <3>6
  <2>2. x \in Rows(env[r].agent)
    BY <1>2 DEF IsLatest
  <2> QED BY <1>2, <2>1, <2>2, Refusing DEF ReadWinner, Codes
<1> QED BY <1>1, <1>2 DEF ReadWinner

LEMMA BeginStep ==
  ASSUME AllInv, TypeInv', NEW r \in Requests, Begin(r), UNCHANGED <<registryVars, orphaned>>
  PROVE  AllInv'
<1>1. /\ pc'[r] \in {"readNonce", "done"} /\ reply'[r].code \in {"none", "VALIDATION_ERROR"}
      /\ reply'[r].code # "none" => pc'[r] = "done"
  <2>1. reply[r].code = "none"
    BY DEF AllInv, RequestInv, AnswerInv, Begin
  <2>2. CASE pc' = [pc EXCEPT ![r] = "readNonce"] /\ UNCHANGED reply
    BY <2>1, <2>2 DEF AllInv, TypeInv, TypeOK
  <2>3. CASE /\ pc' = [pc EXCEPT ![r] = "done"]
             /\ reply' = [reply EXCEPT ![r] = Answer("VALIDATION_ERROR", Genesis)]
    BY <2>3 DEF AllInv, TypeInv, TypeOK, Answer
  <2> QED BY <2>2, <2>3 DEF Begin
<1>2. RequestInv(r)'
  <2>1. r \notin orphaned' BY OrphanKept DEF Begin
  <2> QED BY <1>1, <2>1 DEF RequestInv, PlaceInv, AnswerInv, Placed, LookedUp
<1>3. \A t \in Requests \ {r} : /\ pc'[t] = pc[t] /\ env'[t] = env[t]
                                /\ slot'[t] = slot[t] /\ reply'[t] = reply[t]
  BY DEF Begin, AllInv, TypeInv, TypeOK
<1> QED BY <1>2, <1>3, QuietStep DEF Begin, storeVars

(* The commit: its row is the next link of the chain it was compared with, *)
(* since the two constraints and the foreign key hold at this moment.      *)
LEMMA CommitRows ==
  ASSUME AllInv, TypeInv', NEW r \in Requests, InsertCommits(r), UNCHANGED <<registryVars, orphaned>>
  PROVE  RowsInv'
<1> DEFINE new == NewRow(r)
<1>1. /\ operations' = operations \cup {new} /\ new.env = env[r] /\ new.seq = slot[r]
      /\ new.chain = ChainHash(env[r])
      /\ receipts' = receipts \cup {[id |-> r, op |-> env[r].op]}
  BY DEF InsertCommits, NewRow
<1>2. slot[r] = Len(env[r].prev) + 1
  BY DEF AllInv, RequestInv, PlaceInv, Placed, InsertCommits
<1>3. env[r].agent \notin reborn => Extends(env[r].prev, env[r].agent)
  BY DEF AllInv, RequestInv, PlaceInv, InsertCommits
<1>4. /\ \A x \in operations : x.env.op # env[r].op
      /\ \A x \in operations : ~(x.env.agent = env[r].agent /\ x.seq = slot[r])
      /\ Present(env[r].agent)
  BY DEF InsertCommits, OpTaken, SeqTaken, Rows
<1> HIDE DEF new
<1>5. RowsHashed' /\ OpsUnique' /\ SeqsUnique'
  BY <1>1, <1>2, <1>4 DEF AllInv, RowsInv, RowsHashed, OpsUnique, SeqsUnique
<1>6. RowsHaveAgents'
  BY <1>1, <1>4 DEF AllInv, RowsInv, RowsHaveAgents, registryVars, Present
<1>7. RowsLinked'
  <2>1. ASSUME NEW h, NEW a, Extends(h, a) PROVE Extends(h, a)'
    BY <1>1, <2>1 DEF Extends, Rows
  <2> QED BY <1>1, <1>3, <2>1 DEF AllInv, RowsInv, RowsLinked, registryVars
<1>8. ReceiptsUnique' /\ ReceiptsHaveRows'
  BY <1>1, <1>4 DEF AllInv, RowsInv, ReceiptsUnique, ReceiptsHaveRows
<1> QED BY <1>5, <1>6, <1>7, <1>8 DEF RowsInv

LEMMA CommitStep ==
  ASSUME AllInv, TypeInv', NEW r \in Requests, InsertCommits(r), UNCHANGED <<registryVars, orphaned>>
  PROVE  AllInv'
<1>1. /\ env' = env /\ slot' = slot /\ pc'[r] \in {"enqueue", "done"}
      /\ \A t \in Requests \ {r} : pc'[t] = pc[t] /\ reply'[t] = reply[t]
      /\ reply'[r].code \in {"none", "INTERNAL_ERROR"}
      /\ reply'[r].code # "none" => pc'[r] = "done"
  <2>1. reply[r].code = "none"
    BY DEF AllInv, RequestInv, AnswerInv, InsertCommits
  <2>2. CASE GoTo(r, "enqueue")
    BY <2>1, <2>2, GoToEffect DEF AllInv
  <2>3. CASE Respond(r, "INTERNAL_ERROR", Genesis)
    BY <2>3, RespondEffect DEF AllInv
  <2> QED BY <2>2, <2>3 DEF InsertCommits
<1>2. Recorded(r)'
  BY <1>1 DEF Recorded, NewRow, InsertCommits
<1>3. PlaceInv(r)'
  <2>1. slot[r] = Len(env[r].prev) + 1 /\ Present(env[r].agent)
    BY DEF AllInv, RequestInv, PlaceInv, Placed, InsertCommits
  <2> QED BY <1>1, <2>1, OrphanKept DEF PlaceInv, registryVars, Present
<1>4. AnswerInv(r)'
  BY <1>1, <1>2 DEF AnswerInv
<1>5. ASSUME NEW t \in Requests \ {r} PROVE RequestInv(t)'
  <2>1. operations \subseteq operations' /\ receipts \subseteq receipts'
    BY DEF InsertCommits
  <2> QED BY <1>1, <2>1, OthersKeep DEF AllInv
<1>6. MessagesAnswered'
  BY <1>1 DEF AllInv, MessagesAnswered, InsertCommits, TypeInv, TypeOK, Message
<1> QED BY <1>3, <1>4, <1>5, <1>6, CommitRows DEF AllInv, RequestInv

LEMMA EnqueueStep ==
  ASSUME AllInv, TypeInv', NEW r \in Requests, Enqueue(r), UNCHANGED <<registryVars, orphaned>>
  PROVE  AllInv'
<1>1. /\ pc'[r] = "done" /\ reply'[r].code = "accepted" /\ reply'[r].hash = ChainHash(env[r])
      /\ env' = env /\ slot' = slot
      /\ \A t \in Requests \ {r} : pc'[t] = pc[t] /\ reply'[t] = reply[t]
  BY RespondEffect DEF AllInv, Enqueue
<1>2. env[r].agent \notin deleted => Recorded(r)
  BY DEF AllInv, RequestInv, AnswerInv, Enqueue
<1>3. MessagesAnswered'
  <2>1. ASSUME NEW m \in queue PROVE m.id \in Requests \ {r}
    BY <2>1 DEF AllInv, MessagesAnswered, TypeInv, TypeOK, Message, Enqueue
  <2> QED BY <1>1, <2>1 DEF AllInv, MessagesAnswered, Enqueue
<1>4. PlaceInv(r)'
  BY <1>1, OrphanKept DEF PlaceInv, Placed, LookedUp
<1>5. AnswerInv(r)'
  BY <1>1, <1>2 DEF AnswerInv, Recorded, NewRow, Enqueue, registryVars
<1> QED BY <1>1, <1>3, <1>4, <1>5, QuietStep DEF Enqueue, RequestInv

LEMMA SubmitKeepsAllInv ==
  ASSUME AllInv, TypeInv', NEW r \in Requests, Submit(r), UNCHANGED <<registryVars, orphaned>>
  PROVE  AllInv'
<1> USE DEF storeVars, Steps, Codes, Placed, LookedUp
<1>1. CASE ReadNonce(r) BY <1>1, GoingOn, Refusing DEF ReadNonce
<1>2. CASE StoreNonce(r) BY <1>2, GoingOn DEF StoreNonce
<1>3. CASE LookUpAgent(r) BY <1>3, GoingOn, Refusing DEF LookUpAgent, Present
<1>4. CASE LookUpKey(r) BY <1>4, GoingOn, Refusing DEF LookUpKey
<1>5. CASE StorePayload(r) BY <1>5, GoingOn DEF StorePayload
<1>6. CASE StoreReceipt(r) BY <1>6, GoingOn DEF StoreReceipt
<1>7. CASE InsertRefused(r) BY <1>7, GoingOn, Refusing DEF InsertRefused
<1>8. CASE Abort(r) BY <1>8, Refusing DEF Abort
<1> QED
  BY <1>1, <1>2, <1>3, <1>4, <1>5, <1>6, <1>7, <1>8, BeginStep, CheckChainStep, ReadWinnerStep,
     CommitStep, EnqueueStep DEF Submit

(* What an administrative request changes of the agents: nothing that the  *)
(* invariant looks at, or one registration, or one deletion.               *)
LEMMA RegistryEffect ==
  ASSUME TypeInv, NEW c \in Callers,
         Arrive(c) \/ Examine(c) \/ FreezeAgent(c) \/ UnfreezeAgent(c) \/ RevokeKey(c) \/ FailCall(c)
  PROVE  UNCHANGED <<deleted, reborn>> /\ \A a \in Agents : Present(a)' <=> Present(a)
<1>1. ASSUME NEW a, NEW s \in {"active", "frozen"}, SetStatus(a, s)
      PROVE  \A b \in Agents : Present(b)' <=> Present(b)
  BY <1>1 DEF SetStatus, Present, TypeInv, TypeOK, RegistryTypeOK
<1>2. CASE FreezeAgent(c) BY <1>1, <1>2 DEF FreezeAgent
<1>3. CASE UnfreezeAgent(c) BY <1>1, <1>3 DEF UnfreezeAgent
<1> QED BY <1>2, <1>3 DEF Arrive, Examine, RevokeKey, FailCall, Present

LEMMA EnvAgent ==
  ASSUME TypeInv, NEW r \in Requests, pc[r] # "idle" PROVE env[r].agent \in Agents
  BY DEF TypeInv, EnvTyped, Envelope

LEMMA RowAgent == ASSUME TypeInv, NEW x \in operations PROVE x.env.agent \in Agents
  BY RowTyped DEF Envelope

(* The steps that leave the tables and the requests alone.  A registration *)
(* is of an agent that no request has looked up unless it was deleted.     *)
LEMMA QuietRegistry ==
  ASSUME AllInv, TypeInv', UNCHANGED <<operations, receipts, queue, requestVars, orphaned>>,
         deleted' = deleted, reborn \subseteq reborn',
         \A a \in Agents : Present(a) => Present(a)',
         \A a \in Agents : Present(a)' /\ ~Present(a) /\ a \in deleted => a \in reborn'
  PROVE  AllInv'
<1> USE DEF requestVars
<1>1. RowsInv'
  BY RowAgent
  DEF AllInv, RowsInv, RowsHashed, OpsUnique, SeqsUnique, RowsHaveAgents, RowsLinked,
      ReceiptsUnique, ReceiptsHaveRows, Extends, Rows
<1>2. MessagesAnswered'
  BY DEF AllInv, MessagesAnswered
<1>3. ASSUME NEW r \in Requests PROVE PlaceInv(r)'
  <2>1. PlaceInv(r) BY DEF AllInv, RequestInv
  <2>2. CASE pc[r] \notin LookedUp
    BY <2>1, <2>2 DEF PlaceInv, LookedUp, Placed
  <2>3. CASE pc[r] \in LookedUp
    <3>1. env[r].agent \in Agents
      BY <2>3, EnvAgent DEF AllInv, LookedUp
    <3> QED BY <2>1, <2>3, <3>1 DEF PlaceInv, Extends, SeqTaken, Rows
  <2> QED BY <2>2, <2>3
<1>4. ASSUME NEW r \in Requests PROVE AnswerInv(r)'
  BY DEF AllInv, RequestInv, AnswerInv, NamesAnotherHead, Recorded, NewRow, Rows
<1> QED BY <1>1, <1>2, <1>3, <1>4 DEF AllInv, RequestInv

(* A deletion takes the rows of one agent, and the receipts of those rows. *)
LEMMA DeleteStep ==
  ASSUME AllInv, TypeInv', NEW c \in Callers, DeleteAgentRows(c), KeepHistory
  PROVE  AllInv'
<1>0. PICK a : a = call[c].cmd.agent
  OBVIOUS
<1>1. /\ a \in Agents /\ agents' = [agents EXCEPT ![a] = "absent"] /\ reborn' = reborn
      /\ deleted \subseteq deleted' /\ (Present(a) => a \in deleted')
      /\ operations' = operations \ Rows(a)
      /\ receipts' = {y \in receipts : \A x \in Rows(a) : x.env.op # y.op}
      /\ UNCHANGED <<queue, pc, env, slot, reply>>
  BY <1>0, RegistryAssumption
  DEF DeleteAgentRows, DeleteAgent, Writes, requestVars, AllInv, TypeInv, TypeOK, RegistryTypeOK,
      Command
<1>2. ~Present(a)' /\ \A b \in Agents \ {a} : Present(b)' <=> Present(b)
  BY <1>1 DEF Present, AllInv, TypeInv, TypeOK, RegistryTypeOK
<1>3. /\ \A x \in operations' : x \in operations /\ x.env.agent # a
      /\ \A x \in operations : x.env.agent # a => x \in operations'
  BY <1>1 DEF Rows
<1>4. ~Present(a) => Rows(a) = {}
  BY DEF AllInv, RowsInv, RowsHaveAgents, Rows
<1>5. ASSUME NEW b, b # a PROVE Rows(b)' = Rows(b)
  BY <1>3, <1>5 DEF Rows
(* Requests between a conflict and the winning row lose the latter.         *)
<1>o. ASSUME NEW r \in Requests
      PROVE  /\ r \in orphaned' => r \in orphaned \/ pc[r] = "winner"
             /\ r \in orphaned' => r \in orphaned \/ (env[r].agent = a /\ Present(a))
             /\ r \in orphaned => r \in orphaned'
             /\ pc[r] = "winner" /\ env[r].agent = a /\ Present(a) => r \in orphaned'
  <2>1. orphaned' = orphaned \cup {t \in Requests : /\ pc[t] = "winner"
                                                   /\ Present(env[t].agent)
                                                   /\ agents'[env[t].agent] = "absent"}
    BY DEF KeepHistory
  <2>2. pc[r] = "winner" => env[r].agent \in Agents
    BY EnvAgent DEF AllInv
  <2>3. \A b \in Agents : Present(b) /\ agents'[b] = "absent" <=> Present(b) /\ b = a
    BY <1>1, <1>2 DEF Present, AllInv, TypeInv, TypeOK, RegistryTypeOK
  <2> QED BY <2>1, <2>2, <2>3
(* Operation ids are unique: the receipts of other agents' rows stay.      *)
<1>6. ASSUME NEW x \in operations', NEW y \in receipts, y.op = x.env.op PROVE y \in receipts'
  BY <1>1, <1>3, <1>6 DEF AllInv, RowsInv, OpsUnique, Rows
<1>7. ASSUME NEW y \in receipts' PROVE y \in receipts /\ \E x \in operations' : x.env.op = y.op
  BY <1>1, <1>7 DEF AllInv, RowsInv, ReceiptsHaveRows
<1>8. RowsInv'
  <2>1. RowsHaveAgents'
    BY <1>2, <1>3, RowAgent DEF AllInv, RowsInv, RowsHaveAgents
  <2>2. RowsLinked'
    BY <1>1, <1>3, <1>5 DEF AllInv, RowsInv, RowsLinked, Extends
  <2>3. RowsHashed' /\ OpsUnique' /\ SeqsUnique'
    BY <1>3 DEF AllInv, RowsInv, RowsHashed, OpsUnique, SeqsUnique
  <2>4. ReceiptsUnique' /\ ReceiptsHaveRows'
    BY <1>7 DEF AllInv, RowsInv, ReceiptsUnique, ReceiptsHaveRows
  <2> QED BY <2>1, <2>2, <2>3, <2>4 DEF RowsInv
<1>9. ASSUME NEW r \in Requests PROVE PlaceInv(r)'
  <2>1. PlaceInv(r) BY DEF AllInv, RequestInv
  <2>2. CASE pc[r] \notin LookedUp
    BY <1>1, <1>o, <2>1, <2>2 DEF PlaceInv, LookedUp, Placed
  <2>3. CASE pc[r] \in LookedUp
    <3>1. env[r].agent \in Agents
      BY <2>3, EnvAgent DEF AllInv, LookedUp
    <3>2. CASE env[r].agent = a
      BY <1>1, <1>2, <1>4, <1>o, <2>1, <2>3, <3>2 DEF PlaceInv, SeqTaken
    <3>3. CASE env[r].agent # a
      BY <1>1, <1>2, <1>5, <1>o, <2>1, <2>3, <3>1, <3>3 DEF PlaceInv, Extends, SeqTaken
    <3> QED BY <3>2, <3>3
  <2> QED BY <2>2, <2>3
<1>10. ASSUME NEW r \in Requests PROVE AnswerInv(r)'
  <2>1. AnswerInv(r) BY DEF AllInv, RequestInv
  <2>2. CASE env[r].agent = a /\ Present(a)
    BY <1>1, <2>1, <2>2 DEF AnswerInv
  <2>3. CASE env[r].agent = a /\ ~Present(a)
    <3>1. operations' = operations /\ receipts' = receipts
      BY <1>1, <1>4, <2>3
    <3> QED BY <1>1, <2>1, <3>1 DEF AnswerInv, NamesAnotherHead, Recorded, NewRow, Rows
  <2>4. CASE env[r].agent # a
    <3>1. ASSUME Recorded(r) PROVE Recorded(r)'
      <4>1. NewRow(r) \in operations' /\ NewRow(r).env = env[r] /\ NewRow(r)' = NewRow(r)
        BY <1>1, <1>3, <2>4, <3>1 DEF Recorded, NewRow
      <4>2. [id |-> r, op |-> env[r].op] \in receipts'
        BY <1>6, <3>1, <4>1 DEF Recorded
      <4> QED BY <1>1, <4>1, <4>2 DEF Recorded
    <3>2. NamesAnotherHead(r) => NamesAnotherHead(r)'
      BY <1>1, <1>5, <2>4 DEF NamesAnotherHead
    <3> QED BY <1>1, <2>1, <3>1, <3>2 DEF AnswerInv
  <2> QED BY <2>2, <2>3, <2>4
<1>11. MessagesAnswered'
  BY <1>1 DEF AllInv, MessagesAnswered
<1> QED BY <1>8, <1>9, <1>10, <1>11 DEF AllInv, RequestInv

LEMMA AdministerKeepsAllInv ==
  ASSUME AllInv, TypeInv', NEW c \in Callers, Administer(c), KeepHistory
  PROVE  AllInv'
<1>o. (\A a \in Agents : Present(a) => Present(a)') => orphaned' = orphaned
  <2>1. \A r \in Requests : pc[r] = "winner" => env[r].agent \in Agents
    BY EnvAgent DEF AllInv
  <2> QED BY <2>1 DEF KeepHistory, Present
<1>1. CASE DeleteAgentRows(c)
  BY <1>1, DeleteStep
<1>2. CASE RegisterAgent(c) /\ UNCHANGED <<storeVars, requestVars>>
  <2>1. call[c].cmd.agent \in Agents
    BY RegistryAssumption DEF AllInv, TypeInv, TypeOK, RegistryTypeOK, Command, Call
  <2> QED
    BY <1>o, <1>2, <2>1, QuietRegistry
    DEF RegisterAgent, storeVars, requestVars, Present, AllInv, TypeInv, TypeOK, RegistryTypeOK
<1>3. CASE /\ \/ Arrive(c) \/ Examine(c) \/ FreezeAgent(c) \/ UnfreezeAgent(c)
              \/ RevokeKey(c) \/ FailCall(c)
           /\ UNCHANGED <<storeVars, requestVars>>
  BY <1>o, <1>3, RegistryEffect, QuietRegistry DEF AllInv, storeVars, requestVars
<1> QED BY <1>1, <1>2, <1>3 DEF Administer

LEMMA NextAllInv == AllInv /\ [Next]_vars => AllInv'
<1> SUFFICES ASSUME AllInv, [Next]_vars PROVE AllInv'
  OBVIOUS
<1>1. TypeInv'
  BY NextTyped DEF AllInv
<1>o. UNCHANGED registryVars /\ KeepHistory => UNCHANGED orphaned
  BY DEF registryVars, KeepHistory, Present
<1>2. ASSUME NEW r \in Requests, Submit(r), UNCHANGED registryVars, KeepHistory PROVE AllInv'
  BY <1>o, <1>1, <1>2, SubmitKeepsAllInv
<1>3. ASSUME NEW n \in Nonces, NonceExpires(n), UNCHANGED registryVars, KeepHistory PROVE AllInv'
  BY <1>o, <1>1, <1>3, QuietRegistry DEF NonceExpires, registryVars, Present
<1>4. ASSUME NEW c \in Callers, Administer(c), KeepHistory PROVE AllInv'
  BY <1>1, <1>4, AdministerKeepsAllInv
<1>5. CASE UNCHANGED vars
  BY <1>1, <1>5, QuietRegistry DEF vars, historyVars, storeVars, registryVars, Present
<1> QED BY <1>2, <1>3, <1>4, <1>5 DEF Next

THEOREM Invariance == Spec => []IInv
<1>1. Spec => []AllInv
  BY InitAllInv, NextAllInv, PTL DEF Spec
<1> QED BY <1>1, IInvIsAllInv, PTL

---------------------------------------------------------------------------
(* What the invariant says of the system.                                  *)

(* The operations of every agent that was not registered again after a     *)
(* deletion form one unbroken chain from the genesis hash.                 *)
THEOREM ChainTheorem == Spec => []ChainIntact
<1>1. IInv => ChainIntact
  <2> SUFFICES ASSUME IInv, NEW a \in Agents \ reborn, NEW x \in Rows(a)
               PROVE  /\ \A y \in Rows(a) : y.seq = x.seq => y = x
                      /\ \/ x.seq = 1 /\ x.env.prev = Genesis
                         \/ \E y \in Rows(a) : y.seq + 1 = x.seq /\ y.chain = x.env.prev
    BY DEF ChainIntact, ChainOf
  <2>1. \A y \in Rows(a) : y.seq = x.seq => y = x
    BY DEF IInv, SeqsUnique, Rows
  <2>2. x \in operations /\ x.env.agent = a /\ x.seq = Len(x.env.prev) + 1
    BY DEF IInv, RowsHashed, Rows
  <2>3. CASE x.env.prev = Genesis
    BY <2>1, <2>2, <2>3 DEF Genesis
  <2>4. ASSUME NEW y \in Rows(a), y.chain = x.env.prev PROVE y.seq + 1 = x.seq
    <3>1. y \in operations /\ y.chain = ChainHash(y.env) /\ y.seq = Len(y.env.prev) + 1
      BY DEF IInv, RowsHashed, Rows
    <3>2. y.env.prev \in Hash
      BY <3>1 DEF IInv, TypeOK, Row, Envelope
    <3>3. Len(y.chain) = y.seq
      BY <3>1, <3>2 DEF ChainHash, Hash
    <3> QED BY <2>2, <2>4, <3>3
  <2>5. Extends(x.env.prev, a)
    BY <2>2 DEF IInv, RowsLinked
  <2> QED BY <2>1, <2>3, <2>4, <2>5 DEF Extends
<1> QED BY <1>1, Invariance, PTL

(* A PREV_HASH_MISMATCH answer always names a stored head other than the   *)
(* hash it refuses, so that the client can go on.                          *)
THEOREM MismatchTheorem == Spec => []MismatchNamesAnotherHead
<1>1. IInv => MismatchNamesAnotherHead BY DEF IInv
<1> QED BY <1>1, Invariance, PTL

(* What an accepted request was told is what the tables hold.              *)
THEOREM AcceptedTheorem == Spec => []AcceptedIsRecorded
<1>1. IInv => AcceptedIsRecorded
  BY DEF IInv, AcceptedIsRecorded, CommittedRecorded, AnswersMatch, NewRow
<1> QED BY <1>1, Invariance, PTL

(* No operation id is accepted twice, with or without the nonce cache.     *)
THEOREM AcceptedOnceTheorem == Spec => []AcceptedOnce
<1>1. IInv => AcceptedOnce
  BY DEF IInv, AcceptedOnce, CommittedRecorded, ReceiptsUnique
<1> QED BY <1>1, Invariance, PTL

(* The queue names only operations that are stored.                        *)
THEOREM QueueTheorem == Spec => []QueueOnlyRecorded
<1>1. IInv => QueueOnlyRecorded
  BY DEF IInv, QueueOnlyRecorded, MessagesAnswered, CommittedRecorded, TypeOK, Message
<1> QED BY <1>1, Invariance, PTL
---------------------------------------------------------------------------
(* Who was barred all along stores nothing.                                *)

LEMMA BarredInit == Init => BarredInv
BY DEF Init, BarredInv, ReceiptsCommitted, BarredRefused, BarredStoreNothing

(* What any request's own step does, and leaves alone.                     *)
LEMMA SubmitMoves ==
  ASSUME AllInv, NEW r \in Requests, Submit(r)
  PROVE  /\ \A t \in Requests \ {r} : pc'[t] = pc[t] /\ env'[t] = env[t] /\ reply'[t] = reply[t]
         /\ pc[r] # "done" /\ pc'[r] # "idle" /\ (pc[r] = "enqueue" => pc'[r] = "done")
         /\ pc[r] # "idle" => env' = env
         /\ \/ receipts' = receipts
            \/ /\ receipts' = receipts \cup {[id |-> r, op |-> env[r].op]}
               /\ pc[r] = "insert" /\ pc'[r] \in {"enqueue", "done"}
         /\ \/ queue' = queue
            \/ pc[r] = "enqueue" /\ \A m \in queue' : m \in queue \/ m.id = r
<1> USE DEF AllInv, storeVars
<1>1. CASE Begin(r) BY <1>1 DEF Begin, TypeInv, TypeOK
<1>2. CASE ReadNonce(r) BY <1>2, GoToEffect, RespondEffect DEF ReadNonce
<1>3. CASE StoreNonce(r) BY <1>3, GoToEffect DEF StoreNonce
<1>4. CASE LookUpAgent(r) BY <1>4, GoToEffect, RespondEffect DEF LookUpAgent
<1>5. CASE LookUpKey(r) BY <1>5, GoToEffect, RespondEffect DEF LookUpKey
<1>6. CASE CheckChain(r)
  <2>1. ASSUME NEW h, NEW n, Matches(r, h, n)
        PROVE  /\ pc'[r] \in {"payload", "done"} /\ env' = env
               /\ \A t \in Requests \ {r} : pc'[t] = pc[t] /\ reply'[t] = reply[t]
    BY <2>1, RespondEffect DEF Matches, TypeInv, TypeOK
  <2> QED BY <1>6, <2>1 DEF CheckChain
<1>7. CASE StorePayload(r) BY <1>7, GoToEffect DEF StorePayload
<1>8. CASE StoreReceipt(r) BY <1>8, GoToEffect DEF StoreReceipt
<1>9. CASE InsertCommits(r) BY <1>9, GoToEffect, RespondEffect DEF InsertCommits
<1>10. CASE InsertRefused(r) BY <1>10, GoToEffect, RespondEffect DEF InsertRefused
<1>11. CASE ReadWinner(r) BY <1>11, RespondEffect DEF ReadWinner
<1>12. CASE Enqueue(r) BY <1>12, RespondEffect DEF Enqueue
<1>13. CASE Abort(r) BY <1>13, RespondEffect DEF Abort
<1> QED BY <1>1, <1>2, <1>3, <1>4, <1>5, <1>6, <1>7, <1>8, <1>9, <1>10, <1>11, <1>12, <1>13
        DEF Submit

(* A barred request gets no further than the two look-ups.                 *)
LEMMA BarredMoves ==
  ASSUME AllInv, BarredInv, NEW r \in barred, Submit(r), UNCHANGED registryVars, r \in barred',
         KeepHistory
  PROVE  /\ pc'[r] \in {"readNonce", "storeNonce", "agent", "key", "done"}
         /\ pc'[r] = "key" => KeyOf(env[r]) # "active"
         /\ reply'[r].code # "accepted" /\ env'[r] = env[r]
<1> USE DEF AllInv, storeVars
<1>1. /\ r \in Requests
      /\ pc[r] \in {"readNonce", "storeNonce", "agent", "key", "done"}
      /\ ~Standing(env[r]) /\ reply[r].code # "accepted"
      /\ pc[r] = "key" => KeyOf(env[r]) # "active"
  BY DEF BarredInv, BarredRefused, BarredStoreNothing, TypeInv, TypeOK
<1>2. CASE ReadNonce(r) BY <1>1, <1>2, GoToEffect, RespondEffect DEF ReadNonce
<1>3. CASE StoreNonce(r) BY <1>1, <1>3, GoToEffect DEF StoreNonce
<1>4. CASE LookUpAgent(r)
  BY <1>1, <1>4, GoToEffect, RespondEffect DEF LookUpAgent, Standing
<1>5. CASE LookUpKey(r) BY <1>1, <1>5, GoToEffect, RespondEffect DEF LookUpKey
<1>6. CASE Abort(r) BY <1>1, <1>6, RespondEffect DEF Abort
<1> QED BY <1>1, <1>2, <1>3, <1>4, <1>5, <1>6
        DEF Submit, Begin, CheckChain, StorePayload, StoreReceipt, InsertCommits,
            InsertRefused, ReadWinner, Enqueue

(* A request begins unrecorded.                                            *)
LEMMA BarredBegins ==
  ASSUME AllInv, BarredInv, NEW r \in Requests, Submit(r), pc[r] = "idle"
  PROVE  /\ pc'[r] \in {"readNonce", "done"} /\ reply'[r].code # "accepted"
         /\ UNCHANGED <<receipts, queue>>
         /\ \A y \in receipts : y.id # r
         /\ \A m \in queue : m.id # r
<1>1. Begin(r)
  BY DEF Submit, ReadNonce, StoreNonce, LookUpAgent, LookUpKey, CheckChain, StorePayload,
     StoreReceipt, InsertCommits, InsertRefused, ReadWinner, Enqueue, Abort
<1>2. reply[r].code = "none" BY DEF AllInv, RequestInv, AnswerInv
<1>3. pc'[r] \in {"readNonce", "done"} /\ reply'[r].code # "accepted"
  BY <1>1, <1>2 DEF Begin, Answer, AllInv, TypeInv, TypeOK
<1>4. /\ \A y \in receipts : y.id # r
      /\ \A m \in queue : m.id # r
  BY DEF BarredInv, ReceiptsCommitted, AllInv, MessagesAnswered
<1> QED BY <1>1, <1>3, <1>4 DEF Begin, storeVars

(* A key comes into use only with its agent.                               *)
LEMMA KeysActivated ==
  ASSUME TypeInv, NEW c \in Callers, Administer(c), NEW e \in Envelope,
         KeyOf(e) # "active", KeyOf(e)' = "active"
  PROVE  Standing(e)'
<1> USE DEF TypeInv, TypeOK, RegistryTypeOK
<1>0. call[c].cmd \in Commands
  BY DEF Call
<1>1. call[c].cmd \in Command /\ KeyAgent[e.kid] = e.agent /\ e.kid \in Kids /\ e.agent \in Agents
  BY <1>0, RegistryAssumption DEF KeyOf, Envelope
<1>2. CASE RegisterAgent(c)
  BY <1>1, <1>2 DEF RegisterAgent, KeyOf, Standing, Command
<1>3. CASE Arrive(c) \/ Examine(c) \/ FreezeAgent(c) \/ UnfreezeAgent(c) \/ RevokeKey(c) \/ FailCall(c)
  BY <1>1, <1>3
  DEF Arrive, Examine, FreezeAgent, UnfreezeAgent, RevokeKey, FailCall, KeyOf, Command
<1>4. CASE DeleteAgent(c)
  BY <1>1, <1>4 DEF DeleteAgent, KeyOf, Command
<1> QED BY <1>2, <1>3, <1>4 DEF Administer, DeleteAgentRows

LEMMA BarredKept == AllInv /\ BarredInv /\ [Next]_vars => BarredInv'
<1> SUFFICES ASSUME AllInv, BarredInv, [Next]_vars PROVE BarredInv' OBVIOUS
<1> USE DEF BarredInv, ReceiptsCommitted, BarredRefused, BarredStoreNothing
<1>1. CASE UNCHANGED vars
  BY <1>1 DEF vars, historyVars, storeVars, registryVars, requestVars, Standing, KeyOf
<1>2. ASSUME NEW r \in Requests, Submit(r), UNCHANGED registryVars, KeepHistory
      PROVE  BarredInv'
  <2>1. ReceiptsCommitted'
    <3>1. \A y \in receipts : y.id \in Requests
      BY DEF AllInv, TypeInv, TypeOK, Receipt
    <3>2. \A y \in receipts : pc'[y.id] \in {"enqueue", "done"}
      BY <1>2, <3>1, SubmitMoves
    <3> QED BY <1>2, <3>2, SubmitMoves
  <2>2. ASSUME NEW t \in barred'
        PROVE  /\ pc'[t] \in {"readNonce", "storeNonce", "agent", "key", "done"}
               /\ ~Standing(env[t])'
               /\ pc'[t] = "key" => KeyOf(env[t])' # "active"
               /\ reply'[t].code # "accepted"
               /\ \A y \in receipts' : y.id # t
               /\ \A m \in queue' : m.id # t
    <3>1. /\ t \in Requests /\ pc'[t] # "idle" /\ (pc[t] # "idle" => t \in barred)
          /\ ~Standing(env[t])'
      BY <1>2 DEF KeepHistory
    <3>2. CASE t # r
      <4>1. /\ pc'[t] = pc[t] /\ env'[t] = env[t] /\ reply'[t] = reply[t] /\ t \in barred
            /\ \A y \in receipts' : y \in receipts \/ y.id = r
            /\ \A m \in queue' : m \in queue \/ m.id = r
        BY <1>2, <3>1, <3>2, SubmitMoves
      <4>2. KeyOf(env[t])' = KeyOf(env[t])
        BY <1>2, <4>1 DEF registryVars, KeyOf
      <4>3. pc'[t] = "key" => KeyOf(env[t])' # "active"
        <5>1. pc[t] = "key" => KeyOf(env[t]) # "active" BY <4>1
        <5> QED BY <4>1, <4>2, <5>1
      <4>4. /\ pc'[t] \in {"readNonce", "storeNonce", "agent", "key", "done"}
            /\ reply'[t].code # "accepted"
            /\ \A y \in receipts' : y.id # t
            /\ \A m \in queue' : m.id # t
        BY <3>2, <4>1
      <4> QED BY <3>1, <4>3, <4>4
    <3>3. CASE t = r /\ pc[r] = "idle"
      BY <1>2, <3>1, <3>3, BarredBegins
    <3>4. CASE t = r /\ pc[r] # "idle"
      <4>1. /\ r \in barred
            /\ pc'[r] \in {"readNonce", "storeNonce", "agent", "key", "done"}
            /\ pc'[r] = "key" => KeyOf(env[r]) # "active"
            /\ reply'[r].code # "accepted" /\ env'[r] = env[r]
        BY <1>2, <2>2, <3>1, <3>4, BarredMoves
      <4>2. receipts' = receipts /\ queue' = queue
        BY <1>2, <4>1, SubmitMoves
      <4>3. KeyOf(env[r])' = KeyOf(env[r])
        BY <1>2, <4>1 DEF registryVars, KeyOf
      <4>4. pc'[t] = "key" => KeyOf(env[t])' # "active" BY <3>4, <4>1, <4>3
      <4>5. /\ \A y \in receipts' : y.id # t
            /\ \A m \in queue' : m.id # t
        BY <3>4, <4>1, <4>2
      <4> QED BY <3>1, <3>4, <4>1, <4>4, <4>5
    <3> QED BY <3>2, <3>3, <3>4
  <2> QED BY <2>1, <2>2
<1>3. ASSUME NEW n \in Nonces, NonceExpires(n), UNCHANGED registryVars, KeepHistory
      PROVE  BarredInv'
  BY <1>3 DEF NonceExpires, requestVars, registryVars, KeepHistory, Standing, KeyOf
<1>4. ASSUME NEW c \in Callers, Administer(c), KeepHistory
      PROVE  BarredInv'
  <2>1. UNCHANGED requestVars /\ receipts' \subseteq receipts /\ queue' = queue
    BY <1>4 DEF Administer, DeleteAgentRows, storeVars
  <2>2. ASSUME NEW t \in barred'
        PROVE  t \in barred /\ ~Standing(env[t])' /\ env[t] \in Envelope
    BY <1>4, <2>1, <2>2 DEF KeepHistory, requestVars, AllInv, TypeInv, EnvTyped
  <2>3. ASSUME NEW t \in barred', pc'[t] = "key" PROVE KeyOf(env[t])' # "active"
    BY <1>4, <2>1, <2>2, <2>3, KeysActivated DEF requestVars, AllInv
  <2> QED BY <2>1, <2>2, <2>3 DEF requestVars
<1> QED BY <1>1, <1>2, <1>3, <1>4 DEF Next

(* A request whose agent is frozen or key revoked when it begins, and that *)
(* never finds both in order, stores nothing, whatever is frozen, revoked, *)
(* deleted and registered between its two look-ups.                        *)
THEOREM BarredTheorem == Spec => []BarredStoreNothing
<1>1. BarredInv => BarredStoreNothing BY DEF BarredInv
<1> QED BY <1>1, InitAllInv, NextAllInv, BarredInit, BarredKept, PTL DEF Spec
---------------------------------------------------------------------------
(* A lost race has a winner, and what is stored verifies.                  *)

(* Only the look for the winner gives that answer.                         *)
LEMMA ConflictAnswer ==
  ASSUME AllInv, NEW r \in Requests, Submit(r), reply'[r].code = "CONFLICT_WITHOUT_ROW"
  PROVE  ReadWinner(r)
<1> USE DEF AllInv
<1>1. ASSUME NEW s, GoTo(r, s) PROVE FALSE
  <2>1. reply'[r].code = reply[r].code /\ pc[r] # "done" BY <1>1, SubmitMoves DEF GoTo
  <2> QED BY <2>1 DEF RequestInv, AnswerInv
<1>2. ASSUME NEW code, NEW h, Respond(r, code, h), code # "CONFLICT_WITHOUT_ROW" PROVE FALSE
  BY <1>2, RespondEffect
<1>3. CASE Begin(r)
  <2>1. reply[r].code = "none" BY <1>3 DEF Begin, RequestInv, AnswerInv
  <2> QED BY <1>3, <2>1 DEF Begin, TypeInv, TypeOK, Answer
<1>4. CASE CheckChain(r)
  <2>1. ASSUME NEW h, NEW n, Matches(r, h, n) PROVE FALSE
    <3>1. CASE UNCHANGED reply
      <4>1. reply[r].code # "none" /\ pc[r] # "done" BY <3>1, <1>4 DEF CheckChain
      <4> QED BY <4>1 DEF RequestInv, AnswerInv
    <3> QED BY <1>2, <2>1, <3>1 DEF Matches
  <2> QED BY <1>4, <2>1 DEF CheckChain
<1> QED BY <1>1, <1>2, <1>3, <1>4
        DEF Submit, ReadNonce, StoreNonce, LookUpAgent, LookUpKey, StorePayload, StoreReceipt,
            InsertCommits, InsertRefused, Enqueue, Abort

(* A seq_no conflict always comes with a stored row, unless the agent was  *)
(* deleted between the conflict and the read of that row: the assertion in *)
(* the handler holds otherwise (operation-submit.ts).                      *)
THEOREM ConflictTheorem == Spec => []ConflictHasWinner
<1>1. Init => ConflictHasWinner BY DEF Init, ConflictHasWinner, Answer
<1>2. AllInv /\ ConflictHasWinner /\ [Next]_vars => ConflictHasWinner'
  <2> SUFFICES ASSUME AllInv, ConflictHasWinner, [Next]_vars, NEW r \in Requests,
                      reply'[r].code = "CONFLICT_WITHOUT_ROW"
               PROVE  r \in orphaned'
    BY DEF ConflictHasWinner
  <2>1. CASE UNCHANGED reply /\ orphaned \subseteq orphaned'
    BY <2>1 DEF ConflictHasWinner
  <2>2. CASE UNCHANGED vars BY <2>1, <2>2 DEF vars, historyVars, requestVars
  <2>h. KeepHistory => orphaned \subseteq orphaned'
    BY DEF KeepHistory
  <2>3. ASSUME NEW s \in Requests, Submit(s), KeepHistory PROVE r \in orphaned'
    <3>1. CASE r # s BY <2>3, <2>h, <3>1, SubmitMoves DEF ConflictHasWinner
    <3>2. CASE r = s
      <4>1. ReadWinner(r)
        BY <2>3, <3>2, ConflictAnswer
      <4>2. Rows(env[r].agent) = {}
        <5>1. ASSUME NEW h, Respond(r, "PREV_HASH_MISMATCH", h) PROVE FALSE
          BY <5>1, RespondEffect DEF AllInv
        <5> QED BY <4>1, <5>1 DEF ReadWinner
      <4>3. ~SeqTaken(r) BY <4>2 DEF SeqTaken
      <4>4. r \in orphaned
        BY <4>1, <4>3 DEF AllInv, RequestInv, PlaceInv, ReadWinner
      <4> QED BY <2>3, <2>h, <4>4
    <3> QED BY <3>1, <3>2
  <2>4. ASSUME NEW n \in Nonces, NonceExpires(n), KeepHistory PROVE r \in orphaned'
    BY <2>1, <2>h, <2>4 DEF NonceExpires, requestVars
  <2>5. ASSUME NEW c \in Callers, Administer(c), KeepHistory PROVE r \in orphaned'
    BY <2>1, <2>h, <2>5 DEF Administer, DeleteAgentRows, requestVars
  <2> QED BY <2>2, <2>3, <2>4, <2>5 DEF Next
<1> QED BY <1>1, <1>2, InitAllInv, NextAllInv, PTL DEF Spec

LEMMA VerifyInit == Init => VerifyInv
<1> SUFFICES ASSUME Init PROVE VerifyInv OBVIOUS
<1>1. KeysFollowAgents
  BY RegistryAssumption DEF Init, RegistryInit, KeysFollowAgents, Present
<1> QED BY <1>1 DEF Init, VerifyInv, RequestSound

(* Keys appear and disappear with their agents.                            *)
LEMMA KeysKept ==
  ASSUME TypeInv, NEW c \in Callers, Administer(c), KeysFollowAgents
  PROVE  KeysFollowAgents'
<1> USE RegistryAssumption DEF TypeInv, TypeOK, RegistryTypeOK, KeysFollowAgents, Present
<1>1. call[c].cmd.agent \in Agents /\ call[c].cmd.kid \in Kids
  BY DEF Command, Call
<1>2. CASE RegisterAgent(c) BY <1>1, <1>2 DEF RegisterAgent
<1>3. CASE DeleteAgent(c) BY <1>1, <1>3 DEF DeleteAgent
<1>4. ASSUME NEW a \in Agents, NEW st \in {"active", "frozen"}, SetStatus(a, st)
      PROVE  \A b \in Agents : (agents'[b] # "absent") <=> (agents[b] # "absent")
  BY <1>4 DEF SetStatus
<1>5. CASE FreezeAgent(c) BY <1>1, <1>4, <1>5 DEF FreezeAgent
<1>6. CASE UnfreezeAgent(c) BY <1>1, <1>4, <1>6 DEF UnfreezeAgent
<1>7. CASE RevokeKey(c)
  <2>1. \A k \in Kids : keys'[k] # "absent" <=> keys[k] # "absent"
    BY <1>1, <1>7 DEF RevokeKey
  <2> QED BY <1>7, <2>1 DEF RevokeKey
<1>8. CASE Arrive(c) \/ Examine(c) \/ FailCall(c) BY <1>8 DEF Arrive, Examine, FailCall
<1> QED BY <1>2, <1>3, <1>5, <1>6, <1>7, <1>8 DEF Administer, DeleteAgentRows

(* What a submission writes to the object store.                           *)
LEMMA ObjectsMove ==
  ASSUME AllInv, NEW r \in Requests, Submit(r), NEW k \in Agents \X OpIds
  PROVE  /\ \/ evidence'[k] = evidence[k]
            \/ pc[r] = "payload" /\ k = ObjectKey(env[r]) /\ evidence'[k] = env[r]
         /\ earObjects'[k] = earObjects[k] \/ earObjects'[k] # None
         /\ pc[r] = "payload" => evidence'[ObjectKey(env[r])] = env[r] \/ pc'[r] = "done"
         /\ pc[r] = "receipt" => earObjects'[ObjectKey(env[r])] # None \/ pc'[r] = "done"
<1> USE IngestAssumption DEF AllInv, TypeInv, TypeOK
<1>1. pc[r] # "idle" => ObjectKey(env[r]) \in Agents \X OpIds
  BY DEF EnvTyped, Envelope, ObjectKey
<1>2. CASE StorePayload(r) BY <1>1, <1>2 DEF StorePayload
<1>3. CASE StoreReceipt(r) BY <1>1, <1>3 DEF StoreReceipt
<1>4. CASE Abort(r) BY <1>4, RespondEffect DEF Abort, storeVars
<1> QED BY <1>2, <1>3, <1>4
        DEF Submit, Begin, ReadNonce, StoreNonce, LookUpAgent, LookUpKey, CheckChain,
            InsertCommits, InsertRefused, ReadWinner, Enqueue, storeVars

LEMMA EvidenceStays ==
  ASSUME AllInv, NEW r \in Requests, Submit(r), NEW e \in Envelope
  PROVE  /\ Evident(e) => Evident(e)'
         /\ Filed(e) => Filed(e)'
<1>1. ObjectKey(e) \in Agents \X OpIds BY DEF Envelope, ObjectKey
<1>2. IdReused(e) => IdReused(e)'
  BY SubmitMoves DEF IdReused, Begun
<1>3. Filed(e) => Filed(e)' BY <1>1, ObjectsMove DEF Filed
<1>4. ASSUME Evident(e), ~IdReused(e)' PROVE evidence'[ObjectKey(e)] = e
  <2>1. evidence[ObjectKey(e)] = e BY <1>2, <1>4 DEF Evident
  <2>2. CASE pc[r] = "payload" /\ ObjectKey(e) = ObjectKey(env[r]) /\ evidence'[ObjectKey(e)] = env[r]
    BY <1>4, <2>2, SubmitMoves DEF IdReused, Begun
  <2> QED BY <1>1, <2>1, <2>2, ObjectsMove
<1> QED BY <1>3, <1>4 DEF Evident

(* Where a request may come from.                                          *)
LEMMA ComesFrom ==
  ASSUME AllInv, NEW r \in Requests, Submit(r)
  PROVE  /\ pc'[r] = "chain" => pc[r] = "key" /\ KeyOf(env[r]) = "active" /\ env[r].signed
         /\ pc'[r] = "payload" => pc[r] = "chain"
         /\ pc'[r] = "receipt" => pc[r] = "payload"
         /\ pc'[r] = "insert" => pc[r] = "receipt"
<1> USE DEF AllInv
<1>1. CASE Begin(r) BY <1>1 DEF Begin, TypeInv, TypeOK
<1>2. CASE ReadNonce(r) BY <1>2, GoToEffect, RespondEffect DEF ReadNonce
<1>3. CASE StoreNonce(r) BY <1>3, GoToEffect DEF StoreNonce
<1>4. CASE LookUpAgent(r) BY <1>4, GoToEffect, RespondEffect DEF LookUpAgent
<1>5. CASE LookUpKey(r) BY <1>5, GoToEffect, RespondEffect DEF LookUpKey
<1>6. CASE CheckChain(r)
  <2>1. ASSUME NEW h, NEW n, Matches(r, h, n) PROVE pc'[r] \in {"payload", "done"}
    BY <2>1, RespondEffect DEF Matches, TypeInv, TypeOK
  <2> QED BY <1>6, <2>1 DEF CheckChain
<1>7. CASE StorePayload(r) BY <1>7, GoToEffect DEF StorePayload
<1>8. CASE StoreReceipt(r) BY <1>8, GoToEffect DEF StoreReceipt
<1>9. CASE InsertCommits(r) BY <1>9, GoToEffect, RespondEffect DEF InsertCommits
<1>10. CASE InsertRefused(r) BY <1>10, GoToEffect, RespondEffect DEF InsertRefused
<1>11. CASE ReadWinner(r) BY <1>11, RespondEffect DEF ReadWinner
<1>12. CASE Enqueue(r) BY <1>12, RespondEffect DEF Enqueue
<1>13. CASE Abort(r) BY <1>13, RespondEffect DEF Abort
<1> QED BY <1>1, <1>2, <1>3, <1>4, <1>5, <1>6, <1>7, <1>8, <1>9, <1>10, <1>11, <1>12, <1>13
        DEF Submit

LEMMA VerifyKept == AllInv /\ VerifyInv /\ [Next]_vars => VerifyInv'
<1> SUFFICES ASSUME AllInv, VerifyInv, [Next]_vars PROVE VerifyInv' OBVIOUS
<1>1. CASE UNCHANGED vars
  BY <1>1 DEF vars, historyVars, storeVars, registryVars, requestVars, VerifyInv, KeysFollowAgents, Present,
     RequestSound, RowSound, Evident, Filed, Signs, IdReused, Begun
<1>2. ASSUME NEW r \in Requests, Submit(r), UNCHANGED registryVars
      PROVE  VerifyInv'
  <2>1. KeysFollowAgents'
    BY <1>2 DEF VerifyInv, KeysFollowAgents, Present, registryVars
  <2>2. ASSUME NEW t \in Requests PROVE RequestSound(t)'
    <3>1. CASE pc'[t] = pc[t] /\ env'[t] = env[t]
      <4>1. pc[t] # "idle" => env[t] \in Envelope BY DEF AllInv, TypeInv, EnvTyped
      <4>2. pc[t] # "idle" =>
              /\ Evident(env[t]) => Evident(env[t])'
              /\ Filed(env[t]) => Filed(env[t])'
        <5> PICK e : e = env[t] OBVIOUS
        <5>1. pc[t] # "idle" => /\ Evident(e) => Evident(e)'
                                /\ Filed(e) => Filed(e)'
          BY <1>2, <4>1, EvidenceStays
        <5> QED BY <3>1, <5>1 DEF Evident, Filed, IdReused
      <4> QED BY <3>1, <4>2 DEF VerifyInv, RequestSound, Signs
    <3>2. CASE t = r /\ pc[r] # "idle"
      <4>1. env' = env /\ env[r] \in Envelope
        BY <1>2, <3>2, SubmitMoves DEF AllInv, TypeInv, EnvTyped
      <4>2. pc'[r] \in {"chain", "payload", "receipt", "insert"} => Signs(env'[r])
        BY <1>2, <4>1, ComesFrom DEF VerifyInv, RequestSound, Signs, KeyOf
      <4> PICK e \in Envelope : e = env[r] BY <4>1
      <4>3. ObjectKey(e) \in Agents \X OpIds BY DEF Envelope, ObjectKey
      <4>4. pc'[r] = "receipt" => Evident(e)'
        BY <1>2, <4>3, ComesFrom, ObjectsMove DEF Evident
      <4>5. pc'[r] = "insert" => Evident(e)' /\ Filed(e)'
        BY <1>2, <4>3, ComesFrom, ObjectsMove, EvidenceStays
        DEF VerifyInv, RequestSound, Filed
      <4>6. Evident(env[r])' = Evident(e)' /\ Filed(env[r])' = Filed(e)'
        BY <4>1 DEF Evident, Filed, IdReused
      <4> QED BY <3>2, <4>2, <4>4, <4>5, <4>6 DEF RequestSound
    <3>3. CASE t = r /\ pc[r] = "idle"
      <4>1. pc'[r] \notin {"chain", "payload", "receipt", "insert"}
        BY <1>2, <3>3, ComesFrom
      <4> QED BY <3>3, <4>1 DEF RequestSound
    <3> QED BY <1>2, <3>1, <3>2, <3>3, SubmitMoves
  <2>3. ASSUME NEW x \in operations' PROVE RowSound(x)'
    <3>1. CASE x \in operations
      <4>1. x.env \in Envelope BY <3>1, RowTyped DEF AllInv
      <4>2. receipts \subseteq receipts' BY <1>2, SubmitMoves
      <4> QED BY <1>2, <3>1, <4>1, <4>2, EvidenceStays DEF VerifyInv, RowSound, Signs
    <3>2. CASE x \notin operations
      <4>1. InsertCommits(r) /\ x = NewRow(r)
        BY <1>2, <3>2
        DEF Submit, Begin, ReadNonce, StoreNonce, LookUpAgent, LookUpKey, CheckChain,
            StorePayload, StoreReceipt, InsertCommits, InsertRefused, ReadWinner, Enqueue,
            Abort, storeVars
      <4>2. x.env = env[r] /\ env[r] \in Envelope /\ pc[r] = "insert"
        BY <4>1 DEF NewRow, InsertCommits, AllInv, TypeInv, EnvTyped
      <4>3. Signs(x.env) /\ Evident(x.env) /\ Filed(x.env)
        BY <4>2 DEF VerifyInv, RequestSound
      <4>4. \E y \in receipts' : y.op = x.env.op
        <5> PICK new : new = [id |-> r, op |-> env[r].op] OBVIOUS
        <5>1. new \in receipts' BY <4>1 DEF InsertCommits
        <5>2. new.op = x.env.op BY <4>2
        <5> QED BY <5>1, <5>2
      <4> QED BY <1>2, <4>2, <4>3, <4>4, EvidenceStays DEF RowSound, Signs
    <3> QED BY <3>1, <3>2
  <2> QED BY <2>1, <2>2, <2>3 DEF VerifyInv
<1>3. ASSUME NEW n \in Nonces, NonceExpires(n), UNCHANGED registryVars PROVE VerifyInv'
  BY <1>3 DEF NonceExpires, requestVars, registryVars, VerifyInv, KeysFollowAgents, Present,
     RequestSound, RowSound, Evident, Filed, Signs, IdReused, Begun
<1>4. ASSUME NEW c \in Callers, Administer(c) PROVE VerifyInv'
  <2>1. KeysFollowAgents' BY <1>4, KeysKept DEF AllInv, VerifyInv
  <2>2. UNCHANGED requestVars /\ UNCHANGED <<evidence, earObjects>>
    BY <1>4 DEF Administer, DeleteAgentRows, storeVars
  <2>3. \A r \in Requests : RequestSound(r)'
    BY <2>2 DEF VerifyInv, RequestSound, Evident, Filed, Signs, IdReused, Begun, requestVars
  <2>4. ASSUME NEW x \in operations'
        PROVE  x \in operations /\ \E y \in receipts' : y.op = x.env.op
    <3>1. CASE UNCHANGED storeVars
      BY <2>4, <3>1 DEF storeVars, VerifyInv, RowSound
    <3>2. CASE DeleteAgentRows(c)
      <4>1. x \in operations /\ x \notin Rows(call[c].cmd.agent) /\ Rows(call[c].cmd.agent) \subseteq operations
        BY <2>4, <3>2 DEF DeleteAgentRows, Rows
      <4>2. PICK y \in receipts : y.op = x.env.op BY <4>1 DEF VerifyInv, RowSound
      <4>3. y \in receipts'
        BY <3>2, <4>1, <4>2 DEF DeleteAgentRows, AllInv, RowsInv, OpsUnique
      <4> QED BY <4>1, <4>2, <4>3
    <3> QED BY <1>4, <3>1, <3>2 DEF Administer
  <2>5. \A x \in operations' : RowSound(x)'
    BY <2>2, <2>4 DEF VerifyInv, RowSound, Evident, Filed, Signs, IdReused, Begun, requestVars
  <2> QED BY <2>1, <2>3, <2>5 DEF VerifyInv
<1> QED BY <1>1, <1>2, <1>3, <1>4 DEF Next

(* The evidence object of a row is the EOR it was stored for, whatever     *)
(* refused submissions wrote there, unless an id was signed twice.         *)
THEOREM EvidenceTheorem == Spec => []EvidenceIsTheEor
<1>1. VerifyInv => EvidenceIsTheEor
  BY DEF VerifyInv, RowSound, Evident, EvidenceIsTheEor
<1> QED BY <1>1, InitAllInv, NextAllInv, VerifyInit, VerifyKept, PTL DEF Spec

(* verifyOperation confirms every such row at any later moment, also while *)
(* its agent is frozen or its key revoked.                                 *)
THEOREM VerifyTheorem == Spec => []StoredVerifies
<1>1. AllInv /\ VerifyInv /\ ChainIntact => StoredVerifies
  <2> SUFFICES ASSUME AllInv, VerifyInv, ChainIntact, NEW x \in operations,
                      x.env.agent \notin reborn, ~IdReused(x.env)
               PROVE  Verifies(x)
    BY DEF StoredVerifies
  <2>1. /\ x.env \in Envelope /\ x.env.agent \in Agents /\ x.env.kid \in Kids
        /\ x.seq \in Nat /\ x.chain = ChainHash(x.env)
    BY RowTyped DEF AllInv, RowsInv, RowsHashed, Envelope
  <2>2. SignatureVerifies(x)
    <3>1. /\ evidence[ObjectKey(x.env)] = x.env /\ x.env.signed
          /\ KeyAgent[x.env.kid] = x.env.agent
      BY DEF VerifyInv, RowSound, Evident, Signs
    <3>2. keys[x.env.kid] # "absent"
      BY <2>1, <3>1 DEF AllInv, RowsInv, RowsHaveAgents, VerifyInv, KeysFollowAgents
    <3> QED BY <2>1, <3>1, <3>2, IngestAssumption DEF SignatureVerifies, KeyOf
  <2>3. ChainVerifies(x)
    <3> SUFFICES ASSUME NEW y \in Rows(x.env.agent), y.seq = x.seq - 1
                 PROVE  y.chain = x.env.prev
      BY <2>1 DEF ChainVerifies
    <3>1. x \in Rows(x.env.agent) /\ ChainOf(x.env.agent) BY <2>1 DEF ChainIntact, Rows
    <3>2. y \in operations /\ y.env.agent = x.env.agent BY DEF Rows
    <3>3. y.seq \in Nat /\ y.seq >= 1
      <4>1. y.env \in Envelope /\ y.seq = Len(y.env.prev) + 1
        BY <3>2, RowTyped DEF AllInv, RowsInv, RowsHashed
      <4>2. Len(y.env.prev) \in Nat BY <4>1 DEF Envelope, Hash
      <4> QED BY <4>1, <4>2
    <3>4. x.seq # 1 BY <2>1, <3>3
    <3>5. PICK z \in Rows(x.env.agent) : z.seq + 1 = x.seq /\ z.chain = x.env.prev
      BY <3>1, <3>4 DEF ChainOf
    <3>6. z \in operations /\ z.seq \in Nat BY RowTyped DEF Rows, AllInv
    <3>7. z.seq = y.seq BY <2>1, <3>3, <3>5, <3>6
    <3>8. z = y BY <3>1, <3>7 DEF ChainOf
    <3> QED BY <3>5, <3>8
  <2>4. ReceiptVerifies(x)
    BY DEF VerifyInv, RowSound, Filed, ReceiptVerifies
  <2> QED BY <2>2, <2>3, <2>4 DEF Verifies
<1> QED BY <1>1, InitAllInv, NextAllInv, VerifyInit, VerifyKept, ChainTheorem, PTL DEF Spec

---------------------------------------------------------------------------
(* OperationIngest implements AuditChain: every step of the server records *)
(* one operation at the end of one log, erases one log, or does not show.  *)
(* LogInv says why the latest row of an agent stands for its whole log.    *)

(* What a step does to the rows.                                           *)
Unseen ==
  /\ UNCHANGED operations
  /\ reborn \subseteq reborn' /\ \A a \in reborn' \ reborn : Rows(a) = {}
Commits == \E r \in Requests : InsertCommits(r) /\ UNCHANGED reborn
Erases(a) == operations' = operations \ Rows(a) /\ UNCHANGED reborn

LEMMA Kinds ==
  ASSUME AllInv, [Next]_vars
  PROVE  Unseen \/ Commits \/ \E a \in Agents : Erases(a)
<1>1. CASE UNCHANGED vars
  BY <1>1 DEF vars, historyVars, storeVars, registryVars, Unseen
<1>2. ASSUME NEW r \in Requests, Submit(r), UNCHANGED registryVars
      PROVE  Unseen \/ Commits
  BY <1>2 DEF Submit, Begin, ReadNonce, StoreNonce, LookUpAgent, LookUpKey, CheckChain,
     StorePayload, StoreReceipt, InsertRefused, ReadWinner, Enqueue, Abort,
     storeVars, registryVars, Unseen, Commits
<1>3. ASSUME NEW n \in Nonces, NonceExpires(n), UNCHANGED registryVars PROVE Unseen
  BY <1>3 DEF NonceExpires, registryVars, Unseen
<1>4. ASSUME NEW c \in Callers, Administer(c)
      PROVE  Unseen \/ \E a \in Agents : Erases(a)
  <2>1. PICK a \in Agents : a = call[c].cmd.agent
    BY RegistryAssumption DEF AllInv, TypeInv, TypeOK, RegistryTypeOK, Command, Call
  <2>2. CASE DeleteAgentRows(c)
    BY <2>1, <2>2 DEF DeleteAgentRows, DeleteAgent, Erases
  <2>3. CASE RegisterAgent(c) /\ UNCHANGED <<storeVars, requestVars>>
    <3>1. Rows(a) = {}
      BY <2>1, <2>3 DEF RegisterAgent, AllInv, RowsInv, RowsHaveAgents, Rows
    <3> QED BY <2>1, <2>3, <3>1 DEF RegisterAgent, storeVars, Unseen
  <2>4. CASE /\ Arrive(c) \/ Examine(c) \/ FreezeAgent(c) \/ UnfreezeAgent(c) \/ RevokeKey(c) \/ FailCall(c)
             /\ UNCHANGED <<storeVars, requestVars>>
    BY <2>4, RegistryEffect DEF AllInv, storeVars, Unseen
  <2> QED BY <1>4, <2>2, <2>3, <2>4 DEF Administer
<1> QED BY <1>1, <1>2, <1>3, <1>4 DEF Next

(* The row a commit adds, and the row before it.                           *)
LEMMA NewLatest ==
  ASSUME AllInv, LogInv, NEW r \in Requests, InsertCommits(r), UNCHANGED reborn,
         env[r].agent \notin reborn
  PROVE  /\ env[r].agent \in Agents /\ env[r].prev \in Hash
         /\ slot[r] = Len(env[r].prev) + 1
         /\ Rows(env[r].agent) = {} => env[r].prev = Genesis
         /\ \A x \in operations : IsLatest(x, env[r].agent) =>
              x.chain = env[r].prev /\ x.seq + 1 = slot[r]
<1> PICK a : a = env[r].agent OBVIOUS
<1>1. /\ env[r] \in Envelope /\ a \in Agents /\ env[r].prev \in Hash
      /\ slot[r] = Len(env[r].prev) + 1 /\ Extends(env[r].prev, a)
      /\ ~SeqTaken(r)
  BY DEF AllInv, TypeInv, EnvTyped, Envelope, RequestInv, PlaceInv, Placed, InsertCommits
<1>2. Len(env[r].prev) \in Nat BY <1>1 DEF Hash
<1>3. ASSUME NEW x \in operations, IsLatest(x, a)
      PROVE  x.chain = env[r].prev /\ x.seq + 1 = slot[r]
  <2>1. /\ x.env.agent = a /\ x.seq \in Nat /\ Len(x.chain) = x.seq /\ x.seq >= 1
        /\ \A y \in Rows(a) : y.seq <= x.seq
    <3>1. x.env.prev \in Hash /\ x.seq = Len(x.env.prev) + 1 /\ x.env.agent = a
          /\ Len(x.chain) = x.seq
      BY <1>3, LatestRow
    <3>2. Len(x.env.prev) \in Nat BY <3>1 DEF Hash
    <3> QED BY <1>3, <3>1, <3>2 DEF IsLatest
  <2>2. \A n \in 1..x.seq : \E y \in Rows(a) : y.seq = n
    BY <2>1 DEF LogInv, SeqsDense
  <2>3. slot[r] \notin 1..x.seq BY <1>1, <2>2 DEF SeqTaken
  <2>4. slot[r] > x.seq BY <1>1, <1>2, <2>1, <2>3
  <2>5. env[r].prev # Genesis BY <1>1, <2>1, <2>4 DEF Genesis
  <2>6. PICK y \in Rows(a) : y.chain = env[r].prev BY <1>1, <2>5 DEF Extends
  <2>7. y \in operations /\ y.env.agent = a /\ y.seq = Len(env[r].prev)
    <3>1. /\ y \in operations /\ y.env.agent = a /\ y.env.prev \in Hash
          /\ y.seq = Len(y.env.prev) + 1 /\ y.chain = ChainHash(y.env)
      BY RowTyped DEF Rows, AllInv, RowsInv, RowsHashed, Envelope
    <3>2. Len(y.chain) = y.seq BY <3>1 DEF ChainHash, Hash
    <3> QED BY <2>6, <3>1, <3>2
  <2>8. y.seq = x.seq BY <1>1, <1>2, <2>1, <2>4, <2>7
  <2>9. y = x BY <2>1, <2>7, <2>8 DEF AllInv, RowsInv, SeqsUnique
  <2> QED BY <1>1, <2>6, <2>7, <2>9
<1>4. Rows(a) = {} => env[r].prev = Genesis BY <1>1 DEF Extends
<1> QED BY <1>1, <1>3, <1>4

LEMMA LogInvInit == Init => LogInv
BY DEF Init, LogInv, LatestExists, SeqsDense, LinksStored, Rows

LEMMA LogInvKept == AllInv /\ LogInv /\ [Next]_vars => LogInv'
<1> SUFFICES ASSUME AllInv, LogInv, [Next]_vars PROVE LogInv' OBVIOUS
<1>1. CASE Unseen
  BY <1>1 DEF Unseen, LogInv, LatestExists, SeqsDense, LinksStored, IsLatest, Rows
<1>2. ASSUME NEW a \in Agents, Erases(a) PROVE LogInv'
  <2>1. /\ operations' \subseteq operations /\ reborn' = reborn
        /\ \A x \in operations' : x.env.agent # a
        /\ \A x \in operations : x.env.agent # a => x \in operations'
    BY <1>2 DEF Erases, Rows
  <2>2. Rows(a)' = {} /\ \A b \in Agents \ {a} : Rows(b)' = Rows(b)
    BY <2>1 DEF Rows
  <2>3. \A x \in operations' : Rows(x.env.agent)' = Rows(x.env.agent)
    BY <2>1 DEF Rows
  <2>4. LatestExists'
    <3> SUFFICES ASSUME NEW b \in Agents \ {a}, Rows(b)' # {}
                 PROVE  \E x \in operations' : IsLatest(x, b)'
      BY <2>2 DEF LatestExists
    <3>1. PICK x \in operations : IsLatest(x, b) BY <2>2 DEF LogInv, LatestExists
    <3>2. x \in operations' /\ IsLatest(x, b)' BY <2>1, <2>2, <3>1 DEF IsLatest, Rows
    <3> QED BY <3>2
  <2>5. SeqsDense' /\ LinksStored'
    BY <2>1, <2>3 DEF LogInv, SeqsDense, LinksStored
  <2> QED BY <2>4, <2>5 DEF LogInv
<1>3. ASSUME NEW r \in Requests, InsertCommits(r), UNCHANGED reborn PROVE LogInv'
  <2> PICK new : new = NewRow(r) OBVIOUS
  <2> PICK a \in Agents : a = env[r].agent
    BY <1>3, EnvAgent DEF AllInv, InsertCommits
  <2>1. /\ operations' = operations \cup {new} /\ new.env = env[r] /\ new.seq = slot[r]
        /\ new.chain = ChainHash(env[r]) /\ new.seq \in Nat
        /\ \A x \in operations : x.seq \in Nat /\ x.chain \in Hash
    BY <1>3, RowTyped DEF InsertCommits, NewRow, AllInv, TypeInv, TypeOK
  <2>2. Rows(a)' = Rows(a) \cup {new} /\ \A b : b # a => Rows(b)' = Rows(b)
    BY <2>1 DEF Rows
  <2>3. LatestExists'
    <3> SUFFICES ASSUME NEW b \in Agents, Rows(b)' # {}
                 PROVE  \E x \in operations' : IsLatest(x, b)'
      BY DEF LatestExists
    <3>1. CASE b # a
      BY <2>1, <2>2, <3>1 DEF LogInv, LatestExists, IsLatest
    <3>2. CASE b = a /\ Rows(a) = {}
      BY <2>1, <2>2, <3>2 DEF IsLatest
    <3>3. CASE b = a /\ Rows(a) # {}
      <4>1. PICK x \in operations : IsLatest(x, a) BY <3>3 DEF LogInv, LatestExists
      <4>2. CASE new.seq <= x.seq
        BY <2>1, <2>2, <3>3, <4>1, <4>2 DEF IsLatest
      <4>3. CASE ~(new.seq <= x.seq)
        <5>1. \A y \in Rows(a) : y.seq \in Nat /\ y.seq <= x.seq
          BY <2>1, <4>1 DEF IsLatest, Rows
        <5>2. \A y \in Rows(a)' : y.seq <= new.seq
          BY <2>1, <2>2, <4>3, <5>1
        <5> QED BY <2>1, <2>2, <3>3, <5>2 DEF IsLatest
      <4> QED BY <4>2, <4>3
    <3> QED BY <3>1, <3>2, <3>3
  <2>4. ASSUME NEW x \in operations, x.env.agent \notin reborn
        PROVE  /\ \A n \in 1..x.seq : \E y \in Rows(x.env.agent)' : y.seq = n
               /\ \A i \in DOMAIN x.chain : \E y \in Rows(x.env.agent)' : y.env.op = x.chain[i].op
    <3>1. Rows(x.env.agent) \subseteq Rows(x.env.agent)' BY <2>2
    <3> QED BY <2>4, <3>1 DEF LogInv, SeqsDense, LinksStored
  <2>5. ASSUME a \notin reborn
        PROVE  /\ \A n \in 1..new.seq : \E y \in Rows(a)' : y.seq = n
               /\ \A i \in DOMAIN new.chain : \E y \in Rows(a)' : y.env.op = new.chain[i].op
    <3>1. /\ env[r].prev \in Hash /\ slot[r] = Len(env[r].prev) + 1
          /\ Rows(a) = {} => env[r].prev = Genesis
          /\ \A x \in operations : IsLatest(x, a) => x.chain = env[r].prev /\ x.seq + 1 = slot[r]
      BY <1>3, <2>5, NewLatest
    <3> PICK k \in Nat : k = Len(env[r].prev) BY <3>1 DEF Hash
    <3>2. /\ DOMAIN new.chain = 1..(k + 1) /\ new.chain[k + 1].op = env[r].op
          /\ \A i \in 1..k : new.chain[i] = env[r].prev[i]
      BY <2>1, <3>1 DEF ChainHash, Hash
    <3>3. \A i \in 1..k : /\ \E y \in Rows(a) : y.seq = i
                          /\ \E y \in Rows(a) : y.env.op = env[r].prev[i].op
      <4>1. CASE Rows(a) = {}
        <5>1. k = 0 BY <3>1, <4>1 DEF Genesis
        <5> QED BY <5>1
      <4>2. CASE Rows(a) # {}
        <5>1. PICK x \in operations : IsLatest(x, a) BY <4>2 DEF LogInv, LatestExists
        <5>2. /\ x.chain = env[r].prev /\ x.seq + 1 = k + 1 /\ x.env.agent = a
              /\ DOMAIN env[r].prev = 1..k
          BY <3>1, <5>1 DEF IsLatest, Rows, Hash
        <5>3. x.seq = k BY <2>1, <5>2
        <5> QED BY <2>5, <5>2, <5>3 DEF LogInv, SeqsDense, LinksStored
      <4> QED BY <4>1, <4>2
    <3>4. new.seq = k + 1 BY <2>1, <3>1
    <3>5. new \in Rows(a)' /\ Rows(a) \subseteq Rows(a)' BY <2>2
    <3>6. \A n \in 1..new.seq : \E y \in Rows(a)' : y.seq = n
      <4> SUFFICES ASSUME NEW n \in 1..(k + 1) PROVE \E y \in Rows(a)' : y.seq = n
        BY <3>4
      <4>1. CASE n = k + 1 BY <3>4, <3>5, <4>1
      <4>2. CASE n \in 1..k BY <3>3, <3>5, <4>2
      <4> QED BY <4>1, <4>2
    <3>7. \A i \in DOMAIN new.chain : \E y \in Rows(a)' : y.env.op = new.chain[i].op
      <4> SUFFICES ASSUME NEW i \in 1..(k + 1)
                   PROVE  \E y \in Rows(a)' : y.env.op = new.chain[i].op
        BY <3>2
      <4>1. CASE i = k + 1 BY <2>1, <3>2, <3>5, <4>1
      <4>2. CASE i \in 1..k BY <3>2, <3>3, <3>5, <4>2
      <4> QED BY <4>1, <4>2
    <3> QED BY <3>6, <3>7
  <2>6. new.env.agent = a BY <2>1
  <2>7. SeqsDense'
    BY <1>3, <2>1, <2>4, <2>5, <2>6 DEF SeqsDense
  <2>8. LinksStored'
    BY <1>3, <2>1, <2>4, <2>5, <2>6 DEF LinksStored
  <2> QED BY <2>3, <2>7, <2>8 DEF LogInv
<1> QED BY <1>1, <1>2, <1>3, Kinds DEF Commits

(* Constraints make the latest row of an agent the only one.               *)
LatestIsOne ==
  \A a \in Agents, x \in operations : IsLatest(x, a) => LatestHash(a) = x.chain

LEMMA HashOfLatest == AllInv => LatestIsOne
<1> SUFFICES ASSUME AllInv, NEW a \in Agents, NEW x \in operations, IsLatest(x, a)
             PROVE  LatestHash(a) = x.chain
  BY DEF LatestIsOne
<1> PICK y : y = CHOOSE z \in operations : IsLatest(z, a) OBVIOUS
<1>1. y \in operations /\ IsLatest(y, a) OBVIOUS
<1>2. /\ x.env.agent = a /\ y.env.agent = a /\ x.seq <= y.seq /\ y.seq <= x.seq
  BY <1>1 DEF IsLatest, Rows
<1>3. x.seq \in Nat /\ y.seq \in Nat BY <1>1, RowTyped DEF AllInv
<1>4. x.seq = y.seq BY <1>2, <1>3
<1>5. x = y BY <1>1, <1>2, <1>4 DEF AllInv, RowsInv, SeqsUnique
<1>6. Rows(a) # {} BY DEF IsLatest
<1> QED BY <1>5, <1>6 DEF LatestHash

(* A log depends on the rows of its agent alone.                           *)
LEMMA SameRowsSameHash ==
  ASSUME LatestIsOne, LatestIsOne', LogInv, NEW b \in Agents, Rows(b)' = Rows(b)
  PROVE  LatestHash(b)' = LatestHash(b)
<1>1. CASE Rows(b) = {} BY <1>1 DEF LatestHash
<1>2. CASE Rows(b) # {}
  <2>1. PICK x \in operations : IsLatest(x, b) BY <1>2 DEF LogInv, LatestExists
  <2>2. x \in operations' /\ IsLatest(x, b)' BY <2>1 DEF IsLatest, Rows
  <2> QED BY <2>1, <2>2 DEF LatestIsOne
<1> QED BY <1>1, <1>2

(* The four kinds of step, seen from the logs.                             *)
LEMMA UnseenShows ==
  ASSUME LatestIsOne, LatestIsOne', LogInv, Unseen PROVE Log' = Log
<1>1. ASSUME NEW a \in Agents PROVE Log'[a] = Log[a]
  <2>1. Rows(a)' = Rows(a) BY DEF Unseen, Rows
  <2>2. LatestHash(a)' = LatestHash(a) BY <2>1, SameRowsSameHash
  <2>3. a \in reborn' \ reborn => LatestHash(a) = <<>> BY DEF Unseen, LatestHash, Genesis
  <2> QED BY <2>2, <2>3 DEF Log, Unseen
<1> QED BY <1>1 DEF Log

LEMMA EraseShows ==
  ASSUME LatestIsOne, LatestIsOne', LogInv, NEW a \in Agents, Erases(a)
  PROVE  Chain!Erase(a)
<1>1. Rows(a)' = {} /\ \A b \in Agents \ {a} : Rows(b)' = Rows(b)
  BY DEF Erases, Rows
<1>2. Log'[a] = <<>> BY <1>1 DEF Log, LatestHash, Genesis
<1>3. ASSUME NEW b \in Agents \ {a} PROVE Log'[b] = Log[b]
  <2>1. LatestHash(b)' = LatestHash(b) BY <1>1, SameRowsSameHash
  <2> QED BY <2>1 DEF Log, Erases
<1>4. Log' = [Log EXCEPT ![a] = <<>>] BY <1>2, <1>3 DEF Log
<1> QED BY <1>4 DEF Chain!Erase

LEMMA CommitShows ==
  ASSUME AllInv, LatestIsOne, LatestIsOne', LogInv,
         NEW r \in Requests, InsertCommits(r), UNCHANGED reborn
  PROVE  Log' = Log \/ \E a \in Agents : \E link \in Chain!Link : Chain!Record(a, link)
<1> PICK new : new = NewRow(r) OBVIOUS
<1> PICK a \in Agents : a = env[r].agent BY EnvAgent DEF AllInv, InsertCommits
<1> PICK link : link = [op |-> env[r].op, payload |-> env[r].payload] OBVIOUS
<1>1. /\ operations' = operations \cup {new} /\ new.env = env[r] /\ new.seq = slot[r]
      /\ new.chain = Append(env[r].prev, link) /\ new.seq \in Nat
  BY DEF InsertCommits, NewRow, ChainHash, AllInv, TypeInv, TypeOK
<1>2. new \in Rows(a)' /\ Rows(a)' = Rows(a) \cup {new}
      /\ \A b \in Agents \ {a} : Rows(b)' = Rows(b)
  BY <1>1 DEF Rows
<1>3. \A b \in Agents \ {a} : Log'[b] = Log[b]
  BY <1>2, SameRowsSameHash DEF Log
<1>4. CASE a \in reborn
  <2>1. Log'[a] = Log[a] BY <1>4 DEF Log
  <2> QED BY <1>3, <2>1 DEF Log
<1>5. CASE a \notin reborn
  <2>1. /\ Rows(a) = {} => env[r].prev = Genesis
        /\ \A x \in operations : IsLatest(x, a) => x.chain = env[r].prev /\ x.seq + 1 = slot[r]
    BY <1>5, NewLatest
  <2>2. Log[a] = env[r].prev /\ IsLatest(new, a)'
    <3>1. CASE Rows(a) = {}
      BY <1>1, <1>2, <1>5, <2>1, <3>1 DEF Log, LatestHash, IsLatest
    <3>2. CASE Rows(a) # {}
      <4>1. PICK x \in operations : IsLatest(x, a) BY <3>2 DEF LogInv, LatestExists
      <4>2. \A y \in Rows(a) : y.seq \in Nat /\ y.seq <= x.seq
        BY <4>1, RowTyped DEF AllInv, IsLatest, Rows
      <4>3. x.seq \in Nat /\ x.seq + 1 = new.seq BY <1>1, <2>1, <4>1, RowTyped DEF AllInv
      <4>4. \A y \in Rows(a)' : y.seq <= new.seq BY <1>1, <1>2, <4>2, <4>3
      <4>5. LatestHash(a) = env[r].prev BY <2>1, <4>1 DEF LatestIsOne
      <4> QED BY <1>2, <1>5, <4>4, <4>5 DEF Log, IsLatest
    <3> QED BY <3>1, <3>2
  <2>3. Log'[a] = Append(Log[a], link)
    <3>1. new \in operations' /\ new.chain = Append(Log[a], link) BY <1>1, <2>2
    <3>2. LatestHash(a)' = new.chain BY <2>2, <3>1 DEF LatestIsOne
    <3> QED BY <1>5, <3>1, <3>2 DEF Log
  <2>4. Log' = [Log EXCEPT ![a] = Append(@, link)] BY <1>3, <2>3 DEF Log
  <2>5. ~Chain!Recorded(link.op)
    <3> SUFFICES ASSUME NEW b \in Agents, NEW i \in DOMAIN Log[b], Log[b][i].op = link.op
                 PROVE  FALSE
      BY DEF Chain!Recorded
    <3>1. b \notin reborn /\ Log[b] = LatestHash(b) /\ LatestHash(b) # Genesis
      BY DEF Log, Genesis
    <3>2. PICK x \in operations : IsLatest(x, b)
      BY <3>1 DEF LatestHash, LogInv, LatestExists
    <3>3. x.env.agent = b /\ Log[b] = x.chain BY <3>1, <3>2 DEF LatestIsOne, IsLatest, Rows
    <3>4. PICK y \in Rows(b) : y.env.op = x.chain[i].op
      BY <3>1, <3>3 DEF LogInv, LinksStored
    <3>5. y \in operations /\ y.env.op = env[r].op BY <3>3, <3>4 DEF Rows
    <3> QED BY <3>5 DEF InsertCommits, OpTaken
  <2>6. link \in Chain!Link
    <3>1. env[r] \in Envelope BY DEF AllInv, TypeInv, EnvTyped, InsertCommits
    <3> QED BY <3>1 DEF Envelope, Chain!Link
  <2>7. Chain!Record(a, link) BY <2>4, <2>5 DEF Chain!Record
  <2> QED BY <2>6, <2>7
<1> QED BY <1>4, <1>5

(* The server keeps one log per agent that grows at its end, by one        *)
(* operation that is in no log yet, and goes as a whole with its agent,    *)
(* however requests and administrative calls interleave and fail.          *)
THEOREM Refinement == Spec => ImplementsAuditChain
<1>1. Init => Chain!LogInit
  BY DEF Init, RegistryInit, Log, LatestHash, Rows, Genesis, Chain!LogInit
<1>2. AllInv /\ LatestIsOne /\ LatestIsOne' /\ LogInv /\ [Next]_vars
        => [Chain!LogNext]_(Chain!logVars)
  <2> SUFFICES ASSUME AllInv, LatestIsOne, LatestIsOne', LogInv, [Next]_vars
               PROVE  Chain!LogNext \/ Log' = Log
    BY DEF Chain!logVars
  <2>1. CASE Unseen BY <2>1, UnseenShows
  <2>2. CASE Commits BY <2>2, CommitShows DEF Commits, Chain!LogNext
  <2>3. ASSUME NEW a \in Agents, Erases(a) PROVE Chain!LogNext
    BY <2>3, EraseShows DEF Chain!LogNext
  <2> QED BY <2>1, <2>2, <2>3, Kinds
<1> QED BY <1>1, <1>2, InitAllInv, NextAllInv, LogInvInit, LogInvKept, HashOfLatest, PTL
        DEF Spec, ImplementsAuditChain, Chain!LogSpec

-----------------------------------------------------------------------------
(* The registry beside its guards.                                         *)

StatusNames == {"register", "freeze", "unfreeze"}

(* The dates of the trail tell the status that a has or is to have.        *)
TellsStatus(a, status) ==
  \/ StatusEvents(a) = {} /\ status = "active"
  \/ \E i \in StatusEvents(a) :
       /\ status = "frozen" <=> events[i].cmd.name = "freeze"
       /\ \A j \in StatusEvents(a) : events[j].created <= events[i].committed

LEMMA TrailTells ==
  TrailExplainsStatus <=> \A a \in Agents : Present(a) => TellsStatus(a, agents[a])
  BY DEF TrailExplainsStatus, TellsStatus, Tells

(* What one more event does to the trail of an agent: when it settles the  *)
(* status it tells it, whatever requests are dated before its commit.      *)
LEMMA AppendEvent ==
  ASSUME NEW e \in Event, events \in Seq(Event), events' = Append(events, e), NEW a,
         arrivals \in Nat, e.committed = arrivals, e.created <= arrivals,
         \A i \in DOMAIN events : events[i].created <= arrivals
  PROVE  /\ ~(e.cmd.agent = a /\ e.cmd.name \in StatusNames)
              => \A s : TellsStatus(a, s) => TellsStatus(a, s)'
         /\ (e.cmd.agent = a /\ e.cmd.name \in StatusNames)
              => \A s : (s = "frozen" <=> e.cmd.name = "freeze") => TellsStatus(a, s)'
         /\ \A i \in DOMAIN events' : events'[i].created <= arrivals
<1> PICK n \in Nat : n = Len(events) OBVIOUS
<1>1. /\ DOMAIN events = 1..n /\ DOMAIN events' = 1..(n + 1)
      /\ events'[n + 1] = e
      /\ \A i \in 1..n : events'[i] = events[i]
  OBVIOUS
<1>2. ASSUME ~(e.cmd.agent = a /\ e.cmd.name \in StatusNames), NEW s, TellsStatus(a, s)
      PROVE  TellsStatus(a, s)'
  <2>1. StatusEvents(a)' = StatusEvents(a)
    BY <1>1, <1>2 DEF StatusEvents, StatusNames
  <2>2. \A i \in StatusEvents(a) : events'[i] = events[i]
    BY <1>1 DEF StatusEvents
  <2> QED BY <1>2, <2>1, <2>2 DEF TellsStatus
<1>3. \A i \in DOMAIN events' : events'[i].created <= arrivals
  BY <1>1
<1>4. ASSUME e.cmd.agent = a, e.cmd.name \in StatusNames, NEW s, s = "frozen" <=> e.cmd.name = "freeze"
      PROVE  TellsStatus(a, s)'
  <2>1. n + 1 \in StatusEvents(a)' /\ StatusEvents(a)' \subseteq DOMAIN events'
    BY <1>1, <1>4 DEF StatusEvents, StatusNames
  <2>2. events'[n + 1].committed = arrivals /\ events'[n + 1].cmd = e.cmd
    BY <1>1
  <2> QED BY <1>3, <1>4, <2>1, <2>2 DEF TellsStatus
<1> QED BY <1>2, <1>3, <1>4

(* A batch by c that writes the agents and keys given, with its event.     *)
LEMMA BatchKeeps ==
  ASSUME RegistryInv, NEW c \in Callers, NEW name, Writes(c, name),
         NEW newAgents \in [Agents -> AgentStatus], NEW newKeys \in [Kids -> KeyStatus],
         agents' = newAgents, keys' = newKeys, deleted' \subseteq Agents, reborn' \subseteq Agents,
         \A k \in Kids : newKeys[k] # "absent" <=> newAgents[KeyAgent[k]] # "absent",
         \A a \in Agents : a # call[c].cmd.agent =>
           (newAgents[a] = agents[a]),
         LET a == call[c].cmd.agent IN
           newAgents[a] # "absent" =>
             IF name \in StatusNames
             THEN newAgents[a] = "frozen" <=> name = "freeze"
             ELSE newAgents[a] = agents[a]
  PROVE  RegistryInv'
<1> PICK m : m = call[c].cmd OBVIOUS
<1> PICK e : e = [cmd |-> call[c].cmd, created |-> call[c].created, committed |-> arrivals]
  OBVIOUS
<1>1. /\ m \in Commands /\ m.agent \in Agents /\ m.name = name
      /\ events \in Seq(Event) /\ events' = Append(events, e)
      /\ call' = [call EXCEPT ![c].at = "done"] /\ arrivals' = arrivals /\ arrivals \in Nat
      /\ e \in Event /\ e.cmd = m /\ e.committed = arrivals /\ e.created = call[c].created
      /\ call \in [Callers -> Call] /\ call[c].created \in Nat
  BY RegistryAssumption DEF RegistryInv, RegistryTypeOK, Writes, Command, Call, Event
<1>2. RegistryTypeOK'
  <2>1. call' \in [Callers -> Call]
    BY <1>1 DEF Call, CallState
  <2>2. events' \in Seq(Event) BY <1>1
  <2> QED BY <1>1, <2>1, <2>2 DEF RegistryTypeOK
<1>a. e.created <= arrivals /\ \A i \in DOMAIN events : events[i].created <= arrivals
  BY <1>1 DEF RegistryInv, DatesPast
<1>3. TrailExplainsStatus'
  <2> SUFFICES ASSUME NEW a \in Agents, newAgents[a] # "absent"
               PROVE  TellsStatus(a, newAgents[a])'
    BY DEF TrailExplainsStatus, TellsStatus, Tells, Present
  <2>1. agents[a] # "absent" => TellsStatus(a, agents[a])
    BY TrailTells DEF RegistryInv, Present
  <2>2. CASE a = m.agent /\ name \in StatusNames
    <3>1. newAgents[a] = "frozen" <=> e.cmd.name = "freeze" BY <1>1, <2>2
    <3>2. TellsStatus(a, newAgents[a])' BY <1>1, <1>a, <2>2, <3>1, AppendEvent
    <3> QED BY <3>2
  <2>3. CASE ~(a = m.agent /\ name \in StatusNames)
    <3>1. newAgents[a] = agents[a] BY <2>3
    <3>2. TellsStatus(a, newAgents[a]) BY <2>1, <3>1
    <3>3. \A s : TellsStatus(a, s) => TellsStatus(a, s)' BY <1>1, <1>a, <2>3, AppendEvent
    <3> QED BY <3>2, <3>3
  <2> QED BY <2>2, <2>3
<1>4. KeysFollowAgents' BY DEF KeysFollowAgents, Present
<1>5. DatesPast'
  <2>1. \A d \in Callers : call'[d].created = call[d].created BY <1>1 DEF Call
  <2>2. \A i \in DOMAIN events' : events'[i].created <= arrivals
    BY <1>1, <1>a, AppendEvent
  <2> QED BY <1>1, <2>1, <2>2 DEF RegistryInv, DatesPast
<1> QED BY <1>2, <1>3, <1>4, <1>5 DEF RegistryInv

(* A step that only moves a call on, or dates it.                          *)
LEMMA CallKeeps ==
  ASSUME RegistryInv, call' \in [Callers -> Call], arrivals' \in Nat, arrivals' >= arrivals,
         \A c \in Callers : call'[c].created <= arrivals',
         UNCHANGED <<agents, keys, events, deleted, reborn>>
  PROVE  RegistryInv'
<1>1. RegistryTypeOK' BY DEF RegistryInv, RegistryTypeOK
<1>2. TrailExplainsStatus'
  BY DEF RegistryInv, TrailExplainsStatus, Tells, StatusEvents, Present
<1>3. KeysFollowAgents' BY DEF RegistryInv, KeysFollowAgents, Present
<1>4. DatesPast'
  <2>0. \A i \in DOMAIN events : events[i] \in Event
    BY DEF RegistryInv, RegistryTypeOK
  <2>1. \A i \in DOMAIN events : events[i].created \in Nat /\ events[i].created <= arrivals
    BY <2>0 DEF RegistryInv, DatesPast, Event
  <2> QED BY <2>1 DEF RegistryInv, RegistryTypeOK, DatesPast
<1> QED BY <1>1, <1>2, <1>3, <1>4 DEF RegistryInv

(* Nothing of the registry changes.                                        *)
LEMMA RegistryRests == RegistryInv /\ UNCHANGED registryVars => RegistryInv'
  BY CallKeeps DEF registryVars, RegistryInv, RegistryTypeOK, DatesPast

LEMMA RegistryInitHolds == RegistryInit => RegistryInv
<1> SUFFICES ASSUME RegistryInit PROVE RegistryInv OBVIOUS
<1>1. RegistryTypeOK
  BY RegistryAssumption DEF RegistryInit, RegistryTypeOK, AgentStatus, KeyStatus, CallState, Call
<1>2. TrailExplainsStatus
  BY DEF RegistryInit, TrailExplainsStatus, StatusEvents, Present
<1>3. KeysFollowAgents
  BY RegistryAssumption DEF RegistryInit, KeysFollowAgents, Present
<1>4. DatesPast BY DEF RegistryInit, DatesPast
<1> QED BY <1>1, <1>2, <1>3, <1>4 DEF RegistryInv

LEMMA RegistryKeeps == ASSUME RegistryInv, RegistryNext PROVE RegistryInv'
<1> PICK c \in Callers :
      \/ Arrive(c) \/ Examine(c) \/ RegisterAgent(c) \/ FreezeAgent(c) \/ UnfreezeAgent(c)
      \/ RevokeKey(c) \/ DeleteAgent(c) \/ FailCall(c)
  BY DEF RegistryNext
<1>0. PICK a \in Agents, k \in Kids : a = call[c].cmd.agent /\ k = call[c].cmd.kid
  BY RegistryAssumption DEF RegistryInv, RegistryTypeOK, Command, Call
<1>d. /\ call \in [Callers -> Call] /\ arrivals \in Nat
      /\ \A d \in Callers : call[d].created \in Nat /\ call[d].created <= arrivals
  BY DEF RegistryInv, RegistryTypeOK, Call, DatesPast
<1>m. ASSUME NEW s \in CallState, call' = [call EXCEPT ![c].at = s],
             UNCHANGED <<agents, keys, events, arrivals, deleted, reborn>>
      PROVE  RegistryInv'
  <2>1. call' \in [Callers -> Call] /\ \A d \in Callers : call'[d].created = call[d].created
    BY <1>d, <1>m DEF Call
  <2> QED BY <1>d, <1>m, <2>1, CallKeeps
<1>r. CASE Arrive(c)
  <2>1. /\ call' \in [Callers -> Call] /\ arrivals' = arrivals + 1
        /\ \A d \in Callers : call'[d].created = call[d].created \/ call'[d].created = arrivals'
    BY <1>d, <1>r DEF Arrive, Call, CallState
  <2>2. \A d \in Callers : call'[d].created <= arrivals'
    BY <1>d, <2>1
  <2> QED BY <1>d, <1>r, <2>1, <2>2, CallKeeps DEF Arrive
<1>t. /\ agents \in [Agents -> AgentStatus] /\ keys \in [Kids -> KeyStatus]
      /\ deleted \subseteq Agents /\ reborn \subseteq Agents /\ KeyAgent \in [Kids -> Agents]
      /\ \A q \in Kids : keys[q] # "absent" <=> agents[KeyAgent[q]] # "absent"
  BY RegistryAssumption DEF RegistryInv, RegistryTypeOK, KeysFollowAgents, Present
<1> USE DEF StatusNames
<1>1. CASE Examine(c)
  <2>1. PICK s \in CallState : call' = [call EXCEPT ![c].at = s]
    BY <1>1 DEF Examine, CallState
  <2> QED BY <1>1, <1>m, <2>1 DEF Examine
<1>2. CASE RegisterAgent(c)
  <2>1. /\ Writes(c, "register") /\ agents' = [agents EXCEPT ![a] = "active"]
        /\ keys' = [q \in Kids |-> IF KeyAgent[q] = a THEN "active" ELSE keys[q]]
        /\ UNCHANGED deleted /\ reborn' \subseteq Agents
    BY <1>0, <1>2, <1>t DEF RegisterAgent
  <2>2. /\ agents' \in [Agents -> AgentStatus] /\ keys' \in [Kids -> KeyStatus]
        /\ agents'[a] = "active" /\ \A b \in Agents : b # a => agents'[b] = agents[b]
    BY <1>t, <2>1 DEF AgentStatus, KeyStatus
  <2>3. \A q \in Kids : keys'[q] # "absent" <=> agents'[KeyAgent[q]] # "absent"
    BY <1>t, <2>1
  <2>4. Writes(c, "register") /\ deleted' \subseteq Agents /\ reborn' \subseteq Agents
    BY <1>t, <2>1
  <2> QED BY <1>0, <2>2, <2>3, <2>4, BatchKeeps
<1>3. CASE FreezeAgent(c)
  <2>1. /\ Writes(c, "freeze") /\ UNCHANGED <<keys, deleted, reborn>>
        /\ agents' = IF agents[a] # "absent" THEN [agents EXCEPT ![a] = "frozen"] ELSE agents
    BY <1>0, <1>3 DEF FreezeAgent, SetStatus, Present
  <2>2. /\ agents' \in [Agents -> AgentStatus]
        /\ agents'[a] # "absent" => agents'[a] = "frozen"
        /\ \A b \in Agents : b # a => agents'[b] = agents[b]
        /\ \A b \in Agents : agents'[b] = "absent" <=> agents[b] = "absent"
    BY <1>t, <2>1 DEF AgentStatus
  <2> QED BY <1>0, <1>t, <2>1, <2>2, BatchKeeps
<1>4. CASE UnfreezeAgent(c)
  <2>1. /\ Writes(c, "unfreeze") /\ UNCHANGED <<keys, deleted, reborn>>
        /\ agents' = IF agents[a] # "absent" THEN [agents EXCEPT ![a] = "active"] ELSE agents
    BY <1>0, <1>4 DEF UnfreezeAgent, SetStatus, Present
  <2>2. /\ agents' \in [Agents -> AgentStatus]
        /\ agents'[a] # "absent" => agents'[a] = "active"
        /\ \A b \in Agents : b # a => agents'[b] = agents[b]
        /\ \A b \in Agents : agents'[b] = "absent" <=> agents[b] = "absent"
    BY <1>t, <2>1 DEF AgentStatus
  <2> QED BY <1>0, <1>t, <2>1, <2>2, BatchKeeps
<1>5. CASE RevokeKey(c)
  <2>1. /\ Writes(c, "revoke") /\ UNCHANGED <<agents, deleted, reborn>>
        /\ keys' = IF keys[k] # "absent" THEN [keys EXCEPT ![k] = "revoked"] ELSE keys
    BY <1>0, <1>5 DEF RevokeKey
  <2>2. /\ keys' \in [Kids -> KeyStatus]
        /\ \A q \in Kids : keys'[q] = "absent" <=> keys[q] = "absent"
    BY <1>t, <2>1 DEF KeyStatus
  <2> QED BY <1>0, <1>t, <2>1, <2>2, BatchKeeps
<1>6. CASE DeleteAgent(c)
  <2>1. /\ Writes(c, "delete") /\ agents' = [agents EXCEPT ![a] = "absent"]
        /\ keys' = [q \in Kids |-> IF KeyAgent[q] = a THEN "absent" ELSE keys[q]]
        /\ deleted' \subseteq Agents /\ UNCHANGED reborn
    BY <1>0, <1>6, <1>t DEF DeleteAgent
  <2>2. /\ agents' \in [Agents -> AgentStatus] /\ keys' \in [Kids -> KeyStatus]
        /\ agents'[a] = "absent" /\ \A b \in Agents : b # a => agents'[b] = agents[b]
    BY <1>t, <2>1 DEF AgentStatus, KeyStatus
  <2>3. \A q \in Kids : keys'[q] # "absent" <=> agents'[KeyAgent[q]] # "absent"
    BY <1>t, <2>1
  <2>4. Writes(c, "delete") /\ deleted' \subseteq Agents /\ reborn' \subseteq Agents
    BY <1>t, <2>1
  <2> QED BY <1>0, <2>2, <2>3, <2>4, BatchKeeps
<1>7. CASE FailCall(c) BY <1>7, <1>m DEF FailCall, CallState
<1> QED BY <1>r, <1>1, <1>2, <1>3, <1>4, <1>5, <1>6, <1>7

(* No batch but a deletion takes a key out of "revoked": a registration    *)
(* finds no key row of its agent.                                          *)
LEMMA RevokedStays ==
  ASSUME RegistryInv, RegistryNext, NEW k \in Kids,
         keys[k] = "revoked", keys'[k] # "revoked"
  PROVE  KeyAgent[k] \in deleted'
<1>1. /\ Present(KeyAgent[k]) /\ keys \in [Kids -> KeyStatus]
  BY DEF RegistryInv, RegistryTypeOK, KeysFollowAgents
<1>2. PICK c \in Callers : RegisterAgent(c) \/ RevokeKey(c) \/ DeleteAgent(c)
  BY DEF RegistryNext, Arrive, Examine, FreezeAgent, UnfreezeAgent, FailCall
<1>3. CASE RegisterAgent(c) BY <1>1, <1>3 DEF RegisterAgent
<1>4. CASE RevokeKey(c) BY <1>1, <1>4 DEF RevokeKey
<1>5. CASE DeleteAgent(c) BY <1>1, <1>5 DEF DeleteAgent
<1> QED BY <1>2, <1>3, <1>4, <1>5
-----------------------------------------------------------------------------
(* The guards.                                                             *)

(* The history only grows, and is up to date again after every step.       *)
LEMMA HistoryGrows ==
  ASSUME GuardInv, RegistryInv', now' \in Times, now' >= now, Remember
  PROVE  /\ held' \in [Statuses -> Times \cup {-1}]
         /\ \A s \in Statuses : held'[s] >= held[s]
         /\ HistoryCurrent'
         /\ failClosed' \in BOOLEAN /\ UNCHANGED failClosed
<1>1. /\ held \in [Statuses -> Times \cup {-1}] /\ now \in Times /\ LastTime \in Nat
      /\ \A s \in Statuses : held[s] <= now
      /\ held' = [s \in Statuses |-> IF agents'[Guarded] = s THEN now' ELSE held[s]]
      /\ failClosed \in BOOLEAN /\ UNCHANGED failClosed
  BY GuardAssumption DEF GuardInv, GuardTypeOK, HistoryCurrent, Remember
<1>2. held' \in [Statuses -> Times \cup {-1}] BY <1>1
<1>3. \A s \in Statuses : held'[s] = now' \/ (held'[s] = held[s] /\ agents'[Guarded] # s)
  BY <1>1
<1>4. \A s \in Statuses : held[s] \in Int /\ held[s] <= now /\ now \in Int /\ now' \in Int
  BY <1>1 DEF Times
<1>5. \A s \in Statuses : held'[s] >= held[s] /\ held'[s] <= now'
  BY <1>3, <1>4
<1>6. HistoryCurrent'
  BY <1>1, <1>5 DEF HistoryCurrent
<1> QED BY <1>1, <1>2, <1>5, <1>6

(* A step of one guard that leaves the file alone.                         *)
LEMMA GuardKeeps ==
  ASSUME GuardInv, UNCHANGED <<now, registryVars, cache>>, Remember,
         NEW g \in Guards, NEW x \in Guard, Sound(x), guard' = [guard EXCEPT ![g] = x]
  PROVE  GuardInv'
<1>1. RegistryInv' /\ RegistryTypeOK'
  BY RegistryRests DEF GuardInv, RegistryInv
<1>2. now' \in Times /\ now' >= now /\ now \in Nat
  BY GuardAssumption DEF GuardInv, GuardTypeOK, Times
<1>3. /\ held \in [Statuses -> Times \cup {-1}] /\ held' \in [Statuses -> Times \cup {-1}]
      /\ \A s \in Statuses : held'[s] >= held[s]
      /\ HistoryCurrent' /\ UNCHANGED failClosed /\ failClosed' \in BOOLEAN
  BY <1>1, <1>2, HistoryGrows DEF GuardInv, GuardTypeOK
<1>4. GuardTypeOK'
  BY <1>1, <1>2, <1>3 DEF GuardInv, GuardTypeOK
<1>5. \A s \in Statuses : held[s] \in Int /\ held'[s] \in Int
  BY <1>3 DEF Times
<1>6. CacheHeld'
  <2>1. Timeout \in Nat /\ cache.at \in Nat
    BY GuardAssumption DEF GuardInv, GuardTypeOK, Times
  <2> QED BY <1>3, <1>5, <2>1 DEF GuardInv, CacheHeld
<1>7. \A y \in Guard : Sound(y) => Sound(y)'
  <2>1. \A y \in Guard : y.since \in Nat /\ (y.answer # "error" => y.answer \in Statuses)
    BY DEF Guard, Times
  <2> QED BY <1>3, <1>5, <2>1 DEF Sound
<1>8. \A h \in Guards : guard'[h] \in Guard /\ Sound(guard'[h])
  BY DEF GuardInv, GuardTypeOK
<1>9. \A h \in Guards : Sound(guard[h])'
  BY <1>7, <1>8 DEF Sound
<1> QED BY <1>1, <1>3, <1>4, <1>6, <1>9 DEF GuardInv

(* A file written now: the answer was held when it was given, which was    *)
(* less than a request ago.                                                *)
LEMMA ReplaceKeeps ==
  ASSUME GuardInv, UNCHANGED <<now, registryVars>>, Remember,
         NEW g \in Guards, At(g, "answered"), guard[g].answer # "error",
         Replace(g, guard[g].answer, now)
  PROVE  GuardInv'
<1> PICK s : s = guard[g].answer OBVIOUS
<1>1. RegistryInv' /\ RegistryTypeOK'
  BY RegistryRests DEF GuardInv, RegistryInv
<1>2. now' \in Times /\ now' >= now /\ now \in Nat /\ Timeout \in Nat
  BY GuardAssumption DEF GuardInv, GuardTypeOK, Times
<1>3. /\ held \in [Statuses -> Times \cup {-1}] /\ held' \in [Statuses -> Times \cup {-1}]
      /\ \A q \in Statuses : held'[q] >= held[q]
      /\ HistoryCurrent' /\ UNCHANGED failClosed /\ failClosed' \in BOOLEAN
  BY <1>1, <1>2, HistoryGrows DEF GuardInv, GuardTypeOK
<1>4. \A q \in Statuses : held[q] \in Int /\ held'[q] \in Int
  BY <1>3 DEF Times
<1>5. /\ s \in Statuses /\ held[s] >= guard[g].since /\ guard[g].since \in Nat
      /\ now <= guard[g].since + Timeout
  BY DEF GuardInv, GuardTypeOK, Guard, Sound, At, Times
<1>6. /\ cache' = [status |-> s, at |-> now] /\ cache' # NoCache
      /\ cache' \in [status : Statuses \cup {"none"}, at : Times]
  BY <1>2, <1>5 DEF Replace, NoCache, Statuses, Times
<1>7. CacheHeld'
  BY <1>2, <1>3, <1>4, <1>5, <1>6 DEF CacheHeld
<1>8. \A h \in Guards : guard'[h] \in Guard /\ Sound(guard[h])'
  <2>0. guard' \in [Guards -> Guard]
    <3>1. NewGuard \in Guard
      BY GuardAssumption DEF Guard, NewGuard, Times
    <3>2. ASSUME NEW h \in Guards
          PROVE  [guard[h] EXCEPT !.replaced = At(h, "open")] \in Guard
      <4>1. \A x \in Guard, b \in BOOLEAN : [x EXCEPT !.replaced = b] \in Guard
        BY DEF Guard
      <4>2. guard[h] \in Guard BY DEF GuardInv, GuardTypeOK
      <4>3. At(h, "open") \in BOOLEAN BY DEF At
      <4> QED BY <4>1, <4>2, <4>3
    <3>3. [NewGuard EXCEPT !.pc = IF s = "active" THEN "allowed" ELSE "blocked",
                           !.known = TRUE] \in Guard
      BY <3>1 DEF Guard
    <3> QED BY <3>2, <3>3 DEF Replace
  <2>1. ASSUME NEW h \in Guards, h = g PROVE Sound(guard[h])'
    <3>1. guard'[h].pc \in {"allowed", "blocked"} /\ guard'[h].known = TRUE
      BY <2>1 DEF Replace, NewGuard
    <3> QED BY <3>1 DEF Sound, Ended
  <2>2. ASSUME NEW h \in Guards, h # g PROVE Sound(guard[h])'
    <3> PICK x \in Guard : x = guard[h] /\ Sound(x)
      BY DEF GuardInv, GuardTypeOK
    <3>1. guard'[h] = [x EXCEPT !.replaced = At(h, "open")]
      BY <2>2 DEF Replace
    <3>2. /\ guard'[h].pc = x.pc /\ guard'[h].since = x.since /\ guard'[h].answer = x.answer
          /\ guard'[h].known = x.known /\ guard'[h].fault = x.fault
      BY <3>1 DEF Guard
    <3>3. x.since \in Nat /\ (x.answer # "error" => x.answer \in Statuses)
      BY DEF Guard, Times
    <3> QED BY <1>2, <1>3, <1>4, <1>6, <3>2, <3>3 DEF Sound
  <2> QED BY <2>0, <2>1, <2>2
<1>9. GuardTypeOK'
  <2>1. guard' \in [Guards -> Guard] BY <1>8 DEF Replace
  <2> QED BY <1>1, <1>2, <1>3, <1>6, <2>1 DEF GuardTypeOK
<1> QED BY <1>1, <1>3, <1>7, <1>8, <1>9 DEF GuardInv

(* A step of the clock or of the registry.                                 *)
LEMMA OtherGuardsKeep ==
  ASSUME GuardInv, RegistryInv', UNCHANGED <<cache, guard>>, Remember,
         now' \in Times, now' >= now,
         \A g \in Guards : guard[g].pc \in {"asked", "answered"} => now' <= guard[g].since + Timeout
  PROVE  GuardInv'
<1>1. /\ held \in [Statuses -> Times \cup {-1}] /\ held' \in [Statuses -> Times \cup {-1}]
      /\ \A s \in Statuses : held'[s] >= held[s]
      /\ HistoryCurrent' /\ UNCHANGED failClosed /\ failClosed' \in BOOLEAN
  BY HistoryGrows DEF GuardInv, GuardTypeOK
<1>2. /\ \A s \in Statuses : held[s] \in Int /\ held'[s] \in Int
      /\ now \in Nat /\ now' \in Nat /\ Timeout \in Nat /\ cache.at \in Nat
  BY <1>1, GuardAssumption DEF GuardInv, GuardTypeOK, Times
<1>3. GuardTypeOK' BY <1>1 DEF GuardInv, GuardTypeOK, RegistryInv
<1>4. CacheHeld' BY <1>1, <1>2 DEF GuardInv, CacheHeld
<1>5. ASSUME NEW g \in Guards PROVE Sound(guard[g])'
  <2> PICK x \in Guard : x = guard[g] /\ x = guard'[g] /\ Sound(x)
    BY DEF GuardInv, GuardTypeOK
  <2>1. x.since \in Nat /\ (x.answer # "error" => x.answer \in Statuses)
    BY DEF Guard, Times
  <2> QED BY <1>1, <1>2, <2>1 DEF Sound
<1> QED BY <1>1, <1>3, <1>4, <1>5 DEF GuardInv

LEMMA GuardInitHolds == GuardInit => GuardInv
<1> SUFFICES ASSUME GuardInit PROVE GuardInv OBVIOUS
<1>1. RegistryInv BY RegistryInitHolds DEF GuardInit
<1>2. /\ now = 0 /\ 0 \in Times /\ NewGuard \in Guard /\ NoCache \in [status : Statuses \cup {"none"}, at : Times]
  BY GuardAssumption DEF GuardInit, NewGuard, Guard, NoCache, Times
<1>3. held \in [Statuses -> Times \cup {-1}] BY <1>2 DEF GuardInit
<1>4. GuardTypeOK BY <1>1, <1>2, <1>3 DEF GuardInit, GuardTypeOK, RegistryInv
<1>5. HistoryCurrent BY DEF GuardInit, HistoryCurrent
<1>6. CacheHeld BY DEF GuardInit, CacheHeld
<1>7. \A g \in Guards : Sound(guard[g])
  BY DEF GuardInit, Sound, NewGuard, Ended
<1> QED BY <1>1, <1>4, <1>5, <1>6, <1>7 DEF GuardInv

(* The guard that each operator of the module leaves behind.               *)
LEMMA EndSound ==
  ASSUME GuardInv, NEW g \in Guards,
         NEW end \in {"allowed", "blocked", "failed"}, NEW known \in BOOLEAN, NEW fault \in BOOLEAN,
         end = "allowed" /\ ~known => fault /\ ~failClosed
  PROVE  LET x == [NewGuard EXCEPT !.pc = end, !.known = known, !.fault = fault]
         IN  x \in Guard /\ Sound(x)
<1> DEFINE x == [NewGuard EXCEPT !.pc = end, !.known = known, !.fault = fault]
<1>1. NewGuard \in Guard BY GuardAssumption DEF Guard, NewGuard, Times
<1>2. x \in Guard /\ x.pc = end /\ x.known = known /\ x.fault = fault
  BY <1>1 DEF Guard
<1>3. Sound(x) BY <1>2 DEF Sound, Ended
<1> QED BY <1>2, <1>3

LEMMA AskKeeps ==
  ASSUME GuardInv, UNCHANGED <<now, registryVars, cache>>, Remember,
         NEW g \in Guards, At(g, "open"), Ask(g)
  PROVE  GuardInv'
<1> DEFINE x == [guard[g] EXCEPT !.pc = "asked", !.since = now, !.replaced = FALSE]
<1>1. guard' = [guard EXCEPT ![g] = x] BY DEF Ask, GuardInv, GuardTypeOK
<1>2. guard[g] \in Guard /\ Sound(guard[g]) /\ now \in Times /\ now \in Nat /\ Timeout \in Nat
  BY GuardAssumption DEF GuardInv, GuardTypeOK, Times
<1>3. x \in Guard BY <1>2 DEF Guard
<1>4. x.pc = "asked" /\ x.since = now /\ x.known = guard[g].known /\ guard[g].pc = "open"
  BY <1>2 DEF Guard, At
<1>5. Sound(x) BY <1>2, <1>4 DEF Sound, Ended
<1> QED BY <1>1, <1>3, <1>5, GuardKeeps

LEMMA GiveUpKeeps ==
  ASSUME GuardInv, UNCHANGED <<now, registryVars, cache>>, Remember,
         NEW g \in Guards, NEW fault \in BOOLEAN, GiveUp(g, fault), fault \/ failClosed
  PROVE  GuardInv'
<1>1. guard[g].fault \in BOOLEAN BY DEF GuardInv, GuardTypeOK, Guard
<1>2. PICK end \in {"allowed", "blocked", "failed"} : end = IF failClosed THEN "failed" ELSE "allowed"
  OBVIOUS
<1>3. PICK f \in BOOLEAN : f = (guard[g].fault \/ fault) BY <1>1
<1>4. guard' = [guard EXCEPT ![g] = [NewGuard EXCEPT !.pc = end, !.known = FALSE, !.fault = f]]
  BY <1>2, <1>3 DEF GiveUp, End
<1>5. end = "allowed" => f /\ ~failClosed BY <1>2, <1>3
<1> QED BY <1>4, <1>5, EndSound, GuardKeeps

LEMMA GuardStepKeeps ==
  ASSUME GuardInv, UNCHANGED <<now, registryVars>>, Remember, NEW g \in Guards, GuardStep(g)
  PROVE  GuardInv'
<1>0. /\ guard[g] \in Guard /\ Sound(guard[g]) /\ guard[g].fault \in BOOLEAN
      /\ now \in Times /\ now \in Nat /\ Timeout \in Nat
      /\ NewGuard \in Guard
  BY GuardAssumption DEF GuardInv, GuardTypeOK, Guard, NewGuard, Times
<1>1. CASE BeginCall(g)
  <2>1. CASE cache = NoCache
             /\ guard' = [guard EXCEPT ![g] = [NewGuard EXCEPT !.pc = "asked", !.since = now]]
    <3> DEFINE x == [NewGuard EXCEPT !.pc = "asked", !.since = now]
    <3>1. x \in Guard /\ x.pc = "asked" /\ x.since = now /\ x.known = FALSE
      BY <1>0 DEF NewGuard, Guard
    <3>2. Sound(x) BY <1>0, <3>1 DEF Sound
    <3> QED BY <1>1, <2>1, <3>1, <3>2, GuardKeeps DEF BeginCall
  <2>2. CASE cache # NoCache
             /\ guard' = [guard EXCEPT ![g] = [NewGuard EXCEPT !.pc = "open"]]
    <3> DEFINE x == [NewGuard EXCEPT !.pc = "open"]
    <3>1. x \in Guard /\ x.pc = "open" /\ x.known = FALSE
      BY <1>0 DEF NewGuard, Guard
    <3>2. Sound(x) BY <2>2, <3>1 DEF Sound
    <3> QED BY <1>1, <2>2, <3>1, <3>2, GuardKeeps DEF BeginCall
  <2>3. CASE guard' = [guard EXCEPT ![g] =
               [NewGuard EXCEPT !.pc = IF failClosed THEN "failed" ELSE "allowed", !.fault = TRUE]]
    <3> DEFINE x == [NewGuard EXCEPT !.pc = IF failClosed THEN "failed" ELSE "allowed", !.fault = TRUE]
    <3>1. x \in Guard /\ x.pc = (IF failClosed THEN "failed" ELSE "allowed") /\ x.fault = TRUE
      BY <1>0 DEF NewGuard, Guard
    <3>2. Sound(x) BY <3>1 DEF Sound, Ended
    <3> QED BY <1>1, <2>3, <3>1, <3>2, GuardKeeps DEF BeginCall
  <2> QED BY <1>1, <2>1, <2>2, <2>3 DEF BeginCall
<1>2. CASE OpenCache(g)
  <2>1. CASE PastCache(g)
    <3>1. CASE failClosed /\ GiveUp(g, FALSE)
      BY <1>2, <3>1, GiveUpKeeps DEF OpenCache
    <3>2. CASE Ask(g) BY <1>2, <3>2, AskKeeps DEF OpenCache
    <3> QED BY <2>1, <3>1, <3>2 DEF PastCache
  <2>2. CASE Decide(g, cache.status)
    <3>1. PICK end \in {"allowed", "blocked", "failed"} :
            end = IF cache.status = "active" THEN "allowed" ELSE "blocked"
      OBVIOUS
    <3>2. guard' = [guard EXCEPT ![g] = [NewGuard EXCEPT !.pc = end, !.known = TRUE, !.fault = FALSE]]
      BY <2>2, <3>1 DEF Decide, End
    <3> QED BY <1>2, <3>2, EndSound, GuardKeeps DEF OpenCache
  <2>3. CASE Ask(g) BY <1>2, <2>3, AskKeeps DEF OpenCache
  <2> QED BY <1>2, <2>1, <2>2, <2>3 DEF OpenCache
<1>3. ASSUME NEW works \in BOOLEAN, Serve(g, works) PROVE GuardInv'
  <2>1. PICK s \in Statuses \cup {"error"} :
          s = IF works /\ Present(Guarded) THEN agents[Guarded] ELSE "error"
    BY GuardAssumption DEF GuardInv, RegistryInv, RegistryTypeOK, AgentStatus, Statuses, Present
  <2>2. PICK f \in BOOLEAN : f = (guard[g].fault \/ ~works \/ ~Present(Guarded)) BY <1>0
  <2> DEFINE x == [guard[g] EXCEPT !.pc = "answered", !.answer = s, !.fault = f]
  <2>3. guard' = [guard EXCEPT ![g] = x]
    BY <1>3, <2>1, <2>2 DEF Serve, GuardInv, GuardTypeOK
  <2>4. /\ x \in Guard /\ x.pc = "answered" /\ x.answer = s
        /\ x.since = guard[g].since /\ x.known = guard[g].known /\ guard[g].pc = "asked"
    BY <1>0, <1>3 DEF Guard, Serve, At
  <2>5. s # "error" => s \in Statuses /\ held[s] = now
    BY <2>1 DEF GuardInv, HistoryCurrent
  <2>6. Sound(x)
    BY <1>0, <2>4, <2>5 DEF Sound, Ended
  <2> QED BY <1>3, <2>3, <2>4, <2>6, GuardKeeps DEF Serve
<1>4. CASE AbortRequest(g) BY <1>4, GiveUpKeeps DEF AbortRequest
<1>5. ASSUME NEW written \in BOOLEAN, Receive(g, written) PROVE GuardInv'
  <2>1. CASE guard[g].answer = "error" \/ ~written
    BY <1>5, <2>1, GiveUpKeeps DEF Receive
  <2>2. CASE ~(guard[g].answer = "error" \/ ~written)
    BY <1>5, <2>2, ReplaceKeeps DEF Receive
  <2> QED BY <2>1, <2>2
<1> QED BY <1>1, <1>2, <1>3, <1>4, <1>5 DEF GuardStep

(* GuardInv holds in every state of the guards and the registry.           *)
THEOREM GuardInvariance == GuardSpec => []GuardInv
<1>1. GuardInv /\ [GuardNext]_guardedVars => GuardInv'
  <2> SUFFICES ASSUME GuardInv, [GuardNext]_guardedVars PROVE GuardInv' OBVIOUS
  <2>0. /\ now \in Times /\ now \in Nat /\ Timeout \in Nat /\ LastTime \in Nat
        /\ RegistryInv
        /\ \A g \in Guards : guard[g].since \in Nat /\ Sound(guard[g])
    BY GuardAssumption DEF GuardInv, GuardTypeOK, Guard, Times
  <2>1. CASE (\E g \in Guards : GuardStep(g)) /\ UNCHANGED <<now, registryVars>> /\ Remember
    BY <2>1, GuardStepKeeps
  <2>2. CASE Tick /\ UNCHANGED registryVars /\ Remember
    <3>1. RegistryInv'
      BY <2>0, <2>2, RegistryRests
    <3>2. now' \in Times /\ now' >= now /\ UNCHANGED <<cache, guard>>
      BY <2>0, <2>2 DEF Tick, Times
    <3>3. \A g \in Guards : guard[g].pc \in {"asked", "answered"} => now' <= guard[g].since + Timeout
      BY <2>0, <2>2 DEF Tick, Punctual
    <3> QED BY <2>2, <3>1, <3>2, <3>3, OtherGuardsKeep
  <2>3. CASE RegistryNext /\ UNCHANGED <<now, cache, guard>> /\ Remember
    <3>1. RegistryInv' BY <2>0, <2>3, RegistryKeeps
    <3>2. \A g \in Guards : guard[g].pc \in {"asked", "answered"} => now' <= guard[g].since + Timeout
      BY <2>0, <2>3 DEF Sound
    <3> QED BY <2>0, <2>3, <3>1, <3>2, OtherGuardsKeep
  <2>4. CASE UNCHANGED guardedVars
    <3>1. RegistryInv' BY <2>0, <2>4, RegistryRests DEF guardedVars
    <3> QED BY <2>4, <3>1 DEF guardedVars, registryVars, guardVars, GuardInv, RegistryInv,
            GuardTypeOK, HistoryCurrent, CacheHeld, Sound
  <2> QED BY <2>1, <2>2, <2>3, <2>4 DEF GuardNext
<1> QED BY <1>1, GuardInitHolds, PTL DEF GuardSpec

(* The dates of the admin_events rows tell the status of every agent that  *)
(* exists, as far as requests about it did not overlap                     *)
(* (agent-service.ts:210-260, 273-320).                                    *)
THEOREM TrailTheorem == GuardSpec => []TrailExplainsStatus
<1>1. GuardInv => TrailExplainsStatus BY DEF GuardInv, RegistryInv
<1> QED BY <1>1, GuardInvariance, PTL

(* A key row exists exactly while its agent's row does                     *)
(* (agent-service.ts:74-140, 232-452).                                     *)
THEOREM KeysTheorem == GuardSpec => []KeysFollowAgents
<1>1. GuardInv => KeysFollowAgents BY DEF GuardInv, RegistryInv
<1> QED BY <1>1, GuardInvariance, PTL

(* A revoked key becomes usable only through the deletion of its agent.    *)
THEOREM RevocationTheorem == GuardSpec => RevocationIsFinal
<1>1. ASSUME GuardInv, [GuardNext]_guardedVars
      PROVE  [\A k \in Kids : (keys[k] = "revoked" /\ keys'[k] # "revoked")
                 => KeyAgent[k] \in deleted']_registryVars
  <2>1. CASE RegistryNext BY <1>1, <2>1, RevokedStays DEF GuardInv
  <2>2. CASE UNCHANGED registryVars BY <2>2
  <2> QED BY <1>1, <2>1, <2>2 DEF GuardNext, guardedVars
<1> QED BY <1>1, GuardInvariance, PTL DEF GuardSpec, RevocationIsFinal

(* A guard allows a call without knowing the status only after a fault and *)
(* only when it is to fail open (guard-template.ts:142-227).               *)
THEOREM GuessTheorem == GuardSpec => []GuessNeedsFault
<1>1. GuardInv => GuessNeedsFault BY DEF GuardInv, GuessNeedsFault, Sound, At
<1> QED BY <1>1, GuardInvariance, PTL

(* A guard learns a status from a fresh file or from an answer.            *)
LEMMA Learns ==
  ASSUME GuardInv, NEW h \in Guards, GuardStep(h),
         NEW g \in Guards, guard[g].pc \notin Ended, guard'[g].known
  PROVE  \E s \in Statuses :
           /\ guard'[g].pc = IF s = "active" THEN "allowed" ELSE "blocked"
           /\ \/ At(g, "open") /\ Fresh /\ cache # NoCache /\ s = cache.status
              \/ At(g, "answered") /\ s = guard[g].answer
<1>0. /\ guard \in [Guards -> Guard] /\ Sound(guard[g]) /\ ~guard[g].known
      /\ guard[h] \in Guard /\ NewGuard \in Guard /\ NewGuard.known = FALSE
  BY GuardAssumption DEF GuardInv, GuardTypeOK, Sound, Guard, NewGuard, Times
<1> DEFINE Wrote(x) == guard' = [guard EXCEPT ![h] = x]
<1>1. ASSUME NEW x, Wrote(x) PROVE g = h /\ guard'[g] = x
  BY <1>0, <1>1
<1> HIDE DEF Wrote
<1>2. ~GiveUp(h, TRUE) /\ ~GiveUp(h, FALSE)
  <2> SUFFICES ASSUME NEW fault \in BOOLEAN, GiveUp(h, fault) PROVE FALSE OBVIOUS
  <2> DEFINE x == [NewGuard EXCEPT !.pc = IF failClosed THEN "failed" ELSE "allowed",
                     !.known = FALSE, !.fault = guard[h].fault \/ fault]
  <2>1. Wrote(x) BY DEF GiveUp, End, Wrote
  <2>2. x.known = FALSE BY DEF NewGuard
  <2> QED BY <1>1, <2>1, <2>2
<1>3. ~Ask(h)
  <2> SUFFICES ASSUME Ask(h) PROVE FALSE OBVIOUS
  <2> DEFINE x == [guard[h] EXCEPT !.pc = "asked", !.since = now, !.replaced = FALSE]
  <2>1. Wrote(x) BY <1>0 DEF Ask, Wrote
  <2>2. x.known = guard[h].known BY <1>0 DEF Guard
  <2> QED BY <1>0, <1>1, <2>1, <2>2
<1>4. ~BeginCall(h)
  <2> SUFFICES ASSUME BeginCall(h) PROVE FALSE OBVIOUS
  <2>1. PICK x : Wrote(x) BY DEF BeginCall, Wrote
  <2> QED BY <1>1, <2>1 DEF BeginCall
<1>5. CASE OpenCache(h)
  <2> PICK end : end = IF cache.status = "active" THEN "allowed" ELSE "blocked" OBVIOUS
  <2> DEFINE x == [NewGuard EXCEPT !.pc = end, !.known = TRUE, !.fault = FALSE]
  <2>1. At(h, "open") /\ Fresh /\ Wrote(x)
    BY <1>2, <1>3, <1>5 DEF OpenCache, PastCache, Decide, End, Wrote
  <2>a. x.pc = end BY DEF NewGuard
  <2> HIDE DEF x
  <2>2. g = h /\ guard'[g].pc = end
    BY <1>1, <2>1, <2>a
  <2>3. cache # NoCache /\ cache.status \in Statuses
    BY <1>0, <2>1, <2>2 DEF Sound, At, GuardInv, CacheHeld
  <2> QED BY <2>1, <2>2, <2>3
<1>6. ASSUME NEW works \in BOOLEAN, Serve(h, works) PROVE FALSE
  <2>1. guard'[h].known = guard[h].known /\ \A i \in Guards : i # h => guard'[i] = guard[i]
    BY <1>0, <1>6 DEF Serve, Guard
  <2> QED BY <1>0, <2>1
<1>7. ~AbortRequest(h) BY <1>2 DEF AbortRequest
<1>8. ASSUME NEW written \in BOOLEAN, Receive(h, written)
      PROVE  \E s \in Statuses :
               /\ guard'[g].pc = IF s = "active" THEN "allowed" ELSE "blocked"
               /\ At(g, "answered") /\ s = guard[g].answer
  <2>1. /\ At(h, "answered") /\ guard[h].answer # "error"
        /\ Replace(h, guard[h].answer, now)
    BY <1>2, <1>8 DEF Receive
  <2>2. g = h
    <3>1. ASSUME g # h PROVE FALSE
      <4>1. guard'[g] = [guard[g] EXCEPT !.replaced = At(g, "open")]
        BY <2>1, <3>1 DEF Replace
      <4>2. guard[g] \in Guard BY <1>0
      <4>3. guard'[g].known = guard[g].known BY <4>1, <4>2 DEF Guard
      <4> QED BY <1>0, <4>3
    <3> QED BY <3>1
  <2>3. guard'[g].pc = IF guard[g].answer = "active" THEN "allowed" ELSE "blocked"
    BY <2>1, <2>2 DEF Replace, NewGuard
  <2>4. guard[g].answer \in Statuses BY <1>0, <2>1, <2>2 DEF Guard
  <2> QED BY <2>1, <2>2, <2>3, <2>4
<1> QED BY <1>4, <1>5, <1>6, <1>7, <1>8 DEF GuardStep

(* A guard that ends on a status, from a fresh file or from the server,    *)
(* goes by one the agent had less than CACHE_TTL_MS and a request ago      *)
(* (guard-template.ts:142-227).                                            *)
THEOREM VerdictTheorem == GuardSpec => VerdictIsRecent
<1>1. ASSUME GuardInv, [GuardNext]_guardedVars
      PROVE  [\A g \in Guards, s \in Statuses :
                s \in Verdict(g) =>
                  /\ held[s] >= 0
                  /\ now - held[s] < TTL + Timeout]_guardedVars
  <2> SUFFICES ASSUME GuardNext, NEW g \in Guards, NEW t \in Statuses, t \in Verdict(g)
               PROVE  held[t] >= 0 /\ now - held[t] < TTL + Timeout
    BY <1>1
  <2>1. guard[g].pc \notin Ended /\ guard'[g].known BY DEF Verdict
  <2>2. Sound(guard[g]) /\ guard[g] \in Guard /\ ~guard[g].known
    BY <1>1, <2>1 DEF GuardInv, GuardTypeOK, Sound
  <2>3. PICK h \in Guards : GuardStep(h)
    BY <2>1, <2>2 DEF GuardNext, Tick
  <2>4. PICK s \in Statuses :
          /\ guard'[g].pc = IF s = "active" THEN "allowed" ELSE "blocked"
          /\ \/ At(g, "open") /\ Fresh /\ cache # NoCache /\ s = cache.status
             \/ At(g, "answered") /\ s = guard[g].answer
    BY <1>1, <2>1, <2>3, Learns
  <2>5. t = s BY <2>1, <2>4 DEF Verdict, Statuses
  <2>6. /\ now \in Nat /\ TTL \in Nat \ {0} /\ Timeout \in Nat /\ cache.at \in Nat
        /\ held[s] \in Int /\ guard[g].since \in Nat
    BY <1>1, <2>2, GuardAssumption DEF GuardInv, GuardTypeOK, Times, Guard
  <2>7. CASE At(g, "open") /\ Fresh /\ cache # NoCache /\ s = cache.status
    <3>1. held[s] >= 0 /\ cache.at <= held[s] + Timeout /\ now - cache.at < TTL
      BY <1>1, <2>7 DEF GuardInv, CacheHeld, Fresh
    <3> QED BY <2>5, <2>6, <3>1
  <2>8. CASE At(g, "answered") /\ s = guard[g].answer
    <3>1. held[s] >= guard[g].since /\ now <= guard[g].since + Timeout
      BY <2>2, <2>8 DEF Sound, At, Statuses
    <3>2. held[s] >= 0 /\ now - held[s] < Timeout + 1 BY <2>6, <3>1
    <3>3. Timeout + 1 <= TTL + Timeout BY <2>6
    <3> QED BY <2>5, <2>6, <3>2, <3>3
  <2> QED BY <2>4, <2>7, <2>8
<1> QED BY <1>1, GuardInvariance, PTL DEF GuardSpec, VerdictIsRecent
===============================================================================
