------------------------------ MODULE SdkClient ------------------------------
(***************************************************************************)
(* ElydoraClient of the SDK (sdks/node/src/client.ts) in front of the      *)
(* server's chain: createOperation links an operation to the local head    *)
(* and moves the head at once, submitOperation sends it some time later.   *)
(* Several submissions may be under way, in any order; each may be lost,   *)
(* or its answer; the application may submit an operation again.  Whatever *)
(* the server answers, the local head stays where it is, and every client  *)
(* starts from ZERO_CHAIN_HASH.                                            *)
(*                                                                         *)
(* The server is AuditChain, what OperationIngest implements: it appends   *)
(* an operation whose prev_chain_hash is that of its last one.  A chain    *)
(* hash is modelled by the operation it is the hash of.                    *)
(***************************************************************************)
EXTENDS Naturals, Sequences

CONSTANTS
  Clients,    \* client objects of one agent; a process that restarts makes another
  LastOp,     \* bound: operations are created with ids 1..LastOp (uuidv7)
  LastDate    \* bound of the server's clock

ASSUME SdkAssumption == LastOp \in Nat /\ LastDate \in Nat

VARIABLES
  head,       \* prevChainHash of each client
  eors,       \* the operations created, in the order of their ids
  request,    \* where the submission of each operation is
  date,       \* receivedAt of each operation's last submission
  chain,      \* the operations stored, in the order of seq_no
  now         \* the server's clock

sdkVars == <<head, eors, request, date, chain, now>>

Zero == 0                                        \* ZERO_CHAIN_HASH
Ops == 1 .. LastOp
Ids == DOMAIN eors
Hashes == Ops \cup {Zero}
Eor == [prev : Hashes, client : Clients]
Requests == {"none", "sent", "arrived", "accepted"}

SdkTypeOK ==
  /\ head \in [Clients -> Hashes]
  /\ eors \in Seq(Eor) /\ Len(eors) <= LastOp
  /\ request \in [Ops -> Requests]
  /\ date \in [Ops -> 0..LastDate]
  /\ chain \in Seq(Ops)
  /\ now \in 0..LastDate

SdkInit ==
  /\ head = [c \in Clients |-> Zero]
  /\ eors = <<>>
  /\ request = [o \in Ops |-> "none"]
  /\ date = [o \in Ops |-> 0]
  /\ chain = <<>>
  /\ now = 0

(* Mutant: the head waits for the answer.                                  *)
CreateOperationKeepsHead(c) ==
  /\ Len(eors) < LastOp
  /\ eors' = Append(eors, [prev |-> head[c], client |-> c])
  /\ UNCHANGED <<head, request, date, chain, now>>

CreateOperation(c) ==
  /\ Len(eors) < LastOp
  /\ eors' = Append(eors, [prev |-> head[c], client |-> c])
  /\ head' = [head EXCEPT ![c] = Len(eors')]
  /\ UNCHANGED <<request, date, chain, now>>

(* submitOperation: a POST, never repeated by request() itself.            *)
SubmitOperation(o) ==
  /\ o \in Ids
  /\ request[o] = "none"
  /\ request' = [request EXCEPT ![o] = "sent"]
  /\ UNCHANGED <<head, eors, date, chain, now>>

Arrive(o) ==
  /\ request[o] = "sent"
  /\ request' = [request EXCEPT ![o] = "arrived"]
  /\ date' = [date EXCEPT ![o] = now]
  /\ UNCHANGED <<head, eors, chain, now>>

ChainHead == IF chain = <<>> THEN Zero ELSE chain[Len(chain)]

(* The server appends it.  The answer may be lost, and changes nothing.    *)
Accept(o) ==
  /\ request[o] = "arrived"
  /\ eors[o].prev = ChainHead
  /\ request' = [request EXCEPT ![o] = "accepted"]
  /\ chain' = Append(chain, o)
  /\ UNCHANGED <<head, eors, date, now>>

(* The request is lost or refused, for its prev_chain_hash or for another  *)
(* reason; a failed server refuses whatever the chain is.                  *)
Refuse(o) ==
  /\ request[o] \in {"sent", "arrived"}
  /\ request' = [request EXCEPT ![o] = "none"]
  /\ UNCHANGED <<head, eors, date, chain, now>>

Tick ==
  /\ now < LastDate
  /\ now' = now + 1
  /\ UNCHANGED <<head, eors, request, date, chain>>

SdkNext ==
  \/ \E c \in Clients : CreateOperation(c)
  \/ \E o \in Ops : SubmitOperation(o) \/ Arrive(o) \/ Accept(o) \/ Refuse(o)
  \/ Tick

SdkSpec == SdkInit /\ [][SdkNext]_sdkVars
-----------------------------------------------------------------------------
(* The operations that its client created before o.                        *)
Earlier(o) == {q \in 1 .. o - 1 : eors[q].client = eors[o].client}

(* However the submissions of a client are delayed, lost, reordered and    *)
(* repeated, the server holds exactly a prefix of what one client created, *)
(* in the order of creation and without a gap: once an operation is lost,  *)
(* nothing the client creates later gets in before it, and a client that   *)
(* starts anew on a chain that is not empty gets nothing in at all         *)
(* (client.ts:74, 174-219).                                                *)
AcceptedInOrder ==
  \A i \in DOMAIN chain :
    /\ eors[chain[i]].client = eors[chain[1]].client
    /\ Earlier(chain[i]) = {chain[j] : j \in 1 .. i - 1}

-----------------------------------------------------------------------------
(* Why: the inductive invariant.                                           *)

(* The local head is the last operation that the client created.           *)
HeadIsLatest ==
  \A c \in Clients :
    /\ head[c] = Zero => \A q \in Ids : eors[q].client # c
    /\ head[c] # Zero => /\ head[c] \in Ids
                         /\ eors[head[c]].client = c
                         /\ \A q \in Ids : eors[q].client = c => q <= head[c]

(* The operations before one are those before its predecessor, and that.   *)
Linked(o) ==
  LET p == eors[o].prev IN
  IF p = Zero THEN Earlier(o) = {}
  ELSE /\ p \in Ids
       /\ eors[p].client = eors[o].client
       /\ Earlier(o) = Earlier(p) \cup {p}

OnlyCreated ==
  /\ \A o \in Ops : request[o] # "none" => o \in Ids
  /\ \A i \in DOMAIN chain : chain[i] \in Ids

SdkInv ==
  /\ SdkTypeOK
  /\ HeadIsLatest
  /\ \A o \in Ids : Linked(o)
  /\ OnlyCreated
  /\ AcceptedInOrder
=============================================================================
