-------------------------- MODULE AuditTrail_proofs --------------------------
(***************************************************************************)
(* What auditors see, for any number of operations, clients, pages and     *)
(* leaves: the pages of the audit log are complete, inclusion proofs lead  *)
(* to the root of their tree, and the root tells the leaves.               *)
(*                                                                         *)
(* The trees, the proofs and their verification are recursive functions.   *)
(* Nothing here is proved by induction: a set of numbers that violate a    *)
(* claim has a smallest member (Smallest), and the one before it leads to  *)
(* a contradiction.  In this way each recursive function is shown to exist *)
(* and to satisfy its equation (LayersEquation, PathEquation,              *)
(* ClimbEquation).                                                         *)
(***************************************************************************)
EXTENDS AuditTrail, FiniteSetTheorems, WellFoundedInduction, TLAPS

-----------------------------------------------------------------------------
(* The operations: the server's chain is a prefix of what one client      *)
(* created.  SdkInv is an inductive invariant.                            *)

(* The operations of a client before o do not depend on what is created    *)
(* later: Append leaves the ids up to o as they are.                       *)
LEMMA EarlierKept ==
  ASSUME NEW n, NEW e, SdkTypeOK, n = Len(eors) + 1, eors' = Append(eors, e), e \in Eor
  PROVE  /\ eors' \in Seq(Eor) /\ Len(eors') = n
         /\ DOMAIN eors' = Ids \cup {n}
         /\ eors'[n] = e
         /\ \A o \in Ids : eors'[o] = eors[o] /\ Earlier(o)' = Earlier(o)
         /\ Earlier(n)' = {q \in Ids : eors[q].client = e.client}
<1>1. eors \in Seq(Eor) /\ Len(eors) \in Nat /\ Ids = 1 .. Len(eors)
  BY DEF SdkTypeOK, Ids
<1>2. /\ eors' \in Seq(Eor) /\ Len(eors') = n
      /\ DOMAIN eors' = 1 .. n
      /\ eors'[n] = e
      /\ \A o \in Ids : eors'[o] = eors[o]
  BY <1>1
<1>3. ASSUME NEW o \in Ids PROVE Earlier(o)' = Earlier(o)
  <2>1. eors'[o] = eors[o] /\ \A q \in 1 .. o - 1 : eors'[q] = eors[q]
    BY <1>1, <1>2, <1>3
  <2> QED BY <2>1 DEF Earlier
<1>4. Earlier(n)' = {q \in Ids : eors[q].client = e.client}
  <2>1. 1 .. n - 1 = Ids /\ eors'[n] = e BY <1>1, <1>2
  <2>2. \A q \in Ids : eors'[q] = eors[q] BY <1>2
  <2>3. Earlier(n)' = {q \in 1 .. n - 1 : eors'[q].client = eors'[n].client} BY DEF Earlier
  <2> QED BY <2>1, <2>2, <2>3
<1> QED  BY <1>1, <1>2, <1>3, <1>4

(* An operation created by c is linked to what c created before.           *)
LEMMA NewIsLinked ==
  ASSUME SdkInv, NEW c \in Clients, CreateOperation(c)
  PROVE  SdkInv'
<1>0. PICK n : n = Len(eors) + 1 OBVIOUS
<1> DEFINE e == [prev |-> head[c], client |-> c]
<1>1. SdkTypeOK /\ HeadIsLatest /\ (\A o \in Ids : Linked(o)) /\ OnlyCreated /\ AcceptedInOrder
  BY DEF SdkInv
<1>2. /\ Len(eors) < LastOp /\ eors' = Append(eors, e) /\ head' = [head EXCEPT ![c] = Len(eors')]
      /\ UNCHANGED <<request, date, chain, now>>
  BY DEF CreateOperation
<1>3. e \in Eor /\ eors \in Seq(Eor) /\ Len(eors) \in Nat /\ Ids = 1 .. Len(eors)
  BY <1>1 DEF SdkTypeOK, Eor, Ids
<1>4. /\ eors' \in Seq(Eor) /\ Len(eors') = n /\ Ids' = Ids \cup {n} /\ eors'[n] = e
      /\ \A o \in Ids : eors'[o] = eors[o] /\ Earlier(o)' = Earlier(o)
      /\ Earlier(n)' = {q \in Ids : eors[q].client = c}
  <2> HIDE DEF e
  <2>1. e.client = c BY DEF e
  <2> QED BY <1>0, <1>1, <1>2, <1>3, <2>1, EarlierKept DEF Ids
<1>5. n \in Ops /\ n # Zero /\ n \notin Ids /\ LastOp \in Nat
  BY <1>0, <1>2, <1>3, SdkAssumption DEF Ops, Zero
<1>6. \A d \in Clients : head'[d] = IF d = c THEN n ELSE head[d]
  BY <1>1, <1>2, <1>4 DEF SdkTypeOK
<1>7. SdkTypeOK'
  BY <1>1, <1>2, <1>4, <1>5 DEF SdkTypeOK, Hashes
<1>8. HeadIsLatest'
  <2> SUFFICES ASSUME NEW d \in Clients
               PROVE  /\ head'[d] = Zero => \A q \in Ids' : eors'[q].client # d
                      /\ head'[d] # Zero => /\ head'[d] \in Ids'
                                            /\ eors'[head'[d]].client = d
                                            /\ \A q \in Ids' : eors'[q].client = d => q <= head'[d]
    BY DEF HeadIsLatest, Zero
  <2>1. CASE d = c
    <3>1. head'[d] = n /\ eors'[n].client = d BY <1>4, <1>6, <2>1
    <3>2. \A q \in Ids' : q <= n BY <1>0, <1>3, <1>4
    <3> QED BY <1>4, <1>5, <3>1, <3>2
  <2>2. CASE d # c
    BY <1>1, <1>4, <1>5, <1>6, <2>2 DEF HeadIsLatest
  <2> QED BY <2>1, <2>2
<1>9. \A o \in Ids' : Linked(o)'
  <2>1. ASSUME NEW o \in Ids PROVE Linked(o)'
    <3>1. Linked(o) BY <1>1
    <3>2. eors'[o] = eors[o] /\ Earlier(o)' = Earlier(o) BY <1>4
    <3>3. eors[o].prev \in Ids => /\ eors'[eors[o].prev] = eors[eors[o].prev]
                                  /\ Earlier(eors[o].prev)' = Earlier(eors[o].prev)
      BY <1>4
    <3> HIDE DEF e
    <3> QED BY <1>4, <3>1, <3>2, <3>3 DEF Linked
  <2>2. Linked(n)'
    <3>0. eors'[n].prev = head[c] /\ eors'[n].client = c BY <1>4
    <3> HIDE DEF e
    <3>1. CASE head[c] = Zero
      <4>1. {q \in Ids : eors[q].client = c} = {} BY <1>1, <3>1 DEF HeadIsLatest
      <4> QED BY <1>4, <3>0, <3>1, <4>1 DEF Linked
    <3>2. CASE head[c] # Zero
      <4>1. /\ head[c] \in Ids /\ eors[head[c]].client = c
            /\ \A q \in Ids : eors[q].client = c => q <= head[c]
        BY <1>1, <3>2 DEF HeadIsLatest
      <4>2. {q \in Ids : eors[q].client = c} = Earlier(head[c]) \cup {head[c]}
        BY <1>3, <4>1 DEF Earlier
      <4>0. PICK p : p = head[c] OBVIOUS
      <4>3. eors'[p].client = c /\ Earlier(p)' = Earlier(p) /\ p \in Ids'
        BY <1>4, <4>0, <4>1
      <4> QED BY <1>4, <3>0, <3>2, <4>0, <4>2, <4>3 DEF Linked
    <3> QED BY <3>1, <3>2
  <2> QED BY <1>4, <2>1, <2>2
<1>10. OnlyCreated'
  BY <1>1, <1>2, <1>4 DEF OnlyCreated
<1>11. AcceptedInOrder'
  <2>1. chain' = chain /\ \A i \in DOMAIN chain : chain[i] \in Ids
    BY <1>1, <1>2 DEF OnlyCreated
  <2>2. \A i \in DOMAIN chain : /\ eors'[chain[i]] = eors[chain[i]]
                                /\ Earlier(chain[i])' = Earlier(chain[i])
    BY <1>4, <2>1
  <2>3. \A i \in DOMAIN chain : 1 \in DOMAIN chain BY <1>1 DEF SdkTypeOK
  <2> HIDE DEF e
  <2> SUFFICES ASSUME NEW i \in DOMAIN chain
               PROVE  /\ eors'[chain[i]].client = eors'[chain[1]].client
                      /\ Earlier(chain[i])' = {chain[j] : j \in 1 .. i - 1}
    BY <2>1 DEF AcceptedInOrder
  <2> QED BY <1>1, <2>2, <2>3 DEF AcceptedInOrder
<1> QED BY <1>7, <1>8, <1>9, <1>10, <1>11 DEF SdkInv

(* The predecessor of the operation accepted is the last one stored.       *)
LEMMA AcceptedIsNext ==
  ASSUME SdkInv, NEW o \in Ops, Accept(o)
  PROVE  SdkInv'
<1>1. SdkTypeOK /\ HeadIsLatest /\ (\A q \in Ids : Linked(q)) /\ OnlyCreated /\ AcceptedInOrder
  BY DEF SdkInv
<1>2. /\ request[o] = "arrived" /\ eors[o].prev = ChainHead
      /\ request' = [request EXCEPT ![o] = "accepted"] /\ chain' = Append(chain, o)
      /\ UNCHANGED <<head, eors, date, now>>
  BY DEF Accept
<1>3. o \in Ids /\ chain \in Seq(Ops) /\ Len(chain) \in Nat
  BY <1>1, <1>2 DEF OnlyCreated, SdkTypeOK
<1>4. /\ chain' \in Seq(Ops) /\ DOMAIN chain' = 1 .. Len(chain) + 1
      /\ chain'[Len(chain) + 1] = o
      /\ \A i \in 1 .. Len(chain) : chain'[i] = chain[i]
      /\ DOMAIN chain = 1 .. Len(chain)
  BY <1>2, <1>3
<1>5. /\ SdkTypeOK' /\ HeadIsLatest' /\ (\A q \in Ids' : Linked(q)')
  <2>1. SdkTypeOK' BY <1>1, <1>2, <1>4 DEF SdkTypeOK, Requests
  <2>2. HeadIsLatest' BY <1>1, <1>2 DEF HeadIsLatest, Ids
  <2>3. \A q \in Ids' : Linked(q)' BY <1>1, <1>2 DEF Linked, Earlier, Ids
  <2> QED BY <2>1, <2>2, <2>3
<1>6. OnlyCreated'
  BY <1>1, <1>2, <1>3, <1>4 DEF OnlyCreated, SdkTypeOK, Ids
<1>7. AcceptedInOrder'
  <2> SUFFICES ASSUME NEW i \in 1 .. Len(chain) + 1
               PROVE  /\ eors[chain'[i]].client = eors[chain'[1]].client
                      /\ Earlier(chain'[i]) = {chain'[j] : j \in 1 .. i - 1}
    BY <1>2, <1>4 DEF AcceptedInOrder, Earlier
  <2>1. CASE i \in 1 .. Len(chain)
    <3>1. \A j \in 1 .. i - 1 : chain'[j] = chain[j] BY <1>3, <1>4, <2>1
    <3>2. chain'[i] = chain[i] /\ chain'[1] = chain[1] BY <1>3, <1>4, <2>1
    <3> QED BY <1>1, <1>4, <2>1, <3>1, <3>2 DEF AcceptedInOrder
  <2>2. CASE i = Len(chain) + 1 /\ Len(chain) = 0
    <3>1. ChainHead = Zero BY <1>3, <2>2 DEF ChainHead
    <3>2. Earlier(o) = {} BY <1>1, <1>2, <1>3, <3>1 DEF Linked
    <3> QED BY <1>4, <2>2, <3>2
  <2>3. CASE i = Len(chain) + 1 /\ Len(chain) > 0
    <3> DEFINE last == chain[Len(chain)]
    <3>1. ChainHead = last /\ last \in Ops /\ last # Zero
      <4>1. chain # <<>> /\ last \in Ops BY <1>3, <2>3
      <4> QED BY <4>1 DEF ChainHead, Ops, Zero
    <3>2. eors[last].client = eors[o].client /\ Earlier(o) = Earlier(last) \cup {last}
      BY <1>1, <1>2, <1>3, <3>1 DEF Linked
    <3>3. /\ eors[last].client = eors[chain[1]].client
          /\ Earlier(last) = {chain[j] : j \in 1 .. Len(chain) - 1}
      BY <1>1, <1>3, <1>4, <2>3 DEF AcceptedInOrder
    <3>4. {chain[j] : j \in 1 .. Len(chain) - 1} \cup {last} = {chain[j] : j \in 1 .. Len(chain)}
      BY <1>3, <2>3
    <3>5. {chain[j] : j \in 1 .. Len(chain)} = {chain'[j] : j \in 1 .. i - 1}
      BY <1>3, <1>4, <2>3
    <3>6. chain'[i] = o /\ chain'[1] = chain[1] BY <1>3, <1>4, <2>3
    <3> QED BY <3>2, <3>3, <3>4, <3>5, <3>6
  <2> QED BY <1>3, <2>1, <2>2, <2>3
<1> QED BY <1>5, <1>6, <1>7 DEF SdkInv

(* Neither the clients nor the chain move.                                 *)
LEMMA Elsewhere ==
  ASSUME SdkInv, UNCHANGED <<head, eors, chain>>, SdkTypeOK',
         \A o \in Ops : request'[o] # "none" => o \in Ids
  PROVE  SdkInv'
<1>1. HeadIsLatest' BY DEF SdkInv, HeadIsLatest, Ids
<1>2. \A q \in Ids' : Linked(q)' BY DEF SdkInv, Linked, Earlier, Ids
<1>3. OnlyCreated' BY DEF SdkInv, OnlyCreated, Ids
<1>4. AcceptedInOrder' BY DEF SdkInv, AcceptedInOrder, Earlier
<1> QED BY <1>1, <1>2, <1>3, <1>4 DEF SdkInv

LEMMA SdkStep == SdkInv /\ [SdkNext]_sdkVars => SdkInv'
<1> SUFFICES ASSUME SdkInv, [SdkNext]_sdkVars PROVE SdkInv' OBVIOUS
<1>0. SdkTypeOK /\ OnlyCreated BY DEF SdkInv
<1>1. ASSUME NEW c \in Clients, CreateOperation(c) PROVE SdkInv'
  BY <1>1, NewIsLinked
<1>2. ASSUME NEW o \in Ops, Accept(o) PROVE SdkInv'
  BY <1>2, AcceptedIsNext
<1>3. ASSUME NEW o \in Ops, SubmitOperation(o) PROVE SdkInv'
  <2>1. SdkTypeOK' BY <1>0, <1>3 DEF SubmitOperation, SdkTypeOK, Requests
  <2>2. UNCHANGED <<head, eors, chain>> /\ \A q \in Ops : request'[q] # "none" => q \in Ids
    BY <1>0, <1>3 DEF SubmitOperation, SdkTypeOK, OnlyCreated
  <2> QED BY <2>1, <2>2, Elsewhere
<1>4. ASSUME NEW o \in Ops, Arrive(o) PROVE SdkInv'
  <2>1. SdkTypeOK' BY <1>0, <1>4 DEF Arrive, SdkTypeOK, Requests
  <2>2. UNCHANGED <<head, eors, chain>> /\ \A q \in Ops : request'[q] # "none" => q \in Ids
    BY <1>0, <1>4 DEF Arrive, SdkTypeOK, OnlyCreated
  <2> QED BY <2>1, <2>2, Elsewhere
<1>5. ASSUME NEW o \in Ops, Refuse(o) PROVE SdkInv'
  <2>1. SdkTypeOK' BY <1>0, <1>5 DEF Refuse, SdkTypeOK, Requests
  <2>2. UNCHANGED <<head, eors, chain>> /\ \A q \in Ops : request'[q] # "none" => q \in Ids
    BY <1>0, <1>5 DEF Refuse, SdkTypeOK, OnlyCreated
  <2> QED BY <2>1, <2>2, Elsewhere
<1>6. ASSUME Tick PROVE SdkInv'
  <2>1. SdkTypeOK' BY <1>0, <1>6, SdkAssumption DEF Tick, SdkTypeOK
  <2> QED BY <1>0, <1>6, <2>1, Elsewhere DEF Tick, OnlyCreated
<1>7. CASE UNCHANGED sdkVars
  <2>1. SdkTypeOK' BY <1>0, <1>7 DEF sdkVars, SdkTypeOK
  <2> QED BY <1>0, <1>7, <2>1, Elsewhere DEF sdkVars, OnlyCreated
<1> QED BY <1>1, <1>2, <1>3, <1>4, <1>5, <1>6, <1>7 DEF SdkNext

LEMMA SdkStart == SdkInit => SdkInv
<1> SUFFICES ASSUME SdkInit PROVE SdkInv OBVIOUS
<1>1. SdkTypeOK
  BY SdkAssumption DEF SdkInit, SdkTypeOK, Hashes, Zero, Requests, Eor, Ops
<1>2. Ids = {} /\ DOMAIN chain = {} BY DEF SdkInit, Ids
<1> QED BY <1>1, <1>2 DEF SdkInit, SdkInv, HeadIsLatest, OnlyCreated, AcceptedInOrder

(* Every state of an SDK client and its server satisfies SdkInv.           *)
THEOREM Invariance == SdkSpec => []SdkInv
<1>1. SdkInit => SdkInv BY SdkStart
<1>2. SdkInv /\ [SdkNext]_sdkVars => SdkInv' BY SdkStep
<1> QED BY <1>1, <1>2, PTL DEF SdkSpec

(* What the server holds is a prefix of what one client created            *)
(* (client.ts:174-219), for any number of clients and operations.          *)
THEOREM OrderTheorem == SdkSpec => []AcceptedInOrder
<1>1. SdkInv => AcceptedInOrder BY DEF SdkInv
<1> QED BY <1>1, Invariance, PTL

-----------------------------------------------------------------------------
(* The log and the trees.                                                  *)

(* A property that some natural number has, a smallest one has.            *)
LEMMA Smallest ==
  ASSUME NEW T, T \subseteq Nat, T # {}
  PROVE  \E x \in T : \A y \in T : x <= y
<1>1. \E x \in T : \A y \in T : ~ (<<y, x>> \in OpToRel(<, Nat))
  BY NatLessThanWellFounded, WFMin, Zenon
<1>2. \A x, y \in Nat : y < x => <<y, x>> \in OpToRel(<, Nat)
  BY Zenon DEF OpToRel
<1>3. \A x, y \in Nat : ~ (y < x) => x <= y OBVIOUS
<1> QED BY <1>1, <1>2, <1>3, Zenon

(* The layers of a tree are what their definition says.                    *)
LEMMA LayersEquation ==
  ASSUME NEW leaves, Len(leaves) \in Nat
  PROVE  Layers(leaves) =
           [n \in 1 .. Len(leaves) |-> IF n = 1 THEN leaves ELSE Above(Layers(leaves)[n - 1])]
<1> DEFINE G(f, k) == [n \in 1 .. k |-> IF n = 1 THEN leaves ELSE Above(f[n - 1])]
           T == {k \in Nat : \A f : f # G(f, k)}
<1>1. T = {}
  <2> SUFFICES ASSUME T # {} PROVE FALSE OBVIOUS
  <2>1. PICK k \in T : \A y \in T : k <= y BY Smallest
  <2>2. k # 0
    <3> DEFINE e == [n \in {} |-> 0]
    <3>1. 1 .. 0 = {} OBVIOUS
    <3>2. e = G(e, 0) BY <3>1, Zenon
    <3> QED BY <3>2, <2>1
  <2>3. k - 1 \in Nat /\ k - 1 \notin T
    <3>1. k \in Nat OBVIOUS
    <3> HIDE DEF T
    <3> QED BY <3>1, <2>1, <2>2
  <2>4. PICK f : f = G(f, k - 1) BY <2>3
  <2> DEFINE g == [n \in 1 .. k |-> IF n = k THEN IF n = 1 THEN leaves ELSE Above(f[n - 1])
                                    ELSE f[n]]
  <2>5. \A n \in 1 .. k - 1 : f[n] = IF n = 1 THEN leaves ELSE Above(f[n - 1])
    BY <2>3, <2>4
  <2>6. \A n \in 1 .. k : g[n] = IF n = k THEN IF n = 1 THEN leaves ELSE Above(f[n - 1]) ELSE f[n]
    OBVIOUS
  <2> HIDE DEF g
  <2>7. \A n \in 1 .. k : n # 1 => g[n - 1] = f[n - 1]
    BY <2>3, <2>6
  <2>8. \A n \in 1 .. k : g[n] = IF n = 1 THEN leaves ELSE Above(g[n - 1])
    BY <2>3, <2>5, <2>6, <2>7
  <2>9. g = G(g, k) BY <2>8 DEF g
  <2> QED BY <2>1, <2>9
<1>2. \E f : f = G(f, Len(leaves)) BY <1>1
<1> QED BY <1>2, Zenon DEF Layers

-----------------------------------------------------------------------------
(* Building a tree.                                                        *)

(* Half of an even number, and of one rounded up.                          *)
LEMMA Halving ==
  ASSUME NEW n \in Nat
  PROVE  \E q \in Nat : /\ n \div 2 = q
                        /\ \/ n = 2 * q /\ n % 2 = 0 /\ (n + 1) \div 2 = q
                           \/ n = 2 * q + 1 /\ n % 2 = 1 /\ (n + 1) \div 2 = q + 1
<1>1. PICK q \in Nat, r \in {0, 1} : n = 2 * q + r /\ r = n % 2 OBVIOUS
<1>2. n \div 2 = q BY <1>1
<1>3. (n + 1) \div 2 = IF r = 0 THEN q ELSE q + 1 BY <1>1
<1> QED BY <1>1, <1>2, <1>3

(* Halving, rounded up, shortens what is longer than one.                  *)
LEMMA Shorter ==
  ASSUME NEW k \in Nat, k > 1
  PROVE  (k + 1) \div 2 \in Nat /\ (k + 1) \div 2 <= k - 1 /\ (k + 1) \div 2 > 0
<1>1. PICK q \in Nat : \/ k = 2 * q /\ (k + 1) \div 2 = q
                       \/ k = 2 * q + 1 /\ (k + 1) \div 2 = q + 1
  BY Halving
<1> QED BY <1>1

(* A layer has a node.                                                     *)
IsLayer(layer) == \E N : layer \in Seq(N) /\ layer # <<>>

(* A layer of odd length repeats its last node.                            *)
LEMMA EvenIs ==
  ASSUME NEW N, NEW layer \in Seq(N), layer # <<>>
  PROVE  /\ Even(layer) \in Seq(N)
         /\ Len(Even(layer)) = IF Len(layer) % 2 = 0 THEN Len(layer) ELSE Len(layer) + 1
         /\ \A i \in 1 .. Len(layer) : Even(layer)[i] = layer[i]
         /\ Len(layer) % 2 # 0 => Even(layer)[Len(layer) + 1] = layer[Len(layer)]
<1>1. PICK n : n = Len(layer) OBVIOUS
<1>2. n \in Nat \ {0} /\ DOMAIN layer = 1 .. n BY <1>1
<1>3. CASE n % 2 = 0 BY <1>1, <1>2, <1>3 DEF Even
<1>4. CASE n % 2 # 0
  <2>1. Last(layer) = layer[n] /\ layer[n] \in N BY <1>1, <1>2 DEF Last
  <2>2. Even(layer) = Append(layer, layer[n]) BY <1>1, <1>4, <2>1 DEF Even
  <2> QED BY <1>1, <1>2, <1>4, <2>1, <2>2
<1> QED BY <1>3, <1>4

(* The same of a layer, whatever its nodes are.                            *)
LEMMA EvenKeeps ==
  ASSUME NEW layer, IsLayer(layer)
  PROVE  /\ \A i \in 1 .. Len(layer) : Even(layer)[i] = layer[i]
         /\ Len(layer) % 2 # 0 => Even(layer)[Len(layer) + 1] = layer[Len(layer)]
<1>1. PICK N : layer \in Seq(N) /\ layer # <<>> BY DEF IsLayer
<1> QED BY <1>1, EvenIs, Zenon

(* The next layer up is half as long, rounded up, and its nodes are the    *)
(* pairs of the layer with its last node repeated if need be.              *)
LEMMA AboveIs ==
  ASSUME NEW N, NEW layer \in Seq(N), layer # <<>>,
         NEW n, n = Len(layer)
  PROVE  /\ Above(layer) \in Seq(N \X N)
         /\ Len(Above(layer)) = (n + 1) \div 2
<1>1. n \in Nat \ {0} /\ DOMAIN layer = 1 .. n OBVIOUS
<1>2. PICK even : even = Even(layer) OBVIOUS
<1>3. /\ even \in Seq(N)
      /\ Len(even) = IF n % 2 = 0 THEN n ELSE n + 1
  BY <1>2, EvenIs
<1>4. Len(even) \div 2 = (n + 1) \div 2 /\ (n + 1) \div 2 \in Nat
  <2>1. PICK q \in Nat : /\ n \div 2 = q
                        /\ \/ n = 2 * q /\ n % 2 = 0 /\ (n + 1) \div 2 = q
                           \/ n = 2 * q + 1 /\ n % 2 = 1 /\ (n + 1) \div 2 = q + 1
    BY <1>1, Halving
  <2>2. CASE n % 2 = 0 BY <1>3, <2>1, <2>2
  <2>3. CASE n % 2 = 1
    <3>1. Len(even) = n + 1 BY <1>3, <2>3
    <3> QED BY <2>1, <2>3, <3>1
  <2> QED BY <2>1, <2>2, <2>3
<1>5. Above(layer) = [i \in 1 .. (n + 1) \div 2 |-> <<even[2 * i - 1], even[2 * i]>>]
  BY <1>2, <1>4 DEF Above, HashPair
<1>6. PICK k \in Nat : k = (n + 1) \div 2 BY <1>4
<1>7. \A i \in 1 .. k : even[2 * i - 1] \in N /\ even[2 * i] \in N
  <2>1. \A i \in 1 .. k : 2 * i - 1 \in 1 .. Len(even) /\ 2 * i \in 1 .. Len(even)
    BY <1>1, <1>3, <1>6
  <2> QED BY <1>3, <2>1
<1>8. Above(layer) \in [1 .. k -> N \X N] BY <1>5, <1>6, <1>7
<1>9. Above(layer) \in Seq(N \X N) /\ Len(Above(layer)) = k BY <1>8
<1> QED BY <1>2, <1>3, <1>6, <1>9

(* Each of its nodes.                                                      *)
LEMMA AboveNodes ==
  ASSUME NEW N, NEW layer \in Seq(N), layer # <<>>,
         NEW i \in 1 .. (Len(layer) + 1) \div 2
  PROVE  Above(layer)[i] = <<Even(layer)[2 * i - 1], Even(layer)[2 * i]>>
<1>1. PICK n : n = Len(layer) OBVIOUS
<1>2. Len(Even(layer)) \div 2 = (n + 1) \div 2
  <2>1. n \in Nat BY <1>1
  <2>2. Len(Even(layer)) = IF n % 2 = 0 THEN n ELSE n + 1 BY <1>1, EvenIs
  <2>3. PICK q \in Nat : \/ n = 2 * q /\ n % 2 = 0 /\ (n + 1) \div 2 = q
                         \/ n = 2 * q + 1 /\ n % 2 = 1 /\ (n + 1) \div 2 = q + 1
    BY <2>1, Halving
  <2>4. (2 * q) \div 2 = q /\ (2 * q + 2) \div 2 = q + 1 OBVIOUS
  <2>5. CASE n % 2 = 0 BY <2>2, <2>3, <2>4, <2>5
  <2>6. CASE n % 2 = 1
    <3>1. Len(Even(layer)) = 2 * q + 2 BY <2>2, <2>3, <2>6
    <3> QED BY <2>3, <2>4, <2>6, <3>1
  <2> QED BY <2>3, <2>5, <2>6
<1> QED BY <1>1, <1>2 DEF Above, HashPair

(* What makes a tree of some leaves.                                       *)
IsTree(layers, leaves) ==
  /\ Len(layers) \in Nat \ {0} /\ DOMAIN layers = 1 .. Len(layers)
  /\ layers[1] = leaves
  /\ \A n \in 1 .. Len(layers) : IsLayer(layers[n])
  /\ \A n \in 1 .. Len(layers) - 1 : layers[n + 1] = Above(layers[n])
  /\ Len(layers[Len(layers)]) = 1

(* The loop ends: while there is more than one node, each layer is shorter *)
(* than the one before.                                                    *)
LEMMA TreeBuilt ==
  ASSUME NEW leaves, IsLayer(leaves)
  PROVE  IsTree(BuildMerkleTree(leaves), leaves)
<1>1. PICK size \in Nat : size = Len(leaves) /\ size > 0
  BY DEF IsLayer
<1>2. PICK layer : layer = Layers(leaves) OBVIOUS
<1>3. layer = [n \in 1 .. size |-> IF n = 1 THEN leaves ELSE Above(layer[n - 1])]
  BY <1>1, <1>2, LayersEquation
<1>4. layer[1] = leaves /\ \A n \in 1 .. size : n # 1 => layer[n] = Above(layer[n - 1])
  BY <1>1, <1>3
<1> DEFINE Long(n) == \A m \in 1 .. n - 1 : Len(layer[m]) > 1
           Fits(n) == IsLayer(layer[n]) /\ Len(layer[n]) <= size + 1 - n
           T == {n \in 1 .. size : Long(n) /\ ~Fits(n)}
<1>5. T = {}
  <2> SUFFICES ASSUME T # {} PROVE FALSE OBVIOUS
  <2>0. T \subseteq Nat BY <1>1
  <2>1. PICK n \in T : \A m \in T : n <= m
    <3> HIDE DEF T
    <3> QED BY <2>0, Smallest
  <2>2. n \in 1 .. size /\ Long(n) /\ ~Fits(n) OBVIOUS
  <2>3. n # 1 BY <1>1, <1>4, <2>2
  <2>4. n - 1 \in 1 .. size /\ Long(n - 1) BY <1>1, <2>2, <2>3
  <2>5. n - 1 \notin T
    <3> HIDE DEF T
    <3> QED BY <1>1, <2>1, <2>2
  <2>6. Fits(n - 1) BY <2>4, <2>5
  <2>7. layer[n] = Above(layer[n - 1]) /\ Len(layer[n - 1]) > 1
    BY <1>1, <1>4, <2>2, <2>3
  <2>8. PICK N : layer[n - 1] \in Seq(N) /\ layer[n - 1] # <<>> BY <2>6 DEF IsLayer
  <2>9. PICK k \in Nat : k = Len(layer[n - 1]) /\ k > 1 /\ k <= size + 2 - n
    BY <1>1, <2>2, <2>6, <2>7, <2>8
  <2>10. layer[n] \in Seq(N \X N) /\ Len(layer[n]) = (k + 1) \div 2
    <3>1. PICK below : below = layer[n - 1] OBVIOUS
    <3>2. below \in Seq(N) /\ below # <<>> /\ k = Len(below) BY <2>8, <2>9, <3>1
    <3>3. Above(below) \in Seq(N \X N) /\ Len(Above(below)) = (k + 1) \div 2
      BY <3>2, AboveIs
    <3> QED BY <2>7, <3>1, <3>3
  <2>11. PICK h \in Nat : h = (k + 1) \div 2 /\ h <= k - 1 /\ h > 0
    BY <2>9, Shorter
  <2>12. layer[n] # <<>> BY <2>10, <2>11
  <2>13. h <= size + 1 - n
    <3>1. n \in Nat /\ k <= size + 2 - n BY <1>1, <2>2, <2>9
    <3> HIDE DEF T
    <3> QED BY <1>1, <2>11, <3>1
  <2>14. Len(layer[n]) <= size + 1 - n BY <2>10, <2>11, <2>13
  <2> QED BY <2>2, <2>10, <2>12, <2>14 DEF IsLayer
<1>6. \A n \in 1 .. size : Long(n) => Fits(n) BY <1>5
<1> DEFINE Single == {n \in 1 .. size : Len(layer[n]) = 1}
           IsTop(n) == Len(layer[n]) = 1 /\ Long(n)
<1>7. \A n \in 1 .. size : IsLayer(layer[n]) => Len(layer[n]) \in Nat \ {0}
  BY DEF IsLayer
<1>8. \A n \in 1 .. size : (\A m \in 1 .. n - 1 : m \notin Single) => Long(n)
  <2> DEFINE U == {n \in 1 .. size : (\A m \in 1 .. n - 1 : m \notin Single) /\ ~Long(n)}
  <2> SUFFICES ASSUME U # {} PROVE FALSE OBVIOUS
  <2>0. U \subseteq Nat BY <1>1
  <2>1. PICK n \in U : \A m \in U : n <= m
    <3> HIDE DEF U
    <3> QED BY <2>0, Smallest
  <2>2. n \in 1 .. size /\ (\A m \in 1 .. n - 1 : m \notin Single) /\ ~Long(n) OBVIOUS
  <2>3. PICK m \in 1 .. n - 1 : ~(Len(layer[m]) > 1) BY <2>2
  <2>4. m \in 1 .. size /\ m < n /\ m \notin Single BY <1>1, <2>2, <2>3
  <2>5. \A l \in 1 .. m - 1 : l \notin Single BY <1>1, <2>2, <2>3
  <2>6. m \notin U
    <3> HIDE DEF U
    <3> QED BY <1>1, <2>1, <2>2, <2>4
  <2>7. Long(m) BY <2>4, <2>5, <2>6
  <2>8. Fits(m) BY <1>6, <2>4, <2>7
  <2>9. PICK k \in Nat \ {0} : k = Len(layer[m]) BY <1>7, <2>4, <2>8
  <2>10. ~(k > 1) BY <2>3, <2>9
  <2>11. k = 1
    <3> HIDE DEF U, Single
    <3> QED BY <2>10
  <2> QED BY <2>4, <2>9, <2>11
<1>9. \E n \in 1 .. size : IsTop(n)
  <2>1. Single # {}
    <3> SUFFICES ASSUME Single = {} PROVE FALSE OBVIOUS
    <3>1. size \in 1 .. size BY <1>1
    <3>2. Long(size) BY <1>8, <3>1
    <3>3. Fits(size) BY <1>6, <3>1, <3>2
    <3>4. PICK k \in Nat \ {0} : k = Len(layer[size]) BY <1>7, <3>1, <3>3
    <3>5. k <= size + 1 - size BY <3>3, <3>4
    <3>6. k = 1 BY <1>1, <3>5
    <3>7. Len(layer[size]) = 1 BY <3>4, <3>6
    <3> QED BY <3>1, <3>7
  <2>2. Single \subseteq Nat BY <1>1
  <2>3. PICK n \in Single : \A m \in Single : n <= m
    <3> HIDE DEF Single
    <3> QED BY <2>1, <2>2, Smallest
  <2>4. n \in 1 .. size OBVIOUS
  <2>5. \A m \in 1 .. n - 1 : m \notin Single
    <3> HIDE DEF Single
    <3> QED BY <1>1, <2>3, <2>4
  <2> QED BY <1>8, <2>4, <2>5
<1> DEFINE top == CHOOSE n \in 1 .. size : IsTop(n)
<1>10. top \in 1 .. size /\ IsTop(top) BY <1>9
<1> HIDE DEF top
<1>11. BuildMerkleTree(leaves) = [n \in 1 .. top |-> layer[n]]
  BY <1>1, <1>2, Zenon DEF BuildMerkleTree, top
<1>12. PICK layers : layers = BuildMerkleTree(leaves) OBVIOUS
<1>13. top \in Nat \ {0} BY <1>1, <1>10
<1>14. Len(layers) = top /\ DOMAIN layers = 1 .. top /\ \A n \in 1 .. top : layers[n] = layer[n]
  BY <1>11, <1>12, <1>13
<1>15. \A n \in 1 .. top : n \in 1 .. size /\ Fits(n)
  <2> SUFFICES ASSUME NEW n \in 1 .. top PROVE n \in 1 .. size /\ Fits(n) OBVIOUS
  <2>1. n \in 1 .. size BY <1>1, <1>10
  <2>2. Long(n) BY <1>1, <1>10
  <2> QED BY <1>6, <2>1, <2>2
<1>16. \A n \in 1 .. top - 1 : layer[n + 1] = Above(layer[n])
  BY <1>1, <1>4, <1>10
<1>17. \A n \in 1 .. Len(layers) - 1 : layers[n + 1] = Above(layers[n])
  BY <1>13, <1>14, <1>16
<1>18. layers[1] = leaves BY <1>4, <1>13, <1>14
<1>19. Len(layers[top]) = 1 BY <1>10, <1>13, <1>14
<1> QED BY <1>12, <1>13, <1>14, <1>15, <1>17, <1>18, <1>19 DEF IsTree

-----------------------------------------------------------------------------
(* Proving a leaf: the way up the tree, as the proof and its verification  *)
(* compute it.                                                             *)

(* The indices on the way up are what their definition says.               *)
LEMMA PathEquation ==
  ASSUME NEW leaf, NEW layers, Len(layers) \in Nat
  PROVE  Path(leaf, layers) =
           [n \in 1 .. Len(layers) |->
              IF n = 1 THEN IndexOf(leaf, layers) ELSE Path(leaf, layers)[n - 1] \div 2]
<1> PICK first : first = IndexOf(leaf, layers) OBVIOUS
<1> DEFINE G(f, k) == [n \in 1 .. k |-> IF n = 1 THEN first ELSE f[n - 1] \div 2]
           T == {k \in Nat : \A f : f # G(f, k)}
<1>1. T = {}
  <2> SUFFICES ASSUME T # {} PROVE FALSE OBVIOUS
  <2>1. PICK k \in T : \A y \in T : k <= y BY Smallest
  <2>2. k # 0
    <3> DEFINE e == [n \in {} |-> 0]
    <3>1. 1 .. 0 = {} OBVIOUS
    <3>2. e = G(e, 0) BY <3>1, Zenon
    <3> QED BY <3>2, <2>1
  <2>3. k - 1 \in Nat /\ k - 1 \notin T
    <3>1. k \in Nat OBVIOUS
    <3> HIDE DEF T
    <3> QED BY <3>1, <2>1, <2>2
  <2>4. PICK f : f = G(f, k - 1) BY <2>3
  <2> DEFINE g == [n \in 1 .. k |-> IF n = k THEN IF n = 1 THEN first ELSE f[n - 1] \div 2
                                    ELSE f[n]]
  <2>5. \A n \in 1 .. k - 1 : f[n] = IF n = 1 THEN first ELSE f[n - 1] \div 2
    BY <2>3, <2>4
  <2>6. \A n \in 1 .. k : g[n] = IF n = k THEN IF n = 1 THEN first ELSE f[n - 1] \div 2 ELSE f[n]
    OBVIOUS
  <2> HIDE DEF g
  <2>7. \A n \in 1 .. k : n # 1 => g[n - 1] = f[n - 1]
    BY <2>3, <2>6
  <2>8. \A n \in 1 .. k : g[n] = IF n = 1 THEN first ELSE g[n - 1] \div 2
    BY <2>3, <2>5, <2>6, <2>7
  <2>9. g = G(g, k) BY <2>8 DEF g
  <2> QED BY <2>1, <2>9
<1>2. \E f : f = G(f, Len(layers)) BY <1>1
<1> QED BY <1>2, Zenon DEF Path

(* What a proof makes of a leaf is what its definition says.               *)
LEMMA ClimbEquation ==
  ASSUME NEW leaf, NEW proof, Len(proof) \in Nat
  PROVE  Climb(leaf, proof) =
           [n \in 0 .. Len(proof) |->
              IF n = 0 THEN leaf
              ELSE IF proof[n].direction = "left"
                   THEN HashPair(proof[n].sibling, Climb(leaf, proof)[n - 1])
                   ELSE HashPair(Climb(leaf, proof)[n - 1], proof[n].sibling)]
<1> DEFINE Up(n, x) == IF proof[n].direction = "left" THEN HashPair(proof[n].sibling, x)
                       ELSE HashPair(x, proof[n].sibling)
           G(f, k) == [n \in 0 .. k |->
                         IF n = 0 THEN leaf
                         ELSE IF proof[n].direction = "left"
                              THEN HashPair(proof[n].sibling, f[n - 1])
                              ELSE HashPair(f[n - 1], proof[n].sibling)]
           T == {k \in Nat : \A f : f # G(f, k)}
<1>1. T = {}
  <2> SUFFICES ASSUME T # {} PROVE FALSE OBVIOUS
  <2>1. PICK k \in T : \A y \in T : k <= y BY Smallest
  <2>2. k # 0
    <3> DEFINE e == [n \in 0 .. 0 |-> leaf]
    <3>1. \A n \in 0 .. 0 : n = 0 OBVIOUS
    <3>2. e = G(e, 0) BY <3>1, Zenon
    <3> QED BY <3>2, <2>1
  <2>3. k - 1 \in Nat /\ k - 1 \notin T
    <3>1. k \in Nat OBVIOUS
    <3> HIDE DEF T
    <3> QED BY <3>1, <2>1, <2>2
  <2>4. PICK f : f = G(f, k - 1) BY <2>3
  <2> DEFINE g == [n \in 0 .. k |-> IF n = k THEN Up(n, f[n - 1]) ELSE f[n]]
  <2>5. \A n \in 0 .. k - 1 : f[n] = IF n = 0 THEN leaf ELSE Up(n, f[n - 1])
    BY <2>3, <2>4
  <2>6. \A n \in 0 .. k : g[n] = IF n = k THEN Up(n, f[n - 1]) ELSE f[n]
    OBVIOUS
  <2> HIDE DEF g, Up
  <2>7. \A n \in 0 .. k : n # 0 => g[n - 1] = f[n - 1]
    BY <2>3, <2>6
  <2>8. \A n \in 0 .. k : g[n] = IF n = 0 THEN leaf ELSE Up(n, g[n - 1])
    BY <2>2, <2>3, <2>5, <2>6, <2>7
  <2>9. g = G(g, k) BY <2>8 DEF g, Up
  <2> QED BY <2>1, <2>9
<1>2. \E f : f = G(f, Len(proof))
  <2> HIDE DEF G
  <2> QED BY <1>1
<1> QED BY <1>2, Zenon DEF Climb

(* One step up the tree.                                                   *)
LEMMA StepUp ==
  ASSUME NEW layer, IsLayer(layer), NEW x \in Nat, x < Len(layer)
  PROVE  /\ x \div 2 \in Nat /\ x \div 2 < Len(Above(layer))
         /\ x % 2 = 0 => Above(layer)[x \div 2 + 1]
                           = HashPair(layer[x + 1], Even(layer)[SiblingIndex(x) + 1])
         /\ x % 2 # 0 => Above(layer)[x \div 2 + 1]
                           = HashPair(Even(layer)[SiblingIndex(x) + 1], layer[x + 1])
<1>0. PICK sibling : sibling = Even(layer)[SiblingIndex(x) + 1] OBVIOUS
<1>1. PICK N : layer \in Seq(N) /\ layer # <<>> BY DEF IsLayer
<1>2. PICK n \in Nat : n = Len(layer) BY <1>1
<1>3. PICK even : even = Even(layer) OBVIOUS
<1>4. /\ Len(Above(layer)) = (n + 1) \div 2
      /\ \A i \in 1 .. n : even[i] = layer[i]
      /\ \A i \in 1 .. (n + 1) \div 2 : Above(layer)[i] = <<even[2 * i - 1], even[2 * i]>>
  <2>1. /\ Len(Above(layer)) = (n + 1) \div 2
        /\ \A i \in 1 .. n : Even(layer)[i] = layer[i]
        /\ \A i \in 1 .. (n + 1) \div 2 :
             Above(layer)[i] = <<Even(layer)[2 * i - 1], Even(layer)[2 * i]>>
    <3>1. Len(Above(layer)) = (n + 1) \div 2 BY <1>1, <1>2, AboveIs
    <3>2. \A i \in 1 .. n : Even(layer)[i] = layer[i] BY <1>2, EvenKeeps
    <3>3. \A i \in 1 .. (n + 1) \div 2 :
            Above(layer)[i] = <<Even(layer)[2 * i - 1], Even(layer)[2 * i]>>
      BY <1>1, <1>2, AboveNodes
    <3> QED BY <3>1, <3>2, <3>3
  <2> QED BY <1>3, <2>1, Zenon
<1>5. PICK m \in Nat : /\ m = (n + 1) \div 2
                       /\ \/ n = 2 * m
                          \/ n + 1 = 2 * m
  BY Halving
<1>6. PICK q \in Nat : /\ x \div 2 = q
                       /\ \/ x = 2 * q /\ x % 2 = 0
                          \/ x = 2 * q + 1 /\ x % 2 = 1
  BY Halving
<1>7. q + 1 \in 1 .. m /\ q < m BY <1>2, <1>5, <1>6
<1>8. Above(layer)[q + 1] = <<even[2 * q + 1], even[2 * q + 2]>>
  <2>1. 2 * (q + 1) - 1 = 2 * q + 1 /\ 2 * (q + 1) = 2 * q + 2 OBVIOUS
  <2>2. Above(layer)[q + 1] = <<even[2 * (q + 1) - 1], even[2 * (q + 1)]>>
    BY <1>4, <1>5, <1>7
  <2> QED BY <2>1, <2>2
<1>9. even[x + 1] = layer[x + 1]
  <2>1. x + 1 \in 1 .. n BY <1>2
  <2> QED BY <1>4, <2>1
<1>10. q \in Nat /\ q < Len(Above(layer)) BY <1>4, <1>5, <1>7
<1>11. CASE x = 2 * q /\ x % 2 = 0
  <2>1. sibling = even[2 * q + 2]
    <3>1. SiblingIndex(x) + 1 = 2 * q + 2 BY <1>11 DEF SiblingIndex
    <3> QED BY <1>0, <1>3, <3>1
  <2>2. even[2 * q + 1] = layer[x + 1] BY <1>9, <1>11
  <2>3. Above(layer)[q + 1] = HashPair(layer[x + 1], sibling)
    BY <1>8, <2>1, <2>2, Zenon DEF HashPair
  <2> QED BY <1>0, <1>6, <1>11, <1>10, <2>3, Zenon
<1>12. CASE x = 2 * q + 1 /\ x % 2 = 1
  <2>1. sibling = even[2 * q + 1]
    <3>1. SiblingIndex(x) + 1 = 2 * q + 1 BY <1>12 DEF SiblingIndex
    <3> QED BY <1>0, <1>3, <3>1
  <2>2. x + 1 = 2 * q + 2 BY <1>12
  <2>3. even[2 * q + 2] = layer[x + 1] BY <1>9, <2>2, Zenon
  <2>4. Above(layer)[q + 1] = HashPair(sibling, layer[x + 1])
    BY <1>8, <2>1, <2>3, Zenon DEF HashPair
  <2>5. x % 2 # 0 BY <1>12
  <2> QED BY <1>0, <1>6, <1>10, <2>4, <2>5, Zenon
<1> QED BY <1>6, <1>11, <1>12

(* A proof leads from its leaf to the root.                                *)
LEMMA ProofLeads ==
  ASSUME NEW layers, NEW leaves, IsTree(layers, leaves), NEW i \in DOMAIN layers[1]
  PROVE  VerifyMerkleProof(layers[1][i], GetMerkleProof(layers, layers[1][i]), Root(layers))
<1>1. PICK height \in Nat \ {0} : height = Len(layers) BY DEF IsTree
<1>2. /\ DOMAIN layers = 1 .. height
      /\ \A n \in 1 .. height : IsLayer(layers[n])
      /\ \A n \in 1 .. height - 1 : layers[n + 1] = Above(layers[n])
      /\ Len(layers[height]) = 1
  BY <1>1 DEF IsTree
<1>3. PICK leaf : leaf = layers[1][i] OBVIOUS
<1>4. PICK first : first = IndexOf(leaf, layers) OBVIOUS
<1>5. first \in Nat /\ first < Len(layers[1]) /\ layers[1][first + 1] = leaf
  <2>1. PICK N : layers[1] \in Seq(N) BY <1>1, <1>2 DEF IsLayer
  <2>2. DOMAIN layers[1] = 1 .. Len(layers[1]) /\ Len(layers[1]) \in Nat BY <2>1
  <2>3. PICK j : j = CHOOSE k \in DOMAIN layers[1] : layers[1][k] = leaf OBVIOUS
  <2>4. j \in DOMAIN layers[1] /\ layers[1][j] = leaf BY <1>3, <2>3
  <2>5. first = j - 1 BY <1>4, <2>3 DEF IndexOf
  <2>6. first + 1 = j BY <2>2, <2>4, <2>5
  <2> QED BY <2>2, <2>4, <2>5, <2>6
<1>6. PICK index : index = Path(leaf, layers) OBVIOUS
<1>7. index[1] = first /\ \A n \in 1 .. height - 1 : index[n + 1] = index[n] \div 2
  <2>1. index = [n \in 1 .. height |-> IF n = 1 THEN first ELSE index[n - 1] \div 2]
    BY <1>1, <1>4, <1>6, PathEquation
  <2>2. \A n \in 1 .. height : index[n] = IF n = 1 THEN first ELSE index[n - 1] \div 2
    BY <2>1
  <2>3. index[1] = first BY <1>1, <2>2
  <2>4. ASSUME NEW n \in 1 .. height - 1 PROVE index[n + 1] = index[n] \div 2
    <3>1. n + 1 \in 1 .. height /\ n + 1 # 1 /\ (n + 1) - 1 = n BY <1>1
    <3>2. index[n + 1] = index[(n + 1) - 1] \div 2 BY <2>2, <3>1
    <3> QED BY <3>1, <3>2
  <2> QED BY <2>3, <2>4
<1>8. PICK proof : proof = GetMerkleProof(layers, leaf) OBVIOUS
<1>9. proof = [n \in 1 .. height - 1 |->
                 [sibling |-> Even(layers[n])[SiblingIndex(index[n]) + 1],
                  direction |-> IF index[n] % 2 = 0 THEN "right" ELSE "left"]]
  BY <1>1, <1>6, <1>8 DEF GetMerkleProof
<1>10. Len(proof) = height - 1 BY <1>1, <1>9
<1>11. \A n \in 1 .. height - 1 :
         /\ proof[n].sibling = Even(layers[n])[SiblingIndex(index[n]) + 1]
         /\ proof[n].direction = IF index[n] % 2 = 0 THEN "right" ELSE "left"
  BY <1>9
<1>12. PICK current : current = Climb(leaf, proof) OBVIOUS
<1>13. \A n \in 0 .. height - 1 :
         current[n] = IF n = 0 THEN leaf
                      ELSE IF proof[n].direction = "left"
                           THEN HashPair(proof[n].sibling, current[n - 1])
                           ELSE HashPair(current[n - 1], proof[n].sibling)
  <2>1. Len(proof) \in Nat BY <1>1, <1>10
  <2>2. current = [n \in 0 .. Len(proof) |->
                     IF n = 0 THEN leaf
                     ELSE IF proof[n].direction = "left"
                          THEN HashPair(proof[n].sibling, current[n - 1])
                          ELSE HashPair(current[n - 1], proof[n].sibling)]
    BY <1>12, <2>1, ClimbEquation
  <2> QED BY <1>10, <2>2
<1> DEFINE At(n) == /\ index[n] \in Nat /\ index[n] < Len(layers[n])
                    /\ current[n - 1] = layers[n][index[n] + 1]
<1>14. At(1)
  <2>1. current[0] = leaf BY <1>1, <1>13
  <2> QED BY <1>5, <1>7, <2>1
<1>15. ASSUME NEW n \in 1 .. height - 1, At(n) PROVE At(n + 1)
  <2>1. n \in 1 .. height /\ n \in 0 .. height - 1 /\ n # 0 /\ (n + 1) - 1 = n BY <1>1
  <2>2. PICK layer : layer = layers[n] OBVIOUS
  <2>3. PICK x \in Nat : x = index[n] /\ x < Len(layer) BY <1>15, <2>2
  <2>4. PICK sibling : sibling = Even(layer)[SiblingIndex(x) + 1] OBVIOUS
  <2>5. /\ x \div 2 \in Nat /\ x \div 2 < Len(Above(layer))
        /\ x % 2 = 0 => Above(layer)[x \div 2 + 1] = HashPair(layer[x + 1], sibling)
        /\ x % 2 # 0 => Above(layer)[x \div 2 + 1] = HashPair(sibling, layer[x + 1])
    <3>1. IsLayer(layer) BY <1>2, <2>1, <2>2
    <3> QED BY <2>3, <2>4, <3>1, StepUp, Zenon
  <2>6. layers[n + 1] = Above(layer) /\ index[n + 1] = x \div 2 BY <1>2, <1>7, <2>2, <2>3
  <2>7. proof[n].sibling = sibling /\ proof[n].direction = IF x % 2 = 0 THEN "right" ELSE "left"
    BY <1>11, <2>2, <2>3, <2>4
  <2>8. current[n - 1] = layer[x + 1] BY <1>15, <2>2, <2>3
  <2>9. current[n] = IF proof[n].direction = "left"
                     THEN HashPair(proof[n].sibling, current[n - 1])
                     ELSE HashPair(current[n - 1], proof[n].sibling)
    BY <1>13, <2>1
  <2>10. current[n] = Above(layer)[x \div 2 + 1]
    <3>1. CASE x % 2 = 0 BY <2>5, <2>7, <2>8, <2>9, <3>1
    <3>2. CASE x % 2 # 0 BY <2>5, <2>7, <2>8, <2>9, <3>2
    <3> QED BY <3>1, <3>2
  <2> QED BY <2>1, <2>5, <2>6, <2>10
<1>16. At(height)
  <2> DEFINE T == {n \in 1 .. height : ~At(n)}
  <2> SUFFICES ASSUME T # {} PROVE FALSE BY <1>1
  <2> HIDE DEF At
  <2>0. T \subseteq Nat BY <1>1
  <2>1. PICK n \in T : \A m \in T : n <= m
    <3> HIDE DEF T
    <3> QED BY <2>0, Smallest
  <2>2. n \in 1 .. height /\ ~At(n) /\ n # 1 BY <1>14
  <2>3. n - 1 \in 1 .. height - 1 /\ n - 1 \in 1 .. height BY <1>1, <2>2
  <2>4. n - 1 \notin T
    <3> HIDE DEF T
    <3> QED BY <1>1, <2>1, <2>2
  <2>5. At((n - 1) + 1) BY <1>15, <2>3, <2>4
  <2>6. (n - 1) + 1 = n BY <1>1, <2>2
  <2> QED BY <2>2, <2>5, <2>6
<1>17. index[height] = 0 BY <1>2, <1>16
<1>18. Root(layers) = layers[height][1] BY <1>1 DEF Root, Last
<1>19. current[height - 1] = layers[height][1] BY <1>16, <1>17
<1> QED BY <1>3, <1>8, <1>10, <1>12, <1>18, <1>19 DEF VerifyMerkleProof

-----------------------------------------------------------------------------
(* Sorting.                                                                *)

(* order is a strict total order of S.                                     *)
Orders(order, S) ==
  /\ \A a \in S : <<a, a>> \notin order
  /\ \A a, b \in S : a = b \/ <<a, b>> \in order \/ <<b, a>> \in order
  /\ \A a, b, c \in S : <<a, b>> \in order /\ <<b, c>> \in order => <<a, c>> \in order

(* Sorted puts every member of a finite set in one place, in order: no two *)
(* have as many before them, so there is one with i - 1 before it.         *)
LEMMA SortedIs ==
  ASSUME NEW S, IsFiniteSet(S), NEW order, Orders(order, S),
         NEW size, size = Cardinality(S)
  PROVE  /\ size \in Nat
         /\ Sorted(S, order) \in [1 .. size -> S]
         /\ \A o \in S : \E i \in 1 .. size : Sorted(S, order)[i] = o
         /\ \A i, j \in 1 .. size : i < j => <<Sorted(S, order)[i], Sorted(S, order)[j]>> \in order
<1> DEFINE Ahead(o) == {p \in S : <<p, o>> \in order}
           place == [o \in S |-> Cardinality(Ahead(o))]
<1>1. size \in Nat BY FS_CardinalityType
<1>2. ASSUME NEW o \in S PROVE IsFiniteSet(Ahead(o)) /\ Cardinality(Ahead(o)) \in 0 .. size - 1
  <2>1. Ahead(o) \in SUBSET S /\ Ahead(o) # S BY DEF Orders
  <2> HIDE DEF Ahead
  <2>2. IsFiniteSet(Ahead(o)) /\ Cardinality(Ahead(o)) <= size /\ Cardinality(Ahead(o)) # size
    BY <2>1, FS_Subset
  <2>3. Cardinality(Ahead(o)) \in Nat BY <2>2, FS_CardinalityType
  <2> QED BY <1>1, <2>2, <2>3
<1>3. ASSUME NEW a \in S, NEW b \in S, <<a, b>> \in order PROVE place[a] < place[b]
  <2>1. Ahead(a) \in SUBSET Ahead(b) /\ a \in Ahead(b) /\ a \notin Ahead(a)
    BY <1>3 DEF Orders
  <2> HIDE DEF Ahead
  <2>2. Cardinality(Ahead(a)) <= Cardinality(Ahead(b)) /\ Cardinality(Ahead(a)) # Cardinality(Ahead(b))
    BY <1>2, <2>1, FS_Subset
  <2>3. Cardinality(Ahead(a)) \in 0 .. size - 1 /\ Cardinality(Ahead(b)) \in 0 .. size - 1
    BY <1>2
  <2> QED BY <1>1, <2>2, <2>3
<1>4. place \in [S -> 0 .. size - 1] BY <1>2
<1>5. \A a, b \in S : place[a] = place[b] => a = b
  <2> SUFFICES ASSUME NEW a \in S, NEW b \in S, place[a] = place[b], a # b PROVE FALSE
    OBVIOUS
  <2>1. place[a] < place[b] \/ place[b] < place[a]
    <3> HIDE DEF place
    <3> QED BY <1>3 DEF Orders
  <2>2. PICK k \in 0 .. size - 1 : k = place[a] BY <1>4
  <2> HIDE DEF place
  <2> QED BY <1>1, <2>1, <2>2
<1>6. \A i \in 0 .. size - 1 : \E o \in S : place[o] = i
  <2> HIDE DEF place
  <2>1. place \in Injection(S, 0 .. size - 1)
    BY <1>4, <1>5 DEF Injection, IsInjective
  <2>2. IsFiniteSet(0 .. size - 1) /\ Cardinality(0 .. size - 1) = size
    <3>1. 0 \in Int /\ size - 1 \in Int /\ (0 > size - 1 => size = 0) BY <1>1
    <3>2. /\ IsFiniteSet(0 .. size - 1)
          /\ Cardinality(0 .. size - 1) = IF 0 > size - 1 THEN 0 ELSE (size - 1) - 0 + 1
      BY <3>1, FS_Interval
    <3> QED BY <1>1, <3>1, <3>2
  <2>3. place \in Surjection(S, 0 .. size - 1) BY <2>1, <2>2, FS_Injection
  <2> QED BY <2>3 DEF Surjection
<1>7. PICK rows : rows = Sorted(S, order) OBVIOUS
<1>8. rows = [i \in 1 .. size |-> CHOOSE o \in S : Cardinality(Ahead(o)) = i - 1]
  BY <1>7 DEF Sorted
<1>9. ASSUME NEW i \in 1 .. size PROVE rows[i] \in S /\ place[rows[i]] = i - 1
  <2>1. i - 1 \in 0 .. size - 1 BY <1>1
  <2>2. \E o \in S : Cardinality(Ahead(o)) = i - 1
    <3> HIDE DEF Ahead
    <3> QED BY <1>6, <2>1
  <2> HIDE DEF Ahead
  <2>3. rows[i] = CHOOSE o \in S : Cardinality(Ahead(o)) = i - 1 BY <1>8
  <2>4. rows[i] \in S /\ Cardinality(Ahead(rows[i])) = i - 1 BY <2>2, <2>3
  <2> QED BY <2>4
<1>10. rows \in [1 .. size -> S]
  <2> HIDE DEF Ahead
  <2> QED BY <1>8, <1>9
<1> HIDE DEF place
<1>11. ASSUME NEW o \in S PROVE \E i \in 1 .. size : rows[i] = o
  <2>1. PICK k \in 0 .. size - 1 : k = place[o] BY <1>4
  <2>2. k + 1 \in 1 .. size /\ (k + 1) - 1 = k BY <1>1
  <2>3. rows[k + 1] \in S /\ place[rows[k + 1]] = k BY <1>9, <2>2
  <2> QED BY <1>5, <2>1, <2>2, <2>3
<1>12. ASSUME NEW i \in 1 .. size, NEW j \in 1 .. size, i < j PROVE <<rows[i], rows[j]>> \in order
  <2>1. rows[i] \in S /\ rows[j] \in S /\ place[rows[i]] = i - 1 /\ place[rows[j]] = j - 1
    BY <1>9
  <2>2. rows[i] # rows[j] BY <1>1, <1>12, <2>1
  <2>3. <<rows[j], rows[i]>> \notin order
    <3> SUFFICES ASSUME <<rows[j], rows[i]>> \in order PROVE FALSE OBVIOUS
    <3>1. j - 1 < i - 1 BY <1>3, <2>1
    <3> QED BY <1>1, <1>12, <3>1
  <2> QED BY <2>1, <2>2, <2>3 DEF Orders
<1> QED BY <1>1, <1>7, <1>10, <1>11, <1>12

-----------------------------------------------------------------------------
(* What the root tells.                                                    *)

NoRepeat(layer) == \A i, j \in 1 .. Len(layer) : layer[i] = layer[j] => i = j

(* The first half of a node is at its place in the layer below.            *)
LEMMA LeftChild ==
  ASSUME NEW layer, IsLayer(layer), NEW i \in 1 .. Len(Above(layer))
  PROVE  /\ Len(Above(layer)) \in Nat /\ Len(layer) \in Nat
         /\ 2 * i - 1 \in 1 .. Len(layer)
         /\ Above(layer)[i] = <<layer[2 * i - 1], Even(layer)[2 * i]>>
<1>1. PICK N : layer \in Seq(N) /\ layer # <<>> BY DEF IsLayer
<1>2. PICK n \in Nat : n = Len(layer) BY <1>1
<1>3. Len(Above(layer)) = (n + 1) \div 2 BY <1>1, <1>2, AboveIs
<1>4. PICK m \in Nat : /\ m = (n + 1) \div 2
                       /\ \/ n = 2 * m
                          \/ n + 1 = 2 * m
  BY Halving
<1>5. i \in 1 .. m /\ 2 * i - 1 \in 1 .. n BY <1>3, <1>4
<1>6. Above(layer)[i] = <<Even(layer)[2 * i - 1], Even(layer)[2 * i]>>
  BY <1>1, <1>2, <1>3, AboveNodes
<1>7. \A j \in 1 .. n : Even(layer)[j] = layer[j] BY <1>2, EvenKeeps
<1>8. Even(layer)[2 * i - 1] = layer[2 * i - 1] BY <1>5, <1>7
<1> QED BY <1>2, <1>3, <1>4, <1>5, <1>6, <1>8

(* Distinct nodes have distinct parents.                                   *)
LEMMA AboveNoRepeat ==
  ASSUME NEW layer, IsLayer(layer), NoRepeat(layer)
  PROVE  NoRepeat(Above(layer))
<1> SUFFICES ASSUME NEW i \in 1 .. Len(Above(layer)), NEW j \in 1 .. Len(Above(layer)),
                    Above(layer)[i] = Above(layer)[j]
             PROVE  i = j
  BY DEF NoRepeat
<1>1. /\ 2 * i - 1 \in 1 .. Len(layer)
      /\ Above(layer)[i] = <<layer[2 * i - 1], Even(layer)[2 * i]>>
  BY LeftChild
<1>2. /\ 2 * j - 1 \in 1 .. Len(layer)
      /\ Above(layer)[j] = <<layer[2 * j - 1], Even(layer)[2 * j]>>
  BY LeftChild
<1>3. layer[2 * i - 1] = layer[2 * j - 1]
  <2>1. PICK a, b : a = layer[2 * i - 1] /\ b = Even(layer)[2 * i] OBVIOUS
  <2>2. PICK c, d : c = layer[2 * j - 1] /\ d = Even(layer)[2 * j] OBVIOUS
  <2>3. <<a, b>> = <<c, d>> BY <1>1, <1>2, <2>1, <2>2
  <2>4. a = c BY <2>3
  <2> QED BY <2>1, <2>2, <2>4
<1>4. 2 * i - 1 = 2 * j - 1 BY <1>1, <1>2, <1>3 DEF NoRepeat
<1>5. i \in Int /\ j \in Int BY LeftChild
<1> QED BY <1>4, <1>5

(* A layer without repetition can be told from the layer above it: an odd  *)
(* one repeats its last node there, an even one nothing.                   *)
LEMMA AboveTells ==
  ASSUME NEW x, NEW y, IsLayer(x), IsLayer(y), NoRepeat(x), NoRepeat(y), Above(x) = Above(y)
  PROVE  x = y
<1>1. PICK N : x \in Seq(N) /\ x # <<>> BY DEF IsLayer
<1>2. PICK M : y \in Seq(M) /\ y # <<>> BY DEF IsLayer
<1>3. PICK n \in Nat : n = Len(x) BY <1>1
<1>4. PICK m \in Nat : m = Len(y) BY <1>2
<1>5. Len(Above(x)) = (n + 1) \div 2 BY <1>1, <1>3, AboveIs
<1>6. Len(Above(y)) = (m + 1) \div 2 BY <1>2, <1>4, AboveIs
<1>7. PICK k \in Nat : /\ k = (n + 1) \div 2
                       /\ n = 2 * k \/ n + 1 = 2 * k
  BY Halving
<1>8. m = 2 * k \/ m + 1 = 2 * k
  <2>1. \E q \in Nat : /\ q = (m + 1) \div 2
                       /\ m = 2 * q \/ m + 1 = 2 * q
    BY Halving
  <2> QED BY <1>5, <1>6, <1>7, <2>1
<1>9. n > 0 /\ m > 0 BY <1>1, <1>2, <1>3, <1>4
<1>10. ASSUME NEW i \in 1 .. k
       PROVE  x[2 * i - 1] = y[2 * i - 1] /\ Even(x)[2 * i] = Even(y)[2 * i]
  <2>1. Above(x)[i] = <<x[2 * i - 1], Even(x)[2 * i]>>
    BY <1>5, <1>7, LeftChild
  <2>2. Above(y)[i] = <<y[2 * i - 1], Even(y)[2 * i]>>
    BY <1>5, <1>7, LeftChild
  <2> QED BY <2>1, <2>2
<1>11. (\A i \in 1 .. n : Even(x)[i] = x[i]) /\ (n % 2 # 0 => Even(x)[n + 1] = x[n]) BY <1>3, EvenKeeps
<1>12. (\A i \in 1 .. m : Even(y)[i] = y[i]) /\ (m % 2 # 0 => Even(y)[m + 1] = y[m]) BY <1>4, EvenKeeps
<1>13. k \in 1 .. k BY <1>7, <1>9
<1>14. n = m
  <2>1. CASE n = 2 * k /\ m + 1 = 2 * k
    <3>1. m % 2 # 0 /\ m + 1 = 2 * k /\ m = 2 * k - 1 BY <2>1
    <3>2. Even(y)[2 * k] = y[2 * k - 1] BY <1>12, <3>1
    <3>3. x[2 * k] = x[2 * k - 1] BY <1>10, <1>11, <1>13, <2>1, <3>2
    <3>4. 2 * k \in 1 .. Len(x) /\ 2 * k - 1 \in 1 .. Len(x) BY <1>3, <1>9, <2>1
    <3> QED BY <3>3, <3>4 DEF NoRepeat
  <2>2. CASE m = 2 * k /\ n + 1 = 2 * k
    <3>1. n % 2 # 0 /\ n + 1 = 2 * k /\ n = 2 * k - 1 BY <2>2
    <3>2. Even(x)[2 * k] = x[2 * k - 1] BY <1>11, <3>1
    <3>3. y[2 * k] = y[2 * k - 1] BY <1>10, <1>12, <1>13, <2>2, <3>2
    <3>4. 2 * k \in 1 .. Len(y) /\ 2 * k - 1 \in 1 .. Len(y) BY <1>4, <1>9, <2>2
    <3> QED BY <3>3, <3>4 DEF NoRepeat
  <2> QED BY <1>7, <1>8, <2>1, <2>2
<1>15. ASSUME NEW i \in 1 .. n PROVE x[i] = y[i]
  <2>1. PICK q \in Nat : i = 2 * q \/ i = 2 * q + 1
    <3>1. i \in Nat OBVIOUS
    <3> QED BY <3>1, Halving
  <2>2. CASE i = 2 * q
    <3>1. q \in 1 .. k BY <1>7, <2>2
    <3> QED BY <1>10, <1>11, <1>12, <1>14, <2>2, <3>1
  <2>3. CASE i = 2 * q + 1
    <3>1. q + 1 \in 1 .. k /\ 2 * (q + 1) - 1 = i BY <1>7, <2>3
    <3> QED BY <1>10, <3>1
  <2> QED BY <2>1, <2>2, <2>3
<1>16. x \in [1 .. n -> N] BY <1>1, <1>3
<1>17. y \in [1 .. n -> M] BY <1>2, <1>4, <1>14
<1> QED BY <1>15, <1>16, <1>17

AreLeaves(leaves) == \A i \in 1 .. Len(leaves) : \E h : leaves[i] = Leaf(h)

(* Nodes of different layers are never equal, in one tree or in two: a     *)
(* leaf is no pair.                                                        *)
LEMMA SameDepth ==
  ASSUME NEW d, NEW e, IsTree(d, d[1]), IsTree(e, e[1]), AreLeaves(d[1]), AreLeaves(e[1])
  PROVE  \A k \in 1 .. Len(d), m \in 1 .. Len(e) :
           \A i \in 1 .. Len(d[k]), j \in 1 .. Len(e[m]) : d[k][i] = e[m][j] => k = m
<1>1. /\ \A n \in 1 .. Len(d) : IsLayer(d[n])
      /\ \A n \in 1 .. Len(d) - 1 : d[n + 1] = Above(d[n])
      /\ \A n \in 1 .. Len(e) : IsLayer(e[n])
      /\ \A n \in 1 .. Len(e) - 1 : e[n + 1] = Above(e[n])
      /\ Len(d) \in Nat /\ Len(e) \in Nat
  BY DEF IsTree
<1> DEFINE Same(k) == \A m \in 1 .. Len(e) :
              \A i \in 1 .. Len(d[k]), j \in 1 .. Len(e[m]) : d[k][i] = e[m][j] => k = m
           T == {k \in 1 .. Len(d) : ~Same(k)}
<1> SUFFICES ASSUME T # {} PROVE FALSE OBVIOUS
<1>2. T \subseteq Nat BY <1>1
<1>3. PICK k \in T : \A l \in T : k <= l
  <2> HIDE DEF T
  <2> QED BY <1>2, Smallest
<1>4. k \in 1 .. Len(d) /\ ~Same(k) OBVIOUS
<1>5. PICK m \in 1 .. Len(e) :
        \E i \in 1 .. Len(d[k]), j \in 1 .. Len(e[m]) : d[k][i] = e[m][j] /\ k # m
  BY <1>4
<1>6. PICK i \in 1 .. Len(d[k]), j \in 1 .. Len(e[m]) : d[k][i] = e[m][j] /\ k # m
  BY <1>5
<1>7. k # 1 => k - 1 \in 1 .. Len(d) /\ k - 1 \in 1 .. Len(d) - 1 /\ (k - 1) + 1 = k BY <1>1, <1>4
<1>8. m # 1 => m - 1 \in 1 .. Len(e) /\ m - 1 \in 1 .. Len(e) - 1 /\ (m - 1) + 1 = m BY <1>1
<1>9. k # 1 => /\ 2 * i - 1 \in 1 .. Len(d[k - 1])
               /\ d[k][i] = <<d[k - 1][2 * i - 1], Even(d[k - 1])[2 * i]>>
  <2> SUFFICES ASSUME k # 1
               PROVE  /\ 2 * i - 1 \in 1 .. Len(d[k - 1])
                      /\ d[k][i] = <<d[k - 1][2 * i - 1], Even(d[k - 1])[2 * i]>>
    OBVIOUS
  <2>1. PICK layer : layer = d[k - 1] OBVIOUS
  <2>2. IsLayer(layer) /\ d[k] = Above(layer) BY <1>1, <1>7, <2>1
  <2>3. i \in 1 .. Len(Above(layer)) BY <1>6, <2>2, Zenon
  <2>4. /\ 2 * i - 1 \in 1 .. Len(layer)
        /\ Above(layer)[i] = <<layer[2 * i - 1], Even(layer)[2 * i]>>
    BY <2>2, <2>3, LeftChild, Zenon
  <2> QED BY <2>1, <2>2, <2>4, Zenon
<1>10. m # 1 => /\ 2 * j - 1 \in 1 .. Len(e[m - 1])
               /\ e[m][j] = <<e[m - 1][2 * j - 1], Even(e[m - 1])[2 * j]>>
  <2> SUFFICES ASSUME m # 1
               PROVE  /\ 2 * j - 1 \in 1 .. Len(e[m - 1])
                      /\ e[m][j] = <<e[m - 1][2 * j - 1], Even(e[m - 1])[2 * j]>>
    OBVIOUS
  <2>1. PICK layer : layer = e[m - 1] OBVIOUS
  <2>2. IsLayer(layer) /\ e[m] = Above(layer) BY <1>1, <1>8, <2>1
  <2>3. j \in 1 .. Len(Above(layer)) BY <1>6, <2>2, Zenon
  <2>4. /\ 2 * j - 1 \in 1 .. Len(layer)
        /\ Above(layer)[j] = <<layer[2 * j - 1], Even(layer)[2 * j]>>
    BY <2>2, <2>3, LeftChild, Zenon
  <2> QED BY <2>1, <2>2, <2>4, Zenon
<1>11. \A h, a, b : Leaf(h) # <<a, b>>
  <2>1. \A h, a, b : Len(<<h>>) = 1 /\ Len(<<a, b>>) = 2 OBVIOUS
  <2> QED BY <2>1 DEF Leaf
<1>12. k = 1 => m = 1
  <2>1. k = 1 => \E h : d[k][i] = Leaf(h) BY DEF AreLeaves
  <2> SUFFICES ASSUME k = 1, m # 1 PROVE FALSE OBVIOUS
  <2>2. PICK a, b : e[m][j] = <<a, b>> BY <1>10
  <2>3. PICK h : d[k][i] = Leaf(h) BY <2>1
  <2>4. Leaf(h) = <<a, b>> BY <1>6, <2>2, <2>3
  <2> QED BY <1>11, <2>4
<1>13. m = 1 => k = 1
  <2>1. m = 1 => \E h : e[m][j] = Leaf(h) BY DEF AreLeaves
  <2> SUFFICES ASSUME m = 1, k # 1 PROVE FALSE OBVIOUS
  <2>2. PICK a, b : d[k][i] = <<a, b>> BY <1>9
  <2>3. PICK h : e[m][j] = Leaf(h) BY <2>1
  <2>4. Leaf(h) = <<a, b>> BY <1>6, <2>2, <2>3
  <2> QED BY <1>11, <2>4
<1>14. k # 1 /\ m # 1 BY <1>6, <1>12, <1>13
<1>15. d[k - 1][2 * i - 1] = e[m - 1][2 * j - 1] BY <1>6, <1>9, <1>10, <1>14
<1>16. k - 1 \notin T
  <2> HIDE DEF T
  <2> QED BY <1>1, <1>3, <1>4
<1>17. Same(k - 1) BY <1>7, <1>14, <1>16
<1>18. k - 1 = m - 1 BY <1>8, <1>9, <1>10, <1>14, <1>15, <1>17
<1>19. k \in Int /\ m \in Int BY <1>1, <1>4
<1> QED BY <1>6, <1>18, <1>19

(* The root of a tree tells its leaves, if they are distinct.              *)
LEMMA RootTells ==
  ASSUME NEW d, NEW e, IsTree(d, d[1]), IsTree(e, e[1]),
         AreLeaves(d[1]), AreLeaves(e[1]), NoRepeat(d[1]), NoRepeat(e[1]),
         Root(d) = Root(e)
  PROVE  d[1] = e[1]
<1>1. PICK h \in Nat \ {0} : h = Len(d) BY DEF IsTree
<1>2. PICK g \in Nat \ {0} : g = Len(e) BY DEF IsTree
<1>3. Root(d) = d[h][1] /\ Root(e) = e[g][1] BY <1>1, <1>2 DEF Root, Last
<1>4. Len(d[h]) = 1 /\ Len(e[g]) = 1 BY <1>1, <1>2 DEF IsTree
<1>5. g = h
  <2>1. h \in 1 .. Len(d) /\ g \in 1 .. Len(e) /\ 1 \in 1 .. Len(d[h]) /\ 1 \in 1 .. Len(e[g])
    BY <1>1, <1>2, <1>4
  <2> QED BY <1>3, <2>1, SameDepth
<1>6. \A n \in 1 .. h : IsLayer(d[n]) /\ IsLayer(e[n])
  BY <1>1, <1>2, <1>5 DEF IsTree
<1>7. \A n \in 1 .. h - 1 : d[n + 1] = Above(d[n]) /\ e[n + 1] = Above(e[n])
  BY <1>1, <1>2, <1>5 DEF IsTree
<1>8. d[h] = e[h]
  <2>1. PICK N : d[h] \in Seq(N) BY <1>1, <1>6 DEF IsLayer
  <2>2. PICK M : e[h] \in Seq(M) BY <1>1, <1>6 DEF IsLayer
  <2>3. d[h][1] = e[h][1] /\ Len(d[h]) = 1 /\ Len(e[h]) = 1 BY <1>3, <1>4, <1>5
  <2> QED BY <2>1, <2>2, <2>3
<1>9. \A n \in 1 .. h : NoRepeat(d[n]) /\ NoRepeat(e[n])
  <2> DEFINE Good(n) == NoRepeat(d[n]) /\ NoRepeat(e[n])
             T == {n \in 1 .. h : ~Good(n)}
  <2> SUFFICES ASSUME T # {} PROVE FALSE OBVIOUS
  <2>1. T \subseteq Nat BY <1>1
  <2>2. PICK n \in T : \A m \in T : n <= m
    <3> HIDE DEF T
    <3> QED BY <2>1, Smallest
  <2>3. n \in 1 .. h /\ n # 1 OBVIOUS
  <2>4. n - 1 \in 1 .. h /\ n - 1 \in 1 .. h - 1 /\ (n - 1) + 1 = n BY <1>1, <2>3
  <2>5. n - 1 \notin T
    <3> HIDE DEF T
    <3> QED BY <1>1, <2>2, <2>3
  <2>6. Good(n - 1) BY <2>4, <2>5
  <2>7. d[n] = Above(d[n - 1]) /\ e[n] = Above(e[n - 1]) BY <1>7, <2>4
  <2>8. Good(n) BY <1>6, <2>4, <2>6, <2>7, AboveNoRepeat
  <2> QED BY <2>8
<1> DEFINE T == {t \in 0 .. h - 1 : d[h - t] # e[h - t]}
<1>10. T = {}
  <2> SUFFICES ASSUME T # {} PROVE FALSE OBVIOUS
  <2>1. T \subseteq Nat BY <1>1
  <2>2. PICK t \in T : \A u \in T : t <= u
    <3> HIDE DEF T
    <3> QED BY <2>1, Smallest
  <2>3. t \in 0 .. h - 1 /\ d[h - t] # e[h - t] OBVIOUS
  <2>4. t # 0 BY <1>1, <1>8, <2>3
  <2>5. PICK n \in Nat : n = h - t
    <3>1. t \in 0 .. h - 1 BY <2>3
    <3> HIDE DEF T
    <3>2. h - t \in Nat BY <1>1, <3>1
    <3> QED BY <3>2
  <2>6. n \in 1 .. h /\ n \in 1 .. h - 1 /\ h - (t - 1) = n + 1 /\ t - 1 \in 0 .. h - 1
    BY <1>1, <2>3, <2>4, <2>5
  <2>7. t - 1 \notin T
    <3> HIDE DEF T
    <3> QED BY <1>1, <2>2, <2>3
  <2>8. d[n + 1] = e[n + 1] BY <2>6, <2>7
  <2>9. Above(d[n]) = Above(e[n]) BY <1>7, <2>6, <2>8
  <2>10. d[n] = e[n] BY <1>6, <1>9, <2>6, <2>9, AboveTells
  <2> QED BY <2>3, <2>5, <2>10
<1>11. h - 1 \in 0 .. h - 1 /\ h - (h - 1) = 1 BY <1>1
<1>12. d[h - (h - 1)] = e[h - (h - 1)] BY <1>10, <1>11
<1> QED BY <1>11, <1>12

-----------------------------------------------------------------------------
(* The invariant.                                                          *)

(* There are finitely many operations to page through or to roll up.       *)
LEMMA AllFinite == IsFiniteSet(Ops \cup Others)
<1>1. IsFiniteSet(Ops)
  <2>1. 1 \in Int /\ LastOp \in Int BY SdkAssumption
  <2> QED BY <2>1, FS_Interval DEF Ops
<1> QED BY <1>1, AuditAssumption, FS_Union

(* The pages are cut from an order of the rows, the trees from one of the  *)
(* hashes.                                                                 *)
LEMMA PageOrder ==
  ASSUME SdkTypeOK, NEW S, S \subseteq Ops
  PROVE  Orders(NewestFirst, S)
<1>1. Ops \subseteq Nat BY DEF Ops
<1>2. \A o \in Ops : date[o] \in Nat BY SdkAssumption DEF SdkTypeOK
<1>3. \A a, b \in Ops : <<a, b>> \in NewestFirst <=> Before(a, b)
  BY DEF NewestFirst
<1>4. \A a \in Ops : ~Before(a, a) BY <1>1, <1>2 DEF Before
<1>5. \A a, b \in Ops : a = b \/ Before(a, b) \/ Before(b, a) BY <1>1, <1>2 DEF Before
<1>6. \A a, b, c \in Ops : Before(a, b) /\ Before(b, c) => Before(a, c)
  BY <1>1, <1>2 DEF Before
<1> HIDE DEF NewestFirst
<1> QED BY <1>3, <1>4, <1>5, <1>6 DEF Orders

(* The chain hashes are totally ordered, so a tree has its leaves in order. *)
LEMMA LeafOrder ==
  ASSUME NEW S, S \subseteq Ops \cup Others
  PROVE  Orders(ByHash, S)
<1> PICK All : All = Ops \cup Others OBVIOUS
<1>1. HashRank \in [All -> Nat] /\ \A a, b \in All : HashRank[a] = HashRank[b] => a = b
  BY AuditAssumption
<1>2. \A a, b \in All : <<a, b>> \in ByHash <=> HashRank[a] < HashRank[b]
  BY DEF ByHash
<1>3. \A a \in All : HashRank[a] \in Nat BY <1>1
<1>4. \A a, b \in All : a = b \/ HashRank[a] < HashRank[b] \/ HashRank[b] < HashRank[a]
  BY <1>1, <1>3
<1>5. \A a, b, c \in All : HashRank[a] < HashRank[b] /\ HashRank[b] < HashRank[c]
                             => HashRank[a] < HashRank[c]
  BY <1>3
<1>6. \A a \in All : ~(HashRank[a] < HashRank[a]) BY <1>3
<1> QED BY <1>2, <1>4, <1>5, <1>6 DEF Orders

(* The leaves of a window that is not empty.                               *)
LEMMA LeavesAre ==
  ASSUME NEW window, window \subseteq Ops \cup Others, window # {}
  PROVE  /\ IsLayer(Leaves(window)) /\ NoRepeat(Leaves(window)) /\ AreLeaves(Leaves(window))
         /\ Leaves(window) \in Seq({Leaf(o) : o \in Ops \cup Others})
<1> PICK All : All = Ops \cup Others OBVIOUS
<1>1. IsFiniteSet(window) BY AllFinite, FS_Subset
<1>2. PICK size : size = Cardinality(window) OBVIOUS
<1>3. PICK rows : rows = Sorted(window, ByHash) OBVIOUS
<1>4. /\ size \in Nat
      /\ rows \in [1 .. size -> window]
      /\ \A o \in window : \E i \in 1 .. size : rows[i] = o
      /\ \A i, j \in 1 .. size : i < j => <<rows[i], rows[j]>> \in ByHash
  BY <1>1, <1>2, <1>3, LeafOrder, SortedIs
<1>5. size > 0 BY <1>4
<1>6. \A a \in window : <<a, a>> \notin ByHash BY LeafOrder DEF Orders
<1>7. \A i, j \in 1 .. size : rows[i] = rows[j] => i = j
  <2> SUFFICES ASSUME NEW i \in 1 .. size, NEW j \in 1 .. size, rows[i] = rows[j], i < j PROVE FALSE
    BY <1>4
  <2>1. <<rows[i], rows[j]>> \in ByHash /\ rows[i] \in window BY <1>4
  <2> QED BY <1>6, <2>1
<1>8. PICK leaves : leaves = Leaves(window) OBVIOUS
<1>9. leaves = [i \in 1 .. size |-> Leaf(rows[i])] BY <1>3, <1>4, <1>8 DEF Leaves
<1>10. leaves \in [1 .. size -> {Leaf(o) : o \in All}] BY <1>4, <1>9
<1>11. leaves \in Seq({Leaf(o) : o \in All}) /\ Len(leaves) = size BY <1>4, <1>10
<1>12. IsLayer(leaves) BY <1>5, <1>11 DEF IsLayer
<1>13. AreLeaves(leaves) BY <1>9, <1>11 DEF AreLeaves
<1>14. \A a, b : Leaf(a) = Leaf(b) => a = b BY DEF Leaf
<1>15. NoRepeat(leaves)
  <2> SUFFICES ASSUME NEW i \in 1 .. size, NEW j \in 1 .. size, leaves[i] = leaves[j] PROVE i = j
    BY <1>11 DEF NoRepeat
  <2>1. leaves[i] = Leaf(rows[i]) /\ leaves[j] = Leaf(rows[j]) BY <1>9
  <2>2. rows[i] = rows[j] BY <1>14, <2>1
  <2> QED BY <1>7, <2>2
<1> QED BY <1>8, <1>11, <1>12, <1>13, <1>15

(* The tree of such a window.                                              *)
LEMMA GrownTree ==
  ASSUME NEW window, window \subseteq Ops \cup Others, window # {},
         NEW layers, layers = BuildMerkleTree(Leaves(window))
  PROVE  /\ layers[1] = Leaves(window)
         /\ IsTree(layers, layers[1]) /\ NoRepeat(layers[1]) /\ AreLeaves(layers[1])
         /\ layers[1] \in Seq({Leaf(o) : o \in Ops \cup Others})
<1>1. IsTree(layers, Leaves(window)) BY LeavesAre, TreeBuilt
<1>2. layers[1] = Leaves(window) BY <1>1 DEF IsTree
<1> QED BY <1>1, <1>2, LeavesAre

(* Both promises about trees follow from how they are grown.               *)
LEMMA TreesHold == Grown => ProofsVerify /\ RootTellsLeaves
<1> SUFFICES ASSUME Grown PROVE ProofsVerify /\ RootTellsLeaves OBVIOUS
<1>1. ASSUME NEW layers \in epochs
      PROVE  IsTree(layers, layers[1]) /\ NoRepeat(layers[1]) /\ AreLeaves(layers[1])
  <2>1. PICK window \in SUBSET (Ops \cup Others) :
          window # {} /\ layers = BuildMerkleTree(Leaves(window))
    BY DEF Grown
  <2> QED BY <2>1, GrownTree
<1>2. ProofsVerify BY <1>1, ProofLeads DEF ProofsVerify
<1>3. RootTellsLeaves BY <1>1, RootTells DEF RootTellsLeaves
<1> QED BY <1>2, <1>3

(* What is stored keeps its date, and only more is stored.                 *)
LEMMA StoredStays ==
  ASSUME SdkInv, Settled, [SdkNext]_sdkVars
  PROVE  /\ Settled' /\ Stored \subseteq Stored'
         /\ \A o \in Stored : date'[o] = date[o]
<1>1. /\ chain \in Seq(Ops) /\ request \in [Ops -> Requests] /\ date \in [Ops -> 0..LastDate]
  BY DEF SdkInv, SdkTypeOK
<1>2. Stored \subseteq Ops /\ \A o \in Stored : request[o] = "accepted"
  BY <1>1 DEF Stored, Settled
<1>3. ASSUME chain' = chain, \A o \in Stored : request'[o] = request[o] /\ date'[o] = date[o]
      PROVE  Settled' /\ Stored \subseteq Stored' /\ \A o \in Stored : date'[o] = date[o]
  BY <1>2, <1>3 DEF Settled, Stored
<1>4. ASSUME NEW o \in Ops, Accept(o)
      PROVE  Settled' /\ Stored \subseteq Stored' /\ \A p \in Stored : date'[p] = date[p]
  <2>1. chain' = Append(chain, o) /\ date' = date /\ request' = [request EXCEPT ![o] = "accepted"]
    BY <1>4 DEF Accept
  <2>2. Stored' = Stored \cup {o}
    <3>1. /\ DOMAIN chain = 1 .. Len(chain) /\ Len(chain) \in Nat
          /\ DOMAIN chain' = 1 .. Len(chain) + 1
          /\ chain'[Len(chain) + 1] = o
          /\ \A i \in 1 .. Len(chain) : chain'[i] = chain[i]
      BY <1>1, <2>1
    <3>2. 1 .. Len(chain) + 1 = 1 .. Len(chain) \cup {Len(chain) + 1} BY <3>1
    <3>3. Stored' = {chain'[i] : i \in 1 .. Len(chain) \cup {Len(chain) + 1}}
      BY <3>1, <3>2 DEF Stored
    <3>4. Stored = {chain[i] : i \in 1 .. Len(chain)} BY <3>1 DEF Stored
    <3> QED BY <3>1, <3>3, <3>4
  <2>3. \A p \in Stored' : request'[p] = "accepted" BY <1>1, <1>2, <2>1, <2>2
  <2> QED BY <2>1, <2>2, <2>3 DEF Settled
<1>5. ASSUME NEW o \in Ops, Arrive(o)
      PROVE  Settled' /\ Stored \subseteq Stored' /\ \A p \in Stored : date'[p] = date[p]
  <2>1. o \notin Stored BY <1>2, <1>5 DEF Arrive
  <2>2. chain' = chain /\ \A p \in Stored : request'[p] = request[p] /\ date'[p] = date[p]
    BY <1>1, <1>2, <1>5, <2>1 DEF Arrive
  <2> QED BY <1>3, <2>2
<1>6. ASSUME NEW o \in Ops, SubmitOperation(o) \/ Refuse(o)
      PROVE  Settled' /\ Stored \subseteq Stored' /\ \A p \in Stored : date'[p] = date[p]
  <2>1. o \notin Stored BY <1>2, <1>6 DEF SubmitOperation, Refuse
  <2>2. chain' = chain /\ \A p \in Stored : request'[p] = request[p] /\ date'[p] = date[p]
    BY <1>1, <1>2, <1>6, <2>1 DEF SubmitOperation, Refuse
  <2> QED BY <1>3, <2>2
<1>7. CASE (\E c \in Clients : CreateOperation(c)) \/ Tick \/ UNCHANGED sdkVars
  <2>1. chain' = chain /\ request' = request /\ date' = date
    BY <1>7 DEF CreateOperation, Tick, sdkVars
  <2> QED BY <1>3, <2>1
<1> QED BY <1>4, <1>5, <1>6, <1>7 DEF SdkNext

(* What a page holds: the next rows behind the cursor, in order.           *)
LEMMA PageIs ==
  ASSUME SdkTypeOK, NEW limit \in Nat \ {0}
  PROVE  \E size \in Nat : \E rows \in [1 .. size -> Remaining], m \in 0 .. size :
           /\ HasMore(limit) <=> size > limit
           /\ m = IF limit < size THEN limit ELSE size
           /\ Page(limit) \in Seq(Remaining) /\ Len(Page(limit)) = m
           /\ \A i \in 1 .. m : Page(limit)[i] = rows[i]
           /\ \A o \in Remaining : \E i \in 1 .. size : rows[i] = o
           /\ \A i, j \in 1 .. size : i < j => Before(rows[i], rows[j])
<1>1. Stored \subseteq Ops BY DEF SdkTypeOK, Stored
<1>2. Remaining \subseteq Ops /\ IsFiniteSet(Remaining)
  <2>1. Remaining \subseteq Ops BY <1>1 DEF Remaining
  <2> QED BY <2>1, AllFinite, FS_Subset
<1>3. PICK size : size = Cardinality(Remaining) OBVIOUS
<1>4. PICK rows : rows = Sorted(Remaining, NewestFirst) OBVIOUS
<1>5. /\ size \in Nat
      /\ rows \in [1 .. size -> Remaining]
      /\ \A o \in Remaining : \E i \in 1 .. size : rows[i] = o
      /\ \A i, j \in 1 .. size : i < j => <<rows[i], rows[j]>> \in NewestFirst
  <2>1. Orders(NewestFirst, Remaining) BY <1>2, PageOrder
  <2> QED BY <1>2, <1>3, <1>4, <2>1, SortedIs
<1>6. \A a, b : <<a, b>> \in NewestFirst => Before(a, b) BY DEF NewestFirst
<1>7. HasMore(limit) <=> size > limit BY <1>3 DEF HasMore
<1>8. rows \in Seq(Remaining) /\ Len(rows) = size BY <1>5
<1>9. PICK m \in 0 .. size : m = IF limit < size THEN limit ELSE size
  BY <1>5
<1>10. Page(limit) = SubSeq(rows, 1, m) BY <1>4, <1>8, <1>9 DEF Page
<1>11. /\ SubSeq(rows, 1, m) \in Seq(Remaining) /\ Len(SubSeq(rows, 1, m)) = m
       /\ \A i \in 1 .. m : SubSeq(rows, 1, m)[i] = rows[i]
  <2>1. m \in Nat /\ m <= Len(rows) BY <1>5, <1>8, <1>9
  <2> QED BY <1>8, <2>1
<1>12. \A i, j \in 1 .. size : i < j => Before(rows[i], rows[j]) BY <1>5, <1>6
<1> QED BY <1>5, <1>7, <1>9, <1>10, <1>11, <1>12

(* A page takes the reader on.                                             *)
LEMMA PageKeeps ==
  ASSUME AuditInv, NEW limit \in Limits, QueryAudit(limit)
  PROVE  AuditInv'
<1> DEFINE read == {seen[i] : i \in DOMAIN seen}
<1>1. /\ SdkInv /\ SdkTypeOK /\ TypeOK /\ Settled /\ PagesSoFar /\ PagesComplete /\ Grown
  BY DEF AuditInv, SdkInv
<1>2. /\ ~done /\ seen' = seen \o Page(limit) /\ done' = ~HasMore(limit)
      /\ cursor' = IF HasMore(limit) THEN Last(Page(limit)) ELSE cursor
      /\ due' = IF cursor = NoCursor THEN Stored ELSE due
      /\ UNCHANGED <<head, eors, request, date, chain, now, epochs>>
  BY DEF QueryAudit, sdkVars
<1>3. limit \in Nat \ {0} BY AuditAssumption
<1>4. PICK size \in Nat : \E rows \in [1 .. size -> Remaining], m \in 0 .. size :
        /\ HasMore(limit) <=> size > limit
        /\ m = IF limit < size THEN limit ELSE size
        /\ Page(limit) \in Seq(Remaining) /\ Len(Page(limit)) = m
        /\ \A i \in 1 .. m : Page(limit)[i] = rows[i]
        /\ \A o \in Remaining : \E i \in 1 .. size : rows[i] = o
        /\ \A i, j \in 1 .. size : i < j => Before(rows[i], rows[j])
  BY <1>1, <1>3, PageIs
<1>5. PICK rows \in [1 .. size -> Remaining], m \in 0 .. size :
        /\ HasMore(limit) <=> size > limit
        /\ m = IF limit < size THEN limit ELSE size
        /\ Page(limit) \in Seq(Remaining) /\ Len(Page(limit)) = m
        /\ \A i \in 1 .. m : Page(limit)[i] = rows[i]
        /\ \A o \in Remaining : \E i \in 1 .. size : rows[i] = o
        /\ \A i, j \in 1 .. size : i < j => Before(rows[i], rows[j])
  BY <1>4
<1>6. PICK page : page = Page(limit) OBVIOUS
<1>7. Stored \subseteq Ops /\ Remaining \subseteq Stored /\ \A o \in Remaining : Beyond(o)
  BY <1>1 DEF SdkTypeOK, Stored, Remaining
<1>8. PICK l \in Nat : l = Len(seen) /\ seen \in Seq(Ops) /\ DOMAIN seen = 1 .. l
  BY <1>1 DEF TypeOK
<1>9. /\ seen' \in Seq(Ops) /\ Len(seen') = l + m /\ DOMAIN seen' = 1 .. l + m
      /\ \A i \in 1 .. l : seen'[i] = seen[i]
      /\ \A i \in 1 .. m : seen'[l + i] = rows[i]
  <2>1. page \in Seq(Ops) /\ Len(page) = m /\ \A i \in 1 .. m : page[i] = rows[i]
    BY <1>5, <1>6, <1>7
  <2>2. seen' = seen \o page BY <1>2, <1>6
  <2>3. seen' \in Seq(Ops) /\ Len(seen') = l + m
    <3>1. seen \o page \in Seq(Ops) /\ Len(seen \o page) = Len(seen) + Len(page)
      BY <1>8, <2>1
    <3> QED BY <1>8, <2>1, <2>2, <3>1
  <2>4. \A i \in 1 .. l : seen'[i] = seen[i] BY <1>5, <1>8, <2>1, <2>2
  <2>5. ASSUME NEW i \in 1 .. m PROVE seen'[l + i] = rows[i]
    <3>1. seen'[l + i] = page[i] BY <1>5, <1>8, <2>1, <2>2
    <3> QED BY <2>1, <3>1
  <2> QED BY <1>5, <2>3, <2>4, <2>5
<1>10. Stored' = Stored /\ \A a, b : Before(a, b)' <=> Before(a, b)
  BY <1>2 DEF Stored, Before
<1> DEFINE read2 == {seen'[i] : i \in DOMAIN seen'}
<1>11. read2 = read \cup {rows[i] : i \in 1 .. m}
  <2>1. \A i \in 1 .. l + m : i \in 1 .. l \/ \E j \in 1 .. m : i = l + j
    <3> SUFFICES ASSUME NEW i \in 1 .. l + m, i \notin 1 .. l PROVE \E j \in 1 .. m : i = l + j
      OBVIOUS
    <3>1. i - l \in 1 .. m /\ i = l + (i - l) BY <1>5
    <3> QED BY <3>1
  <2>2. \A i \in 1 .. l : i \in 1 .. l + m BY <1>5
  <2>3. \A i \in 1 .. m : l + i \in 1 .. l + m BY <1>5
  <2>4. read2 \subseteq read \cup {rows[i] : i \in 1 .. m}
    <3> SUFFICES ASSUME NEW i \in 1 .. l + m PROVE seen'[i] \in read \cup {rows[j] : j \in 1 .. m}
      BY <1>9
    <3>1. CASE i \in 1 .. l BY <1>8, <1>9, <3>1
    <3>2. CASE i \notin 1 .. l
      <4>1. PICK j \in 1 .. m : i = l + j BY <2>1, <3>2
      <4> QED BY <1>9, <4>1
    <3> QED BY <3>1, <3>2
  <2>5. read \subseteq read2 BY <1>8, <1>9, <2>2
  <2>6. {rows[i] : i \in 1 .. m} \subseteq read2 BY <1>9, <2>3
  <2> QED BY <2>4, <2>5, <2>6
<1>12. \A i \in 1 .. m : i \in 1 .. size /\ rows[i] \in Remaining BY <1>5
<1>13. read2 \subseteq Stored
  BY <1>1, <1>7, <1>11, <1>12 DEF PagesSoFar
<1>14. \A o \in due' : o \in Remaining \/ o \in read
  BY <1>1, <1>2 DEF PagesSoFar, Remaining, TypeOK, Beyond
<1>15. due' \subseteq Stored BY <1>1, <1>2 DEF TypeOK
<1> HIDE DEF read2
<1>16. \A i \in 1 .. Len(seen') - 1 : Before(seen'[i], seen'[i + 1])
  <2> SUFFICES ASSUME NEW i \in 1 .. l + m - 1 PROVE Before(seen'[i], seen'[i + 1])
    BY <1>9
  <2>1. CASE i < l
    <3>1. i \in 1 .. l /\ i + 1 \in 1 .. l /\ i \in 1 .. Len(seen) - 1 BY <1>8, <2>1
    <3>2. Before(seen[i], seen[i + 1]) BY <1>1, <3>1 DEF PagesComplete
    <3> QED BY <1>9, <3>1, <3>2
  <2>2. CASE i = l
    <3>1. l \in 1 .. l /\ 1 \in 1 .. m /\ 1 \in 1 .. size /\ seen # <<>>
      BY <1>5, <1>8, <2>2
    <3>2. cursor # NoCursor /\ cursor = seen[l]
      BY <1>1, <1>2, <1>8, <3>1 DEF PagesSoFar
    <3>3. Before(cursor, rows[1]) BY <1>5, <1>7, <3>1, <3>2 DEF Beyond
    <3>4. seen'[l] = seen[l] /\ seen'[l + 1] = rows[1] BY <1>9, <3>1
    <3> QED BY <2>2, <3>2, <3>3, <3>4
  <2>3. CASE i > l
    <3>1. PICK j \in Nat : i = l + j /\ j \in 1 .. m /\ j + 1 \in 1 .. m
      <4>1. i - l \in Nat /\ i = l + (i - l) /\ i - l \in 1 .. m /\ (i - l) + 1 \in 1 .. m
        BY <1>5, <2>3
      <4> QED BY <4>1
    <3>2. j \in 1 .. size /\ j + 1 \in 1 .. size /\ j < j + 1 BY <1>12, <3>1
    <3>3. Before(rows[j], rows[j + 1]) BY <1>5, <3>2
    <3>4. seen'[l + j] = rows[j] /\ seen'[l + (j + 1)] = rows[j + 1] BY <1>9, <3>1
    <3>5. l + (j + 1) = i + 1 BY <3>1
    <3> QED BY <3>1, <3>3, <3>4, <3>5
  <2> QED BY <1>5, <2>1, <2>2, <2>3
<1>17. CASE size > limit
  <2>1. m = limit /\ m \in 1 .. m /\ m \in 1 .. size BY <1>3, <1>5, <1>17
  <2>2. cursor' = rows[m] /\ ~done'
    <3>1. HasMore(limit) BY <1>5, <1>17
    <3>2. Last(page) = page[m] BY <1>5, <1>6 DEF Last
    <3>3. page[m] = rows[m] BY <1>5, <1>6, <2>1
    <3> QED BY <1>2, <1>6, <3>1, <3>2, <3>3
  <2>3. cursor' \in Ops /\ cursor' # NoCursor
    <3>1. rows[m] \in Ops BY <1>7, <1>12, <2>1
    <3> QED BY <2>2, <3>1 DEF NoCursor, Ops
  <2>4. TypeOK'
    BY <1>1, <1>2, <1>9, <1>10, <1>15, <2>2, <2>3 DEF TypeOK, SdkTypeOK, Requests
  <2>5. seen' # <<>> /\ cursor' = seen'[Len(seen')]
    <3>1. seen'[l + m] = rows[m] /\ l + m > 0 BY <1>9, <2>1
    <3> QED BY <1>9, <2>2, <3>1
  <2>6. \A o \in due' : Beyond(o)' \/ o \in read2
    <3> SUFFICES ASSUME NEW o \in due', o \notin read2 PROVE Before(cursor', o)
      BY <1>10, <2>3 DEF Beyond
    <3>1. o \in Remaining BY <1>11, <1>14
    <3>2. PICK k \in 1 .. size : rows[k] = o BY <1>5, <3>1
    <3>3. k \notin 1 .. m BY <1>11, <3>2
    <3>4. m < k BY <1>5, <3>3
    <3> QED BY <1>5, <2>1, <2>2, <3>2, <3>4
  <2>7. PagesSoFar' BY <1>10, <1>13, <2>2, <2>3, <2>5, <2>6 DEF PagesSoFar, read2
  <2>8. PagesComplete' BY <1>10, <1>16, <2>2 DEF PagesComplete
  <2> QED BY <1>1, <1>2, <2>4, <2>7, <2>8, SdkStep
      DEF AuditInv, Settled, Stored, Grown, sdkVars
<1>18. CASE ~(size > limit)
  <2>1. m = size BY <1>3, <1>5, <1>18
  <2>2. cursor' = cursor /\ done' = TRUE BY <1>2, <1>5, <1>18
  <2>3. TypeOK'
    BY <1>1, <1>2, <1>9, <1>10, <1>15, <2>2 DEF TypeOK, SdkTypeOK, Requests
  <2>4. due' \subseteq read2
    <3>1. Remaining \subseteq {rows[i] : i \in 1 .. m} BY <1>5, <2>1
    <3> QED BY <1>11, <1>14, <3>1
  <2>5. PagesSoFar' BY <1>10, <1>13, <2>2 DEF PagesSoFar, read2
  <2>6. PagesComplete' BY <1>10, <1>16, <2>2, <2>4 DEF PagesComplete, read2
  <2> QED BY <1>1, <1>2, <2>3, <2>5, <2>6, SdkStep
      DEF AuditInv, Settled, Stored, Grown, sdkVars
<1> QED BY <1>17, <1>18

(* Operations come in: what the reader has read and what trees were made   *)
(* of stays.                                                               *)
LEMMA ArrivalKeeps ==
  ASSUME AuditInv, [SdkNext]_sdkVars, UNCHANGED <<auditVars, epochs>>
  PROVE  AuditInv'
<1>1. /\ SdkInv /\ SdkTypeOK /\ TypeOK /\ Settled /\ PagesSoFar /\ PagesComplete /\ Grown
  BY DEF AuditInv, SdkInv
<1>2. /\ UNCHANGED <<cursor, done, seen, due, epochs>>
      /\ cursor' = cursor /\ done' = done /\ seen' = seen /\ due' = due /\ epochs' = epochs
  BY DEF auditVars
<1>3. /\ Settled' /\ Stored \subseteq Stored'
      /\ \A o \in Stored : date'[o] = date[o]
  BY <1>1, StoredStays
<1>4. SdkInv' BY <1>1, SdkStep
<1>5. PICK read : read = {seen[i] : i \in DOMAIN seen} OBVIOUS
<1>6. read \subseteq Stored /\ due \subseteq Stored BY <1>1, <1>5 DEF PagesSoFar, TypeOK
<1>7. \A a, b \in Stored : Before(a, b)' <=> Before(a, b) BY <1>3 DEF Before
<1>8. ~done /\ cursor # NoCursor => cursor \in Stored
  <2>1. seen # <<>> => seen[Len(seen)] \in read
    <3>1. seen \in Seq(Ops) BY <1>1 DEF TypeOK
    <3>2. seen # <<>> => Len(seen) \in DOMAIN seen BY <3>1
    <3> QED BY <1>5, <3>2
  <2> QED BY <1>1, <1>6, <2>1 DEF PagesSoFar
<1>9. ~done => \A o \in due : Beyond(o)' <=> Beyond(o)
  BY <1>2, <1>6, <1>7, <1>8 DEF Beyond
<1>10. TypeOK'
  <2>1. SdkTypeOK' BY <1>4 DEF SdkInv
  <2> QED BY <1>1, <1>2, <1>3, <2>1 DEF TypeOK
<1>11. PagesSoFar' BY <1>1, <1>2, <1>3, <1>9 DEF PagesSoFar
<1>12. PagesComplete'
  <2>1. \A i \in 1 .. Len(seen) - 1 : Before(seen[i], seen[i + 1])'
    <3> SUFFICES ASSUME NEW i \in 1 .. Len(seen) - 1 PROVE Before(seen[i], seen[i + 1])'
      OBVIOUS
    <3>1. seen \in Seq(Ops) BY <1>1 DEF TypeOK
    <3>2. i \in DOMAIN seen /\ i + 1 \in DOMAIN seen BY <3>1
    <3>3. seen[i] \in Stored /\ seen[i + 1] \in Stored BY <1>5, <1>6, <3>2
    <3>4. PICK a, b : a = seen[i] /\ b = seen[i + 1] OBVIOUS
    <3>5. Before(a, b) BY <1>1, <3>4 DEF PagesComplete
    <3>6. Before(a, b)' BY <1>7, <3>3, <3>4, <3>5
    <3>7. seen[i]' = a /\ seen[i + 1]' = b BY <1>2, <3>4
    <3> QED BY <3>6, <3>7 DEF Before
  <2> QED BY <1>1, <1>2, <2>1 DEF PagesComplete
<1>13. Grown' BY <1>1, <1>2 DEF Grown
<1> QED BY <1>3, <1>4, <1>10, <1>11, <1>12, <1>13 DEF AuditInv

(* One more tree is grown of operations.                                   *)
LEMMA EpochKeeps ==
  ASSUME AuditInv, NEW others \in SUBSET Others, CreateEpoch(others)
  PROVE  AuditInv'
<1>1. /\ SdkInv /\ SdkTypeOK /\ TypeOK /\ Settled /\ PagesSoFar /\ PagesComplete /\ Grown
  BY DEF AuditInv, SdkInv
<1>2. /\ UNCHANGED <<cursor, done, seen, due>> /\ UNCHANGED sdkVars
      /\ UNCHANGED <<head, eors, request, date, chain, now>>
  BY DEF CreateEpoch, auditVars, sdkVars
<1>3. PICK window : window = {o \in Stored : date[o] = 0} \cup others OBVIOUS
<1>4. PICK layers : layers = BuildMerkleTree(Leaves(window)) OBVIOUS
<1>5. window # {} /\ epochs' = epochs \cup {layers} BY <1>3, <1>4 DEF CreateEpoch
<1>6. Stored \subseteq Ops BY <1>1 DEF SdkTypeOK, Stored
<1>7. window \subseteq Ops \cup Others BY <1>3, <1>6
<1>8. Grown' BY <1>1, <1>4, <1>5, <1>7 DEF Grown
<1>9. layers[1] \in Seq({Leaf(o) : o \in Ops \cup Others}) BY <1>4, <1>5, <1>7, GrownTree
<1>10. SdkInv' BY <1>1, <1>2, SdkStep
<1>11. Stored' = Stored BY <1>2 DEF Stored
<1>12. TypeOK'
  <2>1. SdkTypeOK' BY <1>10 DEF SdkInv
  <2> QED BY <1>1, <1>2, <1>5, <1>9, <1>11, <2>1 DEF TypeOK
<1>13. Settled' BY <1>1, <1>2, <1>11 DEF Settled
<1>14. PagesSoFar' /\ PagesComplete'
  <2>1. PagesSoFar' BY <1>1, <1>2, <1>11 DEF PagesSoFar, Beyond, Before
  <2>2. PagesComplete' BY <1>1, <1>2 DEF PagesComplete, Before
  <2> QED BY <2>1, <2>2
<1> QED BY <1>8, <1>10, <1>12, <1>13, <1>14 DEF AuditInv

(* Every state of the audit log, its readers and its epochs satisfies      *)
(* AuditInv.                                                               *)
THEOREM AuditInvariance == Spec => []AuditInv
<1>1. Init => AuditInv
  <2> SUFFICES ASSUME Init PROVE AuditInv OBVIOUS
  <2>1. SdkInv /\ SdkTypeOK BY SdkStart DEF Init, SdkInv
  <2>2. Stored = {} BY DEF Init, SdkInit, Stored
  <2>3. cursor = NoCursor /\ done = FALSE /\ seen = <<>> /\ due = {} /\ epochs = {}
    BY DEF Init
  <2>4. seen \in Seq(Ops) /\ DOMAIN seen = {} /\ Len(seen) = 0 BY <2>3
  <2>5. TypeOK BY <2>1, <2>3, <2>4 DEF TypeOK
  <2>6. Settled BY <2>2 DEF Settled
  <2>7. PagesSoFar BY <2>3, <2>4 DEF PagesSoFar
  <2>8. PagesComplete BY <2>3, <2>4 DEF PagesComplete
  <2>9. Grown BY <2>3 DEF Grown
  <2> QED BY <2>1, <2>5, <2>6, <2>7, <2>8, <2>9 DEF AuditInv
<1>2. AuditInv /\ [Next]_vars => AuditInv'
  <2> SUFFICES ASSUME AuditInv, [Next]_vars PROVE AuditInv' OBVIOUS
  <2>1. CASE SdkNext /\ UNCHANGED <<auditVars, epochs>> BY <2>1, ArrivalKeeps
  <2>2. ASSUME NEW limit \in Limits, QueryAudit(limit) PROVE AuditInv' BY <2>2, PageKeeps
  <2>3. ASSUME NEW others \in SUBSET Others, CreateEpoch(others) PROVE AuditInv'
    BY <2>3, EpochKeeps
  <2>4. CASE UNCHANGED vars BY <2>4, ArrivalKeeps DEF vars
  <2> QED BY <2>1, <2>2, <2>3, <2>4 DEF Next
<1> QED BY <1>1, <1>2, PTL DEF Spec

(* An auditor who follows the cursor to the end gets every operation that  *)
(* was stored when he began, once and newest first (audit-service.ts:66-71,*)
(* 95-109), for any number of operations and clients and pages of any      *)
(* sizes.                                                                  *)
THEOREM PagesTheorem == Spec => []PagesComplete
<1>1. AuditInv => PagesComplete BY DEF AuditInv
<1> QED BY <1>1, AuditInvariance, PTL

(* The inclusion proof of every leaf of every epoch leads to its root      *)
(* (merkle.ts:53-142), whatever the number of leaves.                      *)
THEOREM ProofsTheorem == Spec => []ProofsVerify
<1>1. AuditInv => ProofsVerify BY TreesHold DEF AuditInv
<1> QED BY <1>1, AuditInvariance, PTL

(* Epochs with the same root have the same leaves (merkle.ts:71-73).       *)
THEOREM RootTheorem == Spec => []RootTellsLeaves
<1>1. AuditInv => RootTellsLeaves BY TreesHold DEF AuditInv
<1> QED BY <1>1, AuditInvariance, PTL
=============================================================================
