------------------------- MODULE HookRuntime_proofs -------------------------
(***************************************************************************)
(* Proofs about HookRuntime, for any number of hooks, attempts and crashes *)
(* and whatever the faults, unless a theorem says otherwise.               *)
(***************************************************************************)
EXTENDS HookRuntime, FiniteSetTheorems, TLAPS

---------------------------------------------------------------------------
(* Prefixes.                                                               *)

LEMMA PrefixRefl == ASSUME NEW S, NEW s \in Seq(S) PROVE IsPrefix(s, s)
  BY DEF IsPrefix

LEMMA PrefixEmpty == ASSUME NEW S, NEW s \in Seq(S) PROVE IsPrefix(<<>>, s)
  BY DEF IsPrefix

LEMMA PrefixAppend ==
  ASSUME NEW S, NEW s \in Seq(S), NEW t \in Seq(S), NEW x \in S, IsPrefix(s, t)
  PROVE  IsPrefix(s, Append(t, x))
<1>1. Len(s) <= Len(t) /\ Len(Append(t, x)) = Len(t) + 1 /\ Append(t, x) \in Seq(S)
  BY DEF IsPrefix
<1>2. SubSeq(Append(t, x), 1, Len(s)) = SubSeq(t, 1, Len(s))
  BY <1>1
<1> QED BY <1>1, <1>2 DEF IsPrefix

---------------------------------------------------------------------------
(* Type correctness.                                                       *)

Trying == {"inspect", "open", "post", "sent"}

(* A hook that still tries has an attempt left.                            *)
AttemptsLeft == \A h \in Hooks : pc[h] \in Trying => attempt[h] < MaxAttempts

TypeInv == TypeOK /\ AttemptsLeft

LEMMA InitTyped == Init => TypeInv
<1> SUFFICES ASSUME Init PROVE TypeInv
  OBVIOUS
<1>1. Cardinality(Earlier) \in Nat
  BY HookAssumption, FS_CardinalityType
<1>2. SeqOf(Earlier, Cardinality(Earlier)) \subseteq Hash
  BY <1>1 DEF SeqOf, Hash
<1>3. server \in Hash /\ local \in Hash
  BY <1>2 DEF Init
<1>4. lock \in LockFile
  <2>1. NoLock \in LockFile
    BY DEF LockFile, NoLock
  <2>2. \A n \in BOOLEAN : [owner |-> None, named |-> n, old |-> TRUE] \in LockFile
    BY DEF LockFile
  <2>3. CASE "deadLock" \in Faults
    BY <2>1, <2>2, <2>3 DEF Init
  <2>4. CASE "deadLock" \notin Faults
    BY <2>1, <2>4 DEF Init
  <2> QED BY <2>3, <2>4
<1>5. Silence \in Packet /\ <<>> \in Hash
  BY DEF Silence, Packet, Hash
<1> QED
  BY <1>3, <1>4, <1>5, HookAssumption DEF Init, TypeInv, TypeOK, AttemptsLeft, Steps, Fates

LEMMA OnwardType ==
  ASSUME TypeOK, NEW h \in Hooks
  PROVE  /\ Onward(h) \in Steps
         /\ Onward(h) \in Trying => attempt[h] < MaxAttempts
         /\ Onward(h) \notin Holding \cup {"sent", "lock", "judge", "stat", "reclaim", "crashed"}
<1> USE HookAssumption DEF TypeOK, Steps, Fates, Trying, Holding
<1>1. CASE fate[h] = "throw"
  BY <1>1 DEF Onward
<1>2. CASE fate[h] = "recorded"
  BY <1>2 DEF Onward
<1>3. CASE fate[h] = "retry"
  <2>1. Onward(h) = IF attempt[h] >= MaxAttempts THEN "gaveUp" ELSE "inspect"
    BY <1>3 DEF Onward
  <2> QED BY <2>1
<1> QED BY <1>1, <1>2, <1>3

(* What a step of a hook does to the type invariant.                       *)
LEMMA StepTyped == ASSUME TypeInv, NEW h \in Hooks, Step(h) PROVE TypeInv'
<1> USE HookAssumption DEF TypeInv, TypeOK, AttemptsLeft, Trying, GoTo, hookVars
<1>1. <<>> \in Hash /\ Silence \in Packet
  BY DEF Hash, Packet, Silence
<1>2. CASE Inspect(h)
  <2>1. CASE NoFile
    <3>1. prev' \in [Hooks -> Hash]
      BY <1>1, <1>2, <2>1 DEF Inspect
    <3> QED BY <1>2, <2>1, <3>1 DEF Inspect, Steps
  <2>2. CASE ~NoFile
    BY <1>2, <2>2 DEF Inspect, Steps
  <2> QED BY <2>1, <2>2
<1>3. CASE Open(h)
  BY <1>3 DEF Open, Steps
<1>4. CASE Post(h)
  <2>1. [kind |-> "request", head |-> prev[h]] \in Packet
    BY DEF Packet
  <2> QED BY <1>4, <2>1 DEF Post, Steps
<1>5. CASE Receive(h)
  <2>1. Append(prev[h], h) \in Hash /\ wire[h].head \in Hash
    BY DEF Hash, Packet
  <2>2. attempt[h] + 1 \in 0..MaxAttempts
    BY <1>5 DEF Receive
  <2>3. goal' \in [Hooks -> Hash] /\ fate' \in [Hooks -> Fates]
    <3>1. PICK g \in Hash, f \in Fates : /\ goal' = [goal EXCEPT ![h] = g]
                                         /\ fate' = [fate EXCEPT ![h] = f]
      BY <1>5, <2>1 DEF Receive, Fates
    <3> QED BY <3>1
  <2>4. wire' \in [Hooks -> Packet] /\ attempt' \in [Hooks -> 0..MaxAttempts]
    BY <1>1, <1>5, <2>2 DEF Receive
  <2>5. pc' \in [Hooks -> Steps] /\ UNCHANGED <<server, local, lock, seen, prev, crashes>>
    BY <1>5 DEF Receive, Steps
  <2>6. \A i \in Hooks : pc'[i] \in {"inspect", "open", "post", "sent"} =>
                          pc'[i] = pc[i] /\ attempt'[i] = attempt[i]
    BY <1>5 DEF Receive
  <2> QED BY <2>3, <2>4, <2>5, <2>6
<1>6. CASE CreateLock(h)
  <2>1. [owner |-> h, named |-> FALSE, old |-> FALSE] \in LockFile
    BY DEF LockFile
  <2> QED BY <1>6, <2>1 DEF CreateLock, Steps
<1>7. CASE FindLock(h)
  BY <1>7 DEF FindLock, Steps
<1>8. CASE NameLock(h)
  <2>1. [lock EXCEPT !.named = TRUE] \in LockFile
    BY DEF LockFile
  <2> QED BY <1>8, <2>1 DEF NameLock, Steps
<1>9. CASE JudgeOwner(h)
  BY <1>9 DEF JudgeOwner, Steps
<1>10. CASE StatLock(h)
  BY <1>10 DEF StatLock, Steps
<1>11. CASE Reclaim(h)
  BY <1>11 DEF Reclaim, NoLock, LockFile, Steps
<1>12. CASE Reinspect(h)
  <2>1. \E step \in {"write", "compare", "reopen"} : GoTo(h, step)
    BY <1>12 DEF Reinspect, Reread
  <2>2. seen' \in [Hooks -> Hash]
    BY <1>12 DEF Reinspect
  <2> QED BY <1>12, <2>1, <2>2 DEF Reinspect, Steps
<1>13. CASE Reopen(h)
  <2>1. CASE local = seen[h]
    <3>1. \E step \in {"write", "compare"} : GoTo(h, step)
      BY <1>13, <2>1 DEF Reopen, Reread
    <3> QED BY <1>13, <2>1, <3>1 DEF Reopen, Steps
  <2>2. CASE local # seen[h]
    BY <1>13, <2>2 DEF Reopen, Steps, Fates
  <2> QED BY <2>1, <2>2
<1>14. CASE WriteState(h)
  BY <1>14 DEF WriteState, Steps
<1>15. CASE CompareLock(h)
  BY <1>15, OnwardType DEF CompareLock, Steps
<1>16. CASE Unlink(h)
  BY <1>16, OnwardType DEF Unlink, NoLock, LockFile, Steps
<1> QED
  BY <1>2, <1>3, <1>4, <1>5, <1>6, <1>7, <1>8, <1>9, <1>10, <1>11, <1>12,
     <1>13, <1>14, <1>15, <1>16 DEF Step

LEMMA NextTyped == TypeInv /\ [Next]_vars => TypeInv'
<1> SUFFICES ASSUME TypeInv, [Next]_vars PROVE TypeInv'
  OBVIOUS
<1> USE HookAssumption DEF TypeInv, TypeOK, AttemptsLeft, Trying, GoTo, hookVars
<1>1. ASSUME NEW h \in Hooks, Step(h) PROVE TypeInv'
  BY <1>1, StepTyped
<1>2. ASSUME NEW h \in Hooks, Serve(h) PROVE TypeInv'
  <2>1. Append(server, h) \in Hash
    BY DEF Hash
  <2>2. /\ [wire[h] EXCEPT !.kind = "accepted"] \in Packet
        /\ [kind |-> "rejected", head |-> server] \in Packet
    BY DEF Packet
  <2>3. CASE wire[h].head = server BY <1>2, <2>1, <2>2, <2>3 DEF Serve
  <2>4. CASE wire[h].head # server BY <1>2, <2>2, <2>4 DEF Serve
  <2> QED BY <2>3, <2>4
<1>3. ASSUME NEW h \in Hooks, Abort(h) PROVE TypeInv'
  BY <1>3 DEF Abort, Steps
<1>4. ASSUME NEW h \in Hooks, WaitTooLong(h) PROVE TypeInv'
  BY <1>4 DEF WaitTooLong, Steps
<1>5. ASSUME NEW h \in Hooks, Crash(h) PROVE TypeInv'
  BY <1>5 DEF Crash, Steps
<1>6. CASE LockAges
  <2>1. [lock EXCEPT !.old = TRUE] \in LockFile
    BY DEF LockFile
  <2> QED BY <1>6, <2>1 DEF LockAges
<1>7. CASE UNCHANGED vars
  BY <1>7 DEF vars
<1>8. ASSUME NEW h \in Hooks, NameFails(h) PROVE TypeInv'
  BY <1>8 DEF NameFails, Steps
<1>9. ASSUME NEW h \in Hooks, WriteFails(h) PROVE TypeInv'
  BY <1>9 DEF WriteFails, Steps, Fates
<1> QED
  BY <1>1, <1>2, <1>3, <1>4, <1>5, <1>6, <1>7, <1>8, <1>9 DEF Next

LEMMA Typed == Spec => []TypeInv
  BY InitTyped, NextTyped, PTL DEF Spec

(* Every variable always has its type, whatever crashes and faults; in     *)
(* particular no hook is answered more than MAX_CHAIN_ATTEMPTS times.      *)
THEOREM TypeCorrect == Spec => []TypeOK
<1>1. TypeInv => TypeOK
  BY DEF TypeInv
<1> QED BY <1>1, Typed, PTL

---------------------------------------------------------------------------
(* The state file stays on the server's chain.                             *)

(* A hook that waits for an answer has a request under way that names the  *)
(* head it holds, or its answer.                                           *)
Answering(h) ==
  pc[h] = "sent" =>
    /\ wire[h].kind \in {"request", "accepted", "rejected"}
    /\ wire[h].kind # "rejected" => wire[h].head = prev[h]

(* Each head a hook may ever write is on the server's chain already.       *)
OnChain ==
  /\ IsPrefix(local, server)
  /\ \A h \in Hooks :
       /\ IsPrefix(prev[h], server)
       /\ IsPrefix(goal[h], server)
       /\ wire[h].kind = "accepted" => IsPrefix(Append(wire[h].head, h), server)
       /\ wire[h].kind = "rejected" => IsPrefix(wire[h].head, server)

ChainInv ==
  /\ TypeInv
  /\ OnChain
  /\ \A h \in Hooks : Answering(h)

LEMMA InitOnChain == Init => ChainInv
<1> SUFFICES ASSUME Init PROVE ChainInv
  OBVIOUS
<1>1. TypeInv
  BY InitTyped
<1>2. IsPrefix(<<>>, server)
  BY <1>1, PrefixEmpty DEF TypeInv, TypeOK, Hash
<1>3. \A h \in Hooks : pc[h] = "inspect" /\ wire[h].kind = "none"
  BY DEF Init, Silence
<1>4. \A h \in Hooks : prev[h] = <<>> /\ goal[h] = <<>>
  BY DEF Init
<1>5. IsPrefix(local, server)
  BY DEF Init
<1> QED BY <1>1, <1>2, <1>3, <1>4, <1>5 DEF ChainInv, OnChain, Answering

(* A step that leaves the server, the wire and the goals alone can only    *)
(* take the head of the state file over.                                   *)
LEMMA StepOnChain == ASSUME ChainInv, NEW h \in Hooks, Step(h) PROVE ChainInv'
<1> USE DEF GoTo, hookVars
<1>1. TypeInv'
  BY StepTyped DEF ChainInv
<1>2. TypeOK
  BY DEF ChainInv, TypeInv
<1>3. UNCHANGED server
  BY DEF Step, Inspect, Open, Post, Receive, CreateLock, FindLock, NameLock, JudgeOwner,
    StatLock, Reclaim, Reinspect, Reopen, WriteState, CompareLock, Unlink
<1>4. IsPrefix(<<>>, server)
  BY <1>2, PrefixEmpty DEF TypeOK, Hash
<1>5. CASE Inspect(h)
  <2>1. \A i \in Hooks : prev'[i] = prev[i] \/ prev'[i] = <<>>
    BY <1>2, <1>5 DEF Inspect, TypeOK
  <2>2. pc'[h] # "sent"
    BY <1>2, <1>5 DEF Inspect, TypeOK
  <2>3. \A i \in Hooks : i # h => prev'[i] = prev[i] /\ pc'[i] = pc[i]
    BY <1>2, <1>5 DEF Inspect, TypeOK
  <2>4. UNCHANGED <<local, goal, wire>>
    BY <1>5 DEF Inspect
  <2> QED BY <1>1, <1>3, <1>4, <2>1, <2>2, <2>3, <2>4 DEF ChainInv, OnChain, Answering
<1>6. CASE Open(h)
  <2>1. \A i \in Hooks : prev'[i] = prev[i] \/ prev'[i] = local
    BY <1>2, <1>6 DEF Open, TypeOK
  <2>2. pc'[h] # "sent"
    BY <1>2, <1>6 DEF Open, TypeOK
  <2>3. \A i \in Hooks : i # h => prev'[i] = prev[i] /\ pc'[i] = pc[i]
    BY <1>2, <1>6 DEF Open, TypeOK
  <2>4. UNCHANGED <<local, goal, wire>>
    BY <1>6 DEF Open
  <2> QED BY <1>1, <1>3, <2>1, <2>2, <2>3, <2>4 DEF ChainInv, OnChain, Answering
<1>7. CASE Post(h)
  <2>1. wire'[h].kind = "request" /\ wire'[h].head = prev[h]
    BY <1>2, <1>7 DEF Post, TypeOK
  <2>2. \A i \in Hooks : i # h => wire'[i] = wire[i] /\ pc'[i] = pc[i]
    BY <1>2, <1>7 DEF Post, TypeOK
  <2>3. UNCHANGED <<local, prev, goal>>
    BY <1>7 DEF Post
  <2> QED BY <1>1, <1>3, <2>1, <2>2, <2>3 DEF ChainInv, OnChain, Answering
<1>8. CASE Receive(h)
  <2>1. wire'[h].kind = "none" /\ pc'[h] # "sent"
    BY <1>2, <1>8 DEF Receive, TypeOK, Silence
  <2>2. \A i \in Hooks : i # h => wire'[i] = wire[i] /\ pc'[i] = pc[i] /\ goal'[i] = goal[i]
    BY <1>2, <1>8 DEF Receive, TypeOK
  <2>3. UNCHANGED <<local, prev>>
    BY <1>8 DEF Receive
  <2>4. IsPrefix(goal'[h], server)
    <3>1. CASE wire[h].kind = "accepted"
      <4>1. wire[h].head = prev[h]
        BY <1>8, <3>1 DEF Receive, ChainInv, Answering
      <4>2. goal'[h] = Append(prev[h], h)
        BY <1>2, <1>8, <3>1 DEF Receive, TypeOK
      <4> QED BY <3>1, <4>1, <4>2 DEF ChainInv, OnChain
    <3>2. CASE wire[h].kind = "rejected"
      <4>1. goal'[h] = wire[h].head
        BY <1>2, <1>8, <3>2 DEF Receive, TypeOK
      <4> QED BY <3>2, <4>1 DEF ChainInv, OnChain
    <3> QED BY <1>8, <3>1, <3>2 DEF Receive
  <2> QED BY <1>1, <1>3, <2>1, <2>2, <2>3, <2>4 DEF ChainInv, OnChain, Answering
<1>9. CASE WriteState(h)
  <2>1. local' = goal[h]
    BY <1>9 DEF WriteState
  <2>2. UNCHANGED <<prev, goal, wire>>
    BY <1>9 DEF WriteState
  <2>3. \A i \in Hooks : pc'[i] = "sent" => pc[i] = "sent"
    BY <1>2, <1>9 DEF WriteState, TypeOK
  <2> QED BY <1>1, <1>3, <2>1, <2>2, <2>3 DEF ChainInv, OnChain, Answering
<1>10. CASE \/ CreateLock(h) \/ FindLock(h) \/ NameLock(h) \/ JudgeOwner(h) \/ StatLock(h)
            \/ Reclaim(h) \/ Reinspect(h) \/ Reopen(h) \/ CompareLock(h) \/ Unlink(h)
  <2>1. UNCHANGED <<local, prev, goal, wire>>
    BY <1>10 DEF CreateLock, FindLock, NameLock, JudgeOwner, StatLock, Reclaim,
      Reinspect, Reopen, CompareLock, Unlink
  <2>2. \A i \in Hooks : i # h => pc'[i] = pc[i]
    BY <1>2, <1>10 DEF CreateLock, FindLock, NameLock, JudgeOwner, StatLock, Reclaim,
      Reinspect, Reopen, Reread, CompareLock, Unlink, TypeOK
  <2>3. pc'[h] # "sent"
    <3>1. CASE CompareLock(h) \/ Unlink(h)
      BY <1>2, <3>1, OnwardType DEF CompareLock, Unlink, TypeOK
    <3>2. CASE Reinspect(h) \/ Reopen(h)
      BY <1>2, <3>2 DEF Reinspect, Reopen, Reread, TypeOK
    <3>3. CASE \/ CreateLock(h) \/ FindLock(h) \/ NameLock(h)
               \/ JudgeOwner(h) \/ StatLock(h) \/ Reclaim(h)
      BY <1>2, <3>3 DEF CreateLock, FindLock, NameLock, JudgeOwner, StatLock, Reclaim, TypeOK
    <3> QED BY <1>10, <3>1, <3>2, <3>3
  <2> QED BY <1>1, <1>3, <2>1, <2>2, <2>3 DEF ChainInv, OnChain, Answering
<1> QED BY <1>5, <1>6, <1>7, <1>8, <1>9, <1>10 DEF Step

(* The server extends its chain only where its head is named.              *)
LEMMA ServeOnChain == ASSUME ChainInv, NEW h \in Hooks, Serve(h) PROVE ChainInv'
<1>1. TypeOK /\ TypeInv'
  BY NextTyped DEF ChainInv, TypeInv, Next
<1>2. UNCHANGED <<local, prev, goal, pc>>
  BY DEF Serve, hookVars
<1>3. \A i \in Hooks : i # h => wire'[i] = wire[i]
  BY <1>1 DEF Serve, TypeOK
<1>4. wire[h].kind = "request"
  BY DEF Serve
<1>5. CASE wire[h].head = server
  <2>1. server' = Append(server, h)
    BY <1>5 DEF Serve
  <2>2. wire'[h].kind = "accepted" /\ wire'[h].head = server
    BY <1>1, <1>5 DEF Serve, TypeOK, Packet
  <2>3. \A s \in Hash : IsPrefix(s, server) => IsPrefix(s, server')
    BY <1>1, <2>1, PrefixAppend DEF TypeOK, Hash
  <2>4. IsPrefix(server', server')
    BY <1>1, PrefixRefl DEF TypeInv, TypeOK, Hash
  <2>5. \A i \in Hooks : wire[i].head \in Hash /\ Append(wire[i].head, i) \in Hash
    BY <1>1 DEF TypeOK, Packet, Hash
  <2>6. IsPrefix(local', server')
    BY <1>1, <1>2, <2>3 DEF TypeOK, ChainInv, OnChain
  <2>7. ASSUME NEW i \in Hooks
        PROVE  IsPrefix(prev'[i], server') /\ IsPrefix(goal'[i], server')
    BY <1>1, <1>2, <2>3 DEF TypeOK, ChainInv, OnChain
  <2>8. ASSUME NEW i \in Hooks
        PROVE  /\ wire'[i].kind = "accepted" => IsPrefix(Append(wire'[i].head, i), server')
               /\ wire'[i].kind = "rejected" => IsPrefix(wire'[i].head, server')
    <3>1. CASE i = h
      BY <2>1, <2>2, <2>4, <3>1
    <3>2. CASE i # h
      BY <1>3, <2>3, <2>5, <3>2 DEF ChainInv, OnChain
    <3> QED BY <3>1, <3>2
  <2>9. ASSUME NEW i \in Hooks PROVE Answering(i)'
    <3>1. CASE i = h
      BY <1>2, <1>4, <2>2, <1>5, <3>1 DEF ChainInv, Answering
    <3>2. CASE i # h
      BY <1>2, <1>3, <3>2 DEF ChainInv, Answering
    <3> QED BY <3>1, <3>2
  <2> QED BY <1>1, <2>6, <2>7, <2>8, <2>9 DEF ChainInv, OnChain
<1>6. CASE wire[h].head # server
  <2>1. UNCHANGED server
    BY <1>6 DEF Serve
  <2>2. wire'[h].kind = "rejected" /\ wire'[h].head = server
    BY <1>1, <1>6 DEF Serve, TypeOK, Packet
  <2>3. IsPrefix(server, server)
    BY <1>1, PrefixRefl DEF TypeOK, Hash
  <2> QED BY <1>1, <1>2, <1>3, <2>1, <2>2, <2>3 DEF ChainInv, OnChain, Answering
<1> QED BY <1>5, <1>6

LEMMA NextOnChain == ChainInv /\ [Next]_vars => ChainInv'
<1> SUFFICES ASSUME ChainInv, [Next]_vars PROVE ChainInv'
  OBVIOUS
<1>1. TypeOK /\ TypeInv'
  BY NextTyped DEF ChainInv, TypeInv
<1>2. ASSUME NEW h \in Hooks, Step(h) PROVE ChainInv'
  BY <1>2, StepOnChain
<1>3. ASSUME NEW h \in Hooks, Serve(h) PROVE ChainInv'
  BY <1>3, ServeOnChain
<1>4. ASSUME NEW h \in Hooks,
             Abort(h) \/ WaitTooLong(h) \/ Crash(h) \/ NameFails(h) \/ WriteFails(h)
      PROVE  ChainInv'
  <2>1. UNCHANGED <<server, local, prev, goal, wire>>
    BY <1>4 DEF Abort, WaitTooLong, Crash, NameFails, WriteFails, hookVars
  <2>2. \A i \in Hooks : pc'[i] = "sent" => pc[i] = "sent"
    BY <1>1, <1>4 DEF Abort, WaitTooLong, Crash, NameFails, WriteFails, GoTo, TypeOK
  <2> QED BY <1>1, <2>1, <2>2 DEF ChainInv, OnChain, Answering
<1>5. CASE LockAges
  BY <1>1, <1>5 DEF LockAges, hookVars, ChainInv, OnChain, Answering
<1>6. CASE UNCHANGED vars
  BY <1>1, <1>6 DEF vars, hookVars, ChainInv, OnChain, Answering
<1> QED BY <1>2, <1>3, <1>4, <1>5, <1>6 DEF Next

LEMMA AlwaysOnChain == Spec => []ChainInv
  BY InitOnChain, NextOnChain, PTL DEF Spec

(* Whatever crashes, losses, lock timeouts and dead locks there are, and   *)
(* even while two hooks write under a lock that was wrongly reclaimed, the *)
(* state file holds a hash of the server's chain.                          *)
THEOREM NeverOffTheChain == Spec => []LocalOnChain
<1>1. ChainInv => LocalOnChain
  BY DEF ChainInv, OnChain, LocalOnChain
<1> QED BY <1>1, AlwaysOnChain, PTL

---------------------------------------------------------------------------
(* An action is recorded once.                                             *)

(* A step of one hook leaves the others, and the server, alone.            *)
LEMMA OthersStay ==
  ASSUME TypeOK, NEW h \in Hooks, Step(h), NEW i \in Hooks, i # h
  PROVE  /\ pc'[i] = pc[i] /\ prev'[i] = prev[i] /\ goal'[i] = goal[i]
         /\ fate'[i] = fate[i] /\ attempt'[i] = attempt[i] /\ wire'[i] = wire[i]
  BY DEF TypeOK, GoTo, hookVars, Step, Inspect, Open, Post, Receive, CreateLock, FindLock,
    NameLock, JudgeOwner, StatLock, Reclaim, Reinspect, Reopen, Reread, WriteState,
    CompareLock, Unlink

LEMMA ServerStays == ASSUME NEW h \in Hooks, Step(h) PROVE UNCHANGED server
  BY DEF Step, Inspect, Open, Post, Receive, CreateLock, FindLock, NameLock, JudgeOwner,
    StatLock, Reclaim, Reinspect, Reopen, WriteState, CompareLock, Unlink

(* Once a hook has its answer, nothing but its own fate changes until it   *)
(* has released the lock.                                                  *)
LEMMA GoesOn ==
  ASSUME TypeOK, NEW h \in Hooks, Step(h), pc[h] \in Answered
  PROVE  /\ UNCHANGED <<prev, goal, attempt, wire>>
         /\ fate'[h] = fate[h] \/ fate'[h] = "throw"
         /\ pc'[h] \in Answered \cup {"failed", Onward(h)}
<1> USE DEF Answered, Holding
<1>1. \/ CreateLock(h) \/ FindLock(h) \/ NameLock(h) \/ JudgeOwner(h) \/ StatLock(h) \/ Reclaim(h)
      \/ Reinspect(h) \/ Reopen(h) \/ WriteState(h) \/ CompareLock(h) \/ Unlink(h)
  BY DEF Step, Inspect, Open, Post, Receive
<1>2. UNCHANGED <<prev, goal, attempt, wire>>
  BY <1>1 DEF hookVars, CreateLock, FindLock, NameLock, JudgeOwner, StatLock, Reclaim,
    Reinspect, Reopen, WriteState, CompareLock, Unlink
<1>3. fate'[h] = fate[h] \/ fate'[h] = "throw"
  BY <1>1 DEF TypeOK, hookVars, CreateLock, FindLock, NameLock, JudgeOwner, StatLock, Reclaim,
    Reinspect, Reopen, WriteState, CompareLock, Unlink
<1>4. CASE \/ CreateLock(h) \/ FindLock(h) \/ NameLock(h) \/ JudgeOwner(h) \/ StatLock(h) \/ Reclaim(h)
  <2>1. pc'[h] \in Answered
    BY <1>4 DEF TypeOK, GoTo, CreateLock, FindLock, NameLock, JudgeOwner, StatLock, Reclaim
  <2> QED BY <1>2, <1>3, <2>1
<1>5. CASE Reinspect(h) \/ Reopen(h) \/ WriteState(h)
  <2>1. pc'[h] \in Answered
    BY <1>5 DEF TypeOK, GoTo, Reinspect, Reopen, Reread, WriteState
  <2> QED BY <1>2, <1>3, <2>1
<1>6. CASE CompareLock(h) \/ Unlink(h)
  <2>1. pc'[h] \in {"unlink", "failed", Onward(h)}
    BY <1>6 DEF TypeOK, GoTo, CompareLock, Unlink
  <2> QED BY <1>2, <1>3, <2>1
<1> QED BY <1>1, <1>4, <1>5, <1>6

LEMMA InitOnce == Init => OnceInv
<1> SUFFICES ASSUME Init PROVE OnceInv
  OBVIOUS
<1>1. RecordedOnce
  BY DEF Init, RecordedOnce
<1>2. \A h \in Hooks : wire[h].kind = "none"
  BY DEF Init, Silence
<1>3. server \in Seq(Earlier)
  BY HookAssumption, FS_CardinalityType DEF Init, SeqOf
<1>4. \A h \in Hooks : ~Recorded(h)
  BY <1>3, HookAssumption DEF Recorded
<1> QED BY <1>1, <1>2, <1>4 DEF OnceInv, NotYet, Waiting

(* What NotYet and Waiting say of one hook.                                *)
OnceOf(h) ==
  /\ wire[h].kind # "none" => pc[h] \in {"sent", "failed", "crashed"}
  /\ Recorded(h) =>
       /\ wire[h].kind # "request"
       /\ pc[h] \notin {"inspect", "open", "post"}
       /\ pc[h] = "sent" => wire[h].kind = "accepted"
       /\ pc[h] \in Answered => fate[h] # "retry"

LEMMA OnceEach == OnceInv <=> RecordedOnce /\ \A h \in Hooks : OnceOf(h)
  BY DEF OnceInv, NotYet, Waiting, OnceOf

LEMMA StepOnce ==
  ASSUME TypeOK, OnceInv, NEW h \in Hooks, Step(h) PROVE OnceInv'
<1> USE DEF GoTo
<1>1. UNCHANGED server
  BY ServerStays
<1>2. RecordedOnce' /\ \A i \in Hooks : Recorded(i)' <=> Recorded(i)
  BY <1>1 DEF OnceInv, RecordedOnce, Recorded
<1>3. ASSUME NEW i \in Hooks, i # h PROVE OnceOf(i)'
  <2>1. OnceOf(i)
    BY OnceEach
  <2> QED BY <1>2, <1>3, <2>1, OthersStay DEF OnceOf
<1>4. OnceOf(h)'
  <2>1. OnceOf(h)
    BY OnceEach
  <2>2. CASE pc[h] \in Answered
    <3>1. pc[h] \notin {"sent", "failed", "crashed"}
      BY <2>2 DEF Answered, Holding
    <3>2. wire'[h].kind = "none"
      BY <2>1, <2>2, <3>1, GoesOn DEF OnceOf
    <3>3. fate[h] # "retry" => Onward(h) \in {"failed", "done"}
      BY DEF Onward, TypeOK, Fates
    <3>4. Recorded(h) => pc'[h] \in Answered \cup {"failed", "done"} /\ fate'[h] # "retry"
      BY <2>1, <2>2, <3>3, GoesOn DEF OnceOf
    <3> QED BY <1>2, <3>2, <3>4 DEF OnceOf, Answered, Holding
  <2>3. CASE Inspect(h) \/ Open(h)
    <3>1. ~Recorded(h) /\ wire'[h].kind = "none"
      BY <2>1, <2>3 DEF Inspect, Open, OnceOf
    <3> QED BY <1>2, <3>1 DEF OnceOf
  <2>4. CASE Post(h)
    <3>1. ~Recorded(h) /\ pc'[h] = "sent"
      BY <2>1, <2>4 DEF Post, OnceOf, TypeOK
    <3> QED BY <1>2, <3>1 DEF OnceOf
  <2>5. CASE Receive(h)
    <3>1. wire'[h].kind = "none" /\ pc'[h] = "lock"
      BY <2>5 DEF Receive, TypeOK, Silence
    <3>2. Recorded(h) => fate'[h] = "recorded"
      BY <2>1, <2>5 DEF Receive, OnceOf, TypeOK
    <3> QED BY <1>2, <3>1, <3>2 DEF OnceOf
  <2> QED
    BY <2>2, <2>3, <2>4, <2>5 DEF Step, CreateLock, FindLock, NameLock, JudgeOwner, StatLock,
      Reclaim, Reinspect, Reopen, WriteState, CompareLock, Unlink, Answered, Holding
<1> QED BY <1>2, <1>3, <1>4, OnceEach DEF OnceInv, NotYet, Waiting, OnceOf

(* The server records what is asked, and what is asked is not recorded.    *)
LEMMA ServeOnce ==
  ASSUME TypeOK, OnceInv, NEW h \in Hooks, Serve(h) PROVE OnceInv'
<1>1. UNCHANGED <<pc, fate>>
  BY DEF Serve, hookVars
<1>2. \A i \in Hooks : i # h => wire'[i] = wire[i]
  BY DEF Serve, TypeOK
<1>3. wire[h].kind = "request" /\ ~Recorded(h) /\ pc[h] \in {"sent", "failed", "crashed"}
  BY DEF Serve, OnceInv, NotYet, Waiting
<1>4. CASE wire[h].head = server
  <2>1. server' = Append(server, h) /\ wire'[h].kind = "accepted"
    BY <1>4 DEF Serve, TypeOK, Packet
  <2>2. /\ Len(server') = Len(server) + 1
        /\ server' [Len(server) + 1] = h
        /\ \A j \in 1..Len(server) : server' [j] = server[j] /\ server[j] # h
        /\ DOMAIN server' = 1..(Len(server) + 1)
        /\ DOMAIN server = 1..Len(server) /\ Len(server) \in Nat
    BY <1>3, <2>1 DEF TypeOK, Hash, Recorded
  <2>3. RecordedOnce'
    <3> SUFFICES ASSUME NEW a \in 1..(Len(server) + 1), NEW b \in 1..(Len(server) + 1),
                        server' [a] = server' [b]
                 PROVE  a = b
      BY <2>2 DEF RecordedOnce, IsInjective
    <3>1. a \in 1..Len(server) \/ a = Len(server) + 1
      BY <2>2
    <3>2. b \in 1..Len(server) \/ b = Len(server) + 1
      BY <2>2
    <3> QED BY <2>2, <3>1, <3>2 DEF OnceInv, RecordedOnce, IsInjective
  <2>4. ASSUME NEW i \in Hooks, i # h PROVE Recorded(i)' => Recorded(i)
    BY <2>2, <2>4 DEF Recorded
  <2>5. ASSUME NEW i \in Hooks PROVE OnceOf(i)'
    <3>1. CASE i = h
      BY <1>1, <1>3, <2>1, <3>1 DEF OnceOf, Answered, Holding
    <3>2. CASE i # h
      BY <1>1, <1>2, <2>4, <3>2, OnceEach DEF OnceOf
    <3> QED BY <3>1, <3>2
  <2> QED BY <2>3, <2>5 DEF OnceInv, NotYet, Waiting, OnceOf
<1>5. CASE wire[h].head # server
  <2>1. UNCHANGED server /\ wire'[h].kind = "rejected"
    BY <1>5 DEF Serve, TypeOK, Packet
  <2> QED
    BY <1>1, <1>2, <1>3, <2>1 DEF OnceInv, RecordedOnce, NotYet, Waiting, Recorded
<1> QED BY <1>4, <1>5

LEMMA NextOnce == TypeInv /\ OnceInv /\ [Next]_vars => OnceInv'
<1> SUFFICES ASSUME TypeOK, OnceInv, [Next]_vars PROVE OnceInv'
  BY DEF TypeInv
<1>1. ASSUME NEW h \in Hooks, Step(h) PROVE OnceInv'
  BY <1>1, StepOnce
<1>2. ASSUME NEW h \in Hooks, Serve(h) PROVE OnceInv'
  BY <1>2, ServeOnce
<1>3. ASSUME NEW h \in Hooks, Abort(h) \/ WaitTooLong(h) \/ Crash(h) \/ NameFails(h) PROVE OnceInv'
  <2>1. UNCHANGED <<server, fate, wire>>
    BY <1>3 DEF Abort, WaitTooLong, Crash, NameFails, hookVars
  <2>2. /\ pc'[h] \in {"failed", "crashed"}
        /\ \A i \in Hooks : i # h => pc'[i] = pc[i]
    BY <1>3 DEF Abort, WaitTooLong, Crash, NameFails, GoTo, TypeOK
  <2> QED
    BY <2>1, <2>2 DEF OnceInv, RecordedOnce, NotYet, Waiting, Recorded, Answered, Holding
<1>4. CASE LockAges \/ UNCHANGED vars
  BY <1>4 DEF LockAges, vars, hookVars, OnceInv, RecordedOnce, NotYet, Waiting, Recorded
<1>5. ASSUME NEW h \in Hooks, WriteFails(h) PROVE OnceInv'
  <2>1. UNCHANGED <<server, wire>> /\ pc[h] = "write"
    BY <1>5 DEF WriteFails
  <2>2. /\ pc'[h] = "compare" /\ fate'[h] = "throw"
        /\ \A i \in Hooks : i # h => pc'[i] = pc[i] /\ fate'[i] = fate[i]
    BY <1>5 DEF WriteFails, GoTo, TypeOK
  <2> QED
    BY <2>1, <2>2 DEF OnceInv, RecordedOnce, NotYet, Waiting, Recorded, Answered, Holding
<1> QED BY <1>1, <1>2, <1>3, <1>4, <1>5 DEF Next

(* However hooks die and requests or answers are lost, no action is on the *)
(* chain twice, although each attempt has an operation id of its own.      *)
THEOREM NothingTwice == Spec => []RecordedOnce
<1>1. OnceInv => RecordedOnce
  BY DEF OnceInv
<1> QED BY <1>1, InitTyped, NextTyped, InitOnce, NextOnce, PTL DEF Spec

---------------------------------------------------------------------------
(* The lock is exclusive as long as nobody dies holding it.                *)

NobodyDies == MaxCrashes = 0 /\ "deadLock" \notin Faults /\ "unnamed" \notin Faults

(* A lock file belongs to the hook inside, which is at work: so it never   *)
(* grows old, and nobody comes to reclaim it.                              *)
LockHeld ==
  /\ lock = NoLock \/ (lock.owner \in Hooks /\ pc[lock.owner] \in Holding)
  /\ ~lock.old
  /\ \A h \in Hooks : pc[h] \in Holding => lock.owner = h
  /\ \A h \in Hooks : pc[h] \notin {"reclaim", "crashed"}

LEMMA NoLockFields == NoLock.owner = None /\ ~NoLock.old /\ ~NoLock.named
  BY DEF NoLock

LEMMA InitLockHeld == ASSUME NobodyDies PROVE Init => LockHeld
<1> SUFFICES ASSUME Init PROVE LockHeld
  OBVIOUS
<1>1. lock = NoLock
  BY DEF Init, NobodyDies
<1>2. \A h \in Hooks : pc[h] = "inspect"
  BY DEF Init
<1> QED BY <1>1, <1>2, NoLockFields DEF LockHeld, Holding

LEMMA StepLockHeld ==
  ASSUME NobodyDies, TypeOK, LockHeld, NEW h \in Hooks, Step(h)
  PROVE  LockHeld'
<1> USE HookAssumption DEF LockHeld, Holding, GoTo
<1>1. \A i \in Hooks : i # h => pc'[i] = pc[i]
  BY DEF TypeOK, Step, Inspect, Open, Post, Receive, CreateLock, FindLock, NameLock,
    JudgeOwner, StatLock, Reclaim, Reinspect, Reopen, Reread, WriteState, CompareLock, Unlink
<1>2. CASE \/ Inspect(h) \/ Open(h) \/ Post(h) \/ Receive(h)
           \/ FindLock(h) \/ JudgeOwner(h) \/ StatLock(h)
  <2>1. UNCHANGED lock
    BY <1>2 DEF Inspect, Open, Post, Receive, FindLock, JudgeOwner, StatLock
  <2>2. pc[h] \notin Holding
    BY <1>2 DEF Inspect, Open, Post, Receive, FindLock, JudgeOwner, StatLock
  <2>3. pc'[h] \in {"open", "post", "sent", "failed", "lock", "judge", "stat"}
    <3>1. CASE Inspect(h) \/ Open(h)
      BY <3>1 DEF Inspect, Open, TypeOK
    <3>2. CASE Post(h) \/ Receive(h)
      BY <3>2 DEF Post, Receive, TypeOK
    <3>3. CASE FindLock(h) \/ JudgeOwner(h) \/ StatLock(h)
      BY <3>3 DEF FindLock, JudgeOwner, StatLock, TypeOK
    <3> QED BY <1>2, <3>1, <3>2, <3>3
  <2> QED BY <1>1, <2>1, <2>2, <2>3
<1>3. CASE CreateLock(h)
  <2>1. lock = NoLock /\ lock'.owner = h /\ ~lock'.old /\ pc'[h] = "name"
    BY <1>3 DEF CreateLock, TypeOK
  <2>2. \A i \in Hooks : pc[i] \notin Holding
    BY <2>1, NoLockFields
  <2> QED BY <1>1, <2>1, <2>2
<1>4. CASE NameLock(h)
  <2>1. lock.owner = h /\ lock'.owner = h /\ ~lock'.old /\ pc'[h] = "reinspect"
    BY <1>4 DEF NameLock, TypeOK, LockFile
  <2> QED BY <1>1, <2>1
<1>5. CASE Reclaim(h)
  BY <1>5 DEF Reclaim
<1>6. CASE Reinspect(h) \/ Reopen(h) \/ WriteState(h)
  <2>1. UNCHANGED lock /\ pc[h] \in Holding
    BY <1>6 DEF Reinspect, Reopen, WriteState
  <2>2. pc'[h] \in Holding
    BY <1>6 DEF Reinspect, Reopen, Reread, WriteState, TypeOK
  <2>3. lock.owner = h
    BY <2>1
  <2> QED BY <1>1, <2>1, <2>2, <2>3
<1>7. CASE CompareLock(h)
  <2>1. lock.owner = h
    BY <1>7 DEF CompareLock
  <2>2. UNCHANGED lock /\ pc'[h] = "unlink"
    BY <1>7, <2>1 DEF CompareLock, TypeOK
  <2> QED BY <1>1, <2>1, <2>2
<1>8. CASE Unlink(h)
  <2>1. lock.owner = h /\ lock' = NoLock
    BY <1>8 DEF Unlink
  <2>2. pc'[h] \notin Holding \cup {"reclaim", "crashed"}
    <3>1. pc'[h] = "failed" \/ pc'[h] = Onward(h)
      BY <1>8 DEF Unlink, TypeOK
    <3> QED BY <3>1, OnwardType
  <2>3. \A i \in Hooks : i # h => pc[i] \notin Holding
    BY <2>1
  <2> QED BY <1>1, <2>1, <2>2, <2>3, NoLockFields
<1> QED BY <1>2, <1>3, <1>4, <1>5, <1>6, <1>7, <1>8 DEF Step

LEMMA NextLockHeld ==
  ASSUME NobodyDies PROVE TypeInv /\ LockHeld /\ [Next]_vars => LockHeld'
<1> SUFFICES ASSUME TypeOK, LockHeld, [Next]_vars PROVE LockHeld'
  BY DEF TypeInv
<1>1. ASSUME NEW h \in Hooks, Step(h) PROVE LockHeld'
  BY <1>1, StepLockHeld
<1>2. ASSUME NEW h \in Hooks, Serve(h) PROVE LockHeld'
  BY <1>2 DEF Serve, LockHeld
<1>3. ASSUME NEW h \in Hooks, Abort(h) \/ WaitTooLong(h) PROVE LockHeld'
  <2>1. UNCHANGED lock /\ pc[h] \notin Holding
    BY <1>3 DEF Abort, WaitTooLong, Holding
  <2>2. pc'[h] = "failed" /\ \A i \in Hooks : i # h => pc'[i] = pc[i]
    BY <1>3 DEF Abort, WaitTooLong, GoTo, TypeOK
  <2> QED BY <2>1, <2>2 DEF LockHeld, Holding
<1>4. ASSUME NEW h \in Hooks, Crash(h) PROVE LockHeld'
  BY <1>4 DEF Crash, NobodyDies, TypeOK
<1>5. CASE LockAges
  <2>1. lock.owner \in Hooks /\ pc[lock.owner] \in Holding
    BY <1>5 DEF LockAges, LockHeld
  <2> QED BY <1>5, <2>1 DEF LockAges, Alive, Holding, Ended
<1>6. CASE UNCHANGED vars
  BY <1>6 DEF vars, LockHeld
<1>7. ASSUME NEW h \in Hooks, WriteFails(h) PROVE LockHeld'
  <2>1. UNCHANGED lock /\ pc[h] \in Holding
    BY <1>7 DEF WriteFails, Holding
  <2>2. pc'[h] \in Holding /\ \A i \in Hooks : i # h => pc'[i] = pc[i]
    BY <1>7 DEF WriteFails, GoTo, TypeOK, Holding
  <2> QED BY <2>1, <2>2 DEF LockHeld, Holding
<1>8. ASSUME NEW h \in Hooks, NameFails(h) PROVE LockHeld'
  BY <1>8 DEF NameFails, NobodyDies
<1> QED BY <1>1, <1>2, <1>3, <1>4, <1>5, <1>6, <1>7, <1>8 DEF Next

(* Unless a hook is killed or a lock is left behind or unnamed, aborted    *)
(* requests and lock timeouts included, one hook at a time is between the  *)
(* creation and the removal of the lock file.                              *)
THEOREM OneHookInside ==
  ASSUME NobodyDies PROVE Spec => []LockExclusive
<1>1. LockHeld => LockExclusive
  BY DEF LockHeld, LockExclusive
<1> QED BY <1>1, InitTyped, NextTyped, InitLockHeld, NextLockHeld, PTL DEF Spec

---------------------------------------------------------------------------
(* The head on this machine never goes back.                               *)

(* What the server answers is newer than what the hook asked with, and     *)
(* under the lock the state file is compared with that before it is        *)
(* written.                                                                *)
Forward ==
  \A h \in Hooks :
    /\ pc[h] = "sent" /\ wire[h].kind = "rejected" => IsPrefix(prev[h], wire[h].head)
    /\ pc[h] \in Answered => IsPrefix(prev[h], goal[h])
    /\ pc[h] = "write" => local = prev[h]

ForwardInv == ChainInv /\ LockHeld /\ Forward

LEMMA InitForward == ASSUME NobodyDies PROVE Init => ForwardInv
<1> SUFFICES ASSUME Init PROVE ForwardInv
  OBVIOUS
<1>1. \A h \in Hooks : pc[h] = "inspect"
  BY DEF Init
<1> QED
  BY <1>1, InitOnChain, InitLockHeld DEF ForwardInv, Forward, Answered, Holding

LEMMA StepForward ==
  ASSUME NobodyDies, ForwardInv, NEW h \in Hooks, Step(h)
  PROVE  Forward'
<1> USE DEF GoTo
<1>1. TypeOK /\ LockHeld /\ Forward /\ ChainInv
  BY DEF ForwardInv, ChainInv, TypeInv
<1>2. \A i \in Hooks : i # h =>
        pc'[i] = pc[i] /\ prev'[i] = prev[i] /\ goal'[i] = goal[i] /\ wire'[i] = wire[i]
  BY <1>1 DEF TypeOK, Step, Inspect, Open, Post, Receive, CreateLock, FindLock, NameLock, hookVars,
    JudgeOwner, StatLock, Reclaim, Reinspect, Reopen, Reread, WriteState, CompareLock, Unlink
<1>3. CASE Inspect(h) \/ Open(h)
  <2>1. pc'[h] \in {"open", "post", "failed"} /\ UNCHANGED local
    <3>1. CASE Inspect(h)
      BY <1>1, <3>1 DEF Inspect, TypeOK
    <3>2. CASE Open(h)
      BY <1>1, <3>2 DEF Open, TypeOK
    <3> QED BY <1>3, <3>1, <3>2
  <2> QED BY <1>1, <1>2, <2>1 DEF Forward, Answered, Holding
<1>4. CASE Post(h)
  <2>1. pc'[h] = "sent" /\ wire'[h].kind = "request" /\ UNCHANGED local
    BY <1>1, <1>4 DEF Post, TypeOK
  <2> QED BY <1>1, <1>2, <2>1 DEF Forward, Answered, Holding
<1>5. CASE Receive(h)
  <2>1. pc'[h] = "lock" /\ UNCHANGED <<local, prev>>
    BY <1>1, <1>5 DEF Receive, TypeOK
  <2>2. IsPrefix(prev[h], goal'[h])
    <3>1. CASE wire[h].kind = "accepted"
      <4>1. goal'[h] = Append(prev[h], h)
        BY <1>1, <1>5, <3>1 DEF Receive, TypeOK
      <4>2. prev[h] \in Seq(Hooks \cup Earlier)
        BY <1>1 DEF TypeOK, Hash
      <4>3. IsPrefix(prev[h], prev[h])
        BY <4>2, PrefixRefl
      <4> QED BY <4>1, <4>2, <4>3, PrefixAppend
    <3>2. CASE wire[h].kind = "rejected"
      <4>1. goal'[h] = wire[h].head
        BY <1>1, <1>5, <3>2 DEF Receive, TypeOK
      <4> QED BY <1>1, <1>5, <3>2, <4>1 DEF Receive, Forward
    <3> QED BY <1>5, <3>1, <3>2 DEF Receive
  <2> QED BY <1>1, <1>2, <2>1, <2>2 DEF Forward, Answered, Holding
<1>6. CASE \/ CreateLock(h) \/ FindLock(h) \/ NameLock(h) \/ JudgeOwner(h)
           \/ StatLock(h) \/ CompareLock(h)
  <2>1. pc[h] \in Answered /\ UNCHANGED <<local, prev, goal, wire>>
    BY <1>6 DEF CreateLock, FindLock, NameLock, JudgeOwner, StatLock, CompareLock,
      hookVars, Answered, Holding
  <2>2. pc'[h] \notin {"sent", "write"}
    <3>1. CASE CompareLock(h)
      BY <1>1, <3>1, OnwardType DEF CompareLock, TypeOK, Holding
    <3>2. CASE \/ CreateLock(h) \/ FindLock(h) \/ NameLock(h) \/ JudgeOwner(h) \/ StatLock(h)
      BY <1>1, <3>2 DEF CreateLock, FindLock, NameLock, JudgeOwner, StatLock, TypeOK
    <3> QED BY <1>6, <3>1, <3>2
  <2> QED BY <1>1, <1>2, <2>1, <2>2 DEF Forward
<1>7. CASE Reclaim(h)
  BY <1>1, <1>7 DEF Reclaim, LockHeld
<1>8. CASE Reinspect(h) \/ Reopen(h)
  <2>1. pc[h] \in Answered /\ UNCHANGED <<local, prev, goal, wire>>
    BY <1>8 DEF Reinspect, Reopen, Answered, Holding
  <2>2. pc'[h] = "write" => local = prev[h]
    BY <1>1, <1>8 DEF Reinspect, Reopen, Reread, NoFile, TypeOK
  <2>3. pc'[h] # "sent"
    BY <1>1, <1>8 DEF Reinspect, Reopen, Reread, TypeOK
  <2> QED BY <1>1, <1>2, <2>1, <2>2, <2>3 DEF Forward
<1>9. CASE WriteState(h)
  <2>1. pc[h] = "write" /\ pc'[h] = "compare" /\ UNCHANGED <<prev, goal, wire>>
    BY <1>1, <1>9 DEF WriteState, hookVars, TypeOK
  <2>2. \A i \in Hooks : i # h => pc[i] # "write"
    BY <1>1, <2>1 DEF LockHeld, Holding
  <2> QED BY <1>1, <1>2, <2>1, <2>2 DEF Forward, Answered, Holding
<1>10. CASE Unlink(h)
  <2>1. pc'[h] \in {"failed", Onward(h)} /\ UNCHANGED local
    BY <1>1, <1>10 DEF Unlink, TypeOK
  <2>2. pc'[h] \notin Answered \cup {"sent"}
    BY <1>1, <2>1, OnwardType DEF Answered, Holding
  <2> QED BY <1>1, <1>2, <2>1, <2>2 DEF Forward, Answered, Holding
<1> QED BY <1>3, <1>4, <1>5, <1>6, <1>7, <1>8, <1>9, <1>10 DEF Step

LEMMA NextForward == ASSUME NobodyDies PROVE ForwardInv /\ [Next]_vars => ForwardInv'
<1> SUFFICES ASSUME ForwardInv, [Next]_vars PROVE Forward'
  BY NextOnChain, NextLockHeld DEF ForwardInv, ChainInv
<1>1. TypeOK /\ LockHeld /\ Forward /\ ChainInv
  BY DEF ForwardInv, ChainInv, TypeInv
<1>2. ASSUME NEW h \in Hooks, Step(h) PROVE Forward'
  BY <1>2, StepForward
<1>3. ASSUME NEW h \in Hooks, Serve(h) PROVE Forward'
  <2>1. UNCHANGED <<local, prev, goal, pc>>
    BY <1>3 DEF Serve, hookVars
  <2>2. \A i \in Hooks : i # h => wire'[i] = wire[i]
    BY <1>1, <1>3 DEF Serve, TypeOK
  <2>3. wire'[h].kind = "rejected" => wire'[h].head = server
    BY <1>1, <1>3 DEF Serve, TypeOK, Packet
  <2>4. IsPrefix(prev[h], server)
    BY <1>1 DEF ChainInv, OnChain
  <2> QED BY <1>1, <2>1, <2>2, <2>3, <2>4 DEF Forward
<1>4. ASSUME NEW h \in Hooks, Abort(h) \/ WaitTooLong(h) \/ Crash(h) \/ NameFails(h) PROVE Forward'
  <2>1. UNCHANGED <<local, prev, goal, wire>>
    BY <1>4 DEF Abort, WaitTooLong, Crash, NameFails, hookVars
  <2>2. /\ pc'[h] \in {"failed", "crashed"}
        /\ \A i \in Hooks : i # h => pc'[i] = pc[i]
    BY <1>1, <1>4 DEF Abort, WaitTooLong, Crash, NameFails, GoTo, TypeOK
  <2> QED BY <1>1, <2>1, <2>2 DEF Forward, Answered, Holding
<1>5. CASE LockAges
  BY <1>1, <1>5 DEF LockAges, hookVars, Forward
<1>6. CASE UNCHANGED vars
  BY <1>1, <1>6 DEF vars, hookVars, Forward
<1>7. ASSUME NEW h \in Hooks, WriteFails(h) PROVE Forward'
  <2>1. UNCHANGED <<local, prev, goal, wire>> /\ pc[h] = "write"
    BY <1>7 DEF WriteFails
  <2>2. pc'[h] = "compare" /\ \A i \in Hooks : i # h => pc'[i] = pc[i]
    BY <1>1, <1>7 DEF WriteFails, GoTo, TypeOK
  <2> QED BY <1>1, <2>1, <2>2 DEF Forward, Answered, Holding
<1> QED BY <1>2, <1>3, <1>4, <1>5, <1>6, <1>7 DEF Next

LEMMA AlwaysForward == ASSUME NobodyDies PROVE Spec => []ForwardInv
  BY InitForward, NextForward, PTL DEF Spec

(* Unless a hook is killed or a lock is left behind or unnamed, the head   *)
(* this machine knows is only ever replaced by a newer one.                *)
THEOREM HeadNeverGoesBack ==
  ASSUME NobodyDies PROVE Spec => NeverRegresses
<1>1. ForwardInv /\ [Next]_vars => [IsPrefix(local, local')]_vars
  <2> SUFFICES ASSUME ForwardInv, [Next]_vars PROVE IsPrefix(local, local') \/ UNCHANGED vars
    OBVIOUS
  <2>1. TypeOK
    BY DEF ForwardInv, ChainInv, TypeInv
  <2>2. CASE \E h \in Hooks : WriteState(h)
    <3>1. PICK h \in Hooks : WriteState(h)
      BY <2>2
    <3>2. local' = goal[h] /\ local = prev[h]
      BY <3>1 DEF WriteState, ForwardInv, Forward
    <3>3. IsPrefix(prev[h], goal[h])
      BY <3>1 DEF WriteState, ForwardInv, Forward, Answered, Holding
    <3> QED BY <3>2, <3>3
  <2>3. CASE ~\E h \in Hooks : WriteState(h)
    <3>1. UNCHANGED local
      BY <2>3 DEF Next, Step, LockAges, Serve, Abort, WaitTooLong, Crash, NameFails,
        WriteFails, Inspect, Open, Post,
        Receive, CreateLock, FindLock, NameLock, JudgeOwner, StatLock, Reclaim, Reinspect,
        Reopen, CompareLock, Unlink, vars
    <3> QED BY <2>1, <3>1, PrefixRefl DEF TypeOK, Hash
  <2> QED BY <2>2, <2>3
<1> QED BY <1>1, AlwaysForward, PTL DEF Spec, NeverRegresses

---------------------------------------------------------------------------
(* Each rejection costs another hook's operation.                          *)

LEMMA PrefixPoints ==
  ASSUME NEW S, NEW s \in Seq(S), NEW t \in Seq(S)
  PROVE  IsPrefix(s, t) <=> /\ Len(s) <= Len(t)
                            /\ \A i \in 1..Len(s) : s[i] = t[i]
<1>1. ASSUME IsPrefix(s, t) PROVE Len(s) <= Len(t) /\ \A i \in 1..Len(s) : s[i] = t[i]
  <2>1. Len(s) <= Len(t) /\ SubSeq(s, 1, Len(s)) = SubSeq(t, 1, Len(s))
    BY <1>1 DEF IsPrefix
  <2>2. \A i \in 1..Len(s) : SubSeq(s, 1, Len(s))[i] = s[i] /\ SubSeq(t, 1, Len(s))[i] = t[i]
    BY <2>1
  <2> QED BY <2>1, <2>2
<1>2. ASSUME Len(s) <= Len(t), \A i \in 1..Len(s) : s[i] = t[i] PROVE IsPrefix(s, t)
  BY <1>2 DEF IsPrefix
<1> QED BY <1>1, <1>2

LEMMA PrefixTrans ==
  ASSUME NEW S, NEW s \in Seq(S), NEW t \in Seq(S), NEW u \in Seq(S),
         IsPrefix(s, t), IsPrefix(t, u)
  PROVE  IsPrefix(s, u)
<1>1. Len(s) <= Len(t) /\ Len(t) <= Len(u)
  BY PrefixPoints
<1>2. \A i \in 1..Len(s) : s[i] = t[i]
  BY PrefixPoints
<1>3. \A i \in 1..Len(t) : t[i] = u[i]
  BY PrefixPoints
<1>4. Len(s) \in Nat /\ Len(t) \in Nat /\ Len(u) \in Nat
  OBVIOUS
<1>5. Len(s) <= Len(u)
  BY <1>1, <1>4
<1>6. \A i \in 1..Len(s) : s[i] = u[i]
  BY <1>1, <1>2, <1>3, <1>4
<1> QED BY <1>5, <1>6, PrefixPoints

(* A proper prefix is shorter.                                             *)
LEMMA PrefixShorter ==
  ASSUME NEW S, NEW s \in Seq(S), NEW t \in Seq(S), IsPrefix(s, t), s # t
  PROVE  Len(s) < Len(t)
<1>1. Len(s) <= Len(t) /\ \A i \in 1..Len(s) : s[i] = t[i]
  BY PrefixPoints
<1>2. CASE Len(s) = Len(t)
  <2>1. s = t
    BY <1>1, <1>2
  <2> QED BY <2>1
<1> QED BY <1>1, <1>2

(* Of two prefixes of a sequence the shorter is a prefix of the longer.    *)
LEMMA PrefixOfBoth ==
  ASSUME NEW S, NEW s \in Seq(S), NEW t \in Seq(S), NEW u \in Seq(S),
         IsPrefix(s, u), IsPrefix(t, u), Len(s) <= Len(t)
  PROVE  IsPrefix(s, t)
<1>1. \A i \in 1..Len(s) : s[i] = u[i]
  BY PrefixPoints
<1>2. \A i \in 1..Len(t) : t[i] = u[i]
  BY PrefixPoints
<1>3. \A i \in 1..Len(s) : i \in 1..Len(t)
  OBVIOUS
<1> QED BY <1>1, <1>2, <1>3, PrefixPoints

LEMMA RecordersFinite ==
  ASSUME IsFiniteSet(Hooks), NEW s
  PROVE  IsFiniteSet(Recorders(s)) /\ Cardinality(Recorders(s)) \in Nat
  BY FS_Subset, FS_CardinalityType DEF Recorders

(* A longer hash counts at least as many hooks...                          *)
LEMMA MoreRecorders ==
  ASSUME IsFiniteSet(Hooks), NEW s \in Hash, NEW t \in Hash, IsPrefix(s, t)
  PROVE  Cardinality(Recorders(s)) <= Cardinality(Recorders(t))
<1>1. \A i \in DOMAIN s : i \in DOMAIN t /\ s[i] = t[i]
  BY PrefixPoints DEF Hash
<1>2. Recorders(s) \in SUBSET Recorders(t)
  BY <1>1 DEF Recorders
<1> QED BY <1>2, RecordersFinite, FS_Subset

(* ... and one more, where it goes on from a current one.                  *)
LEMMA OneMoreRecorder ==
  ASSUME TypeOK, RecordedOnce, IsFiniteSet(Hooks), NEW s \in Hash, NEW t \in Hash,
         IsPrefix(s, t), s # t, IsPrefix(t, server), Current(s)
  PROVE  Cardinality(Recorders(s)) + 1 <= Cardinality(Recorders(t))
<1>1. Len(s) < Len(t) /\ Len(s) \in Nat /\ Len(t) \in Nat
  BY PrefixShorter DEF Hash
<1>2. \A i \in 1..Len(t) : t[i] = server[i] /\ i \in DOMAIN server
  <2>1. t \in Seq(Hooks \cup Earlier) /\ server \in Seq(Hooks \cup Earlier)
    BY DEF TypeOK, Hash
  <2>2. Len(t) <= Len(server) /\ \A i \in 1..Len(t) : t[i] = server[i]
    BY <2>1, PrefixPoints
  <2> QED BY <2>1, <2>2
<1>3. \A i \in 1..Len(s) : s[i] = server[i] /\ i \in DOMAIN server
  BY <1>1, <1>2, PrefixPoints DEF Hash
<1> DEFINE n == Len(s) + 1
<1>4. n \in 1..Len(t) /\ n \notin 1..Len(s)
  BY <1>1
<1>5. server[n] \in Hooks
  BY <1>1, <1>2, <1>4 DEF Current, TypeOK, Hash
<1>6. server[n] \in Recorders(t)
  BY <1>2, <1>4, <1>5 DEF Recorders, Hash
<1>7. server[n] \notin Recorders(s)
  <2> SUFFICES ASSUME NEW i \in 1..Len(s), s[i] = server[n] PROVE FALSE
    BY DEF Recorders, Hash
  <2>1. server[i] = server[n] /\ i \in DOMAIN server /\ n \in DOMAIN server /\ i # n
    BY <1>2, <1>3, <1>4
  <2> HIDE DEF n
  <2> QED BY <2>1 DEF RecordedOnce, IsInjective
<1> HIDE DEF n
<1>8. Recorders(s) \in SUBSET Recorders(t)
  <2>1. \A i \in DOMAIN s : i \in DOMAIN t /\ s[i] = t[i]
    BY PrefixPoints DEF Hash
  <2> QED BY <2>1 DEF Recorders
<1>9. IsFiniteSet(Recorders(t)) /\ Recorders(s) # Recorders(t)
  BY <1>6, <1>7, RecordersFinite
<1>10. /\ Cardinality(Recorders(s)) <= Cardinality(Recorders(t))
       /\ Cardinality(Recorders(s)) # Cardinality(Recorders(t))
  BY <1>8, <1>9, FS_Subset
<1> QED BY <1>10, RecordersFinite

(* The server's chain counts what it counted, and has all it had.          *)
LEMMA CurrentKept ==
  ASSUME TypeOK, NEW h \in Hooks, server' = server \/ server' = Append(server, h),
         NEW s \in Hash, Current(s)
  PROVE  Current(s)'
<1>1. CASE server' = server
  BY <1>1 DEF Current
<1>2. CASE server' = Append(server, h)
  <2>1. /\ DOMAIN server' = 1..(Len(server) + 1) /\ DOMAIN server = 1..Len(server)
        /\ Len(server) \in Nat
        /\ server' [Len(server) + 1] = h
        /\ \A j \in 1..Len(server) : server' [j] = server[j]
    BY <1>2 DEF TypeOK, Hash
  <2>2. h \notin Earlier
    BY HookAssumption
  <2>3. ASSUME NEW i \in DOMAIN server', server' [i] \in Earlier PROVE i <= Len(s)
    <3>1. i \in DOMAIN server /\ server[i] \in Earlier
      BY <2>1, <2>2, <2>3
    <3> QED BY <3>1 DEF Current
  <2> QED BY <2>3 DEF Current
<1> QED BY <1>1, <1>2

LEMMA PaidKept ==
  ASSUME TypeOK, NEW h \in Hooks, server' = server \/ server' = Append(server, h),
         NEW s \in Hash, NEW n \in Nat, Paid(n, s)
  PROVE  Paid(n, s)'
<1>1. CASE n > 0
  <2>1. Current(s)'
    BY <1>1, CurrentKept DEF Paid
  <2>2. n <= Cardinality(Recorders(s)) + 1
    BY <1>1 DEF Paid
  <2> QED BY <2>1, <2>2 DEF Paid, Recorders
<1>2. CASE ~(n > 0)
  BY <1>2 DEF Paid
<1> QED BY <1>1, <1>2

(* What is paid for with a hash is paid for with one that goes on from it. *)
LEMMA PaidLonger ==
  ASSUME IsFiniteSet(Hooks), NEW s \in Hash, NEW t \in Hash, NEW n \in Nat,
         IsPrefix(s, t), Current(t), Paid(n, s)
  PROVE  Paid(n, t)
<1>1. Cardinality(Recorders(s)) <= Cardinality(Recorders(t))
  BY MoreRecorders
<1>2. n > 0 => n <= Cardinality(Recorders(s)) + 1
  BY DEF Paid
<1>3. n > 0 => n <= Cardinality(Recorders(t)) + 1
  BY <1>1, <1>2, RecordersFinite
<1> QED BY <1>3 DEF Paid

(* A rejection is paid for by the progress it brings.                      *)
LEMMA PaidByProgress ==
  ASSUME TypeOK, RecordedOnce, IsFiniteSet(Hooks), NEW s \in Hash, NEW t \in Hash,
         IsPrefix(s, t), s # t, IsPrefix(t, server), Current(t),
         NEW n \in Nat, n > 0, Paid(n - 1, s)
  PROVE  Paid(n, t)
<1>1. CASE n = 1
  BY <1>1, RecordersFinite DEF Paid
<1>2. CASE n > 1
  <2>1. Current(s) /\ n - 1 <= Cardinality(Recorders(s)) + 1
    BY <1>2 DEF Paid
  <2>2. Cardinality(Recorders(s)) + 1 <= Cardinality(Recorders(t))
    BY <2>1, OneMoreRecorder
  <2>3. n <= Cardinality(Recorders(t)) + 1
    BY <2>1, <2>2, RecordersFinite
  <2> QED BY <2>3 DEF Paid
<1> QED BY <1>1, <1>2

BudgetOf(h) == Asked(h) /\ Told(h) /\ Spent(h)

FullInv == ForwardInv /\ OnceInv /\ BudgetInv

LEMMA FullParts ==
  FullInv => /\ TypeOK /\ RecordedOnce /\ LockHeld /\ Forward /\ OnChain
             /\ \A h \in Hooks :
                  /\ OnceOf(h) /\ BudgetOf(h) /\ Answering(h)
                  /\ prev[h] \in Hash /\ goal[h] \in Hash /\ wire[h].head \in Hash
                  /\ attempt[h] \in Nat /\ Append(prev[h], h) \in Hash
             /\ local \in Hash /\ server \in Hash
<1> SUFFICES ASSUME FullInv
             PROVE  /\ TypeOK /\ RecordedOnce /\ LockHeld /\ Forward /\ OnChain
                    /\ \A h \in Hooks : OnceOf(h) /\ BudgetOf(h) /\ Answering(h)
                    /\ \A h \in Hooks :
                         /\ prev[h] \in Hash /\ goal[h] \in Hash /\ wire[h].head \in Hash
                         /\ attempt[h] \in Nat /\ Append(prev[h], h) \in Hash
                    /\ local \in Hash /\ server \in Hash
  OBVIOUS
<1>1. TypeOK /\ RecordedOnce /\ LockHeld /\ Forward /\ OnChain
  BY DEF FullInv, ForwardInv, ChainInv, TypeInv, OnceInv
<1>2. \A h \in Hooks : OnceOf(h) /\ BudgetOf(h) /\ Answering(h)
  BY OnceEach DEF FullInv, BudgetInv, BudgetOf, ForwardInv, ChainInv
<1>3. ASSUME NEW h \in Hooks
      PROVE  /\ prev[h] \in Hash /\ goal[h] \in Hash /\ wire[h].head \in Hash
             /\ attempt[h] \in Nat /\ Append(prev[h], h) \in Hash
  BY <1>1, HookAssumption DEF TypeOK, Hash, Packet
<1> QED BY <1>1, <1>2, <1>3 DEF TypeOK

(* The state file moves only to a current head that goes on from it.       *)
LEMMA LocalMoves ==
  ASSUME FullInv, NEW h \in Hooks, Step(h)
  PROVE  \/ UNCHANGED local
         \/ /\ pc[h] = "write" /\ pc'[h] = "compare"
            /\ local' = goal[h] /\ local = prev[h]
            /\ local' \in Hash /\ IsPrefix(local, local') /\ Current(goal[h]) /\ local' # prev[h]
<1>1. CASE WriteState(h)
  <2>1. pc[h] = "write" /\ pc'[h] = "compare" /\ local' = goal[h]
    BY <1>1, FullParts DEF WriteState, GoTo, TypeOK
  <2>2. local = prev[h] /\ IsPrefix(prev[h], goal[h])
    BY <2>1, FullParts DEF Forward, Answered, Holding
  <2>3. Current(goal[h]) /\ goal[h] # prev[h]
    BY <2>1, FullParts DEF BudgetOf, Told, Answered, Holding
  <2> QED BY <2>1, <2>2, <2>3, FullParts
<1>2. CASE ~WriteState(h)
  BY <1>2 DEF Step, Inspect, Open, Post, Receive, CreateLock, FindLock, NameLock, JudgeOwner,
    StatLock, Reclaim, Reinspect, Reopen, CompareLock, Unlink
<1> QED BY <1>1, <1>2

LEMMA InitBudget == ASSUME NobodyDies PROVE Init => FullInv
<1> SUFFICES ASSUME Init PROVE FullInv
  OBVIOUS
<1>1. \A h \in Hooks : pc[h] = "inspect" /\ attempt[h] = 0
  BY DEF Init
<1>2. \A h \in Hooks : BudgetOf(h)
  BY <1>1 DEF BudgetOf, Asked, Told, Spent, Paid, Answered, Holding
<1> QED BY <1>2, InitForward, InitOnce DEF FullInv, BudgetInv, BudgetOf

LEMMA OthersBudget ==
  ASSUME IsFiniteSet(Hooks), FullInv, NEW h \in Hooks, Step(h), NEW i \in Hooks, i # h
  PROVE  BudgetOf(i)'
<1>1. /\ pc'[i] = pc[i] /\ prev'[i] = prev[i] /\ goal'[i] = goal[i]
      /\ fate'[i] = fate[i] /\ attempt'[i] = attempt[i] /\ wire'[i] = wire[i]
  BY FullParts, OthersStay
<1>2. server' = server
  BY ServerStays
<1>3. \A s \in Hash : Current(s) => Current(s)'
  BY <1>2, FullParts, CurrentKept
<1>4. \A s \in Hash, n \in Nat : Paid(n, s) => Paid(n, s)'
  BY <1>2, FullParts, PaidKept
<1>5. /\ prev[i] \in Hash /\ goal[i] \in Hash /\ wire[i].head \in Hash /\ local \in Hash
      /\ attempt[i] \in Nat /\ Append(prev[i], i) \in Hash
  BY FullParts
<1>6. BudgetOf(i)
  BY FullParts
<1>7. Told(i)'
  BY <1>1, <1>3, <1>5, <1>6 DEF BudgetOf, Told
<1>8. CASE UNCHANGED local
  <2>1. Asked(i)'
    BY <1>1, <1>3, <1>5, <1>6, <1>8 DEF BudgetOf, Asked
  <2>2. Spent(i)'
    BY <1>1, <1>4, <1>5, <1>6, <1>8 DEF BudgetOf, Spent
  <2> QED BY <1>7, <2>1, <2>2 DEF BudgetOf
<1>9. CASE /\ pc[h] = "write" /\ local' = goal[h] /\ local' \in Hash
           /\ IsPrefix(local, local') /\ Current(goal[h])
  <2>1. PICK t \in Hash : t = local'
    BY <1>9
  <2>2. Current(t) /\ IsPrefix(local, t)
    BY <1>9, <2>1
  <2>3. Current(t)'
    BY <1>3, <2>2
  <2>4. Asked(i)'
    <3>1. IsPrefix(prev[i], local) => IsPrefix(prev[i], t)
      BY <1>5, <2>2, PrefixTrans DEF Hash
    <3> QED BY <1>1, <1>6, <2>1, <2>3, <3>1 DEF BudgetOf, Asked
  <2>5. Paid(attempt[i], local) => Paid(attempt[i], t)
    BY <1>5, <2>2, PaidLonger
  <2>6. pc[i] \notin Holding
    BY <1>9, FullParts DEF LockHeld, Holding
  <2>7. Spent(i)'
    BY <1>1, <1>4, <1>5, <1>6, <2>1, <2>5, <2>6 DEF BudgetOf, Spent, Holding
  <2> QED BY <1>7, <2>4, <2>7 DEF BudgetOf
<1> QED BY <1>8, <1>9, LocalMoves

(* A hook on its way through the lock keeps its account...                 *)
LEMMA InsideBudget ==
  ASSUME NobodyDies, IsFiniteSet(Hooks), FullInv, NEW h \in Hooks, Step(h), pc[h] \in Answered
  PROVE  /\ BudgetOf(h)'
         /\ pc'[h] \in {"inspect", "gaveUp"} =>
              /\ attempt[h] > 0 /\ Paid(attempt[h], local)
              /\ fate[h] = "retry" /\ local' = local /\ pc'[h] = Onward(h)
<1>1. /\ prev'[h] = prev[h] /\ goal'[h] = goal[h] /\ attempt'[h] = attempt[h]
      /\ fate'[h] = fate[h] \/ fate'[h] = "throw"
      /\ pc'[h] \in Answered \cup {"failed", Onward(h)}
  BY FullParts, GoesOn
<1>2. server' = server
  BY ServerStays
<1>3. \A s \in Hash : Current(s) => Current(s)'
  BY <1>2, FullParts, CurrentKept
<1>4. \A s \in Hash, n \in Nat : Paid(n, s) => Paid(n, s)'
  BY <1>2, FullParts, PaidKept
<1>5. /\ prev[h] \in Hash /\ goal[h] \in Hash /\ local \in Hash /\ attempt[h] \in Nat
  BY FullParts
<1>6. BudgetOf(h) /\ TypeOK
  BY FullParts
<1>7. /\ IsPrefix(prev[h], local) /\ (local = prev[h] \/ Current(local))
      /\ Current(goal[h]) /\ goal[h] # prev[h]
      /\ attempt[h] > 0 /\ Paid(attempt[h] - 1, prev[h])
  BY <1>6 DEF BudgetOf, Asked, Told, Spent
<1>8. PICK n \in Nat : n = attempt[h] - 1
  BY <1>5, <1>7
<1>9. Paid(n, prev[h])'
  <2>1. Paid(n, prev[h])
    BY <1>7, <1>8
  <2> QED BY <1>1, <1>4, <1>5, <2>1
<1>10. CASE pc'[h] \in Answered
  <2>1. pc'[h] \notin {"inspect", "open", "post", "sent", "gaveUp"}
    BY <1>10 DEF Answered, Holding
  <2>2. Told(h)'
    BY <1>1, <1>3, <1>5, <1>7, <2>1 DEF Told
  <2>3. CASE UNCHANGED local
    <3>1. Asked(h)'
      BY <1>1, <1>3, <1>5, <1>7, <2>3 DEF Asked
    <3>2. pc'[h] \in {"compare", "unlink"} /\ fate'[h] = "retry" => local # prev[h]
      <4>1. CASE Reinspect(h) \/ Reopen(h)
        BY <1>6, <4>1 DEF Reinspect, Reopen, Reread, GoTo, NoFile, TypeOK
      <4>2. CASE WriteState(h)
        BY <1>7, <2>3, <4>2 DEF WriteState
      <4>3. CASE CompareLock(h) \/ Unlink(h)
        <5>1. pc[h] \in {"compare", "unlink"} /\ fate'[h] = fate[h]
          BY <4>3 DEF CompareLock, Unlink, hookVars
        <5> QED BY <1>6, <5>1 DEF BudgetOf, Spent
      <4>4. CASE \/ CreateLock(h) \/ FindLock(h) \/ NameLock(h) \/ JudgeOwner(h)
                 \/ StatLock(h) \/ Reclaim(h)
        <5>1. pc'[h] \notin {"compare", "unlink"}
          BY <1>6, <4>4 DEF CreateLock, FindLock, NameLock, JudgeOwner, StatLock, Reclaim,
            GoTo, TypeOK
        <5> QED BY <5>1
      <4>5. pc[h] \notin {"inspect", "open", "post", "sent"}
        BY DEF Answered, Holding
      <4> QED BY <4>1, <4>2, <4>3, <4>4, <4>5 DEF Step, Inspect, Open, Post, Receive
    <3>3. Spent(h)'
      BY <1>1, <1>7, <1>8, <1>9, <2>1, <2>3, <3>2 DEF Spent
    <3> QED BY <2>1, <2>2, <3>1, <3>3 DEF BudgetOf
  <2>4. CASE /\ local' = goal[h] /\ local' \in Hash /\ local = prev[h]
             /\ IsPrefix(local, local') /\ Current(goal[h]) /\ local' # prev[h]
    <3>1. PICK t \in Hash : t = local'
      BY <2>4
    <3>2. Current(t)'
      BY <1>3, <2>4, <3>1
    <3>3. IsPrefix(prev[h], t)
      BY <2>4, <3>1
    <3>4. Asked(h)'
      BY <1>1, <3>1, <3>2, <3>3 DEF Asked
    <3>5. Spent(h)'
      BY <1>1, <1>7, <1>8, <1>9, <2>1, <2>4 DEF Spent
    <3> QED BY <2>1, <2>2, <3>4, <3>5 DEF BudgetOf
  <2> QED BY <2>3, <2>4, LocalMoves
<1>11. CASE pc'[h] = "failed"
  BY <1>11 DEF BudgetOf, Asked, Told, Spent, Answered, Holding
<1>12. CASE pc'[h] = Onward(h) /\ pc'[h] \notin Answered \cup {"failed"}
  <2>1. CompareLock(h) \/ Unlink(h)
    <3>1. CASE Reinspect(h) \/ Reopen(h) \/ WriteState(h)
      BY <1>6, <1>12, <3>1 DEF Reinspect, Reopen, Reread, WriteState, GoTo, TypeOK, Answered, Holding
    <3>2. CASE \/ CreateLock(h) \/ FindLock(h) \/ NameLock(h) \/ JudgeOwner(h)
               \/ StatLock(h) \/ Reclaim(h)
      BY <1>6, <1>12, <3>2 DEF CreateLock, FindLock, NameLock, JudgeOwner, StatLock, Reclaim,
        GoTo, TypeOK, Answered, Holding
    <3> QED BY <3>1, <3>2 DEF Step, Inspect, Open, Post, Receive, Answered, Holding
  <2>2. local' = local /\ pc[h] \in {"compare", "unlink"}
    BY <2>1 DEF CompareLock, Unlink
  <2>3. pc'[h] \in {"done", "inspect", "gaveUp"}
        /\ (pc'[h] \in {"inspect", "gaveUp"} => fate[h] = "retry")
    <3>1. fate[h] = "retry" => Onward(h) = IF attempt[h] >= MaxAttempts THEN "gaveUp" ELSE "inspect"
      BY DEF Onward
    <3>2. fate[h] # "retry" => Onward(h) \in {"failed", "done"}
      BY <1>6 DEF Onward, TypeOK, Fates
    <3> QED BY <1>12, <3>1, <3>2
  <2>4. CASE pc'[h] = "done"
    BY <2>4 DEF BudgetOf, Asked, Told, Spent, Answered, Holding
  <2>5. CASE pc'[h] \in {"inspect", "gaveUp"}
    <3>1. local # prev[h]
      BY <1>6, <2>2, <2>3, <2>5 DEF BudgetOf, Spent
    <3>2. Current(local) /\ IsPrefix(local, server)
      BY <1>7, <3>1, FullParts DEF OnChain
    <3>3. Paid(attempt[h], local)
      BY <1>5, <1>6, <1>7, <3>1, <3>2, PaidByProgress, FullParts
    <3>4. Paid(attempt[h], local)'
      BY <1>1, <1>4, <1>5, <2>2, <3>3
    <3>5. BudgetOf(h)'
      BY <2>5, <1>1, <3>4 DEF BudgetOf, Asked, Told, Spent, Answered, Holding
    <3> QED BY <1>7, <1>12, <2>2, <2>3, <2>5, <3>3, <3>5
  <2> QED BY <2>3, <2>4, <2>5
<1> QED BY <1>1, <1>10, <1>11, <1>12

(* ... and on its way to the server and back too.                          *)
LEMMA OutsideBudget ==
  ASSUME IsFiniteSet(Hooks), FullInv, NEW h \in Hooks,
         Inspect(h) \/ Open(h) \/ Post(h) \/ Receive(h)
  PROVE  BudgetOf(h)' /\ pc'[h] # "gaveUp"
<1> USE DEF Answered, Holding
<1>1. server' = server /\ local' = local
  BY DEF Inspect, Open, Post, Receive
<1>2. \A s \in Hash : Current(s) => Current(s)'
  BY <1>1, FullParts, CurrentKept
<1>3. \A s \in Hash, n \in Nat : Paid(n, s) => Paid(n, s)'
  BY <1>1, FullParts, PaidKept
<1>4. /\ prev[h] \in Hash /\ goal[h] \in Hash /\ wire[h].head \in Hash /\ local \in Hash
      /\ attempt[h] \in Nat /\ Append(prev[h], h) \in Hash
  BY FullParts
<1>5. BudgetOf(h) /\ TypeOK
  BY FullParts
<1>6. IsPrefix(local, local)
  BY <1>4, PrefixRefl DEF Hash
<1>7. CASE Inspect(h) \/ Open(h)
  <2>1. /\ pc'[h] \in {"open", "post", "failed"} /\ attempt'[h] = attempt[h]
        /\ pc'[h] = "post" => prev'[h] = local
    <3>1. CASE Inspect(h)
      BY <1>5, <3>1 DEF Inspect, GoTo, NoFile, TypeOK
    <3>2. CASE Open(h)
      BY <1>5, <3>2 DEF Open, GoTo, TypeOK
    <3> QED BY <1>7, <3>1, <3>2
  <2>2. Paid(attempt[h], local)
    BY <1>5, <1>7 DEF BudgetOf, Spent, Inspect, Open
  <2>3. Paid(attempt[h], local)'
    BY <1>1, <1>3, <1>4, <2>1, <2>2
  <2>4. Asked(h)'
    BY <1>1, <1>6, <2>1 DEF Asked
  <2>5. Told(h)'
    BY <2>1 DEF Told
  <2>6. Spent(h)'
    BY <1>1, <2>1, <2>3 DEF Spent
  <2> QED BY <2>1, <2>4, <2>5, <2>6 DEF BudgetOf
<1>8. CASE Post(h)
  <2>1. /\ pc'[h] = "sent" /\ attempt'[h] = attempt[h] /\ prev'[h] = prev[h]
        /\ wire'[h].kind = "request"
    BY <1>5, <1>8 DEF Post, GoTo, hookVars, TypeOK
  <2>2. Asked(h)'
    BY <1>1, <1>2, <1>4, <1>5, <1>8, <2>1 DEF BudgetOf, Asked, Post
  <2>3. Told(h)'
    BY <2>1 DEF Told
  <2>4. Spent(h)'
    <3>1. Paid(attempt[h], prev[h])
      BY <1>5, <1>8 DEF BudgetOf, Spent, Post
    <3>2. Paid(attempt[h], prev[h])'
      BY <1>3, <1>4, <2>1, <3>1
    <3> QED BY <2>1, <3>2 DEF Spent
  <2> QED BY <2>1, <2>2, <2>3, <2>4 DEF BudgetOf
<1>9. CASE Receive(h)
  <2>1. /\ pc'[h] = "lock" /\ attempt'[h] = attempt[h] + 1 /\ prev'[h] = prev[h]
        /\ pc[h] = "sent"
    BY <1>5, <1>9 DEF Receive, GoTo, TypeOK
  <2>2. Asked(h)'
    BY <1>1, <1>2, <1>4, <1>5, <2>1 DEF BudgetOf, Asked
  <2>3. Told(h)'
    <3>1. PICK g \in Hash : g = goal'[h] /\ Current(g) /\ g # prev[h]
      <4>1. CASE wire[h].kind = "accepted"
        <5>1. goal'[h] = Append(prev[h], h)
          BY <1>5, <1>9, <4>1 DEF Receive, TypeOK
        <5>2. Append(prev[h], h) # prev[h]
          <6>1. Len(Append(prev[h], h)) = Len(prev[h]) + 1 /\ Len(prev[h]) \in Nat
            BY <1>4 DEF Hash
          <6> QED BY <6>1
        <5> QED BY <1>4, <1>5, <2>1, <4>1, <5>1, <5>2 DEF BudgetOf, Told
      <4>2. CASE wire[h].kind = "rejected"
        <5>1. goal'[h] = wire[h].head
          BY <1>5, <1>9, <4>2 DEF Receive, TypeOK
        <5> QED BY <1>4, <1>5, <2>1, <4>2, <5>1 DEF BudgetOf, Told
      <4> QED BY <1>9, <4>1, <4>2 DEF Receive
    <3>2. Current(g)'
      BY <1>2, <3>1
    <3> QED BY <2>1, <3>1, <3>2 DEF Told
  <2>4. Spent(h)'
    <3>1. Paid(attempt[h], prev[h])
      BY <1>5, <2>1 DEF BudgetOf, Spent
    <3>2. PICK n \in Nat, s \in Hash : n = attempt[h] /\ s = prev[h]
      BY <1>4
    <3>3. Paid(n, s)'
      BY <1>3, <3>1, <3>2
    <3>4. n = attempt'[h] - 1 /\ s = prev'[h]
      BY <2>1, <3>2
    <3> QED BY <2>1, <3>2, <3>3, <3>4 DEF Spent
  <2> QED BY <2>1, <2>2, <2>3, <2>4 DEF BudgetOf
<1> QED BY <1>7, <1>8, <1>9

(* The server's answer is the head, and it has all that was there before.  *)
LEMMA ServeBudget ==
  ASSUME FullInv, NEW h \in Hooks, Serve(h), NEW i \in Hooks
  PROVE  BudgetOf(i)'
<1>1. /\ pc'[i] = pc[i] /\ prev'[i] = prev[i] /\ goal'[i] = goal[i]
      /\ fate'[i] = fate[i] /\ attempt'[i] = attempt[i] /\ local' = local
  BY DEF Serve, hookVars
<1>2. server' = server \/ server' = Append(server, h)
  BY DEF Serve
<1>3. \A s \in Hash : Current(s) => Current(s)'
  BY <1>2, FullParts, CurrentKept
<1>4. \A s \in Hash, n \in Nat : Paid(n, s) => Paid(n, s)'
  BY <1>2, FullParts, PaidKept
<1>5. /\ prev[i] \in Hash /\ goal[i] \in Hash /\ wire[i].head \in Hash /\ local \in Hash
      /\ attempt[i] \in Nat /\ Append(prev[i], i) \in Hash /\ server \in Hash
  BY FullParts
<1>6. BudgetOf(i) /\ TypeOK
  BY FullParts
<1>7. Asked(i)'
  BY <1>1, <1>3, <1>5, <1>6 DEF BudgetOf, Asked
<1>8. Spent(i)'
  <2>1. PICK n \in Nat, s \in Hash : n = attempt[i] /\ s = prev[i]
    BY <1>5
  <2>2. /\ Paid(n, s) => Paid(n, s)'
        /\ n > 0 /\ Paid(n - 1, s) => Paid(n - 1, s)'
        /\ Paid(n, local) => Paid(n, local)'
    <3>1. Paid(n, s) => Paid(n, s)'
      BY <1>4
    <3>2. ASSUME n > 0, Paid(n - 1, s) PROVE Paid(n - 1, s)'
      <4>1. PICK m \in Nat : m = n - 1
        BY <3>2
      <4>2. Paid(m, s) => Paid(m, s)'
        BY <1>4
      <4> QED BY <3>2, <4>1, <4>2
    <3>3. Paid(n, local) => Paid(n, local)'
      <4>1. PICK t \in Hash : t = local
        BY <1>5
      <4>2. Paid(n, t) => Paid(n, t)'
        BY <1>4
      <4> QED BY <1>1, <4>1, <4>2
    <3> QED BY <3>1, <3>2, <3>3
  <2> QED BY <1>1, <1>6, <2>1, <2>2 DEF BudgetOf, Spent
<1>9. Told(i)'
  <2>1. CASE i # h
    <3>1. wire'[i] = wire[i]
      BY <1>6, <2>1 DEF Serve, TypeOK
    <3> QED BY <1>1, <1>3, <1>5, <1>6, <3>1 DEF BudgetOf, Told
  <2>2. CASE i = h
    <3>1. pc[h] \in Answered => Current(goal[h])' /\ goal[h] # prev[h]
      BY <1>1, <1>3, <1>5, <1>6, <2>2 DEF BudgetOf, Told
    <3>2. pc[h] = "sent" => wire[h].head = prev[h] /\ wire[h].kind = "request"
      BY FullParts DEF Serve, Answering
    <3>3. CASE wire[h].head = server
      <4>1. wire'[h].kind = "accepted" /\ server' = Append(server, h)
        BY <1>6, <3>3 DEF Serve, TypeOK, Packet
      <4>2. PICK s \in Hash : s = Append(server, h)
        <5>1. h \in Hooks \cup Earlier /\ server \in Seq(Hooks \cup Earlier)
          BY <1>5 DEF Hash
        <5>2. Append(server, h) \in Seq(Hooks \cup Earlier)
          BY <5>1
        <5> QED BY <5>2 DEF Hash
      <4>3. Current(s)'
        BY <4>1, <4>2 DEF Current, Hash
      <4> QED BY <1>1, <2>2, <3>1, <3>2, <3>3, <4>1, <4>2, <4>3 DEF Told
    <3>4. CASE wire[h].head # server
      <4>1. wire'[h].kind = "rejected" /\ wire'[h].head = server /\ server' = server
        BY <1>6, <3>4 DEF Serve, TypeOK, Packet
      <4>2. PICK s \in Hash : s = server
        BY <1>5
      <4>3. Current(s)'
        BY <4>1, <4>2 DEF Current, Hash
      <4> QED BY <1>1, <2>2, <3>1, <3>2, <3>4, <4>1, <4>2, <4>3 DEF Told
    <3> QED BY <3>3, <3>4
  <2> QED BY <2>1, <2>2
<1> QED BY <1>7, <1>8, <1>9 DEF BudgetOf

LEMMA NextBudget ==
  ASSUME NobodyDies, IsFiniteSet(Hooks) PROVE FullInv /\ [Next]_vars => FullInv'
<1> SUFFICES ASSUME FullInv, [Next]_vars PROVE FullInv'
  OBVIOUS
<1>1. ForwardInv' /\ OnceInv'
  BY NextForward, NextOnce DEF FullInv, ForwardInv, ChainInv
<1> SUFFICES ASSUME NEW i \in Hooks PROVE BudgetOf(i)'
  BY <1>1 DEF FullInv, BudgetInv, BudgetOf
<1>2. TypeOK /\ BudgetOf(i)
  BY FullParts
<1>3. ASSUME NEW h \in Hooks, Step(h) PROVE BudgetOf(i)'
  <2>1. CASE i # h
    BY <1>3, <2>1, OthersBudget
  <2>2. CASE i = h
    <3>1. CASE pc[h] \in Answered
      BY <1>3, <2>2, <3>1, InsideBudget
    <3>2. CASE pc[h] \notin Answered
      <4>1. Inspect(h) \/ Open(h) \/ Post(h) \/ Receive(h)
        BY <1>3, <3>2 DEF Step, CreateLock, FindLock, NameLock, JudgeOwner, StatLock, Reclaim,
          Reinspect, Reopen, WriteState, CompareLock, Unlink, Answered, Holding
      <4> QED BY <2>2, <4>1, OutsideBudget
    <3> QED BY <3>1, <3>2
  <2> QED BY <2>1, <2>2
<1>4. ASSUME NEW h \in Hooks, Serve(h) PROVE BudgetOf(i)'
  BY <1>4, ServeBudget
<1>5. ASSUME NEW h \in Hooks, Abort(h) \/ WaitTooLong(h) \/ Crash(h) \/ NameFails(h)
      PROVE  BudgetOf(i)'
  <2>1. UNCHANGED <<server, local, prev, goal, fate, attempt, wire>>
    BY <1>5 DEF Abort, WaitTooLong, Crash, NameFails, hookVars
  <2>2. pc'[i] \in {"failed", "crashed"} \/ pc'[i] = pc[i]
    BY <1>2, <1>5 DEF Abort, WaitTooLong, Crash, NameFails, GoTo, TypeOK
  <2> QED
    BY <1>2, <2>1, <2>2
    DEF BudgetOf, Asked, Told, Spent, Paid, Current, Answered, Holding
<1>6. CASE LockAges \/ UNCHANGED vars
  BY <1>2, <1>6 DEF LockAges, vars, hookVars, BudgetOf, Asked, Told, Spent, Paid, Current
<1>7. ASSUME NEW h \in Hooks, WriteFails(h) PROVE BudgetOf(i)'
  <2>1. UNCHANGED <<server, local, prev, goal, attempt, wire>>
    BY <1>7 DEF WriteFails
  <2>2. \/ pc[i] = "write" /\ pc'[i] = "compare" /\ fate'[i] = "throw"
        \/ pc'[i] = pc[i] /\ fate'[i] = fate[i]
    BY <1>2, <1>7 DEF WriteFails, GoTo, TypeOK
  <2> QED
    BY <1>2, <2>1, <2>2
    DEF BudgetOf, Asked, Told, Spent, Paid, Current, Answered, Holding
<1> QED BY <1>3, <1>4, <1>5, <1>6, <1>7 DEF Next

LEMMA InitNobodyGivesUp == Init => NobodyGivesUp
  BY DEF Init, NobodyGivesUp

(* Who has been refused MaxAttempts times has seen that many other hooks   *)
(* recorded.                                                               *)
LEMMA NextNobodyGivesUp ==
  ASSUME NobodyDies, IsFiniteSet(Hooks), Cardinality(Hooks) < MaxAttempts
  PROVE  FullInv /\ NobodyGivesUp /\ [Next]_vars => NobodyGivesUp'
<1> SUFFICES ASSUME FullInv, NobodyGivesUp, [Next]_vars, NEW i \in Hooks PROVE pc'[i] # "gaveUp"
  BY DEF NobodyGivesUp
<1>1. pc[i] # "gaveUp" /\ TypeOK
  BY FullParts DEF NobodyGivesUp
<1>2. ASSUME NEW h \in Hooks, Step(h) PROVE pc'[i] # "gaveUp"
  <2>1. CASE i # h
    BY <1>1, <1>2, <2>1, OthersStay
  <2>2. CASE i = h /\ pc[h] \in Answered
    <3> SUFFICES ASSUME pc'[h] = "gaveUp" PROVE FALSE
      BY <2>2
    <3>1. attempt[h] > 0 /\ Paid(attempt[h], local) /\ fate[h] = "retry" /\ Onward(h) = "gaveUp"
      BY <1>2, <2>2, InsideBudget
    <3>2. attempt[h] >= MaxAttempts
      BY <3>1 DEF Onward
    <3>3. attempt[h] <= Cardinality(Recorders(local)) + 1
      BY <3>1 DEF Paid
    <3>4. ~Recorded(h)
      BY <2>2, <3>1, FullParts DEF OnceOf
    <3>5. \A j \in DOMAIN local : local[j] # h
      <4>1. IsPrefix(local, server) /\ local \in Hash /\ server \in Hash
        BY FullParts DEF OnChain
      <4>2. Len(local) <= Len(server) /\ \A j \in 1..Len(local) : local[j] = server[j]
        BY <4>1, PrefixPoints DEF Hash
      <4> QED BY <3>4, <4>1, <4>2 DEF Recorded, Hash
    <3>6. Recorders(local) \in SUBSET (Hooks \ {h})
      BY <3>5 DEF Recorders
    <3>7. /\ IsFiniteSet(Hooks \ {h}) /\ Cardinality(Hooks \ {h}) = Cardinality(Hooks) - 1
          /\ Cardinality(Hooks) \in Nat
      BY FS_RemoveElement, FS_CardinalityType
    <3>8. Cardinality(Recorders(local)) <= Cardinality(Hooks) - 1
      BY <3>6, <3>7, FS_Subset
    <3>9. attempt[h] \in Nat /\ MaxAttempts \in Nat /\ Cardinality(Recorders(local)) \in Nat
      BY FullParts, HookAssumption, RecordersFinite
    <3> QED BY <3>2, <3>3, <3>7, <3>8, <3>9
  <2>3. CASE i = h /\ pc[h] \notin Answered
    <3>1. Inspect(h) \/ Open(h) \/ Post(h) \/ Receive(h)
      BY <1>2, <2>3 DEF Step, CreateLock, FindLock, NameLock, JudgeOwner, StatLock, Reclaim,
        Reinspect, Reopen, WriteState, CompareLock, Unlink, Answered, Holding
    <3> QED BY <2>3, <3>1, OutsideBudget
  <2> QED BY <2>1, <2>2, <2>3
<1>3. ASSUME NEW h \in Hooks,
             Abort(h) \/ WaitTooLong(h) \/ Crash(h) \/ NameFails(h) \/ WriteFails(h)
      PROVE  pc'[i] # "gaveUp"
  BY <1>1, <1>3 DEF Abort, WaitTooLong, Crash, NameFails, WriteFails, GoTo, TypeOK
<1>4. ASSUME NEW h \in Hooks, Serve(h) PROVE pc'[i] # "gaveUp"
  BY <1>1, <1>4 DEF Serve
<1>5. CASE LockAges \/ UNCHANGED vars
  BY <1>1, <1>5 DEF LockAges, vars
<1> QED BY <1>2, <1>3, <1>4, <1>5 DEF Next

(* As long as fewer hooks run at once than MAX_CHAIN_ATTEMPTS, and none is *)
(* killed or leaves its lock, none gives up, however the server's answers, *)
(* aborts, failing writes and waits for the lock fall, and however much    *)
(* the state file lagged.                                                  *)
THEOREM EnoughAttempts ==
  ASSUME NobodyDies, IsFiniteSet(Hooks), Cardinality(Hooks) < MaxAttempts
  PROVE  Spec => []NobodyGivesUp
  BY InitBudget, NextBudget, InitNobodyGivesUp, NextNobodyGivesUp, PTL DEF Spec

---------------------------------------------------------------------------
(* The state file has caught up when all is quiet.                         *)

CaughtAll == FullInv /\ CaughtInv

LEMMA InitCaught == ASSUME NobodyDies PROVE Init => CaughtAll
<1> SUFFICES ASSUME Init PROVE CaughtAll
  OBVIOUS
<1>1. server \in Seq(Earlier)
  BY HookAssumption, FS_CardinalityType DEF Init, SeqOf
<1>2. EarlierFirst
  BY <1>1 DEF EarlierFirst
<1>3. \A h \in Hooks : pc[h] = "inspect"
  BY DEF Init
<1> QED BY <1>2, <1>3, InitBudget DEF CaughtAll, CaughtInv, Advanced, Answered, Holding

LEMMA EarlierStaysFirst ==
  ASSUME TypeOK, EarlierFirst, NEW h \in Hooks, server' = server \/ server' = Append(server, h)
  PROVE  EarlierFirst'
<1>1. CASE server' = server
  BY <1>1 DEF EarlierFirst
<1>2. CASE server' = Append(server, h)
  <2>1. /\ DOMAIN server' = 1..(Len(server) + 1) /\ DOMAIN server = 1..Len(server)
        /\ Len(server) \in Nat
        /\ server' [Len(server) + 1] = h
        /\ \A j \in 1..Len(server) : server' [j] = server[j]
    BY <1>2 DEF TypeOK, Hash
  <2>2. h \notin Earlier
    BY HookAssumption
  <2> SUFFICES ASSUME NEW i \in DOMAIN server', NEW j \in DOMAIN server',
                      server' [i] \in Earlier, j < i
               PROVE  server' [j] \in Earlier
    BY DEF EarlierFirst
  <2>3. i \in DOMAIN server /\ j \in DOMAIN server
    BY <2>1, <2>2
  <2> QED BY <2>1, <2>3 DEF EarlierFirst
<1> QED BY <1>1, <1>2

(* The state file never goes back behind a hook that has advanced it.      *)
LEMMA OthersAdvanced ==
  ASSUME FullInv, NEW h \in Hooks, Step(h), NEW i \in Hooks, i # h, Advanced(i)
  PROVE  Advanced(i)'
<1>1. /\ pc'[i] = pc[i] /\ prev'[i] = prev[i] /\ goal'[i] = goal[i] /\ fate'[i] = fate[i]
  BY FullParts, OthersStay
<1>2. CASE UNCHANGED local
  BY <1>1, <1>2 DEF Advanced
<1>3. CASE local' \in Hash /\ IsPrefix(local, local')
  <2>1. PICK t \in Hash : t = local'
    BY <1>3
  <2>2. IsPrefix(goal[i], local) => IsPrefix(goal[i], t)
    BY <1>3, <2>1, PrefixTrans, FullParts DEF Hash
  <2> QED BY <1>1, <2>1, <2>2 DEF Advanced
<1> QED BY <1>2, <1>3, LocalMoves

(* When the state file is not what a hook asked with, it has got past the  *)
(* operation that the hook recorded.                                       *)
LEMMA LocalPast ==
  ASSUME FullInv, NEW h \in Hooks, goal[h] = Append(prev[h], h),
         IsPrefix(prev[h], local), local # prev[h]
  PROVE  IsPrefix(goal[h], local)
<1>1. /\ prev[h] \in Seq(Hooks \cup Earlier) /\ goal[h] \in Seq(Hooks \cup Earlier)
      /\ local \in Seq(Hooks \cup Earlier) /\ server \in Seq(Hooks \cup Earlier)
  BY FullParts DEF Hash
<1>2. Len(prev[h]) < Len(local)
  BY <1>1, PrefixShorter
<1>3. Len(goal[h]) = Len(prev[h]) + 1
  BY <1>1
<1>4. Len(goal[h]) <= Len(local)
  BY <1>1, <1>2, <1>3
<1>5. IsPrefix(goal[h], server) /\ IsPrefix(local, server)
  BY FullParts DEF OnChain
<1> QED BY <1>1, <1>4, <1>5, PrefixOfBoth

LEMMA StepAdvanced ==
  ASSUME FullInv, NEW h \in Hooks, Step(h), Advanced(h)
  PROVE  Advanced(h)'
<1> USE DEF Answered, Holding
<1>1. TypeOK /\ BudgetOf(h) /\ prev[h] \in Hash /\ goal[h] \in Hash
  BY FullParts
<1>2. CASE Inspect(h) \/ Open(h) \/ Post(h)
  <2>1. pc'[h] \in {"open", "post", "sent", "failed"}
    <3>1. CASE Inspect(h) \/ Open(h)
      BY <1>1, <3>1 DEF Inspect, Open, GoTo, TypeOK
    <3>2. CASE Post(h)
      BY <1>1, <3>2 DEF Post, GoTo, TypeOK
    <3> QED BY <1>2, <3>1, <3>2
  <2> QED BY <2>1 DEF Advanced
<1>3. CASE Receive(h)
  <2>1. pc'[h] = "lock" /\ prev'[h] = prev[h]
    BY <1>1, <1>3 DEF Receive, GoTo, TypeOK
  <2>2. fate'[h] = "recorded" => goal'[h] = Append(prev[h], h)
    BY <1>1, <1>3 DEF Receive, TypeOK
  <2> QED BY <2>1, <2>2 DEF Advanced
<1>4. CASE pc[h] \in Answered
  <2>1. /\ prev'[h] = prev[h] /\ goal'[h] = goal[h]
        /\ fate'[h] = fate[h] \/ fate'[h] = "throw"
        /\ pc'[h] \in Answered \cup {"failed", Onward(h)}
    BY <1>1, <1>4, GoesOn
  <2>2. fate'[h] = "recorded" => fate[h] = "recorded" /\ goal[h] = Append(prev[h], h)
    BY <1>4, <2>1 DEF Advanced
  <2>3. IsPrefix(prev[h], local)
    BY <1>1, <1>4 DEF BudgetOf, Asked
  <2>4. CASE Reinspect(h) \/ Reopen(h)
    <3>1. pc'[h] \in {"write", "reopen", "compare"} /\ UNCHANGED local
      BY <1>1, <2>4 DEF Reinspect, Reopen, Reread, GoTo, TypeOK
    <3>2. pc'[h] = "compare" /\ fate'[h] = "recorded" => local # prev[h]
      BY <1>1, <2>4 DEF Reinspect, Reopen, Reread, GoTo, NoFile, TypeOK
    <3>3. pc'[h] = "compare" /\ fate'[h] = "recorded" => IsPrefix(goal[h], local)
      BY <2>2, <2>3, <3>2, LocalPast
    <3> QED BY <2>1, <2>2, <3>1, <3>3 DEF Advanced
  <2>5. CASE WriteState(h)
    <3>1. pc'[h] = "compare" /\ local' = goal[h]
      BY <1>1, <2>5 DEF WriteState, GoTo, TypeOK
    <3>2. IsPrefix(goal[h], goal[h])
      BY <1>1, PrefixRefl DEF Hash
    <3> QED BY <2>1, <2>2, <3>1, <3>2 DEF Advanced
  <2>6. CASE CompareLock(h) \/ Unlink(h)
    <3>1. local' = local /\ fate'[h] = fate[h] /\ pc[h] \in {"compare", "unlink"}
          /\ pc'[h] \in {"unlink", "failed", Onward(h)}
      BY <1>1, <2>6 DEF CompareLock, Unlink, GoTo, hookVars, TypeOK
    <3>2. fate[h] = "recorded" => IsPrefix(goal[h], local)
      BY <3>1 DEF Advanced
    <3>3. Onward(h) = "done" => fate[h] = "recorded"
      BY <1>1 DEF Onward, TypeOK, Fates
    <3> QED BY <2>1, <2>2, <3>1, <3>2, <3>3 DEF Advanced
  <2>7. CASE \/ CreateLock(h) \/ FindLock(h) \/ NameLock(h) \/ JudgeOwner(h)
             \/ StatLock(h) \/ Reclaim(h)
    <3>1. pc'[h] \in {"name", "judge", "reinspect", "lock", "stat", "reclaim"}
      BY <1>1, <2>7 DEF CreateLock, FindLock, NameLock, JudgeOwner, StatLock, Reclaim, GoTo, TypeOK
    <3> QED BY <2>1, <2>2, <3>1 DEF Advanced
  <2> QED BY <1>4, <2>4, <2>5, <2>6, <2>7 DEF Step, Inspect, Open, Post, Receive
<1> QED
  BY <1>2, <1>3, <1>4 DEF Step, CreateLock, FindLock, NameLock, JudgeOwner, StatLock, Reclaim,
    Reinspect, Reopen, WriteState, CompareLock, Unlink

LEMMA NextCaught ==
  ASSUME NobodyDies, IsFiniteSet(Hooks) PROVE CaughtAll /\ [Next]_vars => CaughtAll'
<1> SUFFICES ASSUME CaughtAll, [Next]_vars PROVE CaughtInv'
  BY NextBudget DEF CaughtAll
<1>1. FullInv /\ EarlierFirst /\ TypeOK
  BY FullParts DEF CaughtAll, CaughtInv
<1>2. \A i \in Hooks : Advanced(i)
  BY DEF CaughtAll, CaughtInv
<1>3. ASSUME NEW h \in Hooks, Step(h) PROVE CaughtInv'
  <2>1. EarlierFirst'
    BY <1>1, <1>3, ServerStays, EarlierStaysFirst
  <2>2. ASSUME NEW i \in Hooks PROVE Advanced(i)'
    BY <1>1, <1>2, <1>3, OthersAdvanced, StepAdvanced
  <2> QED BY <2>1, <2>2 DEF CaughtInv
<1>4. ASSUME NEW h \in Hooks, Serve(h) PROVE CaughtInv'
  <2>1. EarlierFirst'
    BY <1>1, <1>4, EarlierStaysFirst DEF Serve
  <2>2. UNCHANGED <<local, pc, prev, goal, fate>>
    BY <1>4 DEF Serve, hookVars
  <2> QED BY <1>2, <2>1, <2>2 DEF CaughtInv, Advanced
<1>5. ASSUME NEW h \in Hooks, Abort(h) \/ WaitTooLong(h) \/ Crash(h) \/ NameFails(h)
      PROVE  CaughtInv'
  <2>1. UNCHANGED <<server, local, prev, goal, fate>>
    BY <1>5 DEF Abort, WaitTooLong, Crash, NameFails, hookVars
  <2>2. \A i \in Hooks : pc'[i] \in {"failed", "crashed"} \/ pc'[i] = pc[i]
    BY <1>1, <1>5 DEF Abort, WaitTooLong, Crash, NameFails, GoTo, TypeOK
  <2> QED
    BY <1>1, <1>2, <2>1, <2>2 DEF CaughtInv, Advanced, EarlierFirst, Answered, Holding
<1>6. CASE LockAges \/ UNCHANGED vars
  BY <1>1, <1>2, <1>6 DEF LockAges, vars, hookVars, CaughtInv, Advanced, EarlierFirst
<1>7. ASSUME NEW h \in Hooks, WriteFails(h) PROVE CaughtInv'
  <2>1. UNCHANGED <<server, local, prev, goal>>
    BY <1>7 DEF WriteFails
  <2>2. \A i \in Hooks : \/ pc'[i] = "compare" /\ fate'[i] = "throw"
                         \/ pc'[i] = pc[i] /\ fate'[i] = fate[i]
    BY <1>1, <1>7 DEF WriteFails, GoTo, TypeOK
  <2> QED
    BY <1>1, <1>2, <2>1, <2>2 DEF CaughtInv, Advanced, EarlierFirst, Answered, Holding
<1> QED BY <1>3, <1>4, <1>5, <1>6, <1>7 DEF Next

(* The last operation on the chain is some hook's, which has advanced the  *)
(* state file as far as that.                                              *)
LEMMA CaughtSuffices == CaughtAll => CaughtUp
<1> SUFFICES ASSUME CaughtAll, NEW g \in Hooks, Recorded(g),
                    \A h \in Hooks : Recorded(h) => pc[h] = "done"
             PROVE  local = server
  BY DEF CaughtUp
<1>1. /\ TypeOK /\ RecordedOnce /\ EarlierFirst /\ FullInv /\ \A h \in Hooks : Advanced(h)
      /\ local \in Seq(Hooks \cup Earlier) /\ server \in Seq(Hooks \cup Earlier)
  BY FullParts DEF CaughtAll, CaughtInv, Hash
<1>2. PICK k \in 1..Len(server) : server[k] = g
  BY <1>1 DEF Recorded
<1>3. PICK n \in 1..Len(server) : n = Len(server)
  BY <1>1, <1>2
<1>4. server[n] \in Hooks
  <2>1. server[n] \in Hooks \cup Earlier
    BY <1>1
  <2>2. ASSUME server[n] \in Earlier PROVE FALSE
    <3>1. k = n \/ k < n
      BY <1>1, <1>2, <1>3
    <3>2. server[k] \in Earlier
      BY <1>1, <1>2, <1>3, <2>2, <3>1 DEF EarlierFirst
    <3> QED BY <1>2, <3>2, HookAssumption
  <2> QED BY <2>1, <2>2
<1>5. PICK h \in Hooks : h = server[n]
  BY <1>4
<1>6. Recorded(h)
  BY <1>1, <1>5 DEF Recorded
<1>7. goal[h] = Append(prev[h], h) /\ IsPrefix(goal[h], local)
  BY <1>1, <1>6 DEF Advanced
<1>8. IsPrefix(goal[h], server) /\ IsPrefix(local, server)
  BY <1>1, FullParts DEF OnChain
<1>9. prev[h] \in Seq(Hooks \cup Earlier) /\ goal[h] \in Seq(Hooks \cup Earlier)
  BY <1>1, FullParts DEF Hash
<1>10. PICK m \in Nat : m = Len(prev[h]) + 1
  BY <1>9
<1>11. Len(goal[h]) = m /\ goal[h][m] = h /\ m \in 1..m
  BY <1>7, <1>9, <1>10
<1>12. m <= Len(server) /\ server[m] = h
  BY <1>1, <1>8, <1>9, <1>11, PrefixPoints
<1>13. m = n
  <2>1. m \in DOMAIN server /\ n \in DOMAIN server
    BY <1>1, <1>10, <1>11, <1>12
  <2> QED BY <1>1, <1>5, <1>12, <2>1 DEF RecordedOnce, IsInjective
<1>14. m <= Len(local)
  BY <1>1, <1>7, <1>9, <1>11, PrefixPoints
<1>15. Len(local) <= Len(server)
  BY <1>1, <1>8, PrefixPoints
<1>16. ~(Len(local) < Len(server))
  BY <1>1, <1>3, <1>13, <1>14
<1> QED BY <1>1, <1>8, <1>16, PrefixShorter

(* Unless a hook is killed or leaves its lock, when all hooks have ended,  *)
(* some action was recorded and whoever recorded one could write it down,  *)
(* this machine knows the server's head.                                   *)
THEOREM KnowsTheHead ==
  ASSUME NobodyDies, IsFiniteSet(Hooks) PROVE Spec => []CaughtUp
  BY InitCaught, NextCaught, CaughtSuffices, PTL DEF Spec
=============================================================================
