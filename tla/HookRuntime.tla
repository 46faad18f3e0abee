----------------------------- MODULE HookRuntime -----------------------------
(***************************************************************************)
(* The audit hook that the SDK installs beside an agent                    *)
(* (sdks/node/src/plugins/hook-template.ts).  The host starts one process  *)
(* per tool call, so several hooks of one agent run at once, each with one *)
(* action to record.  They share chain-state.json, the head of the chain   *)
(* as far as this machine knows, and its lock file; the server accepts an  *)
(* operation exactly when it names the head (OperationIngest shows why).   *)
(*                                                                         *)
(* A chain hash is modelled by the sequence of the hooks whose operations  *)
(* lead to it, and the genesis hash by <<>>, which is also what a missing  *)
(* state file reads as.  A write replaces the state file by a rename, so   *)
(* the file that a reader opens is the one it inspected if and only if its *)
(* content is the same.                                                    *)
(***************************************************************************)
EXTENDS Naturals, Sequences, FiniteSets, SequencesExt

CONSTANTS
  Hooks,        \* the hook processes
  Earlier,      \* operations recorded before they start
  MaxAttempts,  \* MAX_CHAIN_ATTEMPTS
  MaxCrashes,   \* bound: hooks the host or the system kills
  Faults,       \* what may go wrong besides, see FaultNames
  None

FaultNames == {"abort",      \* a POST is given up, its request perhaps not lost
               "timeout",    \* a lock is waited for longer than a second
               "deadLock",   \* an earlier hook died and left its lock behind
              "unnamed",    \* the process id cannot be written into a new lock file
              "unwritten"}  \* the state file cannot be replaced

ASSUME HookAssumption ==
  /\ MaxAttempts \in Nat \ {0}
  /\ MaxCrashes \in Nat
  /\ Faults \subseteq FaultNames
  /\ None \notin Hooks
  /\ Earlier \cap Hooks = {} /\ IsFiniteSet(Earlier)

VARIABLES
  server,    \* the chain the server holds, its head the last
  local,     \* chain-state.json
  lock,      \* chain-state.json.lock
  pc,        \* where each hook is
  seen,      \* the state file a hook has inspected
  prev,      \* previousHash
  goal,      \* the hash to advance the state file to
  fate,      \* what becomes of the hook after the lock is released
  attempt,   \* attempts answered
  wire,      \* each hook's request, or the answer to it
  crashes

hookVars == <<seen, prev, goal, fate, attempt>>
vars == <<server, local, lock, pc, hookVars, wire, crashes>>

Hash == Seq(Hooks \cup Earlier)

(* The lock file: its creator (None: a process long gone), whether the     *)
(* process id is written in it yet, whether it is older than 5 seconds.    *)
LockFile == [owner : Hooks \cup {None}, named : BOOLEAN, old : BOOLEAN]
NoLock == [owner |-> None, named |-> FALSE, old |-> FALSE]

Steps == {"inspect", "open", "post", "sent", "lock", "judge", "stat", "reclaim", "name",
          "reinspect", "reopen", "write", "compare", "unlink",
          "done", "failed", "gaveUp", "crashed"}
Ended == {"done", "failed", "gaveUp", "crashed"}
Holding == {"name", "reinspect", "reopen", "write", "compare", "unlink"}
Fates == {"recorded", "retry", "throw"}
Packet == [kind : {"none", "request", "accepted", "rejected"}, head : Hash]
Silence == [kind |-> "none", head |-> <<>>]

TypeOK ==
  /\ server \in Hash
  /\ local \in Hash
  /\ lock \in LockFile
  /\ pc \in [Hooks -> Steps]
  /\ seen \in [Hooks -> Hash]
  /\ prev \in [Hooks -> Hash]
  /\ goal \in [Hooks -> Hash]
  /\ fate \in [Hooks -> Fates]
  /\ attempt \in [Hooks -> 0..MaxAttempts]
  /\ wire \in [Hooks -> Packet]
  /\ crashes \in 0..MaxCrashes

(* The state file may lag: another machine, or a hook that died, has       *)
(* recorded operations this machine does not know of.                      *)
Init ==
  /\ server \in {s \in SeqOf(Earlier, Cardinality(Earlier)) : IsInjective(s)}
  /\ local \in {s \in SeqOf(Earlier, Cardinality(Earlier)) : IsPrefix(s, server)}
  /\ lock \in {NoLock} \cup
       IF "deadLock" \in Faults
       THEN {[owner |-> None, named |-> n, old |-> TRUE] : n \in BOOLEAN}
       ELSE {}
  /\ pc = [h \in Hooks |-> "inspect"]
  /\ seen = [h \in Hooks |-> <<>>]
  /\ prev = [h \in Hooks |-> <<>>]
  /\ goal = [h \in Hooks |-> <<>>]
  /\ fate = [h \in Hooks |-> "throw"]
  /\ attempt = [h \in Hooks |-> 0]
  /\ wire = [h \in Hooks |-> Silence]
  /\ crashes = 0

Alive(h) == h \in Hooks /\ pc[h] \notin Ended
NoFile == local = <<>>

GoTo(h, step) == pc' = [pc EXCEPT ![h] = step]

(* readChainState outside the lock: the file is inspected, opened, and     *)
(* found to be the file inspected, or the hook fails.                      *)
Inspect(h) ==
  /\ pc[h] = "inspect"
  /\ IF NoFile
     THEN GoTo(h, "post") /\ prev' = [prev EXCEPT ![h] = <<>>] /\ UNCHANGED seen
     ELSE GoTo(h, "open") /\ seen' = [seen EXCEPT ![h] = local] /\ UNCHANGED prev
  /\ UNCHANGED <<server, local, lock, goal, fate, attempt, wire, crashes>>

Open(h) ==
  /\ pc[h] = "open"
  /\ IF local = seen[h]
     THEN GoTo(h, "post") /\ prev' = [prev EXCEPT ![h] = local]
     ELSE GoTo(h, "failed") /\ UNCHANGED prev
  /\ UNCHANGED <<server, local, lock, seen, goal, fate, attempt, wire, crashes>>

(* buildOperation gives every attempt a new operation id.                  *)
Post(h) ==
  /\ pc[h] = "post"
  /\ wire' = [wire EXCEPT ![h] = [kind |-> "request", head |-> prev[h]]]
  /\ GoTo(h, "sent")
  /\ UNCHANGED <<server, local, lock, hookVars, crashes>>

(* The server's side, whether or not the hook still waits.                 *)
Serve(h) ==
  /\ wire[h].kind = "request"
  /\ IF wire[h].head = server
     THEN /\ server' = Append(server, h)
          /\ wire' = [wire EXCEPT ![h].kind = "accepted"]
     ELSE /\ wire' = [wire EXCEPT ![h] = [kind |-> "rejected", head |-> server]]
          /\ UNCHANGED server
  /\ UNCHANGED <<local, lock, pc, hookVars, crashes>>

(* Mutant: a rejection moves the state file as an acceptance does.         *)
ReceiveOptimistic(h) ==
  /\ pc[h] = "sent"
  /\ wire[h].kind \in {"accepted", "rejected"}
  /\ goal' = [goal EXCEPT ![h] = Append(prev[h], h)]
  /\ fate' = [fate EXCEPT ![h] = IF wire[h].kind = "accepted" THEN "recorded" ELSE "retry"]
  /\ wire' = [wire EXCEPT ![h] = Silence]
  /\ attempt' = [attempt EXCEPT ![h] = @ + 1]
  /\ GoTo(h, "lock")
  /\ UNCHANGED <<server, local, lock, seen, prev, crashes>>

(* Mutant: a rejection does not tell the head to go on from.               *)
ReceiveNoResync(h) ==
  /\ pc[h] = "sent"
  /\ wire[h].kind \in {"accepted", "rejected"}
  /\ goal' = [goal EXCEPT ![h] = IF wire[h].kind = "accepted" THEN Append(prev[h], h) ELSE prev[h]]
  /\ fate' = [fate EXCEPT ![h] = IF wire[h].kind = "accepted" THEN "recorded" ELSE "retry"]
  /\ wire' = [wire EXCEPT ![h] = Silence]
  /\ attempt' = [attempt EXCEPT ![h] = @ + 1]
  /\ GoTo(h, "lock")
  /\ UNCHANGED <<server, local, lock, seen, prev, crashes>>

(* Mutant: an accepted operation does not move the state file.             *)
ReceiveNoAdvance(h) ==
  /\ pc[h] = "sent"
  /\ wire[h].kind \in {"accepted", "rejected"}
  /\ goal' = [goal EXCEPT ![h] = IF wire[h].kind = "accepted" THEN prev[h] ELSE wire[h].head]
  /\ fate' = [fate EXCEPT ![h] = IF wire[h].kind = "accepted" THEN "recorded" ELSE "retry"]
  /\ wire' = [wire EXCEPT ![h] = Silence]
  /\ attempt' = [attempt EXCEPT ![h] = @ + 1]
  /\ GoTo(h, "lock")
  /\ UNCHANGED <<server, local, lock, seen, prev, crashes>>

(* Mutant: a failed POST is tried again, under a new operation id.         *)
AbortRetries(h) ==
  /\ "abort" \in Faults
  /\ pc[h] = "sent"
  /\ attempt[h] < MaxAttempts
  /\ attempt' = [attempt EXCEPT ![h] = @ + 1]
  /\ wire' = [wire EXCEPT ![h] = Silence]
  /\ GoTo(h, "inspect")
  /\ UNCHANGED <<server, local, lock, seen, prev, goal, fate, crashes>>

(* The budget is spent, the request is aborted, or the answer is an error. *)
Abort(h) ==
  /\ "abort" \in Faults
  /\ pc[h] \in {"post", "sent"}
  /\ GoTo(h, "failed")
  /\ UNCHANGED <<server, local, lock, hookVars, wire, crashes>>

Receive(h) ==
  /\ pc[h] = "sent"
  /\ \/ /\ wire[h].kind = "accepted"
        /\ goal' = [goal EXCEPT ![h] = Append(prev[h], h)]
        /\ fate' = [fate EXCEPT ![h] = "recorded"]
     \/ /\ wire[h].kind = "rejected"
        /\ goal' = [goal EXCEPT ![h] = wire[h].head]
        /\ fate' = [fate EXCEPT ![h] = "retry"]
  /\ wire' = [wire EXCEPT ![h] = Silence]
  /\ attempt' = [attempt EXCEPT ![h] = @ + 1]
  /\ GoTo(h, "lock")
  /\ UNCHANGED <<server, local, lock, seen, prev, crashes>>

(* withChainLock: the lock file is created exclusively...                  *)
CreateLock(h) ==
  /\ pc[h] = "lock"
  /\ lock = NoLock
  /\ lock' = [owner |-> h, named |-> FALSE, old |-> FALSE]
  /\ GoTo(h, "name")
  /\ UNCHANGED <<server, local, hookVars, wire, crashes>>

FindLock(h) ==
  /\ pc[h] = "lock"
  /\ lock # NoLock
  /\ GoTo(h, "judge")
  /\ UNCHANGED <<server, local, lock, hookVars, wire, crashes>>

(* ... and then gets its owner's process id, if it is still there.         *)
NameLock(h) ==
  /\ pc[h] = "name"
  /\ lock' = IF lock.owner = h THEN [lock EXCEPT !.named = TRUE] ELSE lock
  /\ GoTo(h, "reinspect")
  /\ UNCHANGED <<server, local, hookVars, wire, crashes>>

(* Where it cannot be written, the hook fails outside the block that takes *)
(* the lock file away again.                                               *)
NameFails(h) ==
  /\ "unnamed" \in Faults
  /\ pc[h] = "name"
  /\ GoTo(h, "failed")
  /\ UNCHANGED <<server, local, lock, hookVars, wire, crashes>>

(* Mutant: a lock without a live owner is reclaimed however young it is.   *)
StatLockAnyAge(h) ==
  /\ pc[h] = "stat"
  /\ GoTo(h, IF lock # NoLock THEN "reclaim" ELSE "lock")
  /\ UNCHANGED <<server, local, lock, hookVars, wire, crashes>>

(* Mutant: an unnamed lock is never reclaimed.                             *)
StatLockNamedOnly(h) ==
  /\ pc[h] = "stat"
  /\ GoTo(h, IF lock.old /\ lock.named THEN "reclaim" ELSE "lock")
  /\ UNCHANGED <<server, local, lock, hookVars, wire, crashes>>

(* lockOwnerAlive                                                          *)
JudgeOwner(h) ==
  /\ pc[h] = "judge"
  /\ GoTo(h, IF lock.named /\ Alive(lock.owner) THEN "lock" ELSE "stat")
  /\ UNCHANGED <<server, local, lock, hookVars, wire, crashes>>

StatLock(h) ==
  /\ pc[h] = "stat"
  /\ GoTo(h, IF lock.old THEN "reclaim" ELSE "lock")
  /\ UNCHANGED <<server, local, lock, hookVars, wire, crashes>>

(* The rename takes away whatever lock is there by now.                    *)
Reclaim(h) ==
  /\ pc[h] = "reclaim"
  /\ lock' = NoLock
  /\ GoTo(h, "lock")
  /\ UNCHANGED <<server, local, hookVars, wire, crashes>>

WaitTooLong(h) ==
  /\ "timeout" \in Faults
  /\ \/ pc[h] = "judge" /\ lock.named /\ Alive(lock.owner)
     \/ pc[h] = "stat" /\ ~lock.old
  /\ GoTo(h, "failed")
  /\ UNCHANGED <<server, local, lock, hookVars, wire, crashes>>

(* A lock file grows old, but not as long as its creator is at work: what  *)
(* a hook does under the lock takes it far less than five seconds.         *)
LockAges ==
  /\ lock # NoLock
  /\ ~lock.old
  /\ ~Alive(lock.owner)
  /\ lock' = [lock EXCEPT !.old = TRUE]
  /\ UNCHANGED <<server, local, pc, hookVars, wire, crashes>>

(* Mutant: the state file is written without comparing it first.           *)
RereadUnchecked(h, found) == GoTo(h, "write")

(* advanceChainState: readChainState again, compare, write.                *)
Reread(h, found) ==
  GoTo(h, IF found = prev[h] THEN "write" ELSE "compare")

Reinspect(h) ==
  /\ pc[h] = "reinspect"
  /\ IF NoFile
     THEN Reread(h, <<>>) /\ UNCHANGED seen
     ELSE GoTo(h, "reopen") /\ seen' = [seen EXCEPT ![h] = local]
  /\ UNCHANGED <<server, local, lock, prev, goal, fate, attempt, wire, crashes>>

Reopen(h) ==
  /\ pc[h] = "reopen"
  /\ IF local = seen[h]
     THEN Reread(h, local) /\ UNCHANGED fate
     ELSE GoTo(h, "compare") /\ fate' = [fate EXCEPT ![h] = "throw"]
  /\ UNCHANGED <<server, local, lock, seen, prev, goal, attempt, wire, crashes>>

WriteState(h) ==
  /\ pc[h] = "write"
  /\ local' = goal[h]
  /\ GoTo(h, "compare")
  /\ UNCHANGED <<server, lock, hookVars, wire, crashes>>

(* The new file is complete before it is renamed: a write that fails, for  *)
(* want of space or of the permission, leaves the old one.                 *)
WriteFails(h) ==
  /\ "unwritten" \in Faults
  /\ pc[h] = "write"
  /\ fate' = [fate EXCEPT ![h] = "throw"]
  /\ GoTo(h, "compare")
  /\ UNCHANGED <<server, local, lock, seen, prev, goal, attempt, wire, crashes>>

Onward(h) ==
  CASE fate[h] = "throw" -> "failed"
    [] fate[h] = "recorded" -> "done"
    [] fate[h] = "retry" -> IF attempt[h] >= MaxAttempts THEN "gaveUp" ELSE "inspect"

(* The finally block: only its own lock file is removed, judged by inode.  *)
CompareLock(h) ==
  /\ pc[h] = "compare"
  /\ GoTo(h, IF lock.owner = h THEN "unlink" ELSE Onward(h))
  /\ UNCHANGED <<server, local, lock, hookVars, wire, crashes>>

Unlink(h) ==
  /\ pc[h] = "unlink"
  /\ lock' = NoLock
  /\ GoTo(h, IF lock = NoLock THEN "failed" ELSE Onward(h))
  /\ UNCHANGED <<server, local, hookVars, wire, crashes>>

(* The process is killed; its request and its lock file survive it.        *)
Crash(h) ==
  /\ crashes < MaxCrashes
  /\ Alive(h)
  /\ crashes' = crashes + 1
  /\ GoTo(h, "crashed")
  /\ UNCHANGED <<server, local, lock, hookVars, wire>>

Step(h) ==
  \/ Inspect(h) \/ Open(h) \/ Post(h) \/ Receive(h)
  \/ CreateLock(h) \/ FindLock(h) \/ NameLock(h)
  \/ JudgeOwner(h) \/ StatLock(h) \/ Reclaim(h)
  \/ Reinspect(h) \/ Reopen(h) \/ WriteState(h) \/ CompareLock(h) \/ Unlink(h)

Next ==
  \/ LockAges
  \/ \E h \in Hooks :
       \/ Step(h) \/ Serve(h) \/ Abort(h) \/ WaitTooLong(h) \/ Crash(h)
       \/ NameFails(h) \/ WriteFails(h)

Spec == Init /\ [][Next]_vars

(* A live process is scheduled; a POST is answered or, where that may      *)
(* fail, aborted by its timer; a lock left behind grows old.  The wait for *)
(* a lock is a loop that looks at its deadline every time round, so the    *)
(* deadline is met again and again but not held: strong fairness.          *)
Fairness ==
  /\ \A h \in Hooks : WF_vars(Step(h))
  /\ \A h \in Hooks :
       IF "abort" \in Faults THEN WF_vars(Abort(h)) ELSE WF_vars(Serve(h))
  /\ \A h \in Hooks : SF_vars(WaitTooLong(h))
  /\ WF_vars(LockAges)

FairSpec == Spec /\ Fairness

-----------------------------------------------------------------------------
(* What the hook runtime promises.                                         *)

AllEnded == \A h \in Hooks : pc[h] \in Ended
Recorded(h) == \E i \in DOMAIN server : server[i] = h

(* The state file always holds a hash that was the head of the server's    *)
(* chain at some time: crashes, lost answers and even two hooks at once    *)
(* under the lock may make it lag, never lead off the chain.               *)
LocalOnChain == IsPrefix(local, server)

(* A hook retries only what the server has refused, so however requests    *)
(* and answers are lost its action is recorded once, although each attempt *)
(* has an operation id of its own that the server cannot recognise.        *)
RecordedOnce == IsInjective(server)

(* Only one hook at a time is between the creation and the removal of the  *)
(* lock file, though the file is empty until the second step.              *)
LockExclusive ==
  \A h, i \in Hooks : pc[h] \in Holding /\ pc[i] \in Holding => h = i

(* Each rejection brings a hook to a newer head, so concurrent hooks of    *)
(* one machine do not use up each other's MAX_CHAIN_ATTEMPTS.              *)
NobodyGivesUp == \A h \in Hooks : pc[h] # "gaveUp"

(* When all hooks have ended, one has recorded its action and none waited  *)
(* too long or failed to write after recording its own, the state file has *)
(* the server's head: the next hook is accepted at once.                   *)
CaughtUp ==
  /\ AllEnded
  /\ \E h \in Hooks : Recorded(h)
  /\ \A h \in Hooks : Recorded(h) => pc[h] = "done"
  => local = server

(* The head on this machine is never replaced by an older one.             *)
NeverRegresses == [][IsPrefix(local, local')]_vars

(* No hook hangs: not on a lock whose creator died before or after writing *)
(* its process id, nor on the other hooks.                                 *)
EveryHookEnds == \A h \in Hooks : <>(pc[h] \in Ended)

-----------------------------------------------------------------------------
(* Why.                                                                    *)

Answered == {"lock", "judge", "stat", "reclaim"} \cup Holding

(* A hook whose operation is on the chain has no request under way and     *)
(* does not try again; one that goes on has read the answer.               *)
NotYet ==
  \A h \in Hooks : Recorded(h) =>
    /\ wire[h].kind # "request"
    /\ pc[h] \notin {"inspect", "open", "post"}
    /\ pc[h] = "sent" => wire[h].kind = "accepted"
    /\ pc[h] \in Answered => fate[h] # "retry"
Waiting == \A h \in Hooks : wire[h].kind # "none" => pc[h] \in {"sent", "failed", "crashed"}
OnceInv == RecordedOnce /\ NotYet /\ Waiting

(* Hash s has all that was recorded before the hooks came, and it counts   *)
(* so many of their operations.                                            *)
Current(s) == \A i \in DOMAIN server : server[i] \in Earlier => i <= Len(s)
Recorders(s) == {h \in Hooks : \E i \in DOMAIN s : s[i] = h}
Paid(n, s) == n > 0 => Current(s) /\ n <= Cardinality(Recorders(s)) + 1

(* The head a hook asked with was this machine's, which has only moved on, *)
(* and to a current head.  Every rejection is for a longer chain than the  *)
(* one before it: there are no more of them than hooks.                    *)
Asked(h) ==
  pc[h] \in {"post", "sent"} \cup Answered =>
    /\ IsPrefix(prev[h], local)
    /\ local = prev[h] \/ Current(local)
Told(h) ==
  /\ pc[h] = "sent" /\ wire[h].kind = "rejected" => Current(wire[h].head) /\ wire[h].head # prev[h]
  /\ pc[h] = "sent" /\ wire[h].kind = "accepted" => Current(Append(prev[h], h))
  /\ pc[h] \in Answered => Current(goal[h]) /\ goal[h] # prev[h]
Spent(h) ==
  /\ pc[h] \in {"inspect", "open"} => Paid(attempt[h], local)
  /\ pc[h] \in {"post", "sent"} => Paid(attempt[h], prev[h])
  /\ pc[h] \in Answered => attempt[h] > 0 /\ Paid(attempt[h] - 1, prev[h])
  /\ pc[h] \in {"compare", "unlink"} /\ fate[h] = "retry" => local # prev[h]
BudgetInv == \A h \in Hooks : Asked(h) /\ Told(h) /\ Spent(h)

(* The state file has got as far as every hook that is done with it.       *)
EarlierFirst ==
  \A i, j \in DOMAIN server : server[i] \in Earlier /\ j < i => server[j] \in Earlier
Advanced(h) ==
  /\ pc[h] = "done" => fate[h] = "recorded"
  /\ pc[h] \in Answered \cup {"done"} /\ fate[h] = "recorded" => goal[h] = Append(prev[h], h)
  /\ pc[h] \in {"compare", "unlink", "done"} /\ fate[h] = "recorded" => IsPrefix(goal[h], local)
CaughtInv == EarlierFirst /\ \A h \in Hooks : Advanced(h)
=============================================================================
