---------------------------- MODULE EpochRollup ----------------------------
(***************************************************************************)
(* The epochs of one organization: the scheduler's cron job                *)
(* (scheduler.ts), which rolls the operations received in the last full    *)
(* window up into a Merkle tree (createEpoch of services/epoch-service.ts) *)
(* and enqueues its root for a timestamp, and the worker's TSA job         *)
(* (worker.ts).                                                            *)
(*                                                                         *)
(* Time is counted in windows of DEFAULT_EPOCH_INTERVAL_MS.  An operation  *)
(* is dated when its request arrives (receivedAt in submitOperation) and   *)
(* stored by a transaction that may commit much later.  A Merkle tree is   *)
(* sorted by leaf, so it is modelled by the set of its leaves.             *)
(***************************************************************************)
EXTENDS Naturals, FiniteSets

CONSTANTS
  Ops,          \* operations
  Runs,         \* runs of the cron job: <<scheduler, window>>; a window has more
                \* than one when schedulers overlap, as in a rolling update
  LastWindow,   \* bound: the last window that is rolled up
  Attempts,     \* attempts of a queue job (adapters/bullmq.ts)
  Faults,       \* what may go wrong, see FaultNames
  None

FaultNames == {"missed",   \* a scheduler is not running when its cron job is due
               "error",    \* a call of a rollup fails, or its process dies
               "tsa"}      \* the timestamp authority or the object store fails

ASSUME EpochAssumption ==
  /\ LastWindow \in Nat
  /\ Attempts \in Nat \ {0}
  /\ Faults \subseteq FaultNames
  /\ \A r \in Runs : r[2] \in 0..LastWindow
  /\ None \notin Nat

Windows == 0..LastWindow
(* The cron job runs every interval: once per scheduler and window.  The   *)
(* epoch id and the object key are the run's own.                          *)
Window(r) == r[2]

VARIABLES
  now,        \* the window in progress
  received,   \* when each operation's request arrived, None if it has not
  row,        \* whether each operation's row is there
  punctual,   \* history: operations that were stored within their own window
  at,         \* where each run of the cron job is
  leaves,     \* the operations its Merkle tree is built from, until it ends
  evidence,   \* object store: the tree under each epoch's key
  epochs,     \* the epochs rows
  jobs,       \* attempts left of the TSA job of each epoch, 0 if there is none
  anchors     \* object store: the epochs that have a tsa-anchor

vars == <<now, received, row, punctual, at, leaves, evidence, epochs, jobs, anchors>>
opVars == <<received, row, punctual>>
outVars == <<leaves, evidence, epochs, jobs, anchors>>

(* An epoch is named by the run that made it.                              *)
Tree == [run : Runs, root : SUBSET Ops]
Steps == {"idle", "check", "read", "put", "insert", "send", "done", "failed"}

TypeOK ==
  /\ now \in 0..LastWindow + 1
  /\ received \in [Ops -> Windows \cup {LastWindow + 1, None}]
  /\ row \in [Ops -> {"absent", "stored", "deleted"}]
  /\ punctual \subseteq Ops
  /\ at \in [Runs -> Steps]
  /\ leaves \in [Runs -> SUBSET Ops]
  /\ evidence \subseteq Tree
  /\ epochs \subseteq Tree
  /\ jobs \in [Runs -> 0..Attempts]
  /\ anchors \subseteq Runs

Init ==
  /\ now = 0
  /\ received = [o \in Ops |-> None]
  /\ row = [o \in Ops |-> "absent"]
  /\ punctual = {}
  /\ at = [r \in Runs |-> "idle"]
  /\ leaves = [r \in Runs |-> {}]
  /\ evidence = {}
  /\ epochs = {}
  /\ jobs = [r \in Runs |-> 0]
  /\ anchors = {}

(* Cron jobs start on time unless a scheduler is down.                     *)
Tick ==
  /\ now <= LastWindow
  /\ "missed" \in Faults \/ \A r \in Runs : Window(r) < now => at[r] # "idle"
  /\ now' = now + 1
  /\ UNCHANGED <<opVars, at, outVars>>

(* The operations' side, OperationIngest seen from here.                   *)
Arrive(o) ==
  /\ received[o] = None
  /\ received' = [received EXCEPT ![o] = now]
  /\ UNCHANGED <<now, row, punctual, at, outVars>>

Commit(o) ==
  /\ received[o] # None
  /\ row[o] = "absent"
  /\ row' = [row EXCEPT ![o] = "stored"]
  /\ punctual' = IF received[o] = now THEN punctual \cup {o} ELSE punctual
  /\ UNCHANGED <<now, received, at, outVars>>

(* The deletion of its agent.                                              *)
Delete(o) ==
  /\ row[o] = "stored"
  /\ row' = [row EXCEPT ![o] = "deleted"]
  /\ UNCHANGED <<now, received, punctual, at, outVars>>

(* created_at >= ? AND created_at < ?                                      *)
InWindow(o, w) == received[o] = w

RowsIn(w) == {o \in Ops : row[o] = "stored" /\ InWindow(o, w)}

Goes(r, step) == at' = [at EXCEPT ![r] = step]

(* Mutant: the window in progress is rolled up.                            *)
RunStartsEarly(r) ==
  /\ at[r] = "idle"
  /\ now \in {Window(r), Window(r) + 1}
  /\ Goes(r, IF RowsIn(Window(r)) = {} THEN "done" ELSE "check")
  /\ UNCHANGED <<now, opVars, outVars>>

(* runEpochCreation: only the last full window is looked at.               *)
RunStarts(r) ==
  /\ at[r] = "idle"
  /\ now = Window(r) + 1
  /\ Goes(r, IF RowsIn(Window(r)) = {} THEN "done" ELSE "check")
  /\ UNCHANGED <<now, opVars, outVars>>

(* Mutant: any epoch of the organization will do.                          *)
CheckExistingAny(r) ==
  /\ at[r] = "check"
  /\ Goes(r, IF epochs # {} THEN "done" ELSE "read")
  /\ UNCHANGED <<now, opVars, outVars>>

(* createEpoch                                                             *)
CheckExisting(r) ==
  /\ at[r] = "check"
  /\ Goes(r, IF \E e \in epochs : Window(e.run) = Window(r) THEN "done" ELSE "read")
  /\ UNCHANGED <<now, opVars, outVars>>

ReadOperations(r) ==
  /\ at[r] = "read"
  /\ leaves' = [leaves EXCEPT ![r] = RowsIn(Window(r))]
  /\ Goes(r, IF RowsIn(Window(r)) = {} THEN "done" ELSE "put")
  /\ UNCHANGED <<now, opVars, evidence, epochs, jobs, anchors>>

PutEvidence(r) ==
  /\ at[r] = "put"
  /\ evidence' = evidence \cup {[run |-> r, root |-> leaves[r]]}
  /\ Goes(r, "insert")
  /\ UNCHANGED <<now, opVars, leaves, epochs, jobs, anchors>>

InsertEpoch(r) ==
  /\ at[r] = "insert"
  /\ epochs' = epochs \cup {[run |-> r, root |-> leaves[r]]}
  /\ leaves' = [leaves EXCEPT ![r] = {}]
  /\ Goes(r, "send")
  /\ UNCHANGED <<now, opVars, evidence, jobs, anchors>>

SendTsa(r) ==
  /\ at[r] = "send"
  /\ jobs' = [jobs EXCEPT ![r] = Attempts]
  /\ Goes(r, "done")
  /\ UNCHANGED <<now, opVars, leaves, evidence, epochs, anchors>>

(* Every error is caught and logged; what was done remains, and no later   *)
(* run looks at the window again.                                          *)
RunFails(r) ==
  /\ "error" \in Faults
  /\ at[r] \notin {"idle", "done", "failed"}
  /\ leaves' = [leaves EXCEPT ![r] = {}]
  /\ Goes(r, "failed")
  /\ UNCHANGED <<now, opVars, evidence, epochs, jobs, anchors>>

(* processTSA                                                              *)
Anchor(r) ==
  /\ jobs[r] > 0
  /\ jobs' = [jobs EXCEPT ![r] = 0]
  /\ anchors' = anchors \cup {r}
  /\ UNCHANGED <<now, opVars, at, leaves, evidence, epochs>>

(* The last attempt is taken to succeed unless the authority may fail for  *)
(* good.                                                                   *)
TsaFails(r) ==
  /\ jobs[r] > IF "tsa" \in Faults THEN 0 ELSE 1
  /\ jobs' = [jobs EXCEPT ![r] = @ - 1]
  /\ UNCHANGED <<now, opVars, at, leaves, evidence, epochs, anchors>>

RunStep(r) ==
  \/ RunStarts(r) \/ CheckExisting(r) \/ ReadOperations(r)
  \/ PutEvidence(r) \/ InsertEpoch(r) \/ SendTsa(r)

Next ==
  \/ Tick
  \/ \E o \in Ops : Arrive(o) \/ Commit(o) \/ Delete(o)
  \/ \E r \in Runs : RunStep(r) \/ RunFails(r) \/ Anchor(r) \/ TsaFails(r)

Spec == Init /\ [][Next]_vars

(* Time passes, the scheduler and the worker are scheduled.  Nothing makes *)
(* a client submit or a submission commit.                                 *)
Fairness ==
  /\ WF_vars(Tick)
  /\ \A r \in Runs : WF_vars(RunStep(r)) /\ WF_vars(Anchor(r))

FairSpec == Spec /\ Fairness

-----------------------------------------------------------------------------
(* What the epochs promise.                                                *)

(* An operation stored within its window is a leaf of every epoch of the   *)
(* window, whichever scheduler made it, so verifyOperation's Merkle check  *)
(* does not depend on the epoch it finds.                                  *)
PunctualAreLeaves ==
  \A e \in epochs : \A o \in punctual :
    row[o] = "stored" /\ received[o] = Window(e.run) => o \in e.root

(* Why: a run starts when its window is over, when nothing more becomes    *)
(* punctual in it, and reads the table after that.                         *)
RunsWait == \A r \in Runs : at[r] # "idle" => Window(r) < now
LeavesComplete ==
  \A r \in Runs : at[r] \in {"put", "insert"} =>
    \A o \in punctual : row[o] = "stored" /\ received[o] = Window(r) => o \in leaves[r]
PunctualStored == \A o \in punctual : row[o] # "absent"
EpochsOfRuns == \A e \in epochs : e.run \in Runs /\ at[e.run] # "idle"

IInv ==
  /\ TypeOK /\ RunsWait /\ LeavesComplete
  /\ PunctualStored /\ EpochsOfRuns /\ PunctualAreLeaves

(* Every stored operation is a leaf of the epoch of its window.            *)
AllAreLeaves == \A e \in epochs : RowsIn(Window(e.run)) \subseteq e.root

(* A run of window w was missed or failed, or its TSA job was dropped.     *)
InTrouble(w) ==
  \E r \in Runs : Window(r) = w /\
    \/ at[r] = "idle" /\ now > w + 1
    \/ at[r] = "failed"
    \/ at[r] = "done" /\ jobs[r] = 0 /\ r \notin anchors /\ \E e \in epochs : e.run = r

(* An operation stored within its window reaches a timestamped epoch       *)
(* through scheduler, queue and worker, unless one of these had trouble in *)
(* that very window: trouble in other windows does not matter.             *)
PunctualAnchored ==
  \A o \in Ops : (o \in punctual /\ received[o] \in Windows)
    ~> \/ row[o] = "deleted" \/ InTrouble(received[o])
       \/ \E e \in epochs : o \in e.root /\ e.run \in anchors
=============================================================================
