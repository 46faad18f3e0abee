-------------------------- MODULE EpochRollup_proofs --------------------------
(***************************************************************************)
(* The leaves of epochs, for any number of operations, schedulers, windows *)
(* and attempts and whatever fails: IInv is an inductive invariant.        *)
(***************************************************************************)
EXTENDS EpochRollup, TLAPS

LEMMA InitHolds == Init => IInv
<1> SUFFICES ASSUME Init PROVE IInv OBVIOUS
<1>1. TypeOK
  BY EpochAssumption DEF Init, TypeOK, Steps, Windows
<1> QED BY <1>1 DEF Init, IInv, RunsWait, LeavesComplete, PunctualStored,
               EpochsOfRuns, PunctualAreLeaves

(* Time moves on: a window that is over stays so.                          *)
LEMMA TickKeeps == ASSUME IInv, Tick PROVE IInv'
<1> USE DEF IInv, Tick, opVars, outVars
<1>1. TypeOK' BY EpochAssumption DEF TypeOK
<1>2. RunsWait'
  BY EpochAssumption DEF TypeOK, RunsWait, Window
<1>3. LeavesComplete' BY DEF LeavesComplete, Window
<1>4. EpochsOfRuns' BY DEF EpochsOfRuns
<1>5. PunctualAreLeaves' BY DEF PunctualAreLeaves, Window
<1>6. PunctualStored' BY DEF PunctualStored
<1> QED BY <1>1, <1>2, <1>3, <1>4, <1>5, <1>6

(* The operations' side: what becomes punctual now is of the window in     *)
(* progress, which no run has looked at.                                   *)
LEMMA OperationKeeps ==
  ASSUME IInv, NEW o \in Ops, Arrive(o) \/ Commit(o) \/ Delete(o)
  PROVE  IInv'
<1> USE DEF IInv, outVars
<1>1. TypeOK'
  <2>1. now \in Windows \cup {LastWindow + 1, None}
    BY EpochAssumption DEF TypeOK, Windows
  <2> QED BY <2>1 DEF TypeOK, Arrive, Commit, Delete
<1>2. /\ UNCHANGED <<now, at, leaves, epochs>>
      /\ \A p \in punctual' : row'[p] = "stored" =>
           \/ p \in punctual /\ row[p] = "stored" /\ received'[p] = received[p]
           \/ received'[p] = now
  <2>1. CASE Arrive(o)
    BY <2>1 DEF Arrive, TypeOK
  <2>2. CASE Commit(o)
    BY <2>2 DEF Commit, TypeOK, PunctualStored
  <2>3. CASE Delete(o)
    BY <2>3 DEF Delete, TypeOK
  <2> QED BY <2>1, <2>2, <2>3
<1>3. \A r \in Runs : Window(r) < now => now # Window(r)
  BY EpochAssumption DEF TypeOK, Window
<1>4. RunsWait' BY <1>2 DEF RunsWait, Window
<1>5. LeavesComplete'
  BY <1>2, <1>3 DEF LeavesComplete, RunsWait, Window
<1>6. EpochsOfRuns' BY <1>2 DEF EpochsOfRuns
<1>7. PunctualAreLeaves'
  BY <1>2, <1>3 DEF PunctualAreLeaves, EpochsOfRuns, RunsWait, Window
<1>8. PunctualStored'
  BY DEF PunctualStored, TypeOK, Arrive, Commit, Delete
<1> QED BY <1>1, <1>4, <1>5, <1>6, <1>7, <1>8

(* A step of a run r that leaves the epochs alone.                         *)
LEMMA RunKeeps ==
  ASSUME IInv, NEW r \in Runs, NEW step \in Steps \ {"idle"}, NEW S \in SUBSET Ops,
         Window(r) < now, TypeOK',
         UNCHANGED <<now, received, row, punctual, epochs>>,
         at' = [at EXCEPT ![r] = step], leaves' = [leaves EXCEPT ![r] = S],
         step \in {"put", "insert"} =>
           \A o \in punctual : row[o] = "stored" /\ received[o] = Window(r) => o \in S
  PROVE  IInv'
<1>1. /\ at \in [Runs -> Steps] /\ leaves \in [Runs -> SUBSET Ops]
      /\ at'[r] = step /\ leaves'[r] = S
      /\ \A q \in Runs : q # r => at'[q] = at[q] /\ leaves'[q] = leaves[q]
  BY DEF IInv, TypeOK
<1>2. RunsWait' BY <1>1 DEF IInv, RunsWait, Window
<1>3. LeavesComplete' BY <1>1 DEF IInv, LeavesComplete, Window
<1>4. EpochsOfRuns' BY <1>1 DEF IInv, EpochsOfRuns
<1>5. PunctualAreLeaves' BY DEF IInv, PunctualAreLeaves, Window
<1>6. PunctualStored' BY DEF IInv, PunctualStored
<1> QED BY <1>2, <1>3, <1>4, <1>5, <1>6 DEF IInv

(* The epoch inserted has the leaves that were read.                       *)
LEMMA InsertKeeps == ASSUME IInv, NEW r \in Runs, InsertEpoch(r) PROVE IInv'
<1> DEFINE new == [run |-> r, root |-> leaves[r]]
<1>1. /\ at \in [Runs -> Steps] /\ leaves \in [Runs -> SUBSET Ops]
      /\ at[r] = "insert" /\ epochs' = epochs \cup {new}
      /\ at' = [at EXCEPT ![r] = "send"] /\ leaves' = [leaves EXCEPT ![r] = {}]
      /\ UNCHANGED <<now, received, row, punctual, evidence, jobs, anchors>>
  BY DEF IInv, TypeOK, InsertEpoch, Goes, opVars
<1>2. new \in Tree /\ new.run = r /\ new.root = leaves[r] BY <1>1 DEF Tree
<1>3. \A o \in punctual : row[o] = "stored" /\ received[o] = Window(r) => o \in new.root
  BY <1>1, <1>2 DEF IInv, LeavesComplete
<1> HIDE DEF new
<1>4. TypeOK' BY <1>1, <1>2 DEF IInv, TypeOK, Steps
<1>5. RunsWait' BY <1>1 DEF IInv, RunsWait, Window
<1>6. LeavesComplete' BY <1>1 DEF IInv, LeavesComplete, Window
<1>7. EpochsOfRuns' BY <1>1, <1>2 DEF IInv, EpochsOfRuns
<1>8. PunctualAreLeaves' BY <1>1, <1>2, <1>3 DEF IInv, PunctualAreLeaves, Window
<1>9. PunctualStored' BY <1>1 DEF IInv, PunctualStored
<1> QED BY <1>4, <1>5, <1>6, <1>7, <1>8, <1>9 DEF IInv

(* Queue and worker touch neither the runs nor the epochs.                 *)
LEMMA JobKeeps ==
  ASSUME IInv, TypeOK', UNCHANGED <<now, received, row, punctual, at, leaves, epochs>>
  PROVE  IInv'
BY DEF IInv, RunsWait, LeavesComplete, PunctualStored, EpochsOfRuns, PunctualAreLeaves, Window

(* IInv holds in every state of the rollup.                                *)
THEOREM Invariance == Spec => []IInv
<1>1. IInv /\ [Next]_vars => IInv'
  <2> SUFFICES ASSUME IInv, [Next]_vars PROVE IInv' OBVIOUS
  <2>0. /\ TypeOK /\ RunsWait /\ LeavesComplete
        /\ at \in [Runs -> Steps] /\ leaves \in [Runs -> SUBSET Ops]
        /\ now \in Nat /\ LastWindow \in Nat /\ Attempts \in Nat \ {0}
        /\ \A r \in Runs : Window(r) \in Nat
    BY EpochAssumption DEF IInv, TypeOK, Window
  <2>1. CASE Tick BY <2>1, TickKeeps
  <2>2. ASSUME NEW o \in Ops, Arrive(o) \/ Commit(o) \/ Delete(o) PROVE IInv'
    BY <2>2, OperationKeeps
  <2>3. ASSUME NEW r \in Runs, RunStep(r) \/ RunFails(r) \/ Anchor(r) \/ TsaFails(r)
        PROVE  IInv'
    <3>0. /\ leaves = [leaves EXCEPT ![r] = leaves[r]] /\ leaves[r] \in SUBSET Ops
          /\ at[r] # "idle" => Window(r) < now
      BY <2>0 DEF RunsWait
    <3>1. CASE RunStarts(r)
      <4>1. PICK step \in {"done", "check"} :
              at' = [at EXCEPT ![r] = step] /\ UNCHANGED <<now, opVars, outVars>>
        BY <3>1 DEF RunStarts, Goes
      <4>2. TypeOK' BY <2>0, <4>1 DEF TypeOK, Steps, opVars, outVars
      <4>3. Window(r) < now BY <2>0, <3>1 DEF RunStarts
      <4> QED BY <3>0, <4>1, <4>2, <4>3, RunKeeps DEF Steps, opVars, outVars
    <3>2. CASE CheckExisting(r)
      <4>1. PICK step \in {"done", "read"} :
              at' = [at EXCEPT ![r] = step] /\ UNCHANGED <<now, opVars, outVars>>
        BY <3>2 DEF CheckExisting, Goes
      <4>2. TypeOK' BY <2>0, <4>1 DEF TypeOK, Steps, opVars, outVars
      <4>3. Window(r) < now BY <3>0, <3>2 DEF CheckExisting
      <4> QED BY <3>0, <4>1, <4>2, <4>3, RunKeeps DEF Steps, opVars, outVars
    <3>3. CASE ReadOperations(r)
      <4>1. PICK step \in {"done", "put"} :
              at' = [at EXCEPT ![r] = step]
        BY <3>3 DEF ReadOperations, Goes
      <4>2. /\ leaves' = [leaves EXCEPT ![r] = RowsIn(Window(r))]
            /\ UNCHANGED <<now, received, row, punctual, evidence, epochs, jobs, anchors>>
        BY <3>3 DEF ReadOperations, opVars
      <4>3. RowsIn(Window(r)) \in SUBSET Ops BY DEF RowsIn
      <4>4. TypeOK' BY <2>0, <4>1, <4>2, <4>3 DEF TypeOK, Steps
      <4>5. Window(r) < now BY <3>0, <3>3 DEF ReadOperations
      <4>6. \A o \in punctual : row[o] = "stored" /\ received[o] = Window(r) => o \in RowsIn(Window(r))
        BY <2>0 DEF TypeOK, RowsIn, InWindow
      <4> QED BY <4>1, <4>2, <4>3, <4>4, <4>5, <4>6, RunKeeps DEF Steps
    <3>4. CASE PutEvidence(r)
      <4>1. /\ at' = [at EXCEPT ![r] = "insert"] /\ at[r] = "put"
            /\ UNCHANGED <<now, received, row, punctual, leaves, epochs, jobs, anchors>>
            /\ evidence' = evidence \cup {[run |-> r, root |-> leaves[r]]}
        BY <3>4 DEF PutEvidence, Goes, opVars
      <4>2. TypeOK' BY <2>0, <4>1 DEF TypeOK, Steps, Tree
      <4>3. Window(r) < now BY <3>0, <4>1
      <4>4. \A o \in punctual : row[o] = "stored" /\ received[o] = Window(r) => o \in leaves[r]
        BY <2>0, <4>1 DEF LeavesComplete
      <4> QED BY <3>0, <4>1, <4>2, <4>3, <4>4, RunKeeps DEF Steps
    <3>5. CASE InsertEpoch(r) BY <3>5, InsertKeeps
    <3>6. CASE SendTsa(r)
      <4>1. /\ at' = [at EXCEPT ![r] = "done"] /\ at[r] = "send"
            /\ jobs' = [jobs EXCEPT ![r] = Attempts]
            /\ UNCHANGED <<now, received, row, punctual, leaves, evidence, epochs, anchors>>
        BY <3>6 DEF SendTsa, Goes, opVars
      <4>2. TypeOK' BY <2>0, <4>1 DEF TypeOK, Steps
      <4>3. Window(r) < now BY <3>0, <4>1
      <4> QED BY <3>0, <4>1, <4>2, <4>3, RunKeeps DEF Steps
    <3>7. CASE RunFails(r)
      <4>1. /\ at' = [at EXCEPT ![r] = "failed"] /\ at[r] # "idle"
            /\ leaves' = [leaves EXCEPT ![r] = {}]
            /\ UNCHANGED <<now, received, row, punctual, evidence, epochs, jobs, anchors>>
        BY <3>7 DEF RunFails, Goes, opVars
      <4>2. TypeOK' BY <2>0, <4>1 DEF TypeOK, Steps
      <4>3. Window(r) < now BY <3>0, <4>1
      <4>4. {} \in SUBSET Ops /\ "failed" \in Steps \ {"idle"} BY DEF Steps
      <4>5. "failed" \notin {"put", "insert"} OBVIOUS
      <4> QED BY <4>1, <4>2, <4>3, <4>4, <4>5, RunKeeps
    <3>8. CASE Anchor(r)
      <4>1. TypeOK' BY <2>0, <3>8 DEF Anchor, TypeOK, opVars
      <4> QED BY <3>8, <4>1, JobKeeps DEF Anchor, opVars
    <3>9. CASE TsaFails(r)
      <4>1. jobs[r] \in 0..Attempts /\ jobs[r] > 0
        BY <2>0, <3>9 DEF TsaFails, TypeOK
      <4>2. jobs[r] - 1 \in 0..Attempts BY <2>0, <4>1
      <4>3. TypeOK' BY <2>0, <3>9, <4>2 DEF TsaFails, TypeOK, opVars
      <4> QED BY <3>9, <4>3, JobKeeps DEF TsaFails, opVars
    <3> QED BY <2>3, <3>1, <3>2, <3>3, <3>4, <3>5, <3>6, <3>7, <3>8, <3>9 DEF RunStep
  <2>4. CASE UNCHANGED vars
    <3>1. TypeOK' BY <2>0, <2>4 DEF vars, TypeOK
    <3> QED BY <2>4, <3>1, JobKeeps DEF vars
  <2> QED BY <2>1, <2>2, <2>3, <2>4 DEF Next
<1> QED BY <1>1, InitHolds, PTL DEF Spec

(* An operation stored within its window is a leaf of every epoch of that  *)
(* window (scheduler.ts:37-50, epoch-service.ts:97-161).                   *)
THEOREM LeavesTheorem == Spec => []PunctualAreLeaves
<1>1. IInv => PunctualAreLeaves BY DEF IInv
<1> QED BY <1>1, Invariance, PTL
=============================================================================
