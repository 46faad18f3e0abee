---------------------- MODULE ManagedTransaction_proofs ----------------------
(***************************************************************************)
(* The file transaction, for any number of files, conditions, edits and    *)
(* faults: TransactionInv is an inductive invariant.                       *)
(***************************************************************************)
EXTENDS ManagedTransaction, FiniteSetTheorems, WellFoundedInduction, TLAPS

(* The list of changes has a first and a last of any files in it.          *)
LEMMA Smallest ==
    ASSUME NEW T, T \subseteq Nat, T # {}
    PROVE  \E x \in T : \A y \in T : x <= y
<1>1. \E x \in T : \A y \in T : ~ (<<y, x>> \in OpToRel(<, Nat))
    BY NatLessThanWellFounded, WFMin, Zenon
<1>2. \A x, y \in Nat : y < x => <<y, x>> \in OpToRel(<, Nat)
    BY Zenon DEF OpToRel
<1>3. \A x, y \in Nat : ~ (y < x) => x <= y OBVIOUS
<1> QED BY <1>1, <1>2, <1>3, Zenon

LEMMA Chosen ==
    ASSUME NEW S, S \subseteq Files, S # {}
    PROVE  /\ First(S) \in S /\ Last(S) \in S
           /\ \A g \in S : Pos[First(S)] <= Pos[g] /\ Pos[g] <= Pos[Last(S)]
<1> PICK n : n = Cardinality(Files) OBVIOUS
<1>1. n \in Nat /\ Pos \in [Files -> 1..n]
    BY TransactionConstants, FS_CardinalityType
<1>2. \E f \in S : \A g \in S : Pos[f] <= Pos[g]
    <2> DEFINE T == {Pos[f] : f \in S}
    <2>1. T \subseteq Nat /\ T # {} BY <1>1
    <2> HIDE DEF T
    <2>2. PICK x \in T : \A y \in T : x <= y BY <2>1, Smallest
    <2> QED BY <2>2 DEF T
<1>3. \E f \in S : \A g \in S : Pos[g] <= Pos[f]
    <2> DEFINE T == {n - Pos[f] : f \in S}
    <2>1. T \subseteq Nat /\ T # {} BY <1>1
    <2> HIDE DEF T
    <2>2. PICK x \in T : \A y \in T : x <= y BY <2>1, Smallest
    <2>3. PICK f \in S : x = n - Pos[f] BY DEF T
    <2>4. \A g \in S : n - Pos[f] <= n - Pos[g] BY <2>2, <2>3 DEF T
    <2>5. \A g \in S : Pos[g] <= Pos[f] BY <1>1, <2>4
    <2> QED BY <2>5
<1> QED BY <1>2, <1>3 DEF First, Last

LEMMA VersionType ==
    ASSUME NEW v \in Version, NEW e \in Edits
    PROVE  /\ [v EXCEPT !.inode = "copy"] \in Version
           /\ [v EXCEPT !.inode = "copy"].text = v.text
           /\ [v EXCEPT !.text = e] \in Version
           /\ [v EXCEPT !.text = e].text = e
BY DEF Version

LEMMA InitTyped == Init => TypeOK
BY TransactionConstants DEF Init, TypeOK, All, Was, Version, Sequence

(* The file a step is about.                                               *)
LEMMA Current ==
    ASSUME TypeOK, Progress
    PROVE  /\ pc \in {"stage", "write"} => ToStage \in Changes \ staged /\ ToStage \in Files
           /\ pc \in {"check", "rename"} => ToCommit \in staged \ committed /\ ToCommit \in Files
           /\ (pc = "undo" /\ committed # undone) \/ pc = "restore" =>
                ToUndo \in committed \ undone /\ ToUndo \in Files
<1>1. /\ committed \subseteq Files /\ staged \subseteq Files /\ Changes \subseteq Files
    BY DEF TypeOK, Changes
<1>2. /\ pc \in {"stage", "write"} => Changes \ staged # {}
      /\ pc \in {"check", "rename"} => staged \ committed # {}
      /\ (pc = "undo" /\ committed # undone) \/ pc = "restore" => committed \ undone # {}
    BY DEF Progress
<1>3. pc \in {"stage", "write"} => ToStage \in Changes \ staged
    BY <1>1, <1>2, Chosen DEF ToStage
<1>4. pc \in {"check", "rename"} => ToCommit \in staged \ committed
    BY <1>1, <1>2, Chosen DEF ToCommit
<1>5. (pc = "undo" /\ committed # undone) \/ pc = "restore" => ToUndo \in committed \ undone
    BY <1>1, <1>2, Chosen DEF ToUndo
<1> QED BY <1>1, <1>3, <1>4, <1>5

LEMMA NextTyped == TypeOK /\ Progress /\ [Next]_vars => TypeOK'
<1> SUFFICES ASSUME TypeOK, Progress, [Next]_vars PROVE TypeOK' OBVIOUS
<1> USE DEF TypeOK, plans, stages, All, Sequence, Guards, Ended, Fault, Test
<1>1. CASE UNCHANGED vars BY <1>1 DEF vars
<1>2. ASSUME NEW f \in All, ReadSource(f) PROVE TypeOK'
    BY <1>2 DEF ReadSource
<1>3. ASSUME NEW f \in Files, Prepare(f) PROVE TypeOK'
    BY <1>3, TransactionConstants DEF Prepare
<1>4. CASE AssertPreconditions
    <2>1. pc' \in Sequence /\ seen' \subseteq Conditions /\ faults' \in 0..MaxFaults
        BY <1>4, TransactionConstants DEF AssertPreconditions, AfterGuard
    <2> QED BY <1>4, <2>1 DEF AssertPreconditions
<1>5. CASE MakeDirectories BY <1>5, TransactionConstants DEF MakeDirectories
<1>6. CASE StageCheck BY <1>6, TransactionConstants DEF StageCheck
<1>7. CASE Stage
    <2> PICK f \in Files : f = ToStage BY <1>7, Current DEF Stage
    <2>1. CopyOf(f) \in {None} \cup Version
        <3>1. original[f] # None => [original[f] EXCEPT !.inode = "copy"] \in Version
            BY DEF Version
        <3> QED BY <3>1 DEF CopyOf
    <2>2. backup' \in [Files -> {None} \cup Version]
        <3>1. backup' \in {backup, [backup EXCEPT ![f] = CopyOf(f)]} BY <1>7 DEF Stage
        <3> QED BY <2>1, <3>1
    <2>3. staged' \subseteq Files /\ temp' \subseteq Files /\ faults' \in 0..MaxFaults
        BY <1>7, TransactionConstants DEF Stage
    <2>4. pc' \in Sequence BY <1>7 DEF Stage
    <2> QED BY <1>7, <2>2, <2>3, <2>4 DEF Stage
<1>8. CASE CommitCheck BY <1>8, TransactionConstants DEF CommitCheck
<1>9. CASE Rename
    <2> PICK f \in Files : f = ToCommit BY <1>9, Current DEF Rename
    <2>1. New \in Version BY DEF New, Version
    <2>2. disk' \in [Files \cup Conditions -> {None} \cup Version]
        <3>1. disk' \in {disk, [disk EXCEPT ![f] = None], [disk EXCEPT ![f] = New]}
            BY <1>9 DEF Rename
        <3> QED BY <2>1, <3>1
    <2>3. backup' \in [Files -> {None} \cup Version]
        <3>1. backup' \in {backup, [backup EXCEPT ![f] = disk[f]]}
            BY <1>9 DEF Rename
        <3> QED BY <3>1
    <2>4. committed' \subseteq Files /\ temp' \subseteq Files BY <1>9 DEF Rename
    <2>5. pc' \in Sequence /\ faults' \in 0..MaxFaults
        BY <1>9, TransactionConstants DEF Rename
    <2> QED BY <1>9, <2>2, <2>3, <2>4, <2>5 DEF Rename
<1>10. CASE Verify
    <2> PICK f : f = Renamed OBVIOUS
    <2>1. receipt' \in {receipt, [receipt EXCEPT ![f] = disk[f]]} BY <1>10 DEF Verify
    <2>2. receipt' \in [Files -> {None} \cup Version]
        <3>1. CASE f \in Files BY <2>1, <3>1
        <3>2. CASE f \notin Files BY <2>1, <3>2
        <3> QED BY <3>1, <3>2
    <2>3. pc' \in Sequence /\ faults' \in 0..MaxFaults
        BY <1>10, TransactionConstants DEF Verify
    <2> QED BY <1>10, <2>2, <2>3 DEF Verify
<1>11. CASE UndoCheck
    <2> PICK f \in Files : f = ToUndo BY <1>11, Current DEF UndoCheck
    <2>1. pc' \in Sequence /\ faults' \in 0..MaxFaults
        BY <1>11, TransactionConstants DEF UndoCheck
    <2>2. undone' \in {undone, undone \cup {f}} /\ kept' \in {kept, kept \cup {f}}
        BY <1>11 DEF UndoCheck
    <2> QED BY <1>11, <2>1, <2>2 DEF UndoCheck
<1>12. CASE Restore
    <2> PICK f \in Files : f = ToUndo BY <1>12, Current DEF Restore
    <2>1. faults' \in 0..MaxFaults
        BY <1>12, TransactionConstants DEF Restore
    <2>2. undone' = undone \cup {f} /\ kept' \in {kept, kept \cup {f}}
        BY <1>12 DEF Restore
    <2>3. /\ disk' \in {disk, [disk EXCEPT ![f] = backup[f]]}
          /\ backup' \in {backup, [backup EXCEPT ![f] = None]}
        BY <1>12 DEF Restore
    <2> QED BY <1>12, <2>1, <2>2, <2>3 DEF Restore
<1>13. ASSUME NEW left \in SUBSET Files, Clean(left) PROVE TypeOK'
    BY <1>13, TransactionConstants DEF Clean, AfterClean
<1>14. CASE Crash BY <1>14, TransactionConstants DEF Crash
<1>15. ASSUME NEW f \in All, NEW e \in unused, Edit(f, e) PROVE TypeOK'
    <2>1. disk' \in [All -> {None} \cup Version]
        <3>1. [text |-> e, inode |-> e] \in Version BY DEF Version
        <3>2. disk[f] # None => [disk[f] EXCEPT !.text = e] \in Version BY VersionType
        <3> QED BY <1>15, <3>1, <3>2 DEF Edit
    <2>2. touched' \in [All -> {"no", "early", "late", "gap"}]
        BY <1>15 DEF Edit, Moment
    <2> QED BY <1>15, <2>1, <2>2 DEF Edit
<1> QED BY <1>1, <1>2, <1>3, <1>4, <1>5, <1>6, <1>7, <1>8, <1>9, <1>10, <1>11,
          <1>12, <1>13, <1>14, <1>15 DEF Next, Step

(* How far the transaction is.                                             *)
LEMMA ProgressKept == TypeOK /\ Progress /\ [Next]_vars => Progress'
<1> SUFFICES ASSUME TypeOK, Progress, [Next]_vars PROVE Progress' OBVIOUS
<1>0. UNCHANGED <<removed, original>> => Changes' = Changes BY DEF Changes
<1> USE DEF Progress, plans, stages, Test
<1>1. CASE UNCHANGED vars BY <1>0, <1>1 DEF vars
<1>2. ASSUME NEW f \in All, ReadSource(f) PROVE Progress'
    BY <1>0, <1>2 DEF ReadSource
<1>3. ASSUME NEW f \in Files, Prepare(f) PROVE Progress'
    <2>1. staged = {} /\ committed = {} /\ undone = {} /\ kept = {}
          /\ UNCHANGED <<staged, committed, undone, kept>> /\ pc = "prepare"
        BY <1>3 DEF Prepare
    <2>2. pc' \in {"prepare", "failed"} \/ (pc' = "enter" /\ snapped' = Files)
        BY <1>3 DEF Prepare
    <2> QED BY <2>1, <2>2
<1>4. CASE AssertPreconditions
    BY <1>0, <1>4 DEF AssertPreconditions, AfterGuard, Guards
<1>5. CASE MakeDirectories BY <1>0, <1>5 DEF MakeDirectories
<1>6. CASE StageCheck BY <1>0, <1>6 DEF StageCheck
<1>7. CASE Stage
    <2>1. ToStage \in Changes \ staged /\ Changes \subseteq Files
        BY <1>7, Current DEF Stage, Changes
    <2> QED BY <1>0, <1>7, <2>1 DEF Stage
<1>8. CASE CommitCheck BY <1>0, <1>8 DEF CommitCheck
<1>9. CASE Rename
    <2>1. ToCommit \in staged \ committed BY <1>9, Current DEF Rename
    <2>2. /\ committed' \in {committed, committed \cup {ToCommit}}
          /\ pc = "rename" /\ pc' \in {"verify", "undo"}
          /\ UNCHANGED <<plans, staged, undone, kept>>
        BY <1>9 DEF Rename
    <2> QED BY <1>0, <2>1, <2>2
<1>10. CASE Verify
    <2>1. /\ pc = "verify" /\ UNCHANGED <<plans, staged, committed, undone, kept>>
        BY <1>10 DEF Verify
    <2>2. pc' \in {"last", "undo"} \/ (pc' = "guard" /\ committed # staged)
        BY <1>10 DEF Verify
    <2> QED BY <1>0, <2>1, <2>2
<1>11. CASE UndoCheck
    <2>1. ToUndo \in committed \ undone BY <1>11, Current DEF UndoCheck
    <2>2. /\ pc = "undo" /\ pc' \in {"undo", "restore"}
          /\ UNCHANGED <<plans, staged, committed>>
          /\ \/ pc' = "undo" /\ undone' = undone \cup {ToUndo} /\ kept' = kept \cup {ToUndo}
             \/ UNCHANGED <<undone, kept>>
        BY <1>11 DEF UndoCheck
    <2> QED BY <1>0, <2>1, <2>2
<1>12. CASE Restore
    <2>1. ToUndo \in committed \ undone BY <1>12, Current DEF Restore
    <2>2. /\ pc' = "undo" /\ UNCHANGED <<plans, staged, committed>> /\ pc = "restore"
          /\ undone' = undone \cup {ToUndo} /\ kept' \in {kept, kept \cup {ToUndo}}
        BY <1>12 DEF Restore
    <2> QED BY <1>0, <2>1, <2>2
<1>13. ASSUME NEW left \in SUBSET Files, Clean(left) PROVE Progress'
    BY <1>0, <1>13 DEF Clean, AfterClean
<1>14. CASE Crash BY <1>0, <1>14 DEF Crash
<1>15. ASSUME NEW f \in All, NEW e \in unused, Edit(f, e) PROVE Progress'
    BY <1>0, <1>15 DEF Edit
<1> QED BY <1>1, <1>2, <1>3, <1>4, <1>5, <1>6, <1>7, <1>8, <1>9, <1>10, <1>11,
          <1>12, <1>13, <1>14, <1>15 DEF Next, Step

(* The new text is only where it was committed.                            *)
LEMMA NewKept ==
    TypeOK /\ Progress /\ NewCommitted /\ [Next]_vars => NewCommitted'
<1> SUFFICES ASSUME TypeOK, Progress, NewCommitted, [Next]_vars PROVE NewCommitted' OBVIOUS
<1>0. /\ disk \in [Files \cup Conditions -> {None} \cup Version]
      /\ original \in [Files -> {None} \cup Version]
      /\ backup \in [Files -> {None} \cup Version]
      /\ receipt \in [Files -> {None} \cup Version]
      /\ Text(None) # "next" /\ None \notin Version
      /\ \A v \in Version : Text(v) = v.text
      /\ \A f \in Files : Text(disk[f]) = "next" => f \in committed /\ disk[f] = New
      /\ \A f \in Files : Text(original[f]) # "next" /\ Text(backup[f]) # "next"
      /\ \A f \in Files : receipt[f] \in {None, New}
    BY TransactionConstants DEF TypeOK, All, Text, NewCommitted
<1>1. ASSUME UNCHANGED <<disk, original, backup, receipt, committed>> PROVE NewCommitted'
    BY <1>1 DEF NewCommitted, Text
<1>2. CASE UNCHANGED vars BY <1>1, <1>2 DEF vars, plans, stages
<1>3. ASSUME NEW f \in Files, Prepare(f) PROVE NewCommitted'
    <2>1. committed = {} BY <1>3 DEF Prepare, Progress
    <2>2. Text(disk[f]) # "next" BY <1>0, <2>1
    <2>3. /\ original' \in {original, [original EXCEPT ![f] = disk[f]]}
          /\ UNCHANGED <<disk, backup, receipt, committed>>
        BY <1>3 DEF Prepare, stages
    <2>4. \A g \in Files : Text(original'[g]) # "next" BY <1>0, <2>2, <2>3
    <2> QED BY <2>3, <2>4 DEF NewCommitted, Text
<1>4. CASE Stage
    <2> PICK f \in Files : f = ToStage BY <1>4, Current DEF Stage
    <2>1. /\ backup' \in {backup, [backup EXCEPT ![f] = CopyOf(f)]}
          /\ UNCHANGED <<disk, original, receipt, committed>>
        BY <1>4 DEF Stage, plans
    <2>2. Text(CopyOf(f)) # "next"
        <3>1. original[f] # None => Text([original[f] EXCEPT !.inode = "copy"]) = Text(original[f])
            <4>1. original[f] # None =>
                    /\ [original[f] EXCEPT !.inode = "copy"] \in Version
                    /\ [original[f] EXCEPT !.inode = "copy"].text = original[f].text
                BY <1>0 DEF Version
            <4> QED BY <1>0, <4>1
        <3> QED BY <1>0, <3>1 DEF CopyOf
    <2>3. \A g \in Files : Text(backup'[g]) # "next" BY <1>0, <2>1, <2>2
    <2> QED BY <2>1, <2>3 DEF NewCommitted, Text
<1>5. CASE Rename
    <2> PICK f \in Files : f = ToCommit /\ f \notin committed BY <1>5, Current DEF Rename
    <2>1. CASE UNCHANGED <<disk, backup, committed>>
        BY <1>1, <1>5, <2>1 DEF Rename, plans
    <2>2. CASE /\ disk' = [disk EXCEPT ![f] = IF f \in removed THEN None ELSE New]
               /\ backup' = IF f \in removed THEN [backup EXCEPT ![f] = disk[f]] ELSE backup
               /\ committed' = committed \cup {f}
        <3>1. \A g \in Files : Text(backup'[g]) # "next" BY <1>0, <2>2
        <3>2. \A g \in Files : Text(disk'[g]) = "next" => g \in committed' /\ disk'[g] = New
            BY <1>0, <2>2
        <3>3. UNCHANGED <<original, receipt>> BY <1>5 DEF Rename, plans
        <3> QED BY <1>0, <3>1, <3>2, <3>3 DEF NewCommitted, Text
    <2> QED BY <1>5, <2>1, <2>2 DEF Rename
<1>6. CASE Verify
    <2> PICK f : f = Renamed OBVIOUS
    <2>1. /\ UNCHANGED <<disk, original, backup, committed>>
          /\ \/ UNCHANGED receipt
             \/ receipt' = [receipt EXCEPT ![f] = disk[f]] /\ Text(disk[f]) = "next"
        BY <1>6 DEF Verify, plans, Test
    <2>2. \A g \in Files : receipt'[g] \in {None, New} BY <1>0, <2>1
    <2> QED BY <1>0, <2>1, <2>2 DEF NewCommitted, Text
<1>7. CASE Restore
    <2> PICK f \in Files : f = ToUndo BY <1>7, Current DEF Restore
    <2>1. /\ disk' \in {disk, [disk EXCEPT ![f] = backup[f]]}
          /\ backup' \in {backup, [backup EXCEPT ![f] = None]}
          /\ UNCHANGED <<original, receipt, committed>>
        BY <1>7 DEF Restore, plans
    <2>2. /\ \A g \in Files : Text(backup'[g]) # "next"
          /\ \A g \in Files : Text(disk'[g]) = "next" => g \in committed /\ disk'[g] = New
        BY <1>0, <2>1
    <2> QED BY <1>0, <2>1, <2>2 DEF NewCommitted, Text
<1>8. ASSUME NEW left \in SUBSET Files, Clean(left) PROVE NewCommitted'
    <2>1. /\ UNCHANGED <<disk, original, receipt, committed>>
          /\ backup' = [f \in Files |-> IF f \in (staged \ kept) \ left THEN None ELSE backup[f]]
        BY <1>8 DEF Clean, plans
    <2>2. \A g \in Files : Text(backup'[g]) # "next" BY <1>0, <2>1
    <2> QED BY <1>0, <2>1, <2>2 DEF NewCommitted, Text
<1>9. ASSUME NEW f \in All, NEW e \in unused, Edit(f, e) PROVE NewCommitted'
    <2>1. /\ UNCHANGED <<original, backup, receipt, committed>>
          /\ e \in Edits /\ e # "next"
        BY <1>9, TransactionConstants DEF Edit, plans, stages, TypeOK
    <2>2. \A g \in Files : g # f => disk'[g] = disk[g] BY <1>0, <1>9 DEF Edit
    <2>3. Text(disk'[f]) # "next"
        <3>1. CASE disk' = [disk EXCEPT ![f] = [text |-> e, inode |-> e]]
            BY <1>0, <2>1, <3>1 DEF All, Text
        <3>2. CASE disk[f] # None /\ disk' = [disk EXCEPT ![f].text = e]
            <4>1. disk[f] \in Version BY <1>0, <3>2 DEF All
            <4>2. disk'[f].text = e BY <1>0, <3>2, <4>1 DEF All, Version
            <4> QED BY <1>0, <2>1, <4>2 DEF Text
        <3>3. CASE disk' = [disk EXCEPT ![f] = None] BY <1>0, <3>3 DEF All
        <3> QED BY <1>9, <3>1, <3>2, <3>3 DEF Edit
    <2>4. \A g \in Files : Text(disk'[g]) = "next" => g \in committed /\ disk'[g] = New
        BY <1>0, <2>2, <2>3
    <2> QED BY <1>0, <2>1, <2>4 DEF NewCommitted, Text
<1> QED
    <2>1. CASE (\E f \in All : ReadSource(f)) \/ AssertPreconditions \/ MakeDirectories
               \/ StageCheck \/ CommitCheck \/ UndoCheck \/ Crash
        BY <1>1, <2>1 DEF ReadSource, AssertPreconditions, MakeDirectories, StageCheck,
           CommitCheck, UndoCheck, Crash, plans, stages
    <2> QED BY <1>2, <1>3, <1>4, <1>5, <1>6, <1>7, <1>8, <1>9, <2>1 DEF Next, Step

LEMMA PlanKept == TypeOK /\ Progress /\ PlanFits /\ [Next]_vars => PlanFits'
<1> SUFFICES ASSUME TypeOK, Progress, PlanFits, [Next]_vars PROVE PlanFits' OBVIOUS
<1>1. ASSUME UNCHANGED plans PROVE PlanFits'
    BY <1>1 DEF plans, PlanFits, Text
<1>2. ASSUME NEW f \in All, ReadSource(f) PROVE PlanFits'
    BY <1>2 DEF ReadSource, Progress, PlanFits
<1>3. ASSUME NEW f \in Files, Prepare(f) PROVE PlanFits'
    <2>1. /\ UNCHANGED base /\ f \notin snapped /\ snapped \subseteq Files
          /\ original \in [Files -> {None} \cup Version]
          /\ \/ UNCHANGED <<original, snapped>>
             \/ /\ f \in Merged => Text(disk[f]) = Text(base[f])
                /\ original' = [original EXCEPT ![f] = disk[f]] /\ snapped' = snapped \cup {f}
        BY <1>3 DEF Prepare, TypeOK
    <2> QED BY <2>1 DEF PlanFits, Text
<1> QED BY <1>1, <1>2, <1>3 DEF Next, Step, vars, AssertPreconditions, MakeDirectories,
       StageCheck, Stage, CommitCheck, Rename, Verify, UndoCheck, Restore, Clean, Crash, Edit

(* A comparison holds until the rename it is made for.                     *)
LEMMA ComparedKept ==
    TypeOK /\ Progress /\ NewCommitted /\ Compared /\ [Next]_vars => Compared'
<1> SUFFICES ASSUME TypeOK, Progress, NewCommitted, Compared, [Next]_vars PROVE Compared'
    OBVIOUS
<1>0. /\ UNCHANGED <<staged, committed>> => ToCommit' = ToCommit
      /\ UNCHANGED <<undone, committed>> => ToUndo' = ToUndo
    BY DEF ToCommit, ToUndo
<1>1. ASSUME pc' \notin {"rename", "restore"} PROVE Compared'
    BY <1>1 DEF Compared
<1>2. CASE CommitCheck
    <2>1. /\ UNCHANGED <<staged, committed, disk, original, touched>>
          /\ pc' = "undo" \/ (pc' = "rename" /\ disk[ToCommit] = original[ToCommit])
        BY <1>2 DEF CommitCheck, Test, stages, plans
    <2> QED BY <1>0, <2>1 DEF Compared
<1>3. CASE UndoCheck
    <2> PICK f \in Files : f = ToUndo /\ f \in committed
        BY <1>3, Current DEF UndoCheck
    <2>1. /\ UNCHANGED <<committed, disk, removed, original, touched>>
          /\ \/ pc' = "undo"
             \/ /\ pc' = "restore" /\ UNCHANGED undone
                /\ IF f \in removed THEN disk[f] = None
                   ELSE disk[f] # None /\ disk[f] = receipt[f]
        BY <1>3 DEF UndoCheck, Test, plans
    <2>2. receipt[f] \in {None, New} BY DEF NewCommitted
    <2>3. pc' = "restore" => ToUndo' = f /\ disk[f] = Expected(f)
        BY <1>0, <2>1, <2>2 DEF Expected
    <2>4. Expected(f)' = Expected(f) BY <2>1 DEF Expected
    <2> QED BY <2>1, <2>3, <2>4 DEF Compared
<1>4. ASSUME NEW f \in All, NEW e \in unused, Edit(f, e) PROVE Compared'
    <2>1. /\ UNCHANGED <<pc, staged, committed, undone, removed, original>>
          /\ touched' = [touched EXCEPT ![f] = Moment(f)]
          /\ disk \in [All -> {None} \cup Version] /\ touched \in [All -> {"no", "early", "late", "gap"}]
          /\ snapped \subseteq Files
        BY <1>4 DEF Edit, stages, plans, TypeOK
    <2>2. \A g \in Files : g # f => disk'[g] = disk[g] /\ touched'[g] = touched[g]
        BY <1>4, <2>1 DEF Edit, All
    <2>3. \A g \in Files :
            (pc = "rename" /\ g = ToCommit) \/ (pc = "restore" /\ g = ToUndo)
              => touched'[g] = "gap" \/ (disk'[g] = disk[g] /\ touched'[g] = touched[g])
        <3> SUFFICES ASSUME NEW g \in Files,
                            (pc = "rename" /\ g = ToCommit) \/ (pc = "restore" /\ g = ToUndo)
                     PROVE  touched'[g] = "gap" \/ (disk'[g] = disk[g] /\ touched'[g] = touched[g])
            OBVIOUS
        <3>1. snapped = Files BY DEF Progress
        <3>2. g = f => touched'[g] = "gap"
            <4>1. f \in Files => f \notin Conditions BY TransactionConstants
            <4> QED BY <2>1, <3>1, <4>1 DEF Moment
        <3> QED BY <2>2, <3>2
    <2>4. CASE pc = "rename"
        <3> PICK g \in Files : g = ToCommit BY <2>4, Current
        <3>1. ToCommit' = g /\ pc' = "rename" BY <1>0, <2>1, <2>4
        <3>2. touched[g] = "gap" \/ disk[g] = original[g] BY <2>4 DEF Compared
        <3>a. touched'[g] = "gap" \/ (disk'[g] = disk[g] /\ touched'[g] = touched[g])
            BY <2>3, <2>4
        <3>b. original' = original BY <2>1
        <3>3. touched'[g] = "gap" \/ disk'[g] = original'[g] BY <3>a, <3>b, <3>2
        <3> QED BY <3>1, <3>3 DEF Compared
    <2>5. CASE pc = "restore"
        <3> PICK g \in Files : g = ToUndo BY <2>5, Current
        <3>1. Expected(g)' = Expected(g) BY <2>1 DEF Expected
        <3> QED BY <1>0, <2>1, <2>3, <2>5, <3>1 DEF Compared
    <2>6. CASE pc \notin {"rename", "restore"} BY <1>1, <2>1, <2>6
    <2> QED BY <2>4, <2>5, <2>6
<1>5. CASE UNCHANGED vars
    BY <1>0, <1>5 DEF vars, stages, plans, Compared, Expected
<1>6. AssertPreconditions => Compared'
    <2>1. AssertPreconditions => pc' \notin {"rename", "restore"}
        BY DEF AssertPreconditions, Test, AfterGuard, Guards
    <2> QED BY <1>1, <2>1
<1>7. CASE \/ \E f \in All : ReadSource(f)
           \/ \E f \in Files : Prepare(f)
           \/ MakeDirectories \/ StageCheck \/ Stage \/ Rename \/ Verify \/ Restore \/ Crash
           \/ \E left \in SUBSET Files : Clean(left)
    <2>1. pc' \notin {"rename", "restore"}
        BY <1>7 DEF ReadSource, Prepare, MakeDirectories, StageCheck, Stage, Rename, Verify,
           Restore, Crash, Clean, AfterClean, Test
    <2> QED BY <1>1, <2>1
<1> QED BY <1>2, <1>3, <1>4, <1>5, <1>6, <1>7 DEF Next, Step

(* Where the text of the original of f is.                                 *)
LEMMA LocatedKept ==
    TypeOK /\ Progress /\ NewCommitted /\ Compared /\ Located /\ [Next]_vars => Located'
<1> SUFFICES ASSUME TypeOK, Progress, NewCommitted, Compared, Located, [Next]_vars,
                    NEW f \in snapped', original'[f] # None, ~Meddled(f)'
             PROVE  /\ f \notin committed' => disk'[f] = original'[f]
                    /\ f \in staged' \ (committed' \cup removed') /\ pc' \notin Ended =>
                          Text(backup'[f]) = Text(original'[f])
                    /\ f \in committed' \ undone' /\ pc' \notin {"done", "uncleaned"} =>
                          Text(backup'[f]) = Text(original'[f])
                    /\ f \in undone' =>
                          \/ f \in kept' /\ Text(backup'[f]) = Text(original'[f])
                          \/ Text(disk'[f]) = Text(original'[f])
    BY DEF Located, Text
<1>0. /\ disk \in [Files \cup Conditions -> {None} \cup Version]
      /\ original \in [Files -> {None} \cup Version] /\ backup \in [Files -> {None} \cup Version]
      /\ snapped \subseteq Files /\ staged \subseteq snapped
      /\ kept \subseteq undone /\ undone \subseteq committed /\ committed \subseteq staged
    BY DEF TypeOK, All, Progress
<1> DEFINE
      Safe ==
        /\ f \notin committed => disk[f] = original[f]
        /\ f \in staged \ (committed \cup removed) /\ pc \notin Ended =>
              Text(backup[f]) = Text(original[f])
        /\ f \in committed \ undone /\ pc \notin {"done", "uncleaned"} =>
              Text(backup[f]) = Text(original[f])
        /\ f \in undone =>
              \/ f \in kept /\ Text(backup[f]) = Text(original[f])
              \/ Text(disk[f]) = Text(original[f])
<1>1. f \in snapped /\ original[f] # None /\ ~Meddled(f) => Safe
    BY DEF Located
<1>2. UNCHANGED touched => ~Meddled(f) BY DEF Meddled
<1>3. ASSUME NEW g \in Files, Prepare(g) PROVE Safe'
    <2>1. /\ staged = {} /\ committed = {} /\ undone = {}
          /\ UNCHANGED <<staged, committed, undone, disk, touched>>
          /\ \/ snapped' = snapped /\ original' = original
             \/ snapped' = snapped \cup {g} /\ original' = [original EXCEPT ![g] = disk[g]]
        BY <1>3 DEF Prepare, Progress, stages
    <2> QED BY <1>0, <1>1, <1>2, <2>1
<1>4. CASE Stage
    <2> PICK g \in Files : g = ToStage /\ g \in Changes \ staged BY <1>4, Current DEF Stage
    <2>1. /\ committed = {} /\ undone = {} /\ kept = {} /\ pc \notin Ended
          /\ UNCHANGED <<removed, disk, original, snapped, committed, undone, kept, touched>>
          /\ \/ staged' = staged \cup {g} /\ backup' = [backup EXCEPT ![g] = CopyOf(g)]
             \/ staged' = staged /\ backup' \in {backup, [backup EXCEPT ![g] = CopyOf(g)]}
        BY <1>0, <1>4 DEF Stage, plans, Progress, Ended
    <2>2. g \notin removed /\ original[g] # None => Text(CopyOf(g)) = Text(original[g])
        <3>1. ASSUME g \notin removed, original[g] # None
              PROVE  Text(CopyOf(g)) = Text(original[g])
            <4>1. CopyOf(g) = [original[g] EXCEPT !.inode = "copy"] BY <3>1 DEF CopyOf
            <4>2. original[g] \in Version BY <1>0, <3>1
            <4>3. CopyOf(g) \in Version /\ CopyOf(g).text = original[g].text
                BY <4>1, <4>2 DEF Version
            <4> QED BY <3>1, <4>2, <4>3, TransactionConstants DEF Text
        <3> QED BY <3>1
    <2>3. /\ f \in snapped /\ original[f] # None /\ Safe BY <1>1, <1>2, <2>1
    <2>4. f # g => backup'[f] = backup[f] /\ (f \in staged' <=> f \in staged)
        BY <1>0, <2>1
    <2>5. f = g => backup'[f] = CopyOf(g) \/ f \notin staged'
        BY <1>0, <2>1
    <2> QED BY <2>1, <2>2, <2>3, <2>4, <2>5
<1>5. CASE Rename
    <2> PICK g \in Files : g = ToCommit /\ g \in staged \ committed BY <1>5, Current DEF Rename
    <2>0. pc = "rename" /\ pc \notin Ended /\ pc' \notin Ended /\ UNCHANGED touched
        BY <1>5 DEF Rename, Ended
    <2>1. /\ UNCHANGED <<removed, original, snapped, staged, undone, kept>>
          /\ \/ UNCHANGED <<disk, backup, committed>>
             \/ /\ disk' = [disk EXCEPT ![g] = IF g \in removed THEN None ELSE New]
                /\ backup' = IF g \in removed THEN [backup EXCEPT ![g] = disk[g]] ELSE backup
                /\ committed' = committed \cup {g}
        BY <1>5 DEF Rename, plans
    <2>2. f \in snapped /\ original[f] # None /\ Safe BY <1>1, <1>2, <2>0, <2>1
    <2>3. CASE UNCHANGED <<disk, backup, committed>> BY <2>0, <2>1, <2>2, <2>3
    <2>4. CASE /\ disk' = [disk EXCEPT ![g] = IF g \in removed THEN None ELSE New]
               /\ backup' = IF g \in removed THEN [backup EXCEPT ![g] = disk[g]] ELSE backup
               /\ committed' = committed \cup {g}
        <3>1. f # g => disk'[f] = disk[f] /\ backup'[f] = backup[f]
            BY <1>0, <2>1, <2>2, <2>4
        <3>2. CASE f # g
            <4>1. f \in committed' <=> f \in committed BY <2>4, <3>2
            <4> QED BY <2>0, <2>1, <2>2, <3>1, <3>2, <4>1
        <3>3. CASE f = g
            <4>1. backup'[f] = IF f \in removed THEN original[f] ELSE backup[f]
                BY <1>0, <2>2, <2>4, <3>3
            <4>2. Text(backup'[f]) = Text(original[f])
                BY <2>0, <2>2, <3>3, <4>1
            <4>3. f \in committed' /\ f \notin undone'
                BY <1>0, <2>1, <2>4, <3>3
            <4> QED BY <2>1, <4>2, <4>3
        <3> QED BY <3>2, <3>3
    <2> QED BY <2>1, <2>3, <2>4
<1>6. CASE UndoCheck
    <2>1. ToUndo \in committed \ undone BY <1>6, Current DEF UndoCheck
    <2>2. /\ pc = "undo" /\ pc' \in {"undo", "restore"}
          /\ UNCHANGED <<removed, original, snapped, staged, committed, disk, backup, touched>>
          /\ \/ undone' = undone \cup {ToUndo} /\ kept' = kept \cup {ToUndo}
             \/ UNCHANGED <<undone, kept>>
        BY <1>6 DEF UndoCheck, Test, plans
    <2>3. f \in snapped /\ original[f] # None /\ Safe BY <1>1, <1>2, <2>2
    <2> QED BY <2>1, <2>2, <2>3 DEF Ended
<1>7. CASE Restore
    <2> PICK g \in Files : g = ToUndo /\ g \in committed \ undone BY <1>7, Current DEF Restore
    <2>1. /\ pc = "restore" /\ pc' = "undo"
          /\ UNCHANGED <<removed, original, snapped, staged, committed, touched>>
          /\ undone' = undone \cup {g}
        BY <1>7 DEF Restore, plans
    <2>2. f \in snapped /\ original[f] # None /\ Safe BY <1>1, <1>2, <2>1
    <2>3. CASE kept' = kept \cup {g} /\ UNCHANGED <<disk, backup>>
        BY <2>1, <2>2, <2>3 DEF Ended
    <2>4. CASE /\ disk' = [disk EXCEPT ![g] = backup[g]]
               /\ backup' = [backup EXCEPT ![g] = None] /\ UNCHANGED kept
        <3>1. CASE f # g
            <4>1. disk'[f] = disk[f] /\ backup'[f] = backup[f] BY <1>0, <2>2, <2>4, <3>1
            <4> QED BY <2>1, <2>2, <2>4, <3>1, <4>1 DEF Ended
        <3>2. CASE f = g
            <4>1. disk'[f] = backup[f] BY <1>0, <2>4, <3>2
            <4>2. Text(disk'[f]) = Text(original[f]) BY <2>1, <2>2, <3>2, <4>1
            <4> QED BY <2>1, <3>2, <4>2
        <3> QED BY <3>1, <3>2
    <2> QED BY <1>7, <2>3, <2>4 DEF Restore
<1>8. ASSUME NEW left \in SUBSET Files, Clean(left) PROVE Safe'
    <2>0. \/ pc = "clean" /\ pc' \in {"done", "uncleaned"}
          \/ pc = "undo" /\ committed = undone /\ pc' = "failed"
        BY <1>8 DEF Clean, AfterClean
    <2>1. /\ UNCHANGED <<removed, original, snapped, staged, committed, undone, kept, disk, touched>>
          /\ backup' = [h \in Files |-> IF h \in (staged \ kept) \ left THEN None ELSE backup[h]]
        BY <1>8 DEF Clean, plans
    <2>2. f \in snapped /\ original[f] # None /\ Safe BY <1>1, <1>2, <2>1
    <2>3. f \in kept => backup'[f] = backup[f] BY <1>0, <2>1, <2>2
    <2> QED BY <2>0, <2>1, <2>2, <2>3 DEF Ended
<1>9. ASSUME NEW g \in All, NEW e \in unused, Edit(g, e) PROVE Safe'
    <2>1. /\ UNCHANGED <<pc, staged, committed, undone, kept, removed, original, snapped, backup>>
          /\ touched' = [touched EXCEPT ![g] = Moment(g)]
          /\ touched \in [All -> {"no", "early", "late", "gap"}] /\ f \in All
        BY <1>0, <1>9 DEF Edit, stages, plans, TypeOK, All
    <2>2. f = g => touched'[f] \in {"late", "gap"}
        <3>1. f \notin Conditions /\ f \in snapped BY <1>0, <2>1, TransactionConstants
        <3> QED BY <2>1, <3>1 DEF Moment
    <2>3. f # g BY <2>2 DEF Meddled
    <2>4. disk'[f] = disk[f] /\ touched'[f] = touched[f]
        BY <1>0, <1>9, <2>1, <2>3 DEF Edit, All
    <2>5. Safe BY <1>1, <2>1, <2>4 DEF Meddled
    <2> QED BY <2>1, <2>4, <2>5
<1>10. ASSUME UNCHANGED <<disk, plans, staged, committed, undone, kept, backup, touched>>,
              pc \in {"done", "uncleaned"} => pc' \in {"done", "uncleaned"},
              pc \in Ended => pc' \in Ended
       PROVE  Safe'
    <2>1. f \in snapped /\ original[f] # None /\ Safe BY <1>1, <1>2, <1>10 DEF plans
    <2> QED BY <1>10, <2>1 DEF plans
<1>11. CASE \/ \E g \in All : ReadSource(g)
            \/ AssertPreconditions \/ MakeDirectories \/ StageCheck \/ CommitCheck
            \/ Verify \/ Crash \/ UNCHANGED vars
    <2>1. CASE \E g \in All : ReadSource(g)
        <3>1. snapped' = {} BY <2>1 DEF ReadSource, Progress
        <3> QED BY <3>1
    <2>2. CASE AssertPreconditions
        <3>1. pc \notin Ended
            BY <2>2 DEF AssertPreconditions, Guards, Ended
        <3> QED BY <1>10, <2>2, <3>1 DEF AssertPreconditions, Ended
    <2>3. CASE MakeDirectories \/ StageCheck \/ CommitCheck \/ Verify \/ Crash
        <3>1. pc \notin Ended
            BY <2>3 DEF MakeDirectories, StageCheck, CommitCheck, Verify, Crash, Test, Ended
        <3> QED BY <1>10, <2>3, <3>1 DEF MakeDirectories, StageCheck, CommitCheck, Verify,
               Crash, stages, Ended
    <2>4. CASE UNCHANGED vars BY <1>10, <2>4 DEF vars, stages
    <2> QED BY <1>11, <2>1, <2>2, <2>3, <2>4
<1>12. Safe'
    BY <1>3, <1>4, <1>5, <1>6, <1>7, <1>8, <1>9, <1>11 DEF Next, Step
<1> QED BY <1>12

LEMMA InitInvariant == Init => TransactionInv
<1> SUFFICES ASSUME Init PROVE TransactionInv OBVIOUS
<1>1. /\ disk \in [All -> {None, Was}] /\ Text(None) # "next" /\ Text(Was) # "next"
    BY TransactionConstants DEF Init, Text, Was, Version
<1>2. NewCommitted BY <1>1 DEF Init, NewCommitted, All
<1>3. Progress BY DEF Init, Progress
<1>4. PlanFits /\ Compared /\ Located BY DEF Init, PlanFits, Compared, Located
<1> QED BY <1>2, <1>3, <1>4, InitTyped DEF TransactionInv

LEMMA NextInvariant == TransactionInv /\ [Next]_vars => TransactionInv'
    BY NextTyped, ProgressKept, NewKept, PlanKept, ComparedKept, LocatedKept DEF TransactionInv

(* TransactionInv holds in every state of a transaction.                   *)
THEOREM Invariance == Spec => []TransactionInv
    BY InitInvariant, NextInvariant, PTL DEF Spec

(* The text of every target is in the target or in its .rollback file      *)
(* until the transaction has succeeded (managed-transaction.ts:176-307).   *)
THEOREM OriginalTheorem == Spec => []OriginalKept
<1>1. TransactionInv => OriginalKept
    <2> SUFFICES ASSUME TransactionInv, NEW f \in snapped, original[f] # None, ~Meddled(f),
                        pc \notin {"done", "uncleaned"}
                 PROVE  original[f].text \in {Text(disk[f]), Text(backup[f])}
        BY DEF OriginalKept
    <2>1. Text(original[f]) = original[f].text BY DEF Text
    <2> QED BY <2>1 DEF TransactionInv, Located
<1> QED BY <1>1, Invariance, PTL

(* No edit of another program is overwritten unless it is made between the *)
(* comparison and the rename (managed-transaction.ts:83-91, 221-300).      *)
THEOREM EditsTheorem == Spec => EditsSurvive
<1>1. ASSUME TransactionInv, [Next]_vars
      PROVE  [\A f \in Files :
                 disk'[f] # disk[f] /\ UNCHANGED unused =>
                     \/ touched[f] = "gap"
                     \/ /\ disk[f] = Expected(f)
                        /\ f \in Merged \ committed => Text(disk[f]) = Text(base[f])]_vars
    <2> SUFFICES ASSUME Next, NEW f \in Files, disk'[f] # disk[f], UNCHANGED unused
                 PROVE  \/ touched[f] = "gap"
                        \/ /\ disk[f] = Expected(f)
                           /\ f \in Merged \ committed => Text(disk[f]) = Text(base[f])
        BY <1>1
    <2>0. TypeOK /\ Progress /\ Compared /\ PlanFits BY <1>1 DEF TransactionInv
    <2>1. CASE Rename
        <3>0. \E v : disk' = [disk EXCEPT ![ToCommit] = v]
            BY <2>1 DEF Rename
        <3>1. f = ToCommit BY <2>0, <3>0 DEF TypeOK, All
        <3>2. pc = "rename" /\ f \in staged \ committed /\ staged \subseteq snapped
            BY <2>0, <2>1, <3>1, Current DEF Rename, Progress
        <3>3. touched[f] = "gap" \/ disk[f] = original[f] BY <2>0, <3>1, <3>2 DEF Compared
        <3>4. f \in Merged => Text(original[f]) = Text(base[f])
            BY <2>0, <3>2 DEF PlanFits
        <3> QED BY <3>2, <3>3, <3>4 DEF Expected
    <2>2. CASE Restore
        <3>0. \E v : disk' = [disk EXCEPT ![ToUndo] = v]
            BY <2>2 DEF Restore
        <3>1. f = ToUndo BY <2>0, <3>0 DEF TypeOK, All
        <3>2. pc = "restore" /\ f \in committed
            BY <2>0, <2>2, <3>1, Current DEF Restore
        <3> QED BY <2>0, <3>1, <3>2 DEF Compared
    <2>3. ASSUME NEW g \in All, NEW e \in unused, Edit(g, e) PROVE FALSE
        BY <2>3 DEF Edit
    <2> QED BY <2>1, <2>2, <2>3 DEF Next, Step, ReadSource, Prepare, AssertPreconditions,
           MakeDirectories, StageCheck, Stage, CommitCheck, Verify, UndoCheck, Clean, Crash
<1> QED BY <1>1, Invariance, PTL DEF Spec, EditsSurvive

---------------------------------------------------------------------------
(* How a transaction ends.                                                 *)

LEMMA Position ==
    /\ \A f \in Files : Pos[f] \in Nat
    /\ \A f, g \in Files : Pos[f] <= Pos[g] /\ f # g => Pos[f] < Pos[g]
<1>1. Cardinality(Files) \in Nat BY TransactionConstants, FS_CardinalityType
<1>2. \A f \in Files : Pos[f] \in Nat BY <1>1, TransactionConstants
<1> QED BY <1>2, TransactionConstants

LEMMA LastIs ==
    ASSUME NEW S, S \subseteq Files, NEW g \in S, \A f \in S : Pos[f] <= Pos[g]
    PROVE  Last(S) = g
<1>1. Last(S) \in S /\ Pos[g] <= Pos[Last(S)] BY Chosen
<1>2. Pos[Last(S)] <= Pos[g] BY <1>1
<1>3. Last(S) \in Files /\ g \in Files BY <1>1
<1> QED BY <1>1, <1>2, <1>3, Position

(* The files before the one that is renamed are committed, and those after *)
(* the one that is restored are undone.                                    *)
LEMMA OrderKept == TypeOK /\ Progress /\ InOrder /\ [Next]_vars => InOrder'
<1> SUFFICES ASSUME TypeOK, Progress, InOrder, [Next]_vars PROVE InOrder' OBVIOUS
<1>0. /\ UNCHANGED <<removed, original>> => Changes' = Changes
      /\ committed \subseteq Files /\ staged \subseteq Files /\ undone \subseteq Files
    BY DEF Changes, TypeOK
<1> USE DEF InOrder, plans, stages, Test, Succeeded
<1>1. CASE UNCHANGED vars BY <1>0, <1>1 DEF vars
<1>2. ASSUME NEW f \in All, ReadSource(f) PROVE InOrder'
    BY <1>0, <1>2 DEF ReadSource
<1>3. ASSUME NEW f \in Files, Prepare(f) PROVE InOrder'
    <2>1. staged' = {} /\ committed' = {} /\ undone' = {}
        BY <1>3 DEF Prepare, Progress
    <2>2. pc' \in {"prepare", "failed", "enter"} BY <1>3 DEF Prepare
    <2> QED BY <2>1, <2>2
<1>4. CASE AssertPreconditions
    <2>1. UNCHANGED <<Changes, committed, staged, undone>>
        BY <1>0, <1>4 DEF AssertPreconditions
    <2>2. CASE pc \in {"enter", "reenter"}
        <3>1. pc' \in {"enter", "reenter", "failed", "mkdir", "stage"}
              \/ (pc' = "staged" /\ Changes = {})
            BY <1>4, <2>2 DEF AssertPreconditions, AfterGuard
        <3>2. staged = {} /\ undone = {} /\ committed = {} BY <2>2 DEF Progress
        <3> QED BY <2>1, <3>1, <3>2
    <2>3. CASE pc = "staged"
        <3>1. pc' \in {"staged", "undo", "guard"} \/ (pc' = "last" /\ Changes = {})
            BY <1>4, <2>3 DEF AssertPreconditions, AfterGuard
        <3>2. committed = {} /\ staged = Changes BY <2>3 DEF Progress
        <3> QED BY <2>1, <2>3, <3>1, <3>2
    <2>4. CASE pc \in {"guard", "last"}
        <3>1. \/ pc' \in {pc, "undo"}
              \/ pc = "guard" /\ pc' = "check"
              \/ pc = "last" /\ pc' = "clean"
            BY <1>4, <2>4 DEF AssertPreconditions, AfterGuard
        <3> QED BY <2>1, <2>4, <3>1
    <2> QED BY <1>4, <2>2, <2>3, <2>4 DEF AssertPreconditions, Guards
<1>5. CASE MakeDirectories BY <1>0, <1>5 DEF MakeDirectories, Progress
<1>6. CASE StageCheck BY <1>0, <1>6 DEF StageCheck
<1>7. CASE Stage
    <2>1. committed = {} /\ undone = {} /\ UNCHANGED <<Changes, committed, undone>>
        BY <1>0, <1>7 DEF Stage, Progress
    <2>2. pc' \in {"stage", "undo"} \/ (pc' = "staged" /\ staged' = Changes)
        BY <1>7 DEF Stage
    <2> QED BY <2>1, <2>2
<1>8. CASE CommitCheck BY <1>0, <1>8 DEF CommitCheck
<1>9. CASE Rename
    <2> PICK g \in Files : g = ToCommit /\ g \in staged \ committed BY <1>9, Current DEF Rename
    <2>1. /\ pc = "rename" /\ pc' \in {"verify", "undo"}
          /\ UNCHANGED <<Changes, staged, undone>>
          /\ committed' \in {committed, committed \cup {g}}
        BY <1>0, <1>9 DEF Rename
    <2>2. undone = {} /\ staged = Changes BY <2>1
    <2>3. \A h \in staged \ committed : Pos[g] <= Pos[h]
        BY <1>0, Chosen DEF ToCommit
    <2>4. \A f \in committed', h \in staged : Pos[h] < Pos[f] => h \in committed'
        BY <1>0, <2>1, <2>3, Position
    <2> QED BY <2>1, <2>2, <2>4
<1>10. CASE Verify
    <2>1. /\ pc = "verify" /\ UNCHANGED <<Changes, staged, committed, undone>>
        BY <1>0, <1>10 DEF Verify
    <2>2. pc' \in {"guard", "undo"} \/ (pc' = "last" /\ committed = staged)
        BY <1>10 DEF Verify
    <2> QED BY <2>1, <2>2
<1>11. CASE UndoCheck \/ Restore
    <2> PICK g \in Files : g = ToUndo /\ g \in committed \ undone
        BY <1>11, Current DEF UndoCheck, Restore
    <2>1. /\ pc' \in {"undo", "restore"} /\ UNCHANGED <<Changes, staged, committed>>
          /\ undone' \in {undone, undone \cup {g}}
        BY <1>0, <1>11 DEF UndoCheck, Restore
    <2>2. \A f \in committed \ undone : Pos[f] <= Pos[g]
        BY <1>0, Chosen DEF ToUndo
    <2>3. \A f \in committed \ undone', h \in undone' : Pos[f] < Pos[h]
        BY <1>0, <2>1, <2>2, Position
    <2> QED BY <2>1, <2>3
<1>12. ASSUME NEW left \in SUBSET Files, Clean(left) PROVE InOrder'
    BY <1>0, <1>12 DEF Clean, AfterClean
<1>13. CASE Crash BY <1>0, <1>13 DEF Crash
<1>14. ASSUME NEW f \in All, NEW e \in unused, Edit(f, e) PROVE InOrder'
    BY <1>0, <1>14 DEF Edit
<1> QED BY <1>1, <1>2, <1>3, <1>4, <1>5, <1>6, <1>7, <1>8, <1>9, <1>10, <1>11,
          <1>12, <1>13, <1>14 DEF Next, Step

(* An edit of a file with a snapshot is remembered.                        *)
LEMMA EditRemembered ==
    ASSUME TypeOK, NEW g \in All, NEW e \in unused, Edit(g, e), NEW f \in snapped
    PROVE  Meddled(f)' \/ (disk'[f] = disk[f] /\ touched'[f] = touched[f])
<1>1. f \in Files /\ f \in All /\ f \notin Conditions
    BY TransactionConstants DEF TypeOK, All
<1>2. touched' = [touched EXCEPT ![g] = Moment(g)] /\ touched \in [All -> {"no", "early", "late", "gap"}]
    BY DEF Edit, TypeOK
<1>3. CASE f = g
    <2>1. Moment(g) \in {"late", "gap"} BY <1>1, <1>3 DEF Moment
    <2>2. touched'[f] \in {"late", "gap"} BY <1>1, <1>2, <1>3, <2>1
    <2> QED BY <2>2 DEF Meddled
<1>4. CASE f # g
    BY <1>1, <1>2, <1>4 DEF Edit, TypeOK
<1> QED BY <1>3, <1>4

(* What the transaction takes a target to be where nobody edited it.       *)
PlacedAt(f) ==
    /\ f \in snapped \ undone => Meddled(f) \/ disk[f] = Expected(f)
    /\ f \in undone \ kept =>
          /\ Text(disk[f]) # "next"
          /\ Meddled(f) \/ Text(disk[f]) = Text(original[f])
    /\ f \in kept => Meddled(f) \/ faults > 0

LEMMA PlacedEach ==
    ASSUME TypeOK PROVE Placed <=> \A f \in Files : PlacedAt(f)
BY DEF TypeOK, Placed, PlacedAt

LEMMA PlacedKept ==
    /\ TypeOK /\ Progress /\ NewCommitted /\ Located /\ InOrder /\ Placed /\ Restorable
    /\ [Next]_vars
    => Placed'
<1> SUFFICES ASSUME TypeOK, Progress, NewCommitted, Located, InOrder, Placed, Restorable,
                    [Next]_vars, NEW f \in Files
             PROVE  PlacedAt(f)'
    BY PlacedEach, NextTyped DEF Placed, PlacedAt, TypeOK
<1>0. /\ disk \in [Files \cup Conditions -> {None} \cup Version]
      /\ original \in [Files -> {None} \cup Version] /\ backup \in [Files -> {None} \cup Version]
      /\ snapped \subseteq Files /\ staged \subseteq snapped
      /\ kept \subseteq undone /\ undone \subseteq committed /\ committed \subseteq staged
      /\ faults \in Nat
    BY TransactionConstants DEF TypeOK, All, Progress
<1>1. PlacedAt(f) BY PlacedEach
<1>2. UNCHANGED touched => (Meddled(f)' <=> Meddled(f)) BY DEF Meddled
<1>3. ASSUME UNCHANGED <<disk, touched, original, snapped, removed, committed, undone, kept>>,
             faults' = faults \/ faults' = faults + 1
      PROVE  PlacedAt(f)'
    BY <1>0, <1>1, <1>2, <1>3 DEF PlacedAt, Expected, Text
<1>4. ASSUME NEW g \in Files, Prepare(g) PROVE PlacedAt(f)'
    <2>1. /\ staged = {} /\ committed = {} /\ undone = {} /\ kept = {}
          /\ UNCHANGED <<committed, undone, kept, disk, touched, removed>>
          /\ \/ snapped' = snapped /\ original' = original
             \/ snapped' = snapped \cup {g} /\ original' = [original EXCEPT ![g] = disk[g]]
        BY <1>0, <1>4 DEF Prepare, Progress, stages
    <2>2. f \in snapped' => Meddled(f) \/ disk[f] = original'[f]
        BY <1>0, <1>1, <2>1 DEF PlacedAt, Expected
    <2> QED BY <1>2, <2>1, <2>2 DEF PlacedAt, Expected
<1>5. CASE Stage
    <2>1. faults' = faults \/ faults' = faults + 1 BY <1>5 DEF Stage, Fault
    <2> QED BY <1>3, <1>5, <2>1 DEF Stage, plans
<1>6. CASE Rename
    <2> PICK g \in Files : g = ToCommit /\ g \in staged \ committed BY <1>6, Current DEF Rename
    <2>1. /\ UNCHANGED <<removed, original, snapped, undone, kept, touched>>
          /\ faults' = faults \/ faults' = faults + 1
          /\ \/ UNCHANGED <<disk, committed>>
             \/ /\ disk' = [disk EXCEPT ![g] = IF g \in removed THEN None ELSE New]
                /\ committed' = committed \cup {g}
        BY <1>6 DEF Rename, plans, Fault
    <2>2. CASE UNCHANGED <<disk, committed>> BY <1>3, <2>1, <2>2
    <2>3. CASE /\ disk' = [disk EXCEPT ![g] = IF g \in removed THEN None ELSE New]
               /\ committed' = committed \cup {g}
        <3>1. CASE f = g
            <4>1. disk'[f] = IF f \in removed THEN None ELSE New BY <1>0, <2>3, <3>1
            <4>2. f \in committed' /\ f \notin undone' /\ f \notin kept'
                BY <1>0, <2>1, <2>3, <3>1
            <4> QED BY <2>1, <4>1, <4>2 DEF PlacedAt, Expected
        <3>2. CASE f # g
            <4>1. disk'[f] = disk[f] /\ (f \in committed' <=> f \in committed)
                BY <1>0, <2>3, <3>2
            <4> QED BY <1>0, <1>1, <1>2, <2>1, <4>1 DEF PlacedAt, Expected, Text
        <3> QED BY <3>1, <3>2
    <2> QED BY <2>1, <2>2, <2>3
<1>7. CASE UndoCheck
    <2> PICK g \in Files : g = ToUndo /\ g \in committed \ undone BY <1>7, Current DEF UndoCheck
    <2>1. /\ pc = "undo"
          /\ UNCHANGED <<disk, touched, original, snapped, removed, committed>>
          /\ faults' = faults \/ faults' = faults + 1
          /\ \/ undone' = undone \cup {g} /\ kept' = kept \cup {g}
             \/ UNCHANGED <<undone, kept>>
        BY <1>7 DEF UndoCheck, Test, Fault, plans
    <2>2. CASE UNCHANGED <<undone, kept>> BY <1>3, <2>1, <2>2
    <2>3. CASE undone' = undone \cup {g} /\ kept' = kept \cup {g}
        <3>1. CASE f # g
            BY <1>0, <1>1, <1>2, <2>1, <2>3, <3>1 DEF PlacedAt, Expected, Text
        <3>2. CASE f = g
            <4>1. Meddled(f) \/ faults' > 0
                <5> SUFFICES ASSUME ~Meddled(f), faults = 0 PROVE faults' > 0
                    BY <1>0, <2>1
                <5>1. disk[f] = IF f \in removed THEN None ELSE New
                    BY <1>0, <1>1, <3>2 DEF PlacedAt, Expected
                <5>2. f \notin removed => receipt[f] = New
                    BY <1>0, <2>1, <3>2 DEF Restorable
                <5>3. New # None BY TransactionConstants DEF New, Version
                <5>4. pc' = "restore" \/ faults' = faults + 1
                    BY <1>7, <3>2, <5>1, <5>2, <5>3 DEF UndoCheck, Test, Fault
                <5>5. pc' # "restore" BY <1>0, <1>7, <2>3 DEF UndoCheck
                <5> QED BY <1>0, <5>4, <5>5
            <4> QED BY <1>2, <2>1, <2>3, <3>2, <4>1 DEF PlacedAt
        <3> QED BY <3>1, <3>2
    <2> QED BY <2>1, <2>2, <2>3
<1>8. CASE Restore
    <2> PICK g \in Files : g = ToUndo /\ g \in committed \ undone BY <1>8, Current DEF Restore
    <2>1. /\ pc = "restore" /\ undone' = undone \cup {g}
          /\ UNCHANGED <<removed, original, snapped, committed, touched>>
          /\ \/ /\ disk' = [disk EXCEPT ![g] = backup[g]] /\ UNCHANGED <<kept, faults>>
             \/ kept' = kept \cup {g} /\ disk' = disk /\ faults' = faults + 1
        BY <1>8 DEF Restore, plans, Fault
    <2>2. CASE f # g
        <3>1. disk'[f] = disk[f] BY <1>0, <2>1, <2>2
        <3> QED BY <1>0, <1>1, <1>2, <2>1, <2>2, <3>1 DEF PlacedAt, Expected, Text
    <2>3. CASE f = g /\ kept' = kept \cup {g} /\ faults' = faults + 1
        BY <1>0, <2>1, <2>3 DEF PlacedAt
    <2>4. CASE f = g /\ disk' = [disk EXCEPT ![g] = backup[g]] /\ UNCHANGED kept
        <3>1. disk'[f] = backup[f] BY <1>0, <2>4
        <3>2. Text(backup[f]) # "next" BY DEF NewCommitted
        <3>3. ASSUME ~Meddled(f) PROVE Text(backup[f]) = Text(original[f])
            <4>1. CASE original[f] # None
                BY <1>0, <2>1, <2>4, <3>3, <4>1 DEF Located
            <4>2. CASE original[f] = None
                <5>1. f \notin removed BY <1>0, <2>4, <4>2 DEF Progress, Changes
                <5> QED BY <4>2, <5>1 DEF Restorable
            <4> QED BY <4>1, <4>2
        <3>4. f \notin kept' /\ f \in undone' BY <1>0, <2>1, <2>4
        <3> QED BY <1>2, <2>1, <3>1, <3>2, <3>3, <3>4 DEF PlacedAt, Text
    <2> QED BY <2>1, <2>2, <2>3, <2>4
<1>9. ASSUME NEW left \in SUBSET Files, Clean(left) PROVE PlacedAt(f)'
    <2>1. faults' = faults \/ faults' = faults + 1 BY <1>9 DEF Clean, Fault
    <2> QED BY <1>3, <1>9, <2>1 DEF Clean, plans
<1>10. ASSUME NEW g \in All, NEW e \in unused, Edit(g, e) PROVE PlacedAt(f)'
    <2>1. UNCHANGED <<pc, committed, undone, kept, removed, original, snapped, faults>>
        BY <1>10 DEF Edit, stages, plans
    <2>2. CASE f \in snapped
        <3>1. Meddled(f)' \/ (disk'[f] = disk[f] /\ touched'[f] = touched[f])
            BY <1>10, <2>2, EditRemembered
        <3>2. Text(disk[f]) # "next" => Text(disk'[f]) # "next"
            <4>1. /\ e \in Edits /\ e # "next" /\ None # "next"
                  /\ disk[f] # None => disk[f].text # "next" \/ Text(disk[f]) = "next"
                BY TransactionConstants DEF TypeOK, Text
            <4>2. \/ disk'[f] = disk[f] \/ disk'[f] = None
                  \/ disk'[f] = [text |-> e, inode |-> e]
                  \/ disk[f] # None /\ disk'[f] = [disk[f] EXCEPT !.text = e]
                BY <1>0, <1>10 DEF Edit
            <4>3. disk[f] # None => [disk[f] EXCEPT !.text = e].text = e
                BY <1>0, <4>1, VersionType
            <4>4. Text(None) # "next" BY <4>1 DEF Text
            <4>5. disk'[f] = [text |-> e, inode |-> e] => Text(disk'[f]) # "next"
                BY <4>1 DEF Text
            <4>6. disk[f] # None /\ disk'[f] = [disk[f] EXCEPT !.text = e] => Text(disk'[f]) # "next"
                BY <4>1, <4>3 DEF Text
            <4> QED BY <4>2, <4>4, <4>5, <4>6
        <3> QED BY <1>1, <2>1, <3>1, <3>2 DEF PlacedAt, Expected, Meddled, Text
    <2>3. CASE f \notin snapped
        BY <1>0, <2>1, <2>3 DEF PlacedAt
    <2> QED BY <2>2, <2>3
<1>11. ASSUME NEW g \in All, ReadSource(g) PROVE PlacedAt(f)'
    BY <1>3, <1>11 DEF ReadSource, stages
<1>12. CASE AssertPreconditions \/ MakeDirectories \/ StageCheck \/ CommitCheck \/ Verify
    <2>1. faults' = faults \/ faults' = faults + 1
        BY <1>12 DEF AssertPreconditions, MakeDirectories, StageCheck, CommitCheck, Verify, Test, Fault
    <2> QED BY <1>3, <1>12, <2>1 DEF AssertPreconditions, MakeDirectories, StageCheck,
           CommitCheck, Verify, plans, stages
<1>13. CASE Crash BY <1>3, <1>13 DEF Crash, Fault, plans, stages
<1>14. CASE UNCHANGED vars BY <1>3, <1>14 DEF vars, plans, stages
<1> QED BY <1>4, <1>5, <1>6, <1>7, <1>8, <1>9, <1>10, <1>11, <1>12, <1>13, <1>14 DEF Next, Step

(* What the rollback of f goes by.                                         *)
RestorableAt(f) ==
    /\ f \in committed \ removed =>
          \/ receipt[f] = New \/ Meddled(f) \/ faults > 0
          \/ pc = "verify" /\ f = Renamed
    /\ f \notin removed /\ original[f] = None => backup[f] = None
    /\ f \notin snapped => original[f] = None

LEMMA RestorableEach ==
    ASSUME TypeOK PROVE Restorable <=> \A f \in Files : RestorableAt(f)
BY DEF TypeOK, Restorable, RestorableAt

LEMMA RestorableKept ==
    /\ TypeOK /\ Progress /\ NewCommitted /\ InOrder /\ Placed /\ Restorable
    /\ [Next]_vars
    => Restorable'
<1> SUFFICES ASSUME TypeOK, Progress, NewCommitted, InOrder, Placed, Restorable,
                    [Next]_vars, NEW f \in Files
             PROVE  RestorableAt(f)'
    BY RestorableEach, NextTyped DEF Restorable, RestorableAt, TypeOK
<1>0. /\ original \in [Files -> {None} \cup Version] /\ backup \in [Files -> {None} \cup Version]
      /\ receipt \in [Files -> {None} \cup Version]
      /\ snapped \subseteq Files /\ staged \subseteq snapped
      /\ committed \subseteq staged /\ undone \subseteq committed
      /\ faults \in Nat
    BY TransactionConstants DEF TypeOK, Progress
<1>1. RestorableAt(f) BY RestorableEach
<1>2. UNCHANGED touched => (Meddled(f)' <=> Meddled(f)) BY DEF Meddled
<1>3. ASSUME UNCHANGED <<touched, original, snapped, removed, committed, receipt>>,
             faults' = faults \/ faults' = faults + 1, pc # "verify",
             backup'[f] = backup[f] \/ backup'[f] = None
      PROVE  RestorableAt(f)'
    BY <1>0, <1>1, <1>2, <1>3 DEF RestorableAt
<1>4. ASSUME NEW g \in Files, Prepare(g) PROVE RestorableAt(f)'
    <2>1. /\ committed = {} /\ g \notin snapped
          /\ UNCHANGED <<committed, removed, backup>>
          /\ \/ snapped' = snapped /\ original' = original
             \/ snapped' = snapped \cup {g} /\ original' = [original EXCEPT ![g] = disk[g]]
        BY <1>0, <1>4 DEF Prepare, Progress, stages
    <2> QED BY <1>0, <1>1, <2>1 DEF RestorableAt
<1>5. CASE Stage
    <2> PICK g \in Files : g = ToStage BY <1>5, Current DEF Stage
    <2>1. /\ committed = {} /\ UNCHANGED <<removed, original, snapped, committed>>
          /\ backup' \in {backup, [backup EXCEPT ![g] = CopyOf(g)]}
        BY <1>0, <1>5 DEF Stage, plans, Progress
    <2>2. original[g] = None => CopyOf(g) = None BY DEF CopyOf
    <2> QED BY <1>0, <1>1, <2>1, <2>2 DEF RestorableAt
<1>6. CASE Rename
    <2> PICK g \in Files : g = ToCommit /\ g \in staged \ committed BY <1>6, Current DEF Rename
    <2>1. /\ pc = "rename" /\ UNCHANGED <<removed, original, snapped, receipt, touched>>
          /\ faults' = faults \/ faults' = faults + 1
          /\ \/ UNCHANGED <<backup, committed>>
             \/ /\ pc' = "verify" /\ committed' = committed \cup {g}
                /\ backup' = IF g \in removed THEN [backup EXCEPT ![g] = disk[g]] ELSE backup
        BY <1>6 DEF Rename, plans, Fault
    <2>2. CASE UNCHANGED <<backup, committed>> BY <1>3, <2>1, <2>2
    <2>3. CASE /\ pc' = "verify" /\ committed' = committed \cup {g}
               /\ backup' = IF g \in removed THEN [backup EXCEPT ![g] = disk[g]] ELSE backup
        <3>1. f \notin removed => backup'[f] = backup[f] BY <1>0, <2>3
        <3>2. Last(committed') = g
            <4>1. \A h \in committed : ~ (Pos[g] < Pos[h]) BY DEF InOrder
            <4>2. \A h \in committed' : Pos[h] <= Pos[g] BY <1>0, <2>3, <4>1, Position
            <4>3. committed' \subseteq Files /\ g \in committed' BY <1>0, <2>3
            <4> QED BY <4>2, <4>3, LastIs
        <3>3. CASE f = g
            <4>1. f = Renamed' BY <3>2, <3>3 DEF Renamed
            <4> QED BY <1>0, <1>1, <2>1, <2>3, <3>1, <4>1 DEF RestorableAt
        <3>4. CASE f # g
            BY <1>0, <1>1, <1>2, <2>1, <2>3, <3>1, <3>4 DEF RestorableAt
        <3> QED BY <3>3, <3>4
    <2> QED BY <2>1, <2>2, <2>3
<1>7. CASE Verify
    <2>1. /\ pc = "verify" /\ pc' # "verify" /\ undone = {}
          /\ UNCHANGED <<removed, original, snapped, committed, backup, touched>>
          /\ faults' = faults \/ faults' = faults + 1
        BY <1>7 DEF Verify, Test, Fault, InOrder, plans
    <2> SUFFICES ASSUME f \in committed \ removed, ~Meddled(f), faults' = 0
                 PROVE  receipt'[f] = New
        BY <1>0, <1>1, <1>2, <2>1 DEF RestorableAt
    <2>2. CASE f # Renamed
        <3>1. receipt[f] = New BY <1>0, <1>1, <2>1, <2>2 DEF RestorableAt
        <3>2. receipt'[f] = receipt[f] BY <1>0, <1>7, <2>2 DEF Verify
        <3> QED BY <3>1, <3>2
    <2>3. CASE f = Renamed
        <3>1. disk[f] = New BY <1>0, <2>1 DEF Placed, Expected
        <3>2. Text(disk[f]) = "next" BY <3>1, TransactionConstants DEF New, Text, Version
        <3>3. pc' # "undo" BY <1>0, <1>7, <2>3, <3>2 DEF Verify, Test, Fault
        <3> QED BY <1>0, <1>7, <2>3, <3>1, <3>3 DEF Verify
    <2> QED BY <2>2, <2>3
<1>8. CASE Restore
    <2>1. /\ backup'[f] = backup[f] \/ backup'[f] = None
          /\ faults' = faults \/ faults' = faults + 1
        BY <1>0, <1>8 DEF Restore, Fault
    <2> QED BY <1>3, <1>8, <2>1 DEF Restore, plans
<1>9. ASSUME NEW left \in SUBSET Files, Clean(left) PROVE RestorableAt(f)'
    <2>1. faults' = faults \/ faults' = faults + 1 BY <1>9 DEF Clean, Fault
    <2>2. backup'[f] = backup[f] \/ backup'[f] = None BY <1>9 DEF Clean
    <2> QED BY <1>3, <1>9, <2>1, <2>2 DEF Clean, plans
<1>10. ASSUME NEW g \in All, NEW e \in unused, Edit(g, e) PROVE RestorableAt(f)'
    <2>1. UNCHANGED <<pc, committed, receipt, removed, original, snapped, backup, faults>>
        BY <1>10 DEF Edit, stages, plans
    <2>2. Renamed' = Renamed BY <2>1 DEF Renamed
    <2>3. f \in committed /\ Meddled(f) => Meddled(f)'
        BY <1>0, <1>10, EditRemembered DEF Meddled
    <2> QED BY <1>1, <2>1, <2>2, <2>3 DEF RestorableAt
<1>11. ASSUME NEW g \in All, ReadSource(g) PROVE RestorableAt(f)'
    BY <1>3, <1>11 DEF ReadSource, stages
<1>12. CASE AssertPreconditions \/ MakeDirectories \/ StageCheck \/ CommitCheck \/ UndoCheck
    <2>1. /\ faults' = faults \/ faults' = faults + 1
          /\ pc # "verify"
        BY <1>12 DEF AssertPreconditions, Guards, MakeDirectories, StageCheck, CommitCheck,
           UndoCheck, Test, Fault
    <2> QED BY <1>3, <1>12, <2>1 DEF AssertPreconditions, MakeDirectories, StageCheck,
           CommitCheck, UndoCheck, plans, stages
<1>13. CASE Crash
    <2>1. faults' > 0 BY <1>0, <1>13 DEF Crash, Fault
    <2> QED BY <1>1, <1>13, <2>1 DEF Crash, RestorableAt, plans, stages
<1>14. CASE UNCHANGED vars
    <2>1. Renamed' = Renamed BY <1>14 DEF vars, stages, Renamed
    <2> QED BY <1>1, <1>2, <1>14, <2>1 DEF vars, plans, stages, RestorableAt
<1> QED BY <1>4, <1>5, <1>6, <1>7, <1>8, <1>9, <1>10, <1>11, <1>12, <1>13, <1>14 DEF Next, Step

(* A condition is as it was when it was last looked at: whoever edits it   *)
(* after that does so in the gap.                                          *)
HeldAt(f) ==
    /\ pc \in Succeeded \/ (pc = "last" /\ f \in seen)
    /\ touched[f] = "late"
    => disk[f] = base[f]

LEMMA ConditionsKept == TypeOK /\ ConditionsHeld /\ [Next]_vars => ConditionsHeld'
<1> SUFFICES ASSUME TypeOK, ConditionsHeld, [Next]_vars PROVE ConditionsHeld' OBVIOUS
<1>1. ASSUME pc' \notin Succeeded, UNCHANGED seen, seen = {} PROVE ConditionsHeld'
    BY <1>1 DEF ConditionsHeld
<1>2. CASE AssertPreconditions
    <2>1. /\ UNCHANGED <<disk, base, touched>> /\ pc \in Guards /\ pc \notin Succeeded
        BY <1>2 DEF AssertPreconditions, plans, Guards, Succeeded
    <2>2. CASE seen = Conditions /\ pc' = AfterGuard /\ seen' = {}
        <3>1. pc' \in Succeeded => pc = "last"
            BY <2>1, <2>2 DEF AfterGuard, Guards, Succeeded
        <3> QED BY <2>1, <2>2, <3>1 DEF ConditionsHeld
    <2>3. CASE \E f \in Conditions \ seen :
                 /\ Test(disk[f] = base[f], pc, IF pc \in {"enter", "reenter"} THEN "failed" ELSE "undo")
                 /\ seen' = IF pc' = pc THEN seen \cup {f} ELSE {}
        <3> PICK f \in Conditions \ seen :
                 /\ Test(disk[f] = base[f], pc, IF pc \in {"enter", "reenter"} THEN "failed" ELSE "undo")
                 /\ seen' = IF pc' = pc THEN seen \cup {f} ELSE {}
            BY <2>3
        <3>1. CASE pc' = pc
            <4>1. disk[f] = base[f] BY <2>1, <3>1 DEF Test, Guards
            <4> QED BY <2>1, <3>1, <4>1 DEF ConditionsHeld
        <3>2. CASE pc' # pc
            <4>1. pc' \in {"failed", "undo"} BY <3>2 DEF Test
            <4> QED BY <3>2, <4>1 DEF ConditionsHeld, Succeeded
        <3> QED BY <3>1, <3>2
    <2> QED BY <1>2, <2>2, <2>3 DEF AssertPreconditions
<1>3. ASSUME NEW left \in SUBSET Files, Clean(left) PROVE ConditionsHeld'
    <2>1. /\ UNCHANGED <<disk, base, touched, seen>> /\ pc \in {"clean", "undo"} /\ pc' \in Ended
          /\ pc' \in Succeeded => pc \in Succeeded
        BY <1>3 DEF Clean, AfterClean, plans, Ended, Succeeded
    <2> QED BY <2>1 DEF ConditionsHeld, Guards, Ended
<1>4. ASSUME NEW g \in All, NEW e \in unused, Edit(g, e) PROVE ConditionsHeld'
    <2>1. /\ UNCHANGED <<pc, base, seen>> /\ touched' = [touched EXCEPT ![g] = Moment(g)]
          /\ touched \in [All -> {"no", "early", "late", "gap"}]
          /\ disk \in [All -> {None} \cup Version]
        BY <1>4 DEF Edit, plans, stages, TypeOK
    <2>2. ASSUME NEW f \in Conditions PROVE HeldAt(f)'
        <3>1. f \in All BY DEF All
        <3>2. CASE f = g
            <4>1. pc \in Succeeded \/ (pc = "last" /\ f \in seen) =>
                    Moment(f) \in {"early", "gap"}
                BY DEF Moment
            <4>2. touched'[f] = Moment(f) BY <2>1, <3>1, <3>2
            <4> QED BY <2>1, <4>1, <4>2 DEF HeldAt
        <3>3. CASE f # g
            <4>1. disk'[f] = disk[f] /\ touched'[f] = touched[f]
                BY <1>4, <2>1, <3>1, <3>3 DEF Edit
            <4>2. HeldAt(f) BY DEF HeldAt, ConditionsHeld
            <4> QED BY <2>1, <4>1, <4>2 DEF HeldAt
        <3> QED BY <3>2, <3>3
    <2> QED BY <2>1, <2>2 DEF ConditionsHeld, HeldAt
<1>5. CASE UNCHANGED vars BY <1>5 DEF vars, plans, stages, ConditionsHeld
<1>6. CASE Crash BY <1>6 DEF Crash, ConditionsHeld, Succeeded
<1>7. CASE \/ \E g \in All : ReadSource(g)
           \/ \E g \in Files : Prepare(g)
           \/ MakeDirectories \/ StageCheck \/ Stage \/ CommitCheck \/ Rename \/ Verify
           \/ UndoCheck \/ Restore
    <2>1. pc' \notin Succeeded
        BY <1>7 DEF ReadSource, Prepare, MakeDirectories, StageCheck, Stage, CommitCheck, Rename,
           Verify, UndoCheck, Restore, Test, Succeeded
    <2>2. UNCHANGED seen /\ pc \notin Guards \cup {"crashed"}
        BY <1>7 DEF ReadSource, Prepare, MakeDirectories, StageCheck, Stage, CommitCheck, Rename,
           Verify, UndoCheck, Restore, Guards, stages
    <2> QED BY <1>1, <2>1, <2>2 DEF ConditionsHeld
<1> QED BY <1>2, <1>3, <1>4, <1>5, <1>6, <1>7 DEF Next, Step

LEMMA Outcome == Spec => []OutcomeInv
<1>1. Init => OutcomeInv
    <2>1. Init => InOrder /\ Restorable /\ ConditionsHeld
        BY DEF Init, InOrder, Restorable, ConditionsHeld, Succeeded
    <2>2. Init => Placed BY DEF Init, Placed
    <2> QED BY <2>1, <2>2, InitInvariant DEF OutcomeInv
<1>2. OutcomeInv /\ [Next]_vars => OutcomeInv'
    BY NextInvariant, OrderKept, PlacedKept, RestorableKept, ConditionsKept
    DEF OutcomeInv, TransactionInv
<1> QED BY <1>1, <1>2, PTL DEF Spec

(* A host never runs a new hook without its new runtime files: the hooks   *)
(* come last in the list, are renamed last and undone first                *)
(* (managed-transaction.ts:203-300), whatever fails or is edited.          *)
THEOREM HooksTheorem == Spec => []HooksNeedRuntime
<1>1. OutcomeInv => HooksNeedRuntime
    <2> SUFFICES ASSUME OutcomeInv, NEW f \in Files \ removed, NEW g \in Files \ removed,
                        Pos[g] < Pos[f], disk[f] = New, ~Meddled(g), f \notin kept
                 PROVE  disk[g] = New
        BY DEF HooksNeedRuntime
    <2>1. TypeOK /\ Progress /\ NewCommitted /\ InOrder /\ Placed
        BY DEF OutcomeInv, TransactionInv
    <2>2. Text(disk[f]) = "next" BY TransactionConstants DEF Text, New, Version
    <2>3. f \in committed /\ f \notin undone BY <2>1, <2>2 DEF NewCommitted, Placed
    <2>4. g \in staged BY <2>1, <2>3 DEF InOrder, Changes
    <2>5. g \in committed BY <2>1, <2>3, <2>4 DEF InOrder
    <2>6. g \notin undone
        <3>1. Pos[f] \in Nat /\ Pos[g] \in Nat BY Position
        <3>2. g \in undone => Pos[f] < Pos[g] BY <2>1, <2>3 DEF InOrder
        <3> QED BY <3>1, <3>2
    <2>7. disk[g] = Expected(g) BY <2>1, <2>4, <2>6 DEF Placed, Progress
    <2> QED BY <2>5, <2>7 DEF Expected
<1> QED BY <1>1, Outcome, PTL

(* A transaction that ends well, or with an error of its last clean-up     *)
(* only, has changed every target, and what it depends on did not change   *)
(* before the last look at it; one that ends with any other error has      *)
(* changed none (managed-transaction.ts:309-389). Excepted are files that  *)
(* other programs edited and those whose rollback failed.                  *)
THEOREM OutcomeTheorem == Spec => []AllOrNothing
<1>1. OutcomeInv => AllOrNothing
    <2> SUFFICES ASSUME OutcomeInv PROVE AllOrNothing OBVIOUS
    <2>1. TypeOK /\ Progress /\ InOrder /\ Placed /\ ConditionsHeld
        BY DEF OutcomeInv, TransactionInv
    <2>2. ASSUME pc \in {"done", "uncleaned"}, NEW f \in Files, ~Meddled(f)
          PROVE  disk[f] = IF f \in removed THEN None ELSE New
        <3>1. f \in snapped /\ f \notin undone /\ committed = Changes
            BY <2>1, <2>2 DEF Progress, InOrder, Succeeded
        <3>2. disk[f] = Expected(f) BY <2>1, <2>2, <3>1 DEF Placed
        <3> QED BY <3>1, <3>2 DEF Expected, Changes
    <2>3. ASSUME pc = "failed", NEW f \in snapped, ~Meddled(f)
          PROVE  Text(disk[f]) = Text(original[f]) \/ (faults > 0 /\ f \in kept)
        <3>1. CASE f \notin committed
            BY <2>1, <2>3, <3>1 DEF Placed, Progress, Expected
        <3>2. CASE f \in committed
            BY <2>1, <2>3, <3>2 DEF Placed, Progress
        <3> QED BY <3>1, <3>2
    <2>4. pc \in {"done", "uncleaned"} =>
            \A f \in Conditions : touched[f] = "late" => disk[f] = base[f]
        BY <2>1 DEF ConditionsHeld, Succeeded
    <2> QED BY <2>2, <2>3, <2>4 DEF AllOrNothing
<1> QED BY <1>1, Outcome, PTL
=============================================================================
