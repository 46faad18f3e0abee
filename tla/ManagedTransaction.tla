------------------------ MODULE ManagedTransaction ------------------------
(***************************************************************************)
(* The transaction in which the Node CLI installs or removes the hooks of  *)
(* a host (managed-transaction.ts): several files, each replaced by a      *)
(* rename or moved away, while other programs edit the same files.         *)
(*                                                                         *)
(* A file is read and its new text computed (the plan of an installation), *)
(* snapshots are taken, new files and copies of the old ones are staged    *)
(* next to the targets, and the targets are renamed one by one, each after *)
(* a comparison with its snapshot.  Any error undoes the renames in        *)
(* reverse.  Conditions are files the plan has read and does not change;   *)
(* they are looked at one after the other, again and again.                *)
(*                                                                         *)
(* A version of a file is a text and an inode.  Each file system call may  *)
(* fail, and the process may be killed; each costs one of MaxFaults.       *)
(***************************************************************************)
EXTENDS Integers, FiniteSets

CONSTANTS
    Files,        \* the targets
    Pos,          \* Pos[f]: the place of f in the list of changes
    Merged,       \* targets whose new text is made from the old one
    Conditions,   \* files the plan depends on
    Edits,        \* edits other programs may make
    MaxFaults,
    None

Version == [text : {"was", "next"} \cup Edits, inode : {"was", "temp", "copy"} \cup Edits]

ASSUME TransactionConstants ==
    /\ IsFiniteSet(Files)
    /\ Pos \in [Files -> 1..Cardinality(Files)]
    /\ \A f, g \in Files : Pos[f] = Pos[g] => f = g
    /\ Merged \subseteq Files
    /\ Files \cap Conditions = {}
    /\ MaxFaults \in Nat
    /\ Edits \cap {"was", "next", "temp", "copy"} = {}
    /\ None \notin Version /\ None \notin {"was", "next"} \cup Edits

All == Files \cup Conditions

VARIABLES
    disk,      \* disk[f]: the version at f, or None
    removed,   \* the targets whose change is a removal
    pc,        \* where the transaction is
    base,      \* base[f]: the version the plan was made from
    planned,   \* the files the plan has read
    original,  \* original[f]: the snapshot of target f
    snapped,   \* the targets with a snapshot
    staged,    \* the targets staged
    temp,      \* the targets with a .tmp file
    backup,    \* backup[f]: the .rollback file of f, or None
    committed, \* the targets renamed
    receipt,   \* receipt[f]: committedSnapshot
    undone,    \* the committed targets whose rollback was tried
    kept,      \* the targets whose .rollback file is left to the user
    touched,   \* touched[f]: when another program last edited f
    seen,      \* the conditions the present assertPreconditions has looked at
    unused,    \* edits not made yet
    faults

plans == <<removed, base, planned, original, snapped>>
stages == <<staged, temp, committed, receipt, undone, kept, seen>>
vars == <<disk, pc, plans, stages, backup, touched, unused, faults>>

Was == [text |-> "was", inode |-> "was"]
New == [text |-> "next", inode |-> "temp"]

Init ==
    /\ disk \in [All -> {None, Was}]
    /\ removed \in SUBSET Merged
    /\ pc = "read"
    /\ base = [f \in All |-> None]
    /\ planned = {}
    /\ original = [f \in Files |-> None]
    /\ snapped = {}
    /\ staged = {}
    /\ temp = {}
    /\ backup = [f \in Files |-> None]
    /\ committed = {}
    /\ receipt = [f \in Files |-> None]
    /\ undone = {}
    /\ kept = {}
    /\ seen = {}
    /\ touched = [f \in All |-> "no"]
    /\ unused = Edits
    /\ faults = 0

First(S) == CHOOSE f \in S : \A g \in S : Pos[f] <= Pos[g]
Last(S) == CHOOSE f \in S : \A g \in S : Pos[g] <= Pos[f]

Fault == faults < MaxFaults /\ faults' = faults + 1

\* A comparison of files with what was read before; a read that fails counts
\* as a difference.
Test(same, then, else) ==
    \/ pc' = (IF same THEN then ELSE else) /\ UNCHANGED faults
    \/ pc' = else /\ Fault

(***************************************************************************)
(* The plan: the sources are read, then snapshots of all targets taken.    *)
(***************************************************************************)
ReadSource(f) ==
    /\ pc = "read"
    /\ f \in (Merged \cup Conditions) \ planned
    /\ base' = [base EXCEPT ![f] = disk[f]]
    /\ planned' = planned \cup {f}
    /\ pc' = IF Merged \cup Conditions \subseteq planned' THEN "prepare" ELSE "read"
    /\ UNCHANGED <<disk, removed, original, snapped, stages, backup, touched, unused, faults>>

Text(v) == IF v = None THEN None ELSE v.text

\* The targets that are to change: a file that is not there is not removed.
Changes == {f \in Files : f \in removed => original[f] # None}

\* Mutant: the snapshot is taken without a look at the text the plan was made from.
PrepareUnverified(f) ==
    /\ pc = "prepare"
    /\ f \in Files \ snapped
    /\ \/ /\ original' = [original EXCEPT ![f] = disk[f]]
          /\ snapped' = snapped \cup {f}
          /\ pc' = IF snapped' = Files THEN "enter" ELSE "prepare"
          /\ UNCHANGED faults
       \/ /\ pc' = "failed"
          /\ Fault
          /\ UNCHANGED <<original, snapped>>
    /\ UNCHANGED <<disk, removed, base, planned, stages, backup, touched, unused>>

\* prepareManagedFileChange: the file must still hold what the plan was made from.
Prepare(f) ==
    /\ pc = "prepare"
    /\ f \in Files \ snapped
    /\ \/ /\ f \in Merged => Text(disk[f]) = Text(base[f])
          /\ original' = [original EXCEPT ![f] = disk[f]]
          /\ snapped' = snapped \cup {f}
          /\ pc' = IF snapped' = Files THEN "enter" ELSE "prepare"
          /\ UNCHANGED faults
       \/ /\ pc' = "failed"
          /\ \/ f \in Merged /\ Text(disk[f]) # Text(base[f]) /\ UNCHANGED faults
             \/ Fault
          /\ UNCHANGED <<original, snapped>>
    /\ UNCHANGED <<disk, removed, base, planned, stages, backup, touched, unused>>

(***************************************************************************)
(* commitManagedTransaction                                                *)
(***************************************************************************)
\* assertPreconditions: what the plan depends on is as it was read, one file per
\* step (the list's order tells nothing, so any order is allowed).
Guards == {"enter", "reenter", "staged", "guard", "last"}

AfterGuard ==
    CASE pc = "enter" -> "mkdir"
      [] pc = "reenter" -> IF Changes = {} THEN "staged" ELSE "stage"
      [] pc = "staged" -> IF Changes = {} THEN "last" ELSE "guard"
      [] pc = "guard" -> "check"
      [] pc = "last" -> "clean"

AssertPreconditions ==
    /\ pc \in Guards
    /\ \/ /\ seen = Conditions
          /\ pc' = AfterGuard
          /\ seen' = {}
          /\ UNCHANGED faults
       \/ \E f \in Conditions \ seen :
             /\ Test(disk[f] = base[f], pc, IF pc \in {"enter", "reenter"} THEN "failed" ELSE "undo")
             /\ seen' = IF pc' = pc THEN seen \cup {f} ELSE {}
    /\ UNCHANGED <<disk, plans, staged, temp, committed, receipt, undone, kept, backup,
                   touched, unused>>

MakeDirectories ==
    /\ pc = "mkdir"
    /\ Test(TRUE, "reenter", "failed")
    /\ UNCHANGED <<disk, plans, stages, backup, touched, unused>>

\* stage: the target is compared, then its new file and the copy are written.
\* When that fails, what was written is removed, unless that fails too.
ToStage == First(Changes \ staged)

StageCheck ==
    /\ pc = "stage"
    /\ Test(disk[ToStage] = original[ToStage], "write", "undo")
    /\ UNCHANGED <<disk, plans, stages, backup, touched, unused>>

CopyOf(f) ==
    IF f \in removed \/ original[f] = None THEN None ELSE [original[f] EXCEPT !.inode = "copy"]

Stage ==
    LET f == ToStage IN
    /\ pc = "write"
    /\ \/ /\ staged' = staged \cup {f}
          /\ temp' = IF f \in removed THEN temp ELSE temp \cup {f}
          /\ backup' = [backup EXCEPT ![f] = CopyOf(f)]
          /\ pc' = IF staged' = Changes THEN "staged" ELSE "stage"
          /\ UNCHANGED faults
       \/ /\ pc' = "undo"
          /\ Fault
          /\ temp' \in {temp, temp \cup ({f} \ removed)}
          /\ backup' \in {backup, [backup EXCEPT ![f] = CopyOf(f)]}
          /\ UNCHANGED staged
    /\ UNCHANGED <<disk, plans, committed, receipt, undone, kept, seen, touched, unused>>

\* commit: compare, rename, read again.
ToCommit == First(staged \ committed)

CommitCheck ==
    /\ pc = "check"
    /\ Test(disk[ToCommit] = original[ToCommit], "rename", "undo")
    /\ UNCHANGED <<disk, plans, stages, backup, touched, unused>>

Rename ==
    LET f == ToCommit IN
    /\ pc = "rename"
    /\ \/ /\ f \in removed => disk[f] # None
          /\ disk' = [disk EXCEPT ![f] = IF f \in removed THEN None ELSE New]
          /\ backup' = IF f \in removed THEN [backup EXCEPT ![f] = disk[f]] ELSE backup
          /\ temp' = temp \ {f}
          /\ committed' = committed \cup {f}
          /\ pc' = "verify"
          /\ UNCHANGED faults
       \/ /\ pc' = "undo"
          /\ \/ f \in removed /\ disk[f] = None /\ UNCHANGED faults
             \/ Fault
          /\ UNCHANGED <<disk, backup, temp, committed>>
    /\ UNCHANGED <<plans, staged, receipt, undone, kept, seen, touched, unused>>

Renamed == Last(committed)

\* Mutant: the conditions are not looked at again after the last commit.
VerifyLast ==
    LET f == Renamed
        same == IF f \in removed THEN disk[f] = None ELSE Text(disk[f]) = "next" IN
    /\ pc = "verify"
    /\ Test(same, IF committed = staged THEN "clean" ELSE "guard", "undo")
    /\ receipt' = IF pc' = "undo" \/ f \in removed THEN receipt
                  ELSE [receipt EXCEPT ![f] = disk[f]]
    /\ UNCHANGED <<disk, plans, staged, temp, committed, undone, kept, seen, backup, touched, unused>>

Verify ==
    LET f == Renamed
        same == IF f \in removed THEN disk[f] = None ELSE Text(disk[f]) = "next" IN
    /\ pc = "verify"
    /\ Test(same, IF committed = staged THEN "last" ELSE "guard", "undo")
    /\ receipt' = IF pc' = "undo" \/ f \in removed THEN receipt
                  ELSE [receipt EXCEPT ![f] = disk[f]]
    /\ UNCHANGED <<disk, plans, staged, temp, committed, undone, kept, seen, backup, touched, unused>>

\* rollback: in reverse, each after a comparison with what was committed.
\* Mutant: the rollback takes the files in the order of the commit.
ToUndoForwards == First(committed \ undone)

ToUndo == Last(committed \ undone)

UndoCheck ==
    LET f == ToUndo IN
    /\ pc = "undo"
    /\ committed # undone
    /\ Test(IF f \in removed THEN disk[f] = None
            ELSE disk[f] # None /\ disk[f] = receipt[f], "restore", "undo")
    /\ IF pc' = "restore" THEN UNCHANGED <<undone, kept>>
       ELSE undone' = undone \cup {f} /\ kept' = kept \cup {f}
    /\ UNCHANGED <<disk, plans, staged, temp, committed, receipt, seen, backup, touched, unused>>

Restore ==
    LET f == ToUndo IN
    /\ pc = "restore"
    /\ undone' = undone \cup {f}
    /\ pc' = "undo"
    /\ \/ /\ disk' = [disk EXCEPT ![f] = backup[f]]
          /\ backup' = [backup EXCEPT ![f] = None]
          /\ UNCHANGED <<kept, faults>>
       \/ /\ Fault
          /\ kept' = kept \cup {f}
          /\ UNCHANGED <<disk, backup>>
    /\ UNCHANGED <<plans, staged, temp, committed, receipt, seen, touched, unused>>

\* cleanup of all staged targets, where each unlink may fail. After a complete
\* commit that is an error too, with every target changed ("uncleaned").
AfterClean(left) ==
    IF pc # "clean" THEN "failed" ELSE IF left = {} THEN "done" ELSE "uncleaned"

\* Mutant: the .rollback file goes even where the rollback failed.
CleanAll(left) ==
    /\ pc = "clean" \/ (pc = "undo" /\ committed = undone)
    /\ IF left = {} THEN UNCHANGED faults ELSE Fault
    /\ temp' = (temp \ staged) \cup (temp \cap left)
    /\ backup' = [f \in Files |-> IF f \in staged \ left THEN None ELSE backup[f]]
    /\ pc' = AfterClean(left)
    /\ UNCHANGED <<disk, plans, staged, committed, receipt, undone, kept, seen, touched, unused>>

Clean(left) ==
    /\ pc = "clean" \/ (pc = "undo" /\ committed = undone)
    /\ IF left = {} THEN UNCHANGED faults ELSE Fault
    /\ temp' = (temp \ staged) \cup (temp \cap left)
    /\ backup' = [f \in Files |-> IF f \in (staged \ kept) \ left THEN None ELSE backup[f]]
    /\ pc' = AfterClean(left)
    /\ UNCHANGED <<disk, plans, staged, committed, receipt, undone, kept, seen, touched, unused>>

(***************************************************************************)
(* The rest of the machine.                                                *)
(***************************************************************************)
Ended == {"done", "uncleaned", "failed", "crashed"}

\* Every target is committed and the conditions held: there is no way back.
Succeeded == {"clean", "done", "uncleaned"}

Crash ==
    /\ pc \notin Ended
    /\ Fault
    /\ pc' = "crashed"
    /\ UNCHANGED <<disk, plans, stages, backup, touched, unused>>

\* When an edit is made: before the file was read for good ("early"), between a
\* comparison and the rename it is made for, or after the last look at a condition
\* ("gap"), or in between ("late").
Moment(f) ==
    IF f \in Conditions
    THEN IF f \notin planned THEN "early"
         ELSE IF \/ pc \in Succeeded \cup {"undo", "restore", "failed"}
                 \/ pc = "last" /\ f \in seen THEN "gap" ELSE "late"
    ELSE IF f \notin snapped THEN "early"
         ELSE IF \/ pc = "rename" /\ f = ToCommit
                 \/ pc = "restore" /\ f = ToUndo THEN "gap" ELSE "late"

\* Another program writes in place, replaces or removes a file.
Edit(f, e) ==
    /\ pc \notin Ended
    /\ unused' = unused \ {e}
    /\ touched' = [touched EXCEPT ![f] = Moment(f)]
    /\ \/ disk' = [disk EXCEPT ![f] = [text |-> e, inode |-> e]]
       \/ /\ disk[f] # None
          /\ \/ disk' = [disk EXCEPT ![f].text = e]
             \/ disk' = [disk EXCEPT ![f] = None]
    /\ UNCHANGED <<pc, plans, stages, backup, faults>>

Step ==
    \/ \E f \in All : ReadSource(f)
    \/ \E f \in Files : Prepare(f)
    \/ AssertPreconditions
    \/ MakeDirectories
    \/ StageCheck
    \/ Stage
    \/ CommitCheck
    \/ Rename
    \/ Verify
    \/ UndoCheck
    \/ Restore
    \/ \E left \in SUBSET Files : Clean(left)

Next ==
    \/ Step
    \/ Crash
    \/ \E f \in All : \E e \in unused : Edit(f, e)

Spec == Init /\ [][Next]_vars

-----------------------------------------------------------------------------
(***************************************************************************)
(* Properties                                                              *)
(***************************************************************************)
Sequence == {"read", "prepare", "mkdir", "stage", "write", "check", "rename", "verify",
             "undo", "restore", "clean"} \cup Guards \cup Ended

TypeOK ==
    /\ disk \in [All -> {None} \cup Version]
    /\ removed \subseteq Merged
    /\ pc \in Sequence
    /\ base \in [All -> {None} \cup Version]
    /\ planned \subseteq All
    /\ original \in [Files -> {None} \cup Version]
    /\ snapped \subseteq Files
    /\ staged \subseteq Files
    /\ temp \subseteq Files
    /\ backup \in [Files -> {None} \cup Version]
    /\ committed \subseteq Files
    /\ receipt \in [Files -> {None} \cup Version]
    /\ undone \subseteq Files
    /\ kept \subseteq Files
    /\ seen \subseteq Conditions
    /\ touched \in [All -> {"no", "early", "late", "gap"}]
    /\ unused \subseteq Edits
    /\ faults \in 0..MaxFaults

Meddled(f) == touched[f] \in {"late", "gap"}

\* Until every target has been changed and the copies are cleaned away, and after
\* a crash or a failure on the way there, the text of every target is in the target
\* or in its .rollback file, unless another program replaced it
\* (managed-transaction.ts:176-307).
OriginalKept ==
    \A f \in snapped :
        original[f] # None /\ ~Meddled(f) /\ pc \notin {"done", "uncleaned"} =>
            original[f].text \in {Text(disk[f]), Text(backup[f])}

\* What the transaction takes the target to be.
Expected(f) == IF f \notin committed THEN original[f]
               ELSE IF f \in removed THEN None ELSE New

\* No edit of another program is overwritten, neither by the commit nor by the
\* rollback, unless it is made between the comparison and the rename; and a new
\* text replaces no other text than the one it was made from, however early it
\* was edited (managed-transaction.ts:83-91, 221-300).
EditsSurvive ==
    [][\A f \in Files :
          disk'[f] # disk[f] /\ UNCHANGED unused =>
              \/ touched[f] = "gap"
              \/ /\ disk[f] = Expected(f)
                 /\ f \in Merged \ committed => Text(disk[f]) = Text(base[f])]_vars

\* The hooks come last in the list and are undone first: at no moment, not even
\* after a crash or in a rollback, does a host run a hook of the new installation
\* whose runtime files are not in place, except where the rollback of the hooks
\* failed and the user is told.
HooksNeedRuntime ==
    \A f, g \in Files \ removed :
        Pos[g] < Pos[f] /\ disk[f] = New => disk[g] = New \/ Meddled(g) \/ f \in kept

\* A transaction that ends well has changed every target, and none of the files it
\* depends on changed before the last look at it; one that ends with an error has
\* changed none, unless all that failed is the last clean-up: that error is thrown
\* with every target changed (managed-transaction.ts:380-389), and then what holds
\* of success holds too. Files other programs edited are excepted, and a file whose
\* rollback failed.
AllOrNothing ==
    /\ pc \in {"done", "uncleaned"} =>
          /\ \A f \in Files : Meddled(f) \/ disk[f] = IF f \in removed THEN None ELSE New
          /\ \A f \in Conditions : touched[f] = "late" => disk[f] = base[f]
    /\ pc = "failed" =>
          \A f \in snapped : Meddled(f) \/ Text(disk[f]) = Text(original[f])
                             \/ (faults > 0 /\ f \in kept)

(***************************************************************************)
(* Why: how far the transaction is at each step, and where the new text    *)
(* and the old one are then.                                               *)
(***************************************************************************)
Progress ==
    /\ undone \subseteq committed /\ kept \subseteq undone
    /\ committed \subseteq staged /\ staged \subseteq Changes
    /\ pc = "read" => snapped = {}
    /\ pc \in {"read", "prepare", "enter", "mkdir", "reenter"} => staged = {}
    /\ pc \notin {"read", "prepare", "failed", "crashed"} => snapped = Files
    /\ staged \subseteq snapped
    /\ pc \in {"stage", "write"} => committed = {} /\ Changes # staged
    /\ pc = "staged" => committed = {} /\ staged = Changes
    /\ pc \in {"guard", "check", "rename"} => committed # staged
    /\ pc = "restore" => committed # undone
    /\ pc = "failed" => committed = undone

\* The new text is only where it was committed.
NewCommitted ==
    /\ \A f \in Files : Text(disk[f]) = "next" => f \in committed /\ disk[f] = New
    /\ \A f \in Files : Text(original[f]) # "next" /\ Text(backup[f]) # "next"
    /\ \A f \in Files : receipt[f] \in {None, New}

PlanFits == \A f \in Merged \cap snapped : Text(original[f]) = Text(base[f])

\* What the last comparison found is still so, but for an edit made since.
Compared ==
    /\ pc = "rename" => touched[ToCommit] = "gap" \/ disk[ToCommit] = original[ToCommit]
    /\ pc = "restore" => touched[ToUndo] = "gap" \/ disk[ToUndo] = Expected(ToUndo)

\* Where the text of an original is while only the transaction changes its file.
Located ==
    \A f \in snapped : original[f] # None /\ ~Meddled(f) =>
        /\ f \notin committed => disk[f] = original[f]
        /\ f \in staged \ (committed \cup removed) /\ pc \notin Ended =>
              Text(backup[f]) = Text(original[f])
        /\ f \in committed \ undone /\ pc \notin {"done", "uncleaned"} => Text(backup[f]) = Text(original[f])
        /\ f \in undone =>
              \/ f \in kept /\ Text(backup[f]) = Text(original[f])
              \/ Text(disk[f]) = Text(original[f])

TransactionInv == TypeOK /\ Progress /\ NewCommitted /\ PlanFits /\ Compared /\ Located

\* The files are committed in the order of the list and undone in reverse.
InOrder ==
    /\ pc \in {"staged", "guard", "check", "rename", "verify", "last"} \cup Succeeded =>
          staged = Changes
    /\ committed # {} => staged = Changes
    /\ pc \in {"last"} \cup Succeeded => committed = staged
    /\ pc \notin {"undo", "restore", "failed", "crashed"} => undone = {}
    /\ \A f \in committed, g \in staged : Pos[g] < Pos[f] => g \in committed
    /\ \A f \in committed \ undone, g \in undone : Pos[f] < Pos[g]

\* What is at a target that no other program has edited.
Placed ==
    /\ \A f \in snapped \ undone : Meddled(f) \/ disk[f] = Expected(f)
    /\ \A f \in undone \ kept :
          /\ Text(disk[f]) # "next"
          /\ Meddled(f) \/ Text(disk[f]) = Text(original[f])
    /\ \A f \in kept : Meddled(f) \/ faults > 0

\* The rollback knows what was committed, and there is a copy only of a file.
Restorable ==
    /\ \A f \in committed \ removed :
          \/ receipt[f] = New \/ Meddled(f) \/ faults > 0
          \/ pc = "verify" /\ f = Renamed
    /\ \A f \in Files \ removed : original[f] = None => backup[f] = None
    /\ \A f \in Files \ snapped : original[f] = None

ConditionsHeld ==
    /\ pc \notin Guards \cup {"crashed"} => seen = {}
    /\ \A f \in Conditions :
          /\ pc \in Succeeded \/ (pc = "last" /\ f \in seen)
          /\ touched[f] = "late"
          => disk[f] = base[f]

OutcomeInv == TransactionInv /\ InOrder /\ Placed /\ Restorable /\ ConditionsHeld
===========================================================================
