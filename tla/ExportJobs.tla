---------------------------- MODULE ExportJobs ----------------------------
(***************************************************************************)
(* Compliance exports.  A request inserts an `exports` row, logs it and    *)
(* sends a job (export-service.ts); queue workers take the job, mark the   *)
(* row running, read the operations, put the file and mark the row done,   *)
(* or failed in the catch, and throw so that the queue retries (worker.ts);*)
(* clients download the file of an export that is done (routes/exports.ts).*)
(*                                                                         *)
(* Every call to the database, the object store or the queue is a step of  *)
(* its own.  It may fail before it took effect ("refused") or after it     *)
(* ("lost"); a worker may die, or be so slow that the queue takes its job  *)
(* for stalled while it goes on.  Each of these costs one of MaxFaults.    *)
(*                                                                         *)
(* The file is the set of operations it lists; its format (JSON or PDF),   *)
(* the organisation and the filters, which never change, are left out.     *)
(***************************************************************************)
EXTENDS Integers, FiniteSets

CONSTANTS
    Exports,      \* export ids
    Workers,      \* the jobs the worker processes run at once (concurrency)
    Ops,          \* the operations that match the filters of the exports
    Attempts,     \* attempts of a job
    MaxFaults,    \* bound on failed calls, deaths and stalls
    None

Status == {"queued", "running", "done", "failed"}
Row == [status : Status, filed : BOOLEAN]

ASSUME ExportConstants ==
    /\ Attempts \in Nat \ {0}
    /\ MaxFaults \in Nat
    /\ None \notin Exports
    /\ None \notin Workers
    /\ \A f \in SUBSET Ops : f # None
    /\ \A r \in Row : r # None

VARIABLES
    rows,      \* exports table: [status, filed] or None; filed: r2_export_key is set
    logged,    \* exports with an export.create event in admin_events
    posts,     \* posts[x]: the request that creates x
    jobs,      \* jobs[x]: the queue's record of the job of x
    work,      \* work[w]: what a worker is doing
    files,     \* files[x]: the operations in the object exports/<org>/<x>, or None
    stored,    \* operations in the operations table
    due,       \* due[x]: operations stored when x was inserted, and still
    downloads, \* downloads[x]: a client downloading x
    faults     \* faults so far

vars == <<rows, logged, posts, jobs, work, files, stored, due, downloads, faults>>

Job == [state : {"none", "waiting", "active", "delayed", "completed", "failed"},
        left : 0..Attempts, holder : Workers \cup {None}, stalled : BOOLEAN]
Work == [job : Exports \cup {None},
         pc : {"idle", "mark", "query", "put", "done", "catch", "return", "throw"},
         found : SUBSET Ops]

File == {None} \cup SUBSET Ops

Idle == [job |-> None, pc |-> "idle", found |-> {}]

Init ==
    /\ rows = [x \in Exports |-> None]
    /\ logged = {}
    /\ posts = [x \in Exports |-> "insert"]
    /\ jobs = [x \in Exports |-> [state |-> "none", left |-> Attempts,
                                  holder |-> None, stalled |-> FALSE]]
    /\ work = [w \in Workers |-> Idle]
    /\ files = [x \in Exports |-> None]
    /\ stored \in SUBSET Ops
    /\ due = [x \in Exports |-> {}]
    /\ downloads = [x \in Exports |-> "idle"]
    /\ faults = 0

Outcomes == {"ok", "lost", "refused"}

\* A call that is answered with an error, whether or not it took effect, is a fault.
Call(out) == IF out = "ok" THEN UNCHANGED faults
             ELSE faults < MaxFaults /\ faults' = faults + 1

Took(out) == out # "refused"

(***************************************************************************)
(* createExport: POST /v1/exports.  A failed call ends the request with an *)
(* error; what it did before stays.                                        *)
(***************************************************************************)
Answer(x, out, next) ==
    posts' = [posts EXCEPT ![x] = IF out = "ok" THEN next ELSE "error"]

\* Mutant: the row is inserted in the background.
InsertExportInBackground(x, out) ==
    /\ posts[x] = "insert"
    /\ Call(out)
    /\ posts' = [posts EXCEPT ![x] = "log"]
    /\ IF Took(out)
       THEN /\ rows' = [rows EXCEPT ![x] = [status |-> "queued", filed |-> FALSE]]
            /\ due' = [due EXCEPT ![x] = stored]
       ELSE UNCHANGED <<rows, due>>
    /\ UNCHANGED <<logged, jobs, work, files, stored, downloads>>

InsertExport(x, out) ==
    /\ posts[x] = "insert"
    /\ Call(out)
    /\ Answer(x, out, "log")
    /\ IF Took(out)
       THEN /\ rows' = [rows EXCEPT ![x] = [status |-> "queued", filed |-> FALSE]]
            /\ due' = [due EXCEPT ![x] = stored]
       ELSE UNCHANGED <<rows, due>>
    /\ UNCHANGED <<logged, jobs, work, files, stored, downloads>>

LogEvent(x, out) ==
    /\ posts[x] = "log"
    /\ Call(out)
    /\ Answer(x, out, "send")
    /\ logged' = IF Took(out) THEN logged \cup {x} ELSE logged
    /\ UNCHANGED <<rows, jobs, work, files, stored, due, downloads>>

SendJob(x, out) ==
    /\ posts[x] = "send"
    /\ Call(out)
    /\ Answer(x, out, "created")
    /\ jobs' = IF Took(out) THEN [jobs EXCEPT ![x].state = "waiting"] ELSE jobs
    /\ UNCHANGED <<rows, logged, work, files, stored, due, downloads>>

(***************************************************************************)
(* The queue (BullMQ): which job runs, who holds it, what becomes of it.   *)
(***************************************************************************)
Take(w, x) ==
    /\ work[w] = Idle
    /\ jobs[x].state = "waiting"
    /\ jobs' = [jobs EXCEPT ![x].state = "active", ![x].holder = w]
    /\ work' = [work EXCEPT ![w] = [Idle EXCEPT !.job = x, !.pc = "mark"]]
    /\ UNCHANGED <<rows, logged, posts, files, stored, due, downloads, faults>>

\* The processor returned or threw.  Only the holder of the job decides it.
Retry(job) ==
    IF job.left > 1 THEN [job EXCEPT !.state = "delayed", !.left = @ - 1, !.holder = None]
    ELSE [job EXCEPT !.state = "failed", !.left = 0, !.holder = None]

Finish(w) ==
    LET x == work[w].job IN
    /\ work[w].pc \in {"return", "throw"}
    /\ work' = [work EXCEPT ![w] = Idle]
    /\ IF jobs[x].holder # w THEN UNCHANGED jobs
       ELSE jobs' = [jobs EXCEPT ![x] =
                IF work[w].pc = "throw" THEN Retry(@)
                ELSE [@ EXCEPT !.state = "completed", !.holder = None]]
    /\ UNCHANGED <<rows, logged, posts, files, stored, due, downloads, faults>>

\* The exponential backoff of a failed attempt ends.
Backoff(x) ==
    /\ jobs[x].state = "delayed"
    /\ jobs' = [jobs EXCEPT ![x].state = "waiting"]
    /\ UNCHANGED <<rows, logged, posts, work, files, stored, due, downloads, faults>>

\* A stalled job is run again once; the second time it is given up.
Release(x) ==
    jobs' = [jobs EXCEPT ![x].state = IF jobs[x].stalled THEN "failed" ELSE "waiting",
                         ![x].holder = None, ![x].stalled = TRUE]

\* The holder lives but did not renew its lock in time (it renders a long PDF).
Stall(x) ==
    /\ jobs[x].state = "active"
    /\ faults < MaxFaults
    /\ faults' = faults + 1
    /\ Release(x)
    /\ UNCHANGED <<rows, logged, posts, work, files, stored, due, downloads>>

Die(w) ==
    /\ work[w] # Idle
    /\ faults < MaxFaults
    /\ faults' = faults + 1
    /\ work' = [work EXCEPT ![w] = Idle]
    /\ UNCHANGED <<rows, logged, posts, jobs, files, stored, due, downloads>>

\* The lock of a holder that died expires.
Reclaim(x) ==
    /\ jobs[x].state = "active"
    /\ work[jobs[x].holder].job # x
    /\ Release(x)
    /\ UNCHANGED <<rows, logged, posts, work, files, stored, due, downloads, faults>>

(***************************************************************************)
(* processExport                                                           *)
(***************************************************************************)
At(w, pc) == work[w].pc = pc

Goto(w, pc) == work' = [work EXCEPT ![w].pc = pc]

\* Outside the try block: an error throws without marking the row failed.
MarkRunning(w, out) ==
    /\ At(w, "mark")
    /\ Call(out)
    /\ Goto(w, IF out = "ok" THEN "query" ELSE "throw")
    /\ rows' = IF Took(out) THEN [rows EXCEPT ![work[w].job].status = "running"] ELSE rows
    /\ UNCHANGED <<logged, posts, jobs, files, stored, due, downloads>>

\* Mutant: a query that fails counts as one without results.
QueryErrorAsEmpty(w, out) ==
    /\ At(w, "query")
    /\ Call(out)
    /\ work' = [work EXCEPT ![w].pc = "put", ![w].found = IF out = "ok" THEN stored ELSE {}]
    /\ UNCHANGED <<rows, logged, posts, jobs, files, stored, due, downloads>>

Query(w, out) ==
    /\ At(w, "query")
    /\ Call(out)
    /\ IF out = "ok"
       THEN work' = [work EXCEPT ![w].pc = "put", ![w].found = stored]
       ELSE Goto(w, "catch")
    /\ UNCHANGED <<rows, logged, posts, jobs, files, stored, due, downloads>>

\* Mutant: the file is put in the background.
PutFileInBackground(w, out) ==
    /\ At(w, "put")
    /\ Call(out)
    /\ Goto(w, "done")
    /\ files' = IF Took(out) THEN [files EXCEPT ![work[w].job] = work[w].found] ELSE files
    /\ UNCHANGED <<rows, logged, posts, jobs, stored, due, downloads>>

PutFile(w, out) ==
    /\ At(w, "put")
    /\ Call(out)
    /\ Goto(w, IF out = "ok" THEN "done" ELSE "catch")
    /\ files' = IF Took(out) THEN [files EXCEPT ![work[w].job] = work[w].found] ELSE files
    /\ UNCHANGED <<rows, logged, posts, jobs, stored, due, downloads>>

MarkDone(w, out) ==
    /\ At(w, "done")
    /\ Call(out)
    /\ Goto(w, IF out = "ok" THEN "return" ELSE "catch")
    /\ rows' = IF Took(out)
               THEN [rows EXCEPT ![work[w].job] = [status |-> "done", filed |-> TRUE]]
               ELSE rows
    /\ UNCHANGED <<logged, posts, jobs, files, stored, due, downloads>>

\* Mutant: the catch does not throw again.
MarkFailedSwallows(w, out) ==
    /\ At(w, "catch")
    /\ Call(out)
    /\ Goto(w, "return")
    /\ rows' = IF Took(out) THEN [rows EXCEPT ![work[w].job].status = "failed"] ELSE rows
    /\ UNCHANGED <<logged, posts, jobs, files, stored, due, downloads>>

MarkFailed(w, out) ==
    /\ At(w, "catch")
    /\ Call(out)
    /\ Goto(w, "throw")
    /\ rows' = IF Took(out) THEN [rows EXCEPT ![work[w].job].status = "failed"] ELSE rows
    /\ UNCHANGED <<logged, posts, jobs, files, stored, due, downloads>>

(***************************************************************************)
(* GET /v1/exports/:export_id and its /download: the row, then the object. *)
(***************************************************************************)
ReadExport(x) ==
    /\ downloads[x] # "object"
    /\ downloads' = [downloads EXCEPT ![x] =
            IF rows[x] = None THEN "notFound"
            ELSE IF rows[x].status = "done" /\ rows[x].filed THEN "object"
            ELSE "notYetComplete"]
    /\ UNCHANGED <<rows, logged, posts, jobs, work, files, stored, due, faults>>

GetObject(x) ==
    /\ downloads[x] = "object"
    /\ downloads' = [downloads EXCEPT ![x] =
            IF files[x] = None THEN "fileNotFound" ELSE "served"]
    /\ UNCHANGED <<rows, logged, posts, jobs, work, files, stored, due, faults>>

(***************************************************************************)
(* Meanwhile operations are stored, and deleted with their agent.          *)
(***************************************************************************)
StoreOperation(o) ==
    /\ o \notin stored
    /\ stored' = stored \cup {o}
    /\ UNCHANGED <<rows, logged, posts, jobs, work, files, due, downloads, faults>>

DeleteOperation(o) ==
    /\ o \in stored
    /\ stored' = stored \ {o}
    /\ due' = [x \in Exports |-> due[x] \ {o}]
    /\ UNCHANGED <<rows, logged, posts, jobs, work, files, downloads, faults>>

Create(x) == \E out \in Outcomes :
    InsertExport(x, out) \/ LogEvent(x, out) \/ SendJob(x, out)

Process(w) ==
    \/ \E out \in Outcomes : \/ MarkRunning(w, out) \/ Query(w, out) \/ PutFile(w, out)
                             \/ MarkDone(w, out) \/ MarkFailed(w, out)
    \/ Finish(w)

Next ==
    \/ \E x \in Exports : \/ Create(x) \/ Backoff(x) \/ Stall(x) \/ Reclaim(x)
                          \/ ReadExport(x) \/ GetObject(x)
    \/ \E w \in Workers : \/ Process(w) \/ Die(w)
                          \/ \E x \in Exports : Take(w, x)
    \/ \E o \in Ops : StoreOperation(o) \/ DeleteOperation(o)

Spec == Init /\ [][Next]_vars

\* The request handler and the worker run on, the queue's timers expire and an
\* idle worker takes a waiting job.
FairSpec ==
    /\ Spec
    /\ \A x \in Exports : WF_vars(Create(x)) /\ WF_vars(Backoff(x)) /\ WF_vars(Reclaim(x))
    /\ \A w \in Workers : WF_vars(Process(w)) /\ WF_vars(\E x \in Exports : Take(w, x))

-----------------------------------------------------------------------------
(***************************************************************************)
(* Properties                                                              *)
(***************************************************************************)
TypeOK ==
    /\ rows \in [Exports -> Row \cup {None}]
    /\ logged \in SUBSET Exports
    /\ posts \in [Exports -> {"insert", "log", "send", "created", "error"}]
    /\ jobs \in [Exports -> Job]
    /\ work \in [Workers -> Work]
    /\ files \in [Exports -> File]
    /\ stored \in SUBSET Ops
    /\ due \in [Exports -> SUBSET Ops]
    /\ downloads \in [Exports -> {"idle", "notFound", "notYetComplete", "object",
                                  "served", "fileNotFound"}]
    /\ faults \in 0..MaxFaults

\* A download of an export that says it is done finds the file: whichever calls
\* fail and however late a stalled worker writes, r2_export_key is never there
\* before the object (worker.ts:190-202, routes/exports.ts:97-104).
DownloadFindsFile == \A x \in Exports : downloads[x] # "fileNotFound"

\* The file lists every operation that was stored when the export was requested
\* and that has not been deleted, whichever attempt or stalled worker wrote it
\* last (worker.ts:142-194).
ExportCoversRequest == \A x \in Exports : files[x] # None => due[x] \subseteq files[x]

\* When the queue has counted the job as completed the row says done, unless the
\* job stalled: no earlier attempt can still mark it running or failed
\* (worker.ts:114-117, 197-211).
CompletedIsDone ==
    \A x \in Exports : jobs[x].state = "completed" /\ ~jobs[x].stalled => rows[x].status = "done"

\* An export the client was told is created ends done or failed and stays so.
\* Only when two faults met it, and its job stalled or was given up by the queue,
\* may it stay queued or running for ever: BullMQ gives up a job without running
\* the catch of processExport, and MarkRunning and MarkFailed may fail themselves.
Settled(x) == rows[x] # None /\ rows[x].status \in {"done", "failed"}

EveryExportSettles ==
    \A x \in Exports : <>[](posts[x] = "created" =>
        \/ Settled(x)
        \/ faults >= 2 /\ (jobs[x].stalled \/ jobs[x].state = "failed"))

-----------------------------------------------------------------------------
(***************************************************************************)
(* The inductive invariant.                                                *)
(***************************************************************************)
\* A request and its job follow the row; nothing runs before the job is sent.
RowsFirst ==
    \A x \in Exports :
        /\ posts[x] \in {"log", "send", "created"} => rows[x] # None
        /\ posts[x] \in {"insert", "log", "send"} => jobs[x].state = "none"
        /\ jobs[x].state # "none" => rows[x] # None
        /\ jobs[x].state = "none" => /\ files[x] = None
                                     /\ \A w \in Workers : work[w].job # x

WorkHasJob ==
    \A w \in Workers :
        /\ work[w].job = None <=> work[w].pc = "idle"
        /\ work[w].pc = "idle" => work[w].found = {}

\* The key is set, read or about to be set only where the object is.
FiledHasFile ==
    /\ \A x \in Exports : /\ rows[x] # None /\ rows[x].filed => files[x] # None
                          /\ downloads[x] = "object" => files[x] # None
    /\ \A w \in Workers : work[w].pc \in {"done", "return"} => files[work[w].job] # None

\* What was due is stored, and is in what a worker found.
DueIsFound ==
    /\ \A x \in Exports : due[x] \subseteq stored
    /\ \A w \in Workers : work[w].pc = "put" => due[work[w].job] \subseteq work[w].found

\* A job that never stalled has one worker at most, its holder.
OneHolder ==
    \A w \in Workers : \A x \in Exports :
        work[w].job = x /\ ~jobs[x].stalled =>
            /\ jobs[x].state = "active"
            /\ jobs[x].holder = w
            /\ work[w].pc = "return" => rows[x].status = "done"

\* The queue knows the holder of an active job and only of that.
HolderOfActive ==
    \A x \in Exports : jobs[x].holder # None <=> jobs[x].state = "active"

IInv ==
    /\ TypeOK
    /\ RowsFirst
    /\ WorkHasJob
    /\ FiledHasFile
    /\ DueIsFound
    /\ OneHolder
    /\ HolderOfActive
    /\ DownloadFindsFile
    /\ ExportCoversRequest
    /\ CompletedIsDone
===========================================================================
