------------------------- MODULE ExportJobs_proofs -------------------------
(***************************************************************************)
(* Proofs for ExportJobs, for any number of exports, workers, operations,  *)
(* attempts and faults.                                                    *)
(***************************************************************************)
EXTENDS ExportJobs, TLAPS

LEMMA InitInv == Init => IInv
<1> SUFFICES ASSUME Init PROVE IInv
  OBVIOUS
<1> USE DEF Init
<1>1. TypeOK
  BY ExportConstants DEF ExportConstants, TypeOK, Row, Status, Job, Work, File, Idle
<1>2. RowsFirst /\ WorkHasJob
  BY ExportConstants DEF ExportConstants, RowsFirst, WorkHasJob, Idle
<1>3. FiledHasFile /\ DueIsFound
  BY DEF FiledHasFile, DueIsFound, Idle
<1>4. OneHolder /\ HolderOfActive
  BY ExportConstants DEF ExportConstants, OneHolder, HolderOfActive, Idle
<1>5. DownloadFindsFile /\ ExportCoversRequest /\ CompletedIsDone
  BY DEF DownloadFindsFile, ExportCoversRequest, CompletedIsDone
<1> QED
  BY <1>1, <1>2, <1>3, <1>4, <1>5 DEF IInv

LEMMA CallType ==
  ASSUME faults \in 0..MaxFaults, NEW out \in Outcomes, Call(out)
  PROVE  faults' \in 0..MaxFaults
  BY ExportConstants DEF ExportConstants, Call

LEMMA RowIsNotNone == \A r \in Row : r # None
  BY ExportConstants DEF ExportConstants

\* A busy worker has an export whose row exists, alone if the job never stalled.
LEMMA Busy ==
  ASSUME IInv, NEW w \in Workers, work[w].pc # "idle"
  PROVE  /\ work[w] \in Work
         /\ work[w].job \in Exports
         /\ rows[work[w].job] \in Row
         /\ \A v \in Workers : work[v].job = work[w].job /\ ~jobs[work[w].job].stalled => v = w
<1>1. work[w] \in Work /\ work[w].job # None
  BY DEF IInv, TypeOK, WorkHasJob, Work
<1>2. work[w].job \in Exports
  BY <1>1 DEF Work
<1>3. rows[work[w].job] \in Row \cup {None} /\ jobs[work[w].job].state # "none"
  BY <1>2 DEF IInv, TypeOK, RowsFirst
<1>4. \A v \in Workers : work[v].job = work[w].job /\ ~jobs[work[w].job].stalled => v = w
  BY <1>2 DEF IInv, OneHolder
<1> QED BY <1>1, <1>2, <1>3, <1>4 DEF IInv, RowsFirst

(***************************************************************************)
(* The steps of processExport: one worker w moves to p, and the row and    *)
(* the file of its export become r and f.                                  *)
(***************************************************************************)
LEMMA WorkerStep ==
  ASSUME IInv, NEW w \in Workers, work[w].pc # "idle",
         NEW p \in Work, NEW r \in Row, NEW f \in File,
         p.job = work[w].job, p.pc # "idle",
         work' = [work EXCEPT ![w] = p],
         rows' = [rows EXCEPT ![work[w].job] = r],
         files' = [files EXCEPT ![work[w].job] = f],
         UNCHANGED <<logged, posts, jobs, stored, due, downloads>>,
         faults' \in 0..MaxFaults,
         files[work[w].job] # None => f # None,
         r.filed => f # None,
         f # None => due[work[w].job] \subseteq f,
         p.pc \in {"done", "return"} => f # None,
         p.pc = "put" => due[work[w].job] \subseteq p.found,
         p.pc = "return" => r.status = "done"
  PROVE  IInv'
<1> DEFINE x == work[w].job
<1>1. /\ work[w] \in Work /\ x \in Exports /\ rows[x] \in Row /\ r # None
      /\ \A v \in Workers : work[v].job = x /\ ~jobs[x].stalled => v = w
  BY Busy, RowIsNotNone
<1> HIDE DEF x
<1>2. TypeOK'
  <2>1. rows' \in [Exports -> Row \cup {None}] /\ work' \in [Workers -> Work]
    BY DEF IInv, TypeOK
  <2>2. files' \in [Exports -> File]
    BY DEF IInv, TypeOK
  <2> QED BY <2>1, <2>2 DEF IInv, TypeOK
<1>3. \A y \in Exports : rows'[y] = (IF y = x THEN r ELSE rows[y])
                      /\ files'[y] = (IF y = x THEN f ELSE files[y])
  BY <1>1 DEF IInv, TypeOK, x
<1>4. \A v \in Workers : work'[v].job = work[v].job /\ work'[v] = (IF v = w THEN p ELSE work[v])
  BY DEF IInv, TypeOK
<1>5. RowsFirst'
  <2>1. jobs[x].state # "none" /\ rows[x] # None
    BY <1>1, RowIsNotNone DEF IInv, RowsFirst, x
  <2> QED BY <1>1, <1>3, <1>4, <2>1 DEF IInv, RowsFirst
<1>6. WorkHasJob'
  BY <1>4 DEF IInv, WorkHasJob
<1>7. FiledHasFile'
  <2>1. \A y \in Exports : files[y] # None => files'[y] # None
    BY <1>1, <1>3 DEF x
  <2>2. \A v \in Workers : work[v].pc \in {"done", "return"} => work[v].job \in Exports
    BY Busy
  <2> QED BY <1>1, <1>3, <1>4, <2>1, <2>2 DEF IInv, FiledHasFile, x
<1>8. DueIsFound'
  BY <1>4 DEF IInv, DueIsFound
<1>9. OneHolder'
  BY <1>1, <1>3, <1>4 DEF IInv, OneHolder, x
<1>10. HolderOfActive' /\ DownloadFindsFile'
  BY DEF IInv, HolderOfActive, DownloadFindsFile
<1>11. ExportCoversRequest'
  BY <1>1, <1>3 DEF IInv, ExportCoversRequest, x
<1>12. CompletedIsDone'
  BY <1>1, <1>3 DEF IInv, CompletedIsDone, OneHolder, x
<1> QED BY <1>2, <1>5, <1>6, <1>7, <1>8, <1>9, <1>10, <1>11, <1>12 DEF IInv

LEMMA MarkRunningInv ==
  ASSUME IInv, NEW w \in Workers, NEW out \in Outcomes, MarkRunning(w, out)
  PROVE  IInv'
<1> DEFINE x == work[w].job
           p == [work[w] EXCEPT !.pc = IF out = "ok" THEN "query" ELSE "throw"]
           r == IF Took(out) THEN [rows[x] EXCEPT !.status = "running"] ELSE rows[x]
<1>1. work[w].pc = "mark" /\ work[w] \in Work /\ x \in Exports /\ rows[x] \in Row
  BY Busy DEF MarkRunning, At
<1>2. r \in Row /\ r.filed = rows[x].filed
  BY <1>1 DEF Row, Status
<1>3. p \in Work /\ p.job = x /\ p.pc \in {"query", "throw"}
  BY <1>1 DEF Work
<1>4. /\ files[x] \in File
      /\ files = [files EXCEPT ![x] = files[x]] /\ rows = [rows EXCEPT ![x] = rows[x]]
  BY <1>1 DEF IInv, TypeOK
<1>7. work' = [work EXCEPT ![w] = p] /\ rows' = [rows EXCEPT ![x] = r] /\ files' = files
  BY <1>4 DEF MarkRunning, Goto
<1>5. faults' \in 0..MaxFaults /\ UNCHANGED <<logged, posts, jobs, stored, due, downloads>>
  BY CallType DEF MarkRunning, IInv, TypeOK
<1>6. /\ rows[x].filed => files[x] # None
      /\ files[x] # None => due[x] \subseteq files[x]
  BY <1>1, RowIsNotNone DEF IInv, FiledHasFile, ExportCoversRequest
<1> HIDE DEF p, r
<1> QED BY <1>1, <1>2, <1>3, <1>4, <1>5, <1>6, <1>7, WorkerStep

LEMMA QueryInv ==
  ASSUME IInv, NEW w \in Workers, NEW out \in Outcomes, Query(w, out)
  PROVE  IInv'
<1> DEFINE x == work[w].job
           p == IF out = "ok" THEN [work[w] EXCEPT !.pc = "put", !.found = stored]
                ELSE [work[w] EXCEPT !.pc = "catch"]
<1>1. work[w].pc = "query" /\ work[w] \in Work /\ x \in Exports /\ rows[x] \in Row
  BY Busy DEF Query, At
<1>2. p \in Work /\ p.job = x /\ p.pc \in {"put", "catch"} /\ (p.pc = "put" => p.found = stored)
  BY <1>1 DEF Work, IInv, TypeOK
<1>3. /\ files[x] \in File
      /\ files = [files EXCEPT ![x] = files[x]] /\ rows = [rows EXCEPT ![x] = rows[x]]
  BY <1>1 DEF IInv, TypeOK
<1>4. work' = [work EXCEPT ![w] = p] /\ rows' = rows /\ files' = files
  BY DEF Query, Goto
<1>5. faults' \in 0..MaxFaults /\ UNCHANGED <<logged, posts, jobs, stored, due, downloads>>
  BY CallType DEF Query, IInv, TypeOK
<1>6. /\ rows[x].filed => files[x] # None
      /\ files[x] # None => due[x] \subseteq files[x]
      /\ due[x] \subseteq stored
  BY <1>1, RowIsNotNone DEF IInv, FiledHasFile, ExportCoversRequest, DueIsFound
<1>7. /\ p.pc \notin {"idle", "done", "return"} /\ work[w].pc # "idle"
      /\ p.pc = "put" => due[x] \subseteq p.found
  BY <1>1, <1>2, <1>6
<1> DEFINE r == rows[x]
           f == files[x]
<1>8. /\ r \in Row /\ f \in File /\ (r.filed => f # None)
      /\ f # None => due[x] \subseteq f
      /\ rows' = [rows EXCEPT ![x] = r] /\ files' = [files EXCEPT ![x] = f]
  BY <1>1, <1>3, <1>4, <1>6
<1> HIDE DEF p, r, f
<1>9. files[x] # None => f # None BY DEF f
<1> QED BY <1>1, <1>2, <1>4, <1>5, <1>7, <1>8, <1>9, WorkerStep

LEMMA PutFileInv ==
  ASSUME IInv, NEW w \in Workers, NEW out \in Outcomes, PutFile(w, out)
  PROVE  IInv'
<1> DEFINE x == work[w].job
           p == [work[w] EXCEPT !.pc = IF out = "ok" THEN "done" ELSE "catch"]
           f == IF Took(out) THEN work[w].found ELSE files[x]
<1>1. work[w].pc = "put" /\ work[w] \in Work /\ x \in Exports /\ rows[x] \in Row
  BY Busy DEF PutFile, At
<1>2. work[w].found \in File /\ work[w].found # None /\ files[x] \in File
  BY <1>1, ExportConstants DEF ExportConstants, Work, File, IInv, TypeOK
<1>3. p \in Work /\ p.job = x /\ p.pc \in {"done", "catch"} /\ (p.pc = "done" => out = "ok")
  BY <1>1 DEF Work
<1>4. files = [files EXCEPT ![x] = files[x]] /\ rows = [rows EXCEPT ![x] = rows[x]]
  BY <1>1 DEF IInv, TypeOK
<1>5. work' = [work EXCEPT ![w] = p] /\ rows' = rows /\ files' = [files EXCEPT ![x] = f]
  BY <1>4 DEF PutFile, Goto
<1>6. faults' \in 0..MaxFaults /\ UNCHANGED <<logged, posts, jobs, stored, due, downloads>>
  BY CallType DEF PutFile, IInv, TypeOK
<1>7. /\ rows[x].filed => files[x] # None
      /\ files[x] # None => due[x] \subseteq files[x]
      /\ due[x] \subseteq work[w].found
  BY <1>1, RowIsNotNone DEF IInv, FiledHasFile, ExportCoversRequest, DueIsFound
<1>8. /\ f \in File
      /\ f # None => due[x] \subseteq f
      /\ files[x] # None => f # None
      /\ p.pc = "done" => f # None
  BY <1>2, <1>3, <1>7 DEF Took
<1> HIDE DEF p, f
<1> QED BY <1>1, <1>3, <1>4, <1>5, <1>6, <1>7, <1>8, WorkerStep

LEMMA MarkDoneInv ==
  ASSUME IInv, NEW w \in Workers, NEW out \in Outcomes, MarkDone(w, out)
  PROVE  IInv'
<1> DEFINE x == work[w].job
           p == [work[w] EXCEPT !.pc = IF out = "ok" THEN "return" ELSE "catch"]
           r == IF Took(out) THEN [status |-> "done", filed |-> TRUE] ELSE rows[x]
<1>1. work[w].pc = "done" /\ work[w] \in Work /\ x \in Exports /\ rows[x] \in Row
  BY Busy DEF MarkDone, At
<1>2. r \in Row /\ (out = "ok" => r.status = "done")
  BY <1>1 DEF Row, Status, Took
<1>3. p \in Work /\ p.job = x /\ p.pc \in {"return", "catch"} /\ (p.pc = "return" => out = "ok")
  BY <1>1 DEF Work
<1>4. /\ files[x] \in File
      /\ files = [files EXCEPT ![x] = files[x]] /\ rows = [rows EXCEPT ![x] = rows[x]]
  BY <1>1 DEF IInv, TypeOK
<1>5. work' = [work EXCEPT ![w] = p] /\ rows' = [rows EXCEPT ![x] = r] /\ files' = files
  BY <1>4 DEF MarkDone, Goto
<1>6. faults' \in 0..MaxFaults /\ UNCHANGED <<logged, posts, jobs, stored, due, downloads>>
  BY CallType DEF MarkDone, IInv, TypeOK
<1>7. /\ files[x] # None
      /\ due[x] \subseteq files[x]
  BY <1>1 DEF IInv, FiledHasFile, ExportCoversRequest
<1> HIDE DEF p, r
<1> QED BY <1>1, <1>2, <1>3, <1>4, <1>5, <1>6, <1>7, WorkerStep

LEMMA MarkFailedInv ==
  ASSUME IInv, NEW w \in Workers, NEW out \in Outcomes, MarkFailed(w, out)
  PROVE  IInv'
<1> DEFINE x == work[w].job
           p == [work[w] EXCEPT !.pc = "throw"]
           r == IF Took(out) THEN [rows[x] EXCEPT !.status = "failed"] ELSE rows[x]
<1>1. work[w].pc = "catch" /\ work[w] \in Work /\ x \in Exports /\ rows[x] \in Row
  BY Busy DEF MarkFailed, At
<1>2. r \in Row /\ r.filed = rows[x].filed
  BY <1>1 DEF Row, Status
<1>3. p \in Work /\ p.job = x /\ p.pc = "throw"
  BY <1>1 DEF Work
<1>4. /\ files[x] \in File
      /\ files = [files EXCEPT ![x] = files[x]] /\ rows = [rows EXCEPT ![x] = rows[x]]
  BY <1>1 DEF IInv, TypeOK
<1>5. work' = [work EXCEPT ![w] = p] /\ rows' = [rows EXCEPT ![x] = r] /\ files' = files
  BY <1>4 DEF MarkFailed, Goto
<1>6. faults' \in 0..MaxFaults /\ UNCHANGED <<logged, posts, jobs, stored, due, downloads>>
  BY CallType DEF MarkFailed, IInv, TypeOK
<1>7. /\ rows[x].filed => files[x] # None
      /\ files[x] # None => due[x] \subseteq files[x]
  BY <1>1, RowIsNotNone DEF IInv, FiledHasFile, ExportCoversRequest
<1> HIDE DEF p, r
<1> QED BY <1>1, <1>2, <1>3, <1>4, <1>5, <1>6, <1>7, WorkerStep

(***************************************************************************)
(* The steps of the request.                                               *)
(***************************************************************************)
LEMMA InsertExportInv ==
  ASSUME IInv, NEW x \in Exports, NEW out \in Outcomes, InsertExport(x, out)
  PROVE  IInv'
<1> DEFINE r == [status |-> "queued", filed |-> FALSE]
<1>1. r \in Row /\ r # None /\ ~r.filed
  BY RowIsNotNone DEF Row, Status
<1>2. /\ posts[x] = "insert" /\ jobs[x].state = "none" /\ files[x] = None
      /\ \A w \in Workers : work[w].job # x
  BY DEF InsertExport, IInv, RowsFirst
<1> HIDE DEF r
<1>3. /\ rows' \in [Exports -> Row \cup {None}]
      /\ \A y \in Exports : rows'[y] = rows[y] \/ (y = x /\ rows'[y] = r)
      /\ out = "ok" => rows'[x] # None
  BY <1>1 DEF InsertExport, IInv, TypeOK, Took, r
<1>4. /\ due' \in [Exports -> SUBSET Ops]
      /\ \A y \in Exports : due'[y] = due[y] \/ (y = x /\ due'[y] = stored)
  BY DEF InsertExport, IInv, TypeOK
<1>5. /\ posts' \in [Exports -> {"insert", "log", "send", "created", "error"}]
      /\ \A y \in Exports : posts'[y] = IF y # x THEN posts[y]
                                        ELSE IF out = "ok" THEN "log" ELSE "error"
  BY DEF InsertExport, Answer, IInv, TypeOK
<1>6. faults' \in 0..MaxFaults /\ UNCHANGED <<logged, jobs, work, files, stored, downloads>>
  BY CallType DEF InsertExport, IInv, TypeOK
<1>7. TypeOK'
  BY <1>3, <1>4, <1>5, <1>6 DEF IInv, TypeOK
<1>8. RowsFirst' /\ WorkHasJob'
  BY <1>1, <1>2, <1>3, <1>5, <1>6 DEF IInv, RowsFirst, WorkHasJob
<1>9. FiledHasFile' /\ DownloadFindsFile' /\ ExportCoversRequest'
  BY <1>1, <1>2, <1>3, <1>4, <1>6 DEF IInv, FiledHasFile, DownloadFindsFile, ExportCoversRequest
<1>10. DueIsFound'
  <2>1. \A w \in Workers : work[w].pc = "put" => work[w].job \in Exports
    BY Busy
  <2> QED BY <1>2, <1>4, <1>6, <2>1 DEF IInv, DueIsFound
<1>11. OneHolder' /\ HolderOfActive' /\ CompletedIsDone'
  BY <1>2, <1>3, <1>6 DEF IInv, OneHolder, HolderOfActive, CompletedIsDone
<1> QED BY <1>7, <1>8, <1>9, <1>10, <1>11 DEF IInv

LEMMA LogEventInv ==
  ASSUME IInv, NEW x \in Exports, NEW out \in Outcomes, LogEvent(x, out)
  PROVE  IInv'
<1>1. /\ posts' \in [Exports -> {"insert", "log", "send", "created", "error"}]
      /\ \A y \in Exports : posts'[y] = IF y # x THEN posts[y]
                                        ELSE IF out = "ok" THEN "send" ELSE "error"
  BY DEF LogEvent, Answer, IInv, TypeOK
<1>2. /\ faults' \in 0..MaxFaults /\ logged' \in SUBSET Exports
      /\ UNCHANGED <<rows, jobs, work, files, stored, due, downloads>>
  BY CallType DEF LogEvent, IInv, TypeOK
<1>3. TypeOK'
  BY <1>1, <1>2 DEF IInv, TypeOK
<1>4. RowsFirst'
  BY <1>1, <1>2 DEF LogEvent, IInv, RowsFirst
<1> QED
  BY <1>2, <1>3, <1>4 DEF IInv, WorkHasJob, FiledHasFile, DueIsFound, OneHolder, HolderOfActive,
     DownloadFindsFile, ExportCoversRequest, CompletedIsDone

\* What the queue may do to a job, j, without any worker of it taking a step.
LEMMA QueueStep ==
  ASSUME IInv, NEW x \in Exports, NEW j \in Job,
         jobs' = [jobs EXCEPT ![x] = j],
         rows[x] # None, posts[x] \notin {"insert", "log", "send"}, j.state # "none",
         j.state = "active" <=> j.holder # None,
         jobs[x].stalled => j.stalled,
         j.state = "completed" => j.stalled,
         ~j.stalled => \A w \in Workers : work[w].job # x,
         UNCHANGED <<rows, logged, posts, work, files, stored, due, downloads>>,
         faults' \in 0..MaxFaults
  PROVE  IInv'
<1>1. \A y \in Exports : jobs'[y] = IF y = x THEN j ELSE jobs[y]
  BY DEF IInv, TypeOK
<1>2. TypeOK'
  BY DEF IInv, TypeOK
<1>3. RowsFirst'
  BY <1>1 DEF IInv, RowsFirst
<1>4. OneHolder' /\ HolderOfActive' /\ CompletedIsDone'
  BY <1>1 DEF IInv, OneHolder, HolderOfActive, CompletedIsDone
<1> QED
  BY <1>2, <1>3, <1>4 DEF IInv, WorkHasJob, FiledHasFile, DueIsFound, DownloadFindsFile,
     ExportCoversRequest

\* Nothing has been sent before the row is there and the event logged.
LEMMA Sent ==
  ASSUME IInv, NEW x \in Exports, jobs[x].state # "none"
  PROVE  rows[x] # None /\ posts[x] \notin {"insert", "log", "send"} /\ jobs[x] \in Job
  BY DEF IInv, RowsFirst, TypeOK

LEMMA SendJobInv ==
  ASSUME IInv, NEW x \in Exports, NEW out \in Outcomes, SendJob(x, out)
  PROVE  IInv'
<1>1. jobs[x] \in Job /\ posts[x] = "send" /\ rows[x] # None /\ jobs[x].state = "none"
  BY DEF SendJob, IInv, TypeOK, RowsFirst
<1>2. /\ posts' \in [Exports -> {"insert", "log", "send", "created", "error"}]
      /\ \A y \in Exports : IF y = x THEN posts'[y] \in {"created", "error"}
                            ELSE posts'[y] = posts[y]
  BY DEF SendJob, Answer, IInv, TypeOK
<1>3. faults' \in 0..MaxFaults /\ UNCHANGED <<rows, logged, work, files, stored, due, downloads>>
  BY CallType DEF SendJob, IInv, TypeOK
<1> DEFINE j == [jobs[x] EXCEPT !.state = "waiting"]
<1>4. /\ jobs[x].holder = None
      /\ \A w \in Workers : work[w].job # x
  BY <1>1 DEF IInv, RowsFirst, HolderOfActive
<1>5. /\ j \in Job /\ j.state = "waiting" /\ j.holder = None /\ j.stalled = jobs[x].stalled
  BY <1>1, <1>4 DEF Job
<1>6. CASE out = "refused"
  <2>2. TypeOK' /\ UNCHANGED jobs
    BY <1>2, <1>3, <1>6 DEF SendJob, Took, IInv, TypeOK
  <2>3. RowsFirst'
    BY <1>1, <1>2, <1>3, <2>2 DEF IInv, RowsFirst
  <2> QED
    BY <1>3, <2>2, <2>3 DEF IInv, WorkHasJob, FiledHasFile, DueIsFound, OneHolder,
       HolderOfActive, DownloadFindsFile, ExportCoversRequest, CompletedIsDone
<1>7. CASE out # "refused"
  <2>1. jobs' = [jobs EXCEPT ![x] = j]
    BY <1>7 DEF SendJob, Took
  <2>2. \A y \in Exports : jobs'[y] = IF y = x THEN j ELSE jobs[y]
    BY <2>1 DEF IInv, TypeOK
  <2> HIDE DEF j
  <2>3. TypeOK'
    BY <1>2, <1>3, <1>5, <2>1 DEF IInv, TypeOK
  <2>4. RowsFirst'
    BY <1>1, <1>2, <1>3, <1>5, <2>2 DEF IInv, RowsFirst
  <2>5. OneHolder' /\ HolderOfActive' /\ CompletedIsDone'
    BY <1>3, <1>4, <1>5, <2>2 DEF IInv, OneHolder, HolderOfActive, CompletedIsDone
  <2> QED
    BY <1>3, <2>3, <2>4, <2>5 DEF IInv, WorkHasJob, FiledHasFile, DueIsFound,
       DownloadFindsFile, ExportCoversRequest
<1> QED BY <1>6, <1>7

LEMMA BackoffInv ==
  ASSUME IInv, NEW x \in Exports, Backoff(x)
  PROVE  IInv'
<1> DEFINE j == [jobs[x] EXCEPT !.state = "waiting"]
<1>1. /\ jobs[x] \in Job /\ jobs[x].state = "delayed" /\ jobs[x].holder = None
      /\ rows[x] # None /\ posts[x] \notin {"insert", "log", "send"}
  BY Sent DEF Backoff, IInv, HolderOfActive
<1>2. j \in Job /\ j.state = "waiting" /\ j.holder = None /\ j.stalled = jobs[x].stalled
  BY <1>1 DEF Job
<1>3. ~jobs[x].stalled => \A w \in Workers : work[w].job # x
  BY <1>1 DEF IInv, OneHolder
<1>4. /\ jobs' = [jobs EXCEPT ![x] = j]
      /\ UNCHANGED <<rows, logged, posts, work, files, stored, due, downloads, faults>>
  BY DEF Backoff
<1>5. faults \in 0..MaxFaults
  BY DEF IInv, TypeOK
<1> HIDE DEF j
<1> QED BY <1>1, <1>2, <1>3, <1>4, <1>5, QueueStep

LEMMA ReleaseInv ==
  ASSUME IInv, NEW x \in Exports, jobs[x].state = "active", Release(x),
         UNCHANGED <<rows, logged, posts, work, files, stored, due, downloads>>,
         faults' \in 0..MaxFaults
  PROVE  IInv'
<1> DEFINE j == [jobs[x] EXCEPT !.state = IF jobs[x].stalled THEN "failed" ELSE "waiting",
                                !.holder = None, !.stalled = TRUE]
<1>1. jobs[x] \in Job /\ rows[x] # None /\ posts[x] \notin {"insert", "log", "send"}
  BY Sent
<1>2. j \in Job /\ j.state \in {"failed", "waiting"} /\ j.holder = None /\ j.stalled
  BY <1>1 DEF Job
<1>3. jobs' = [jobs EXCEPT ![x] = j]
  BY DEF Release, IInv, TypeOK
<1> HIDE DEF j
<1> QED BY <1>1, <1>2, <1>3, QueueStep

LEMMA StallInv ==
  ASSUME IInv, NEW x \in Exports, Stall(x)
  PROVE  IInv'
<1>1. faults' \in 0..MaxFaults
  BY ExportConstants DEF ExportConstants, Stall, IInv, TypeOK
<1> QED BY <1>1, ReleaseInv DEF Stall

LEMMA ReclaimInv ==
  ASSUME IInv, NEW x \in Exports, Reclaim(x)
  PROVE  IInv'
<1>1. faults' \in 0..MaxFaults
  BY DEF Reclaim, IInv, TypeOK
<1> QED BY <1>1, ReleaseInv DEF Reclaim

LEMMA TakeInv ==
  ASSUME IInv, NEW w \in Workers, NEW x \in Exports, Take(w, x)
  PROVE  IInv'
<1> DEFINE j == [jobs[x] EXCEPT !.state = "active", !.holder = w]
           p == [Idle EXCEPT !.job = x, !.pc = "mark"]
<1>1. /\ jobs[x] \in Job /\ jobs[x].state = "waiting" /\ rows[x] # None
      /\ posts[x] \notin {"insert", "log", "send"} /\ w # None /\ x # None
  BY Sent, ExportConstants DEF Take, ExportConstants
<1>2. /\ j \in Job /\ j.state = "active" /\ j.holder = w /\ j.stalled = jobs[x].stalled
      /\ p \in Work /\ p.job = x /\ p.pc = "mark" /\ p.found = {}
  BY <1>1 DEF Job, Work, Idle
<1>3. jobs' = [jobs EXCEPT ![x] = j]
  BY DEF Take, IInv, TypeOK
<1>4. work' = [work EXCEPT ![w] = p]
  BY DEF Take
<1> HIDE DEF j, p
<1>5. UNCHANGED <<rows, logged, posts, files, stored, due, downloads, faults>>
  BY DEF Take
<1>6. /\ \A y \in Exports : jobs'[y] = IF y = x THEN j ELSE jobs[y]
      /\ \A v \in Workers : work'[v] = IF v = w THEN p ELSE work[v]
  BY <1>3, <1>4 DEF IInv, TypeOK
<1>7. ~jobs[x].stalled => \A v \in Workers : work[v].job # x
  BY <1>1 DEF IInv, OneHolder
<1>8. TypeOK'
  BY <1>2, <1>3, <1>4, <1>5 DEF IInv, TypeOK
<1>9. RowsFirst' /\ WorkHasJob'
  BY <1>1, <1>2, <1>5, <1>6 DEF IInv, RowsFirst, WorkHasJob
<1>10. FiledHasFile' /\ DueIsFound'
  BY <1>2, <1>5, <1>6 DEF IInv, FiledHasFile, DueIsFound
<1>11. OneHolder' /\ HolderOfActive' /\ CompletedIsDone'
  BY <1>1, <1>2, <1>5, <1>6, <1>7 DEF IInv, OneHolder, HolderOfActive, CompletedIsDone
<1> QED
  BY <1>5, <1>8, <1>9, <1>10, <1>11 DEF IInv, DownloadFindsFile, ExportCoversRequest

\* A worker drops what it was doing; if it held the job, the job becomes j.
LEMMA DropStep ==
  ASSUME IInv, NEW w \in Workers, work' = [work EXCEPT ![w] = Idle],
         UNCHANGED <<rows, logged, posts, jobs, files, stored, due, downloads>>,
         faults' \in 0..MaxFaults
  PROVE  IInv'
<1>1. Idle \in Work /\ Idle.job = None /\ Idle.pc = "idle" /\ Idle.found = {}
  BY DEF Idle, Work
<1>2. \A v \in Workers : work'[v] = IF v = w THEN Idle ELSE work[v]
  BY DEF IInv, TypeOK
<1>3. TypeOK'
  BY <1>1 DEF IInv, TypeOK
<1>4. \A x \in Exports : x # None
  BY ExportConstants DEF ExportConstants
<1>5. RowsFirst' /\ WorkHasJob'
  BY <1>1, <1>2, <1>4 DEF IInv, RowsFirst, WorkHasJob
<1>6. FiledHasFile' /\ DueIsFound'
  BY <1>1, <1>2 DEF IInv, FiledHasFile, DueIsFound
<1>7. OneHolder'
  BY <1>1, <1>2, <1>4 DEF IInv, OneHolder
<1> QED
  BY <1>3, <1>5, <1>6, <1>7 DEF IInv, HolderOfActive, DownloadFindsFile, ExportCoversRequest,
     CompletedIsDone

LEMMA DieInv ==
  ASSUME IInv, NEW w \in Workers, Die(w)
  PROVE  IInv'
<1>1. faults' \in 0..MaxFaults
  BY ExportConstants DEF ExportConstants, Die, IInv, TypeOK
<1> QED BY <1>1, DropStep DEF Die

LEMMA FinishInv ==
  ASSUME IInv, NEW w \in Workers, Finish(w)
  PROVE  IInv'
<1> DEFINE x == work[w].job
<1>1. /\ work[w].pc \in {"return", "throw"} /\ x \in Exports
      /\ \A v \in Workers : work[v].job = x /\ ~jobs[x].stalled => v = w
  BY Busy DEF Finish
<1>2. /\ work' = [work EXCEPT ![w] = Idle]
      /\ UNCHANGED <<rows, logged, posts, files, stored, due, downloads, faults>>
  BY DEF Finish
<1>3. CASE jobs[x].holder # w
  <2>1. UNCHANGED jobs /\ faults' \in 0..MaxFaults
    BY <1>3 DEF Finish, IInv, TypeOK
  <2> QED BY <1>2, <2>1, DropStep
<1>4. CASE jobs[x].holder = w
  <2> DEFINE j == IF work[w].pc = "throw" THEN Retry(jobs[x])
                  ELSE [jobs[x] EXCEPT !.state = "completed", !.holder = None]
  <2>1. jobs' = [jobs EXCEPT ![x] = j]
    BY <1>4 DEF Finish
  <2>2. jobs[x] \in Job /\ jobs[x].state = "active"
    <3>1. w # None
      BY ExportConstants DEF ExportConstants
    <3> QED BY <1>1, <1>4, <3>1 DEF IInv, TypeOK, HolderOfActive
  <2>3. Retry(jobs[x]) \in Job /\ Retry(jobs[x]).holder = None
        /\ Retry(jobs[x]).state \in {"delayed", "failed"}
        /\ Retry(jobs[x]).stalled = jobs[x].stalled
    <3>1. CASE jobs[x].left > 1
      <4>1. jobs[x].left - 1 \in 0..Attempts
        BY <2>2, <3>1, ExportConstants DEF ExportConstants, Job
      <4> QED BY <2>2, <3>1, <4>1 DEF Retry, Job
    <3>2. CASE ~(jobs[x].left > 1)
      <4>1. 0 \in 0..Attempts
        BY ExportConstants DEF ExportConstants
      <4> QED BY <2>2, <3>2, <4>1 DEF Retry, Job
    <3> QED BY <3>1, <3>2
  <2>4. /\ j \in Job /\ j.holder = None /\ j.state \in {"delayed", "failed", "completed"}
        /\ j.stalled = jobs[x].stalled
        /\ j.state = "completed" => work[w].pc = "return"
    <3>1. CASE work[w].pc = "throw"
      BY <2>3, <3>1
    <3>2. CASE work[w].pc = "return"
      BY <2>2, <3>2 DEF Job
    <3> QED BY <1>1, <3>1, <3>2
  <2> HIDE DEF j
  <2>5. Idle \in Work /\ Idle.job = None /\ Idle.pc = "idle" /\ Idle.found = {}
    BY DEF Idle, Work
  <2>6. /\ \A v \in Workers : work'[v] = IF v = w THEN Idle ELSE work[v]
        /\ \A y \in Exports : jobs'[y] = IF y = x THEN j ELSE jobs[y]
    BY <1>2, <2>1 DEF IInv, TypeOK
  <2>7. TypeOK'
    BY <1>1, <1>2, <2>1, <2>4, <2>5 DEF IInv, TypeOK
  <2>8. \A y \in Exports : y # None
    BY ExportConstants DEF ExportConstants
  <2>9. RowsFirst' /\ WorkHasJob'
    BY <1>1, <1>2, <2>2, <2>4, <2>5, <2>6, <2>8 DEF IInv, RowsFirst, WorkHasJob
  <2>10. FiledHasFile' /\ DueIsFound'
    BY <1>2, <2>5, <2>6 DEF IInv, FiledHasFile, DueIsFound
  <2>11. OneHolder'
    BY <1>1, <1>2, <2>4, <2>5, <2>6, <2>8 DEF IInv, OneHolder
  <2>12. HolderOfActive'
    BY <2>4, <2>6 DEF IInv, HolderOfActive
  <2>13. CompletedIsDone'
    BY <1>1, <1>2, <2>4, <2>6 DEF IInv, CompletedIsDone, OneHolder
  <2> QED
    BY <1>2, <2>7, <2>9, <2>10, <2>11, <2>12, <2>13 DEF IInv, DownloadFindsFile,
       ExportCoversRequest
<1> QED BY <1>3, <1>4

(***************************************************************************)
(* Clients and the other services.                                         *)
(***************************************************************************)
LEMMA ReadExportInv ==
  ASSUME IInv, NEW x \in Exports, ReadExport(x)
  PROVE  IInv'
<1>1. /\ \A y \in Exports : downloads'[y] = downloads[y] \/ y = x
      /\ downloads'[x] = "object" => rows[x] # None /\ rows[x].filed
      /\ downloads'[x] # "fileNotFound"
      /\ downloads' \in [Exports -> {"idle", "notFound", "notYetComplete", "object",
                                     "served", "fileNotFound"}]
  BY DEF ReadExport, IInv, TypeOK
<1>2. UNCHANGED <<rows, logged, posts, jobs, work, files, stored, due, faults>>
  BY DEF ReadExport
<1>3. TypeOK'
  BY <1>1, <1>2 DEF IInv, TypeOK
<1>4. FiledHasFile' /\ DownloadFindsFile'
  BY <1>1, <1>2 DEF IInv, FiledHasFile, DownloadFindsFile
<1> QED
  BY <1>2, <1>3, <1>4 DEF IInv, RowsFirst, WorkHasJob, DueIsFound, OneHolder, HolderOfActive,
     ExportCoversRequest, CompletedIsDone

LEMMA GetObjectInv ==
  ASSUME IInv, NEW x \in Exports, GetObject(x)
  PROVE  IInv'
<1>1. files[x] # None
  BY DEF GetObject, IInv, FiledHasFile
<1>2. /\ \A y \in Exports : downloads'[y] = IF y = x THEN "served" ELSE downloads[y]
      /\ downloads' \in [Exports -> {"idle", "notFound", "notYetComplete", "object",
                                     "served", "fileNotFound"}]
  BY <1>1 DEF GetObject, IInv, TypeOK
<1>3. UNCHANGED <<rows, logged, posts, jobs, work, files, stored, due, faults>>
  BY DEF GetObject
<1>4. TypeOK'
  BY <1>2, <1>3 DEF IInv, TypeOK
<1>5. FiledHasFile' /\ DownloadFindsFile'
  BY <1>2, <1>3 DEF IInv, FiledHasFile, DownloadFindsFile
<1> QED
  BY <1>3, <1>4, <1>5 DEF IInv, RowsFirst, WorkHasJob, DueIsFound, OneHolder, HolderOfActive,
     ExportCoversRequest, CompletedIsDone

LEMMA StoreOperationInv ==
  ASSUME IInv, NEW o \in Ops, StoreOperation(o)
  PROVE  IInv'
<1>1. stored' = stored \cup {o} /\ stored' \in SUBSET Ops
  BY DEF StoreOperation, IInv, TypeOK
<1>2. UNCHANGED <<rows, logged, posts, jobs, work, files, due, downloads, faults>>
  BY DEF StoreOperation
<1>3. DueIsFound'
  BY <1>1, <1>2 DEF IInv, DueIsFound
<1> QED
  BY <1>1, <1>2, <1>3 DEF IInv, TypeOK, RowsFirst, WorkHasJob, FiledHasFile, OneHolder,
     HolderOfActive, DownloadFindsFile, ExportCoversRequest, CompletedIsDone

LEMMA DeleteOperationInv ==
  ASSUME IInv, NEW o \in Ops, DeleteOperation(o)
  PROVE  IInv'
<1>1. /\ stored' = stored \ {o} /\ stored' \in SUBSET Ops
      /\ due' \in [Exports -> SUBSET Ops]
      /\ \A x \in Exports : due'[x] = due[x] \ {o}
  BY DEF DeleteOperation, IInv, TypeOK
<1>2. UNCHANGED <<rows, logged, posts, jobs, work, files, downloads, faults>>
  BY DEF DeleteOperation
<1>3. TypeOK'
  BY <1>1, <1>2 DEF IInv, TypeOK
<1>4. DueIsFound'
  <2>1. \A w \in Workers : work[w].pc = "put" => work[w].job \in Exports
    BY Busy
  <2> QED BY <1>1, <1>2, <2>1 DEF IInv, DueIsFound
<1>5. ExportCoversRequest'
  BY <1>1, <1>2 DEF IInv, ExportCoversRequest
<1> QED
  BY <1>2, <1>3, <1>4, <1>5 DEF IInv, RowsFirst, WorkHasJob, FiledHasFile, OneHolder,
     HolderOfActive, DownloadFindsFile, CompletedIsDone

---------------------------------------------------------------------------
LEMMA NextInv == IInv /\ [Next]_vars => IInv'
<1> SUFFICES ASSUME IInv, [Next]_vars PROVE IInv'
  OBVIOUS
<1>1. CASE \E x \in Exports : Create(x)
  BY <1>1, InsertExportInv, LogEventInv, SendJobInv DEF Create
<1>2. CASE \E x \in Exports : Backoff(x) \/ Stall(x) \/ Reclaim(x)
  BY <1>2, BackoffInv, StallInv, ReclaimInv
<1>3. CASE \E x \in Exports : ReadExport(x) \/ GetObject(x)
  BY <1>3, ReadExportInv, GetObjectInv
<1>4. CASE \E w \in Workers : Process(w)
  BY <1>4, MarkRunningInv, QueryInv, PutFileInv, MarkDoneInv, MarkFailedInv, FinishInv DEF Process
<1>5. CASE \E w \in Workers : Die(w) \/ \E x \in Exports : Take(w, x)
  BY <1>5, DieInv, TakeInv
<1>6. CASE \E o \in Ops : StoreOperation(o) \/ DeleteOperation(o)
  BY <1>6, StoreOperationInv, DeleteOperationInv
<1>7. CASE UNCHANGED vars
  BY <1>7 DEF vars, IInv, TypeOK, RowsFirst, WorkHasJob, FiledHasFile, DueIsFound, OneHolder,
     HolderOfActive, DownloadFindsFile, ExportCoversRequest, CompletedIsDone
<1> QED BY <1>1, <1>2, <1>3, <1>4, <1>5, <1>6, <1>7 DEF Next

\* The inductive invariant holds in every state: how far the request and each
\* attempt of its job have come (export-service.ts:57-99, worker.ts:107-212).
THEOREM Invariance == Spec => []IInv
  BY InitInv, NextInv, PTL DEF Spec

\* A download of an export that says it is done finds the file, whichever calls
\* fail, workers die and stalled workers write late (routes/exports.ts:97-104).
THEOREM DownloadTheorem == Spec => []DownloadFindsFile
<1>1. IInv => DownloadFindsFile
  BY DEF IInv
<1> QED BY <1>1, Invariance, PTL

\* Whichever attempt wrote it, the file holds what was stored when the export was
\* requested and has not been deleted since (worker.ts:142-194).
THEOREM CoverageTheorem == Spec => []ExportCoversRequest
<1>1. IInv => ExportCoversRequest
  BY DEF IInv
<1> QED BY <1>1, Invariance, PTL

\* A completed job that never stalled leaves its row done (worker.ts:196-211).
THEOREM CompletedTheorem == Spec => []CompletedIsDone
<1>1. IInv => CompletedIsDone
  BY DEF IInv
<1> QED BY <1>1, Invariance, PTL
===========================================================================
