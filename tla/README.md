# A verification project for Elydora

Elydora records what AI agents do. An agent signs an *operation* (EOR), names
the hash of its previous one, and submits it; the server checks it, appends it
to the agent's chain, answers a receipt (EAR), and rolls the operations of
every five minutes up into a Merkle tree whose root is timestamped. This
directory holds TLA+ models of the parts of that system that run concurrently
or fail halfway, the TLC configurations that check them, and proofs for TLAPS.

    tlc -workers 2 -config IngestAdmin.cfg MCOperationIngest.tla
    tlapm AgentRegistry_proofs.tla

`PROJECT.json` is the index: components, runs, mutants (plausible bugs that each
property must catch; their definitions stand before the ones they replace,
marked *Mutant*), the map from definitions to source lines, findings, hazards,
theorems.

## Inventory

Paths are relative to the repository; `server/` is `packages/server/`.

| Part | State | Operations | Interacts with |
|---|---|---|---|
| Ingest (`server/src/services/operation-submit.ts`, `operation-eor.ts`) | rows `operations`, `receipts`; objects for EOR and EAR; nonces in Redis; queue | `submitOperation` | registry (reads agent and key), stores, queue |
| Verification (`operation-verify.ts`) | none | `verifyOperation` | reads all stores |
| Registry (`agent-service.ts`) | rows `agents`, `agent_keys`, `admin_events` | register, freeze, unfreeze, revoke key, delete | ingest reads it; delete also removes operations and receipts |
| Epochs (`epoch-service.ts`, `scheduler.ts`) | rows `epochs`; tree objects | cron job every 5 minutes, `createEpoch` | reads operations, sends TSA jobs |
| Worker (`worker.ts`, `adapters/bullmq.ts`) | cache entry per agent, export objects, TSA anchors | jobs `operation`, `export`, `tsa`; 5 at a time, 3 attempts | queue, stores |
| Exports (`export-service.ts`, `routes/exports.ts`) | rows `exports` | create, list, get, download | queue, worker |
| Auth (`middleware/`, `api-token-service.ts`, `lib/auth.ts`) | sessions, API tokens | issue, rotate, resolve | every route |
| Audit hook (`sdks/node/src/plugins/hook-template.ts`) | `chain-state.json` and its lock | one process per tool call | server's ingest, other hooks |
| Guard hook (`guard-template.ts`) | `status-cache.json` | allow or block a tool call | server's agent status |
| SDK clients (`sdks/*/client*`) | last chain hash, in memory | create, submit, wrappers | server |
| Audit log (`audit-service.ts`) | none; the cursor is with the client | `queryAudit`, page by page | reads operations |
| Plugin contracts and CLI (`sdks/node/src/plugins`, `cli.ts`) | the configuration files of fifteen hosts; `~/.elydora/<agent>` | install, uninstall, status | hosts, their users |
| Managed transaction (`managed-transaction.ts`) | temporary and rollback files | stage, commit, roll back | whoever edits the same files |
| Console, charts, scripts | none of their own | | server |

What is hard about it:

* A submission awaits Redis, Postgres and the object store some ten times and
  only its last batch is a transaction. Everything it has read may be stale
  when it inserts, by other submissions, a freeze, a revocation, a deletion, or
  a deletion and a new registration under the same id.
* Objects are written before the transaction decides, under keys that a refused
  submission shares with an accepted one.
* A batch may commit although its answer is lost; a message is sent after it.
* Operations are dated when they arrive and stored later, and epochs are made
  by date.
* Hooks are processes without a common parent. They share a file and a lock
  file, and any may be killed anywhere.
* Installations of several files must survive a crash between any two renames,
  and their users' and the hosts' own edits at any time.
* A queue gives a job that it takes for stalled to a second worker, while the first
  may go on.

What makes each part correct: ingest keeps one unbroken chain per agent,
accepts an operation once, never claims what it did not store; the registry's
trail explains its state, and revocation is final; verification succeeds on
whatever was accepted; an epoch holds the operations of its window and can be
proved from its tree; hooks never fork or lose the chain head and never hang; an
export that is done has its file and its operations; guards act on recent knowledge;
an installation takes effect as a whole and keeps what is not Elydora's.
The `hazards` of `PROJECT.json` list where each can go wrong.

## Modules

| Module | What it is |
|---|---|
| `AgentRegistry` | the agents and keys, the five administrative requests |
| `AgentGuard` | extends `AgentRegistry` with the guards of an agent and their cache file |
| `AuditChain` | abstract: one append-only log per agent |
| `OperationIngest` | submissions step by step; extends `AgentRegistry`, implements `AuditChain` |
| `EpochRollup` | the scheduler, `createEpoch`, the TSA job |
| `ExportJobs` | exports: request, queue, workers, download |
| `HookRuntime` | concurrent audit hooks |
| `SdkClient` | client objects of the SDK in front of the chain of an agent |
| `MerkleTree` | pure: build a tree, prove a leaf, verify a proof |
| `AuditTrail` | extends `SdkClient` and `MerkleTree`: pages of the audit log, trees of epochs |
| `ManagedTransaction` | the file transaction of an installation |
| `HookDocuments` | what the plugin modules share: documents, handlers, groups |
| `CursorPlugin`, ... `ClinePlugin` | pure, one per host: which entries are recognised, and what install, uninstall and status make of the documents |
| `PluginCli` | commands and edits in sequence, over the fifteen plugins |
| `..._proofs` | theorems of `OperationIngest` with the refinement of `AuditChain` and of `AgentGuard` (both in `AgentRegistry_proofs`: they have the registry in common), `HookRuntime`, `EpochRollup`, `ExportJobs`, `ManagedTransaction`, `AuditTrail` with `SdkClient` and `MerkleTree`, and `PluginCli` with the plugins (`PluginHosts_proofs` has what the plugins share and the hosts that list handlers, `PluginCli_proofs` those that list groups and the theorems) |
| `MC...` | constants for TLC |

### AgentRegistry and AgentGuard

`agents` and `keys` are the two tables by status. Each request of
`agent-service.ts` takes the date (`Arrive`), reads, answers an error or goes on
(`Examine`), and writes in one batch later (`RegisterAgent`, `FreezeAgent`,
`UnfreezeAgent`, `RevokeKey`, `DeleteAgent`); between these anything else may happen.
`Writes` is `PostgresAdapter.batch`: all statements or none, and a caller may be told
of a failure either way. `events` is the `admin_events` table. Its rows have the date
that the handler took first, `created`, and none tells when it was committed: the order
of `events`, the field `committed`, `deleted` and `reborn` are history. Dates are
counted in requests begun, that is, no two of them fall into one millisecond. What the
dates can tell is `TrailExplainsStatus`: some row has the status, and every row dated
later is of a request that had begun when that row was committed. That is the newest
row if no two requests about the agent overlap, and may be an older one if they do. An
agent is registered with a fixed set of key ids, where `body.keys` may list others at
another time; no property depends on which they are. No code writes the agent status `revoked` or the key status
`retired`, so they are left out. One organization; roles are left out.

`AgentGuard` adds the generated guard script (`guard-template.ts`). A guard reads the
cache file in two steps (lstat, then open; a file that was replaced in between is
an error), asks the server unless the file is younger than the TTL, is aborted by its
timer, writes the answer to the file and only then allows or blocks. Answers, lost
requests, bad input and a full disk are choices. Guards share the file without a
lock, so an older answer may overwrite a newer one. The date of the cache is its
file's. Time is counted in steps that divide the TTL; the timer fires on time.

### OperationIngest

A submission `r` moves `pc[r]` through `readNonce`, `storeNonce`, `agent`, `key`,
`chain`, `payload`, `receipt`, `insert` and `enqueue` to `done`, one step per
await of `submitOperation`, and may fail at each (a store is down, the process
dies: what was done stays). `reply[r]` is the answer. `Begin` chooses what
arrives: any EOR that clients signed, with any previous hash a client can know,
so retransmissions, forks and stale clients are included.

* A hash is the sequence of (operation, payload) that leads to it: hashes do
  not collide. `payload` stands for payload hash and issue time.
* `InsertCommits`, `InsertRefused` are the batch of lines 180-231: primary key and
  unique constraint on (agent, seq_no), foreign key to the agent. The primary
  key is checked first, as Postgres checks indexes in order of creation; the
  handler tells the two apart by the constraint's name.
* `DeleteAgentRows` is what `deleteAgent` does to operations and receipts,
  in the same batch as the agent; if a submission has committed in between,
  its foreign key makes the batch fail.
* `NonceExpires` lets any nonce expire at any time. This covers the TTL and its
  skew to the EOR's own time limit.
* `Verifies` is `verifyOperation` over the stores, without the Merkle part, for
  which see `AuditTrail`.
* `barred` and `orphaned` are history: the requests for which agent and key have not
  both been active at any time since they began, and those whose agent was deleted
  between their seq_no conflict and the read of the row that won it.

### EpochRollup

Time is counted in windows. `Arrive` dates an operation, `Commit` stores it
later or never, `Delete` removes it with its agent. A run of the cron job
belongs to a scheduler and a window and goes through the statements of
`runEpochCreation` and `createEpoch`. Faults are named: a scheduler is down when
its job is due, a call fails, the timestamp job fails for good. One clock for
API servers and scheduler is assumed; one organization (the loop over
organizations isolates their errors). A Merkle tree is the set of its leaves, which
`RootTellsLeaves` of `AuditTrail` justifies.

### ExportJobs

`rows` is the `exports` table; `posts[x]` follows the request that creates `x`
(insert, log, send), `jobs[x]` is what BullMQ knows of its job, `work[w]` where a worker
is in `processExport` (mark running, query, put, mark done, or the catch), `files`
the object store, `downloads[x]` a client (read the row, then the object). Every
call may fail before or after it took effect. From the library: a job has three
attempts (`adapters/bullmq.ts`), is taken from a dead or slow worker after its lock
expires, once, and is then given up (`Stall`, `Reclaim`). The worker that was slow
may go on: laying out a PDF does not yield. A file is the set of operations it
lists, whatever its format. Two exports share nothing but workers, so one is
enough.

### HookRuntime

A hook inspects and opens the state file, posts, receives, takes the lock by
exclusive creation, writes its process id into it, reads, compares and writes
the state file, and removes the lock if it is its own. A waiter judges the lock by
owner and by age and may rename it away. All of these are steps of their own;
reading the file is two (lstat and open), and a reader that finds another file
than it inspected fails, as in `readProtectedFile`. `Serve` is the server, reduced
to what `OperationIngest` shows of it: an operation is accepted if and only if it
names the head. Faults are named: aborted POSTs, waits beyond a second, a lock
left by a dead process, a process id that cannot be written (`NameFails`: the lock file
stays, without an owner), a state file that cannot be replaced (`WriteFails`: it stays
as it was, since the new one is written beside it and renamed), and up to `MaxCrashes`
killed hooks. Assumed: process ids are
not reused; a hook at work under the lock takes less than five seconds;
POSIX, where a rename replaces the file at once.

### SdkClient, MerkleTree and AuditTrail

`createOperation` signs an operation linked to the local head and moves the head
at once; `submitOperation` sends it later. `request[o]` is where the submission of `o`
is; it may be lost at any point and submitted again. The server is `AuditChain` for
one agent: it appends what names its head. A hash is the operation it is the hash
of. `Clients` are client objects: two processes, or one that was restarted (nothing
is persisted). Ids are in the order of creation; UUIDs of one millisecond may not
be, which no property depends on.

`MerkleTree` builds the layers, the proof and its verification, each a recursive
function of the place in the loop that computes it, with hashes as pairs. `AuditTrail` runs an auditor who turns pages (`QueryAudit`: keyset cursor of
date and id, `limit + 1` rows) while operations are stored with the dates of their
arrival, and makes epochs of the first window from what is stored by then and any of the
operations of other agents, ordered by hash. Filters and the total count are left
out; an operation deleted with its agent is gone from the log as from every table.

### ManagedTransaction

`ReadSource` is what an installer reads to compute its changes, `Prepare` the
snapshot of each target; then the steps of `commitManagedTransaction`:
preconditions (one file at a time, as the loop awaits each), directories, staging (temporary file, copy of the old one), for each file
a comparison, a rename and a verification, and after an error the comparison and
the renames of the rollback, in reverse. `Edit` is any other program, at any
moment: a write in place, a replacement, a removal. `touched` is history: whether the
edit came before the plan, after it, or in the gap between comparison and rename that no
program can close. The comparison is by text and inode. POSIX: the Windows path that
first moves the target aside is not modelled. The code can be given a snapshot
with the plan (`expectedSnapshot`); `Prepare` refuses a merged file that has changed.
A transaction ends as `done`, as `failed`, or as `uncleaned`: when a temporary or rollback
file cannot be removed after everything is committed, an error is thrown too, with every
target changed. `AllOrNothing` counts that with success.

### HookDocuments, the plugins and PluginCli

A document is its fields and, per event, a list of handlers or of groups of them. A
handler has an owner (an agent or the user), a script, and a form: exactly as this
version writes it, as an earlier one did, naming another Node executable, or edited. Each
plugin module is a translation of one host's contract, which entries it counts as its
own (`Managed...`, `Current`), which documents it accepts (`Parses`), when it
refuses (`Refused`, `Disabled`), and what remains after install and uninstall. They differ in what
the code differs in: flat or grouped handlers, exact or loose matching, one document
or eight, switches that turn hooks off. JSON syntax, comments and formatting are
left out; that an edit keeps them is up to `jsonc-edit.ts`.

`PluginCli` is one host's documents, the runtime directories of two agents, and a
sequence of commands (`Install`, `UninstallNamed`, `UninstallOnly`), edits by the
user, losses, moves of Node and upgrades of the SDK. A command changes all documents at once,
which is what `ManagedTransaction` is for; the runtime directory is removed
after that, or not (the process dies). `Others` are the settings that are not about
hooks; what documents a host has is `WellFormed`.

What the properties promise goes as far as a plugin recognises what is Elydora's, and no
further. `HandlersHaveRuntime` is about handlers as they were written, in groups as they
were written. `InstallTakes` says that status reports the installation, for its agent
only, and that no handler of another agent that the plugin recognises (`Recognised`, by
form) is left in a file the installation writes; the host may go on running others
beside the new ones.

## Runs

| Run | Asks | Bound |
|---|---|---|
| `IngestRace` | one chain, one acceptance per operation, accepted means stored and verifiable? | 3 submissions of 2 ids, 4 bodies (one id signed twice, one bad signature) |
| `IngestAdmin` | the same against administration, and does it implement the abstract log? | 2 submissions, 2 administrative requests of any kind |
| `AgentGuard` | do concurrent administrative requests leave agents, keys and trail consistent, and do guards act on what they did? | 3 requests of any kind; with guards, of any but revocations, begun before; 2 guards at a time, a TTL of 2, 4 moments |
| `EpochFaulty` | leaves of epochs under late commits and failures; does what is stored in time get anchored? (liveness) | 2 operations, 2 windows, two schedulers in the first, 2 attempts |
| `ExportJobs` | files, downloads and the end of exports (liveness) under faults | 1 export, 2 workers, 1 operation, 3 attempts, 4 faults |
| `HookConcurrent` | lock, local head and attempts without dead locks | 3 hooks, 5 attempts, one earlier operation, failing writes of the state file |
| `HookFaulty` | chain, single recording, and termination (liveness) with crashes | 2 hooks, 2 attempts, 1 crash, failing writes |
| `AuditTrail` | what of the clients' operations gets in, do pages and proofs show it? | 4 operations of 2 clients, 2 dates, 2 operations of others, 2 epochs |
| `ManagedTransaction` | are texts kept, edits respected, files changed together? | 3 files and 2 conditions, 2 edits, 2 faults |
| `PluginCli` | what do commands leave behind, for each host? | 15 hosts, 2 agents, 1 edit, any number of commands |
| `EpochLate` | violated: `AllAreLeaves` | 1 window |
| `HookReclaim` | violated: `NeverRegresses` with a dead lock | 2 hooks |

Why the bounds suffice: a conflict on `seq_no` needs two submissions, a conflict
on top of one already stored needs three, and every race with administration we
know of is between one or two requests of each side. A rollup meets another of
the same window or of the next. Two hooks can hold up a third; a rejection needs a
lagging file or another hook, five attempts are never used by three hooks, and with
`MaxAttempts = 2` giving up is reached. Four faults are more than an export survives
(three attempts), and two workers are what a stalled job needs. Two guards are a reader and a writer of the
cache file; the clock passes the TTL and a request. Six leaves give layers of every
parity up to height three, and pages of one and two rows end within and between
equal dates. Three files are a first, a middle and a last one to fail at; the two merged
ones may be removals; of the two conditions one file is there at first and one is not,
so that an edit can come before the one that is looked at first and after the other. The
theorems below remove the bounds where they apply.
Two runs choose when administrative requests begin. Only the dates of events depend on
it: `IngestAdmin`, whose properties read none, lets them all begin first
(`ArriveFirst`). In `AgentGuard` they begin at any time as long as no guard is at work,
which is what the trail is about; behaviours in which guards run have them begin first,
dated in a fixed order, and without revocations, which are nothing to a guard
(`MCGuardSpec`). Guards and requests overlap in any order either way, and the theorems
are about `GuardSpec` itself.
Symmetry is used over submissions, callers, guards, operations, schedulers, hooks, edits
and clients in runs without liveness. Ingest and export runs check deadlock (a
terminal step stands for a finished ingest, an export can always be downloaded
again); in the others the system ends or time does.

Fairness (`EpochRollup`, `ExportJobs`, `HookRuntime`): steps of a live process are weakly fair,
as the operating system and the event loop schedule them. Time passes (`Tick`). A
job is taken again by the queue until its attempts are used up, and a stalled one is
noticed. A POST is answered or, if it may be lost, aborted by its timer. An abandoned lock file
ages. The deadline of a waiting hook is looked at every time round the loop,
hence strong fairness of `WaitTooLong`; `EveryHookEnds` is checked without that
deadline, so it shows that reclaiming works. Clients, crashes, failures are not fair.
`PunctualAnchored` excuses an operation only for trouble in its own window;
`EveryExportSettles` excuses an export only when two faults met it and its job
stalled or was given up.

The type invariants (`TypeOK`, `SdkTypeOK`, `GuardTypeOK`, ...) document the variables. Those of
ingest, hooks, exports and clients are proved; the others hold on the instances above.

## Findings

1. **An epoch may miss an operation for ever** (`EpochLate`). The operation is
   dated before, stored after, the rollup of its window; verification then
   reports it as not in the tree. README.md:35 promises all records.
2. **A live lock may be reclaimed** (`HookReclaim`). Two hooks reclaim the same
   dead lock; the second takes the first one's new lock away and the local head
   can move back. It stays on the chain (`LocalOnChain` holds), so the next
   rejection repairs it.

Also seen, without a run of their own:

* A chain may start in the middle (`EveryChainIntact` does not hold), when an agent is
  deleted and registered again while one of its submissions is between its chain
  check and its insert. README.md:774 defines `prev_chain_hash` as that of the
  immediately preceding EOR.
* The EAR object may be another one's: a second submission of the same EOR replaces
  the object and is then refused; table and object disagree on the receipt id.
* An action may go unrecorded with nothing failing: a hook that reads the state file
  while another renames a new one over it fails (`Reopen`).
* A submission that read its agent as active commits after a freeze (only requests
  that *begin* barred are stopped, `BarredStoreNothing`); the assertion "seq_no
  conflict without a stored operation" fails, as a 500, when the agent is deleted
  between the conflict and the read of the row (`ConflictHasWinner` says only then); two schedulers insert two epochs for a
  window, as no unique constraint backs the check before; a window whose cron job is
  missed is never made up for.
* The newest event of an agent need not tell its status: a freeze dated before an
  unfreeze, and committed after it, leaves the agent frozen and an `agent.unfreeze` as
  the newest row (agent-service.ts:210, 273). `TrailExplainsStatus` says how far the
  dates go.
* An installation may report an error although every file is changed, when only its last
  clean-up failed (managed-transaction.ts:380-389).
* An export may stay `running` for ever: the queue gives a job up after a second
  stall without running the catch that would mark it failed.
* A guard that fails open allows a frozen agent when it cannot write its cache
  file, because the status is looked at after the write; one that fails closed errs
  when another replaces the cache while it opens it.
* A client object that starts on a chain that is not empty gets nothing in
  (`AcceptedInOrder`), and after one lost submission nothing until it is sent again.
* Claude Code and Droid recognise an entry by the Node of today
  (claudecode-contract.ts:272, droid-contract.ts:165): after Node has moved, uninstall leaves
  the old entries, and an installation, of the same agent or another, adds a set beside
  them that the host runs as well. Grok leaves groups alone that the user has
  added to (grok-contract.ts:172), whose handlers then name a removed script, as edited
  handlers do everywhere; a removed or edited wrapper of
  Cline, or one of OpenCode from another version, makes the commands refuse.

## Proofs

For `OperationIngest`, `AgentRegistry_proofs` proves, for any sets of requests, callers,
agents, keys, operations and bodies: `TypeOK`, the inductive invariant `IInv`, and from
it `ChainIntact`, `MismatchNamesAnotherHead`, `AcceptedIsRecorded`, `AcceptedOnce` and
`QueueOnlyRecorded` (no message names an operation that is not stored). `ChainIntact`
alone is not inductive: nothing in it says that the request about to insert row n+1
extends a row that is still there. `IInv` adds what each request has established at its
program counter: the seq_no it computed is the length of the hash it extends plus one
(`SlotsHashed`), the row it extends is stored or its agent was deleted
(`InsertsLinked`), a lost race has a winner (`WinnersStored`), a committed request is
recorded before it answers (`CommittedRecorded`); and of the rows: hash and seq_no agree
(`RowsHashed`), the constraints hold (`OpsUnique`, `SeqsUnique`, `RowsHaveAgents`).
Because a hash determines its length, two rows with one seq_no would be the conflict
that the unique constraint excludes; that is why the compare-then-insert race is
harmless. The proof has one step per action: administrative steps leave the submissions
alone except deletion, which only makes the hypotheses about the agent false;
`RegisterAgent` of a deleted agent moves it into `reborn`, which the parts about links
exempt. `IInv` is also checked by `IngestAdmin`.

Two smaller invariants stand beside it. `BarredInv` gives `BarredStoreNothing`: a key
comes into use only together with its agent (`KeysActivated`), so a barred request that
saw its agent active finds its key missing or revoked, and never passes the second
look-up (`BarredMoves`). `VerifyInv` gives `EvidenceIsTheEor` and `StoredVerifies`: from
the step that looks for a signature, writes the evidence or files the EAR on, what
verification needs is there (`RequestSound`, `RowSound`), and later submissions under
the same object key rewrite the evidence with the same EOR unless the id was reused.
`ConflictHasWinner` follows from `WinnersStored`: a request that is about to read the
winner has one, unless it is `orphaned`, which it becomes only by a deletion at that
very step (`OrphansDeleted` relates it to `deleted`).

It ends with the refinement, `Spec => ImplementsAuditChain`. The log of an agent is the
hash of its latest row; `LogInv` says that there is such a row, that the seq_nos below
it are all taken (`SeqsDense`), and that what its hash is made of is stored
(`LinksStored`). So a commit, whose seq_no is free, extends exactly the latest row
(`NewLatest`), by an operation in no log yet. Every step then records, erases or leaves
the logs alone (`Kinds`, `CommitShows`, `EraseShows`, `UnseenShows`).

`HookRuntime_proofs` proves, for any number of hooks, attempts, crashes and
faults, `TypeOK` and `LocalOnChain`. The invariant is `ChainInv`: every hash a hook
holds as previous hash, goal or answer leads to the server's head, and a hook that
waits has a request or an answer that names the head it asked with (`Answering`);
the chain only grows, so nothing a hook may write later falls off it. When no lock is
left by a dead process or without a process id and no hook is killed (`NobodyDies`) it proves `LockExclusive`,
by `LockHeld` (the lock file belongs to the hook inside, which is alive, so it never
grows old and nobody reclaims it), and `NeverRegresses`, by `Forward` (an answer is
newer than the question, and under the lock the state file still equals what was
compared). `NobodyDies` is needed: `HookReclaim` refutes `NeverRegresses` without it.

`RecordedOnce` needs no such hypothesis. `OnceInv` says that a hook whose operation is
on the chain has no request under way and will not post again (`NotYet`), which rests on
an answer being read once and only by the hook it is for (`Waiting`).

`NobodyGivesUp` is proved for finitely many hooks that are not killed, fewer than
`MaxAttempts`: with the code's `MAX_CHAIN_ATTEMPTS` of five, up to four at once. `BudgetInv`
counts: what a hook has been refused for is paid by the operations of other hooks on
the chain (`Paid`). The first refusal brings it to a head that has everything recorded
before the hooks came (`Current`), each further one to a longer chain than the one
before (`Told`), so there are no more refusals than hooks. The hypothesis is not slack:
as many hooks as `MaxAttempts` can refuse one of them that often, once for what came
before and once for each of the others. `CaughtUp` holds for any finite number of
hooks that are not killed: whoever is past the lock with a recorded operation has seen
the state file reach it (`Advanced`), the operations from before are the first of
the chain (`EarlierFirst`), so the last of the chain is a hook's and the file is
there. TLC has checked `OnceInv` with the constants of `HookFaulty`, the other two with
the three hooks of `HookConcurrent`, timeouts and aborts included.

`ExportJobs_proofs` proves, for any numbers of exports, workers, operations, attempts
and faults, `IInv` and from it `DownloadFindsFile`, `ExportCoversRequest` and `CompletedIsDone`
(a job that the queue counts as completed and that never stalled leaves its export
done). What makes them inductive: the key of a file is set, read or about to be set
only where the object is (`FiledHasFile`), which no later attempt takes away; what a
worker has found still holds what was due when the row was inserted (`DueIsFound`);
and a job that never stalled has one worker (`OneHolder`), so nobody else can mark its
row. The proof has a lemma for each kind of step, with the records it writes as
parameters.

`EpochRollup_proofs` proves, for any number of operations, schedulers, windows and
attempts and all faults, `IInv` and from it `PunctualAreLeaves`: a run starts when its
window is over (`RunsWait`), when nothing more becomes punctual in it, and reads the
rows after that, so what it holds until the insertion has every punctual operation
that is still there (`LeavesComplete`).

For `AgentGuard`, `AgentRegistry_proofs` proves, for any number of agents, keys,
requests and guards and any TTL and timeout, `GuardInv` and from it the registry's
`TrailExplainsStatus`, `KeysFollowAgents` and `RevocationIsFinal` and the guards'
`GuessNeedsFault` and `VerdictIsRecent`. The registry's two invariants are inductive
with the types and with `DatesPast`, that no event is dated in the future: so each row
that is committed now can be the one that tells (the lemma `AppendEvent` says what one
more event does to the trail).
`VerdictIsRecent` needs that what a request brings was held since it left, at most its
timer ago (`Sound`), and therefore that the cache file never holds a status the agent
did not have within a request before the date of the file (`CacheHeld`), although guards
overwrite it in any order.

`ManagedTransaction_proofs` proves, for any finite set of files in any order, any edits
of other programs, failures and a crash, `TransactionInv` and from it `OriginalKept` and
`EditsSurvive`. The invariant says which files are staged, committed and put back at
each step (`Progress`), where the original of each then is (`Located`), that a new text
is in place only where it was committed (`NewCommitted`), that a merged text was made
from what the snapshot holds (`PlanFits`), and that between comparison and rename only a
`gap` edit can come (`Compared`).

`HooksNeedRuntime` and `AllOrNothing` relate all files of a plan; they follow from
`OutcomeInv`, which adds the order: everything is staged before anything is renamed,
renames go up the list and the rollback down it (`InOrder`). What is then at each
target that nobody else edited is known at any moment (`Placed`); a rollback finds a
receipt of each rename and a copy exactly where there was a file (`Restorable`); and
from the last look at a condition on only later edits can change it
(`ConditionsHeld`). The next file to rename or to put back is the first or last
of a finite set, whence the lemma `Chosen`. TLC has checked `OutcomeInv` with the
constants of `ManagedTransaction`.

`AuditTrail_proofs` first proves, for any number of clients and operations, `SdkInv` of
`SdkClient` and from it `AcceptedInOrder`. The order of the chain is not inductive by itself: that the next
operation appended is the very next its client made needs that each operation is
linked to the one its client made before it (`Linked`), which rests on the local head
being the latest (`HeadIsLatest`). The lemma `EarlierKept` says that creating an
operation changes nothing of what came before.

It then proves, for any numbers of clients, operations and epochs, pages of
any sizes and trees of any height, `AuditInv` and from it `PagesComplete`, `ProofsVerify`
and `RootTellsLeaves`. For the pages, the invariant relates reader and table: the pages so
far end at the cursor, and what was due is on them or still beyond it (`PagesSoFar`); a
stored operation never changes its date (`Settled`). `SortedIs` says that sorting a
finite set puts each of its members in exactly one place, which `PageIs` makes a
statement about one page: the next rows beyond the cursor, and none between.

For the trees, the invariant is `Grown`: each was built from some window. The rest is about
`MerkleTree` alone. `TreeBuilt`: the loop ends, since each layer is shorter than the one
below. `ProofLeads`: what `Climb` makes of a leaf is, at each layer, the node at the
index that `Path` has there, also where that is the repeated last one. `RootTells`: two
trees with one root have the same height, because a leaf is no pair (`SameDepth`), and a
layer without repetition can be told from the one above (`AboveTells`): an odd layer
repeats its last node there, an even one none. This is where the chain hashes
must be distinct; without it the leaves `a, b, c` have the root of `a, b, c, c`. What
the recursive functions compute is proved without an induction theorem, none of
which can be applied here: if a statement fails for some n, it fails for a smallest
(`Smallest`), and the step below that contradicts it; in the same way each function is
shown to exist (`LayersEquation`, `PathEquation`, `ClimbEquation`). `AuditInv` has been
checked by TLC with the constants of `AuditTrail`.

`PluginHosts_proofs` and `PluginCli_proofs` prove, for any number of agents, any documents
the fifteen hosts may start with, lists of any length in them and any number of edits,
`HandlersHaveRuntime`, `InstallTakes`, `ReinstallChangesNothing` and `ForeignKept`. The
inductive invariant has the first two and `TypeOK`, whose part `WellFormed` says what the
documents of a host are: its files, handlers or groups at each event, and

* a handler that is exactly as this version writes it is where this version writes it
  (`InPlace`); without this an uninstall would leave a copy that a user had made
  elsewhere, which dangles;
* hooks stand in their container, and a file that is made for one handler has nothing
  else (`Contained`). For Claude Code, no group that is as Elydora writes it is empty: the
  code keeps an empty group at the first installation and, finding it beside its own,
  drops it at the second (claudecode-contract.ts:303, 319), so that there a second
  installation could change something;
* Kimi's list of home directories is no document of the user's (`Homes`).

`HostAssumption` asks this of the documents a user starts with; every step is shown to keep it.

The argument has three layers. Of a list: every removal of a plugin puts for each
element what is left of it and keeps some of the results (`Sift`), and plugins differ
in which handlers they look for, in which groups, and which empty groups they drop; such
a choice is a `way`. For any way, a removal is idempotent, leaves the user's handlers
in order, and nothing of its agents that the host would run; an installation is a removal
of all agents and an addition (`Renewed`), and a second one changes nothing. Of a host: its operators
are shown to be those of its way (`...Ops`, `...Lists`), its commands to have the form of an
installation or a removal of some of its files (`...Performs`), and its status and a
second installation to find what the first one left (`...Repeats`); `HostSound` concludes
`Sound`, and `EverySound` collects the fifteen. That an installation leaves no recognised
handler of another agent (`Sole`) rests on the plugin removing from a file it writes all
that it recognises (`Looks`, `KnownSought`), and from files it only clears likewise
(`Clears`). Droid (three files of which one is active),
OpenCode and Cline (a file per agent) have proofs of their own shape. Of the program: a
command is what `Sound` allows (`Changed`), and an edit of the user's, a moved Node or a deleted file leaves
documents of the host's form in which nothing runs that did not run before (`Edited`). `Kept`,
which removals are made of, is a recursive function; as with the trees, it is reasoned
about by a smallest counterexample.

The proofs assume the named assumptions on the constants, which TLC evaluates in the
runs. Only model-checked is liveness (`EveryHookEnds`, `PunctualAnchored`,
`EveryExportSettles`), which is out of the prover's reach.

## Not modelled

* The durable transactions of the Python and Go SDKs: each has a journal and a recovery of
  its own design, for which `ManagedTransaction` does not stand. The Python and Go
  clients and plugins are ports of the Node ones.
* Authentication, roles and API tokens: sessions are a library's; a token is a row with
  a few guarded updates. Compliance roles (`requireRole`) only restrict who may ask.
* The operation job of the worker writes a cache entry that nothing reads.
* Reads without a state of their own (operations, epochs, JWKS), the agent's
  integration type, messages, PDF layout, the console, charts and scripts.
* Cryptographic primitives are assumed; syntax and layout of configuration files are
  abstracted.

What would come next: the Python journal against an abstract all-or-nothing
installation.
