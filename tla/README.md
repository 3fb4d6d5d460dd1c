# Formal models of Terma

Terma is a Node.js server with a browser and an Electron client for SSH, SFTP,
VNC, RDP and X11 hosts.  This directory holds TLA+ specifications of the parts of
the server that keep state over time: the SFTP transfer engine and its job
history, port forwards, the shared SFTP sessions, the range cache behind
drag-out, automations with two-way synchronisation, and the encryption of stored
secrets.  Configurations model-check them with TLC, and TLAPS checks proofs.
Paths below are relative to the repository root, so `src/sftp-jobs.ts` is listed
as `src/src/sftp-jobs.ts` in `PROJECT.json`.

## 1. Inventory

| Part | State it keeps | Operations | What makes it hard, what makes it correct |
|---|---|---|---|
| Transfer scheduler, `src/sftp-transfer-scheduler.ts` | two queues, two sets of active jobs, fields on job objects (status, slot, runner, waiters) | queue, drain, release, withdraw, wait for start, refresh after a settings change | a loop that runs callbacks while it iterates, deferred drains, a limit read anew each time; slots never leak, FIFO, nobody is forgotten |
| Upload jobs, `src/sftp-upload-jobs.ts` | job object with phase and generation, staged local file, remote staging file | create, receive the body, start, commit, resume, pause, cancel, delete | killed channels that still deliver writes and events; the target is whole or untouched |
| Download jobs, `src/sftp-download-jobs.ts` | job object, closure of each run, temporary file | create, run, three size queries, read, save, resume, pause, cancel, delete | state used after an await, a source that changes; what is called done is whole |
| Cross-host copies, `src/sftp-checkpoint-transfers.ts` | job object with manifest, staging directory on the target host | scan, copy file by file, commit, resume, pause, cancel, delete, cleanup | an async run that shares its job object with later runs |
| Job history, `src/sftp-jobs.ts`, `src/sftp-job-store.ts`, `src/sftp-download-cache.ts` | `data/sftp-jobs.json`, its cache in memory, the jobs Map, files under `data/` | persist, list, clear, delete, resume from a record, maintain and clear the cache, restart | crash between any two steps, a record limit, clean-ups that must know which files are in use |
| Archive downloads, local delivery | job object, remote archive | prepare, then as a download | cancel during preparation |
| Native drag, `src/sftp-range-cache.ts`, `src/sftp-session.ts`, `src/sftp-native-drag-jobs.ts` | tickets; per remote file a data file, a list of ranges in memory and a metadata file; a lease on the cache | open a range, read cached and missing segments, retry, flush, clear, expire | streams of one file share its ranges; power may fail between data and metadata; each block comes once, in order, as the source has it |
| SFTP sessions, `src/sftp-session.ts` | one record per connection with client, status, generation; pooled channels with idle timers | connect, disconnect, close all, open a channel, run a command, release, abort | a slow dial overtaken by a disconnect or an edit, a late channel; one client, no channel without an owner |
| SSH forwards, `src/ssh.ts`, `src/ssh2-client.ts`, `src/services/forward-reconfiguration-service.ts` | rows with status, pid and restore flag, the map of built-in tunnels, a queue of operations per forward, the restore file | start, stop, edit, delete, start all, monitor, autostart, shutdown | operations of users, monitor and shutdown in any order, each with awaits; no tunnel is forgotten, what runs is restored, what is wanted is retried |
| Host trust, `src/ssh-host-trust.ts` | known keys, pending confirmations | probe, confirm, replace | the key changes between probe and use |
| Terminals, `src/terminal-session.ts`, `src/websocket.ts` | sessions, replay buffer | attach, detach, resize, close | reconnecting clients |
| Automations, `src/sftp-automations.ts`, `src/sftp-automation-repository.ts` | schedule, rules and baseline per automation, run rows, the set of running ones | save, pause, run, tick, retry, clear history, recover | a run that outlives its schedule or its rules, compaction of the history; an enabled automation goes on, its history adds up |
| Two-way sync, `src/sftp-automations.ts` | the two trees, the baseline of the last run | list, decide, transfer, delete, keep both, list again, save the baseline | users edit during every step; both sides become the same, no edit is lost |
| Encryption of secrets, `src/crypto-store.ts`, `src/config-snapshots.ts`, `src/storage-restore.ts` and their routes | settings with state, salts and checks; keys in memory; secrets in the database; snapshots | enable, unlock, upgrade, disable, save a secret, snapshot, restore with roll back, restart | several files and rows rewritten one after the other, each write may fail or be the last; every secret stays readable |
| Security, `src/security.ts` | users, sessions, failed logins | login, expire, throttle | windows and limits |
| Database, `src/database/` | SQLite | migrate, export, import | single statements are atomic |
| Remote components, updates | tasks, packages | download, verify, install, resume | recovery after a restart |
| VNC, RDP, XDMCP, X11 | remote processes | start, stop, inspect | remote scripts and their output |
| Routes, desktop shell, browser client | none, or user interface | requests | represented by the actions of the parts they call |

How the modelled parts interact.  A route creates a job through one of the three
job modules; the job object goes into the `jobs` Map of `sftp-jobs.ts` and to the
scheduler (`queueTransferJob`).  The scheduler calls the job's runner when it
admits it.  The runner talks to remote commands through event callbacks (uploads,
downloads) or awaits (copies, downloads); at the end it gives its slot back
(`releaseTransferSlot`), which schedules a drain with `setImmediate`.  Pause,
resume, cancel and delete come from the user at any time and act on the job
object, on the scheduler, and on the running command.  Every change of a status
is written to the history in the same turn of the event loop, and the history
decides which files are cleaned up.

The commands the jobs run are channels of the shared SFTP session; the job models
know them by the events they may deliver (data, an error, an end, late writes),
and `SftpSessions` models where those come from.  A sync run transfers with the
same sessions, without jobs.  Forwards have SSH clients and processes of their own.
Restoring a database stops the forwards first; `SecretKeys` has that as one await
that may throw.

## 2. Modules

| Module | Role |
|---|---|
| `FifoAdmission` | abstract specification: jobs wait in line, are admitted in order while there is room, give up, leave |
| `TransferScheduler` | the scheduler with the most general job engine; refines `FifoAdmission` |
| `TransferScheduler_proofs` | its inductive invariant, its safety invariants and the refinement, proved; lemmas about files, for the engines |
| `RemoteFiles` | files as sequences of blocks, with writes at an offset and at the end |
| `UploadJobs` | upload engine; extends `TransferScheduler`, `RemoteFiles`; refines the former |
| `UploadJobs_proofs` | its inductive invariant, its safety properties and that it implements the scheduler, proved |
| `CrossCopy` | cross-host copies; same composition |
| `CrossCopy_proofs` | inductive invariant, types, safety properties and that it implements the scheduler, proved |
| `DownloadJobs` | plain downloads; same composition over `TransferScheduler` |
| `DownloadJobs_proofs` | the same for downloads of a constant source, proved |
| `JobHistory` | what survives a job: record and artifact, across crashes |
| `JobHistory_proofs` | inductive invariants, types and all its safety properties, proved |
| `Forwards` | the port forwards of one connection, with monitor, autostart, shutdown and crash |
| `Forwards_proofs` | inductive invariant, types and its three safety invariants, proved |
| `SftpSessions` | the shared SSH client of one connection, its channels and their users |
| `RangeCache` | the cached ranges of one remote file, in memory and on disk |
| `Automations` | one automation: schedule, runs, retries, history, baseline |
| `SyncRun` | one file in the two-way sync of two folders, with edits at any time |
| `SecretKeys` | the form and the key of each stored secret, through every switch of the encryption |
| `Connections_proofs` | secrets: inductive invariant and two properties; sessions: one open client, the one in the map, and no lost channel; proved |
| `Background_proofs` | lemmas about folds; automations: open runs, schedule, history; sync: the baseline tells the truth when deletions are propagated, quiet runs lose nothing; range cache: inductive invariant and all its safety properties; proved |
| `MCConnections` | `SecretKeys`, `Forwards`, `SftpSessions`, `RangeCache` side by side |
| `MCBackground` | `Forwards`, `Automations`, `SyncRun` side by side, with their fairness |
| other `MC...` | instances for TLC |

An engine module reuses the scheduler's operators (`QueueTransferJob`,
`AdmitHead`, `Release`, `Withdraw`) inside its own actions, so that a handler
and the scheduler calls it makes are one step, as in the program.  That each such
step is one that `TransferScheduler` allows is the property
`ImplementsScheduler`; what is proved of the scheduler is proved for all job
sets, so it covers the composition as far as that property reaches.

The parts in `MCConnections` and `MCBackground` write no state of each other.  A
variable `part`, chosen in the initial state, says which of them moves; the other
parts rest.  A run over them checks several specifications, each in full and for
itself, and no product of their states is built.

### Granularity

Node runs one handler to its end.  An action is a handler, or the part of an
async function between two awaits.  The drain loop is the exception: it starts
several runners, so each iteration is a step, and `turn` keeps other handlers
out until the loop ends (`Idle`).  Remote commands are processes on another
machine; each of their steps is an action of its own.

A promise that settles resumes its waiters before the next event.  Where that
matters (`Forwards`, `SftpSessions`) the settled answer is part of the state and
`Idle`, `PIdle` keep new events out until it has been taken.

### Correspondence

`TransferScheduler`: `status`, `queue`, `active`, `slot`, `queued`, `runner`,
`waiting` are the fields of the same purpose; `due` is a pending `setImmediate`,
`limit` what `transferConcurrency` reads.  `Submit`, `ResumeJob`, `EndJob`,
`WithdrawJob`, `DeleteJob` are the calls a job engine can make, `FailQueued` the late
error that fails a waiting job (only uploads have it, `FailInQueue`).

`UploadJobs`: `job[j].gen` is `upload_generation`, `child` the command whose
events are awaited (the `wc -c` of a resume, `cat`, the commit script; `Thrown` when
its close handler has thrown and nothing is awaited any more), `remote`
the staging file and the target, with what killed commands may still do:
`orphans` are writes in flight, `ghosts` error events, `lateMove` a commit
script whose channel is gone, `rm` a clean-up sent and not yet executed.  `at` tells
whether the file a `cat` has open is still the staging file or, moved under it,
already the target.

`CrossCopy`: `run[j][r].pc` is the await at which run `r` waits; `copy` holds the
fields all runs share, in particular the stream and the child that pause and
cancel reach; `site` is the target host.

`DownloadJobs`: `run[j][r]` is the closure queued by resume `r - 1`; `load` is the
job object; each block of `temp` remembers the version of the source it was read
from.

`JobHistory`: `mem` is the Map, `hist` the stored history, `loaded` whether
`historyCache` has been read, `file` the artifact, `delivery` the
`delivery_status`, `barred` the negation of `resume_supported`.

`Forwards`: `row` is the row of `connection_forwards`, `managed` the map
`ssh2Forwards`, `ops` the promise chain of `enqueueForwardOperation`, `op` the
await at which the operation at its head stands, `keeper` the health monitor or
the start-up task, `batch` a `startConnectionForwards`.  `tunnel` is what really
runs, known to the program or not.

`SftpSessions`: `current` is `sessions.get(id)`, `session` every record made so
far with its SSH client (`link`), `request[q].pc` the await of a caller,
`channel[c].entry` what the program knows of a channel, `open` what the server
has.

`RangeCache`: `ranges` and `dirty` are the fields of a state, `known` whether
`states` has it, `data` and `synced` the data file before and after a loss of
power, `meta` the metadata file, `reader[r]` the generator of a stream.  `got` is
what the stream has delivered, with whether each block was the source's.  The loop
of `segmentsForRange` is a fold that carries its cursor (`Piece` is its body).

`Automations`: `task` is the row, `running` and `open` the set in memory and the
row of status "running", `table` the finished rows; `past` is what happened since
the last clear, with no-change runs already counted together.

`SyncRun`: `side[s].c` is the content on a side, `.base` whether the file still has
the size and time of the baseline, `.list` those of the last listing; `base` is the
stored baseline, `sync` the run.  Contents that differ may have the same size, which
decides whether the code compares them (`MayDiffer`).

`SecretKeys`: `secret[s]` is the key a secret is encrypted with, or `Plain`;
`settings` the state with the keys that salt and check (and their legacy pair)
stand for; `active` and `activeOld` the keys in memory; `step` what the running
route does next, `restore` a restoration.  Every write named in `Failing` may
throw; `Restart` may fall between any two steps.

## 3. Runs

| Run | Instance | Shows |
|---|---|---|
| `Scheduler` | three uploads, limit 1 or 2 | bookkeeping invariants, refinement of FIFO admission with its fairness |
| `UploadSlots` | a local and a browser upload, one slot, one resume, local read errors, exceptions in close handlers | late events turn no stopped job and double no transfer, scheduler refined |
| `UploadContent` | one browser upload of two blocks, two resumes | target whole or untouched after at most one resume, staged file kept, uploads settle unless one is stalled for ever |
| `CopySlots` | two copies of one block, one slot, one resume, target present or absent | target whole or original, no orphaned job, scheduler refined |
| `DownloadSlots` | a browser and a desktop download of no or of two blocks, one resume | blocks in place, one writer, done is whole, scheduler refined |
| `DownloadChanges` | one desktop download, source of 1 to 3 blocks that changes once, one resume | downloads settle |
| `HistoryFiles` | browser download, upload, cross copy; room for all records | an artifact of use is lost in four named ways only; offers have their file; work leaves a record |
| `HistoryLimit` | desktop download, upload, cross copy; room for two records | overflow, current records, no orphaned files, what is finished runs again only from a record of an earlier process |
| `Connections` | two secrets, two forwards, two requests, two streams | secrets readable through every switch, exit and failing write, four accidents set apart; tunnels known, configured as shown and restored; one client and no lost channel; cached blocks delivered right |
| `Background` | one forward of each kind, one automation, one file on two sides | a wanted forward is tried again, an enabled automation runs again, both sides of a sync converge; history and baseline are true |
| `DownloadCancelled` | source of 1 to 3 blocks, two resumes | violated, see 5 |
| `SyncDiverges` | one file, three edits, no propagated deletions | violated, see 5 |

Deadlock is checked in the first eight: some request is always possible.
`Connections`, `Background` and `SyncDiverges` switch it off: once the bounded
requests, edits and exits are used up, a part may rest for good.

### Bounds and why they are enough

* Three uploads in one queue give a head, a middle and a tail to withdraw, with
  limits 1 and 2 a limit that is raised or lowered past the number of active
  jobs.  Both queues run the same code on separate state; that they do not
  disturb each other is in the proofs, which hold for any set of kinds.
* Engine runs use one slot, so that a second job must wait.  Two jobs are
  enough for a slot to be wanted by another; a job's own events never read
  another job's fields.
* `MaxResumes` bounds resumes of all jobs together.  One is enough for a stale
  event or write to meet a new run; two are needed for the error of
  `UploadResumes.cfg`, because a write that is late once makes the file too long
  and is caught.
* Blocks stand for chunks.  Two give a partial file; `UploadResumes.cfg` needs four
  for a file of the right length and the wrong content.  `CopySlots` has one, so
  a partial file there is an empty one; `CopyLiveness.cfg` has two files of two.
* `MaxHistory` is 2 or 3 in place of 120; what matters is whether it exceeds the
  number of jobs.  `HistoryLimit` has desktop downloads where `HistoryFiles` has
  browser downloads; they differ in how a finished one is delivered.
* Forwards: one of each kind, so that the stop of one meets a running other.
  `MaxRequests` 2 lets a request wait behind, or undo, another; `MaxTunnels` 2
  bounds what is opened; `MaxExits` 1 gives a shutdown and a crash in
  `Connections`, and none in `Background`, where a program that stays down would
  make every liveness claim void.
* Sessions: `MaxAsked` and `MaxSessions` 2 let one request wait for a dial that
  another replaces; `MaxChannels` is never reached with two requests; `MaxIdle`
  is 1 in place of 2.
* Range cache: a file of two blocks is partly cached, clipped and cut off in the
  middle; two streams, one retry, one restart and two data files, hence one
  removal.  With three blocks the same instance passes as well (2.6 million
  states of this part alone); it is left out to keep the run short.
* Automations: a history of two rows and two attempts; `MaxSaves` 1 lets a save,
  pause or enabling meet a run.  `MaxStreak` 2 in place of 10^9.
* Sync: two contents and three edits are an edit on each side and one during the
  run; a file is one name, since the code treats each key for itself.
* Secrets: three keys are a first one, that of a snapshot or bundle, and its
  replacement; two secrets let a rewriting of one be followed by a failure of the
  other.  `Failing` has the writes of all nine sites.
* No state constraint is used.  `Connections` declares requests and streams
  symmetric: they are model values that no definition orders, and the run has
  only invariants.

### Fairness

`SFairness`, `UFairness`, `XFairness`, `DFairness` say: the event loop finishes a
drain loop it has begun and serves each `setImmediate`; a remote command that is
awaited makes progress or reports an error, close or error events are delivered
in the end; a size query is answered or rejected.  Node guarantees the first.  The others
are what SSH owes (a lost connection is an error event in `ssh2`).  Strong fairness is
used where other handlers can disable the step for a while, as a drain loop does
through `Idle`.  Users and browsers are never obliged to do anything: a client that
neither sends its body nor disconnects holds an upload slot for ever.  So does a job
whose close handler throws (`CloseThrows`: `getSftpConnection` of a deleted connection,
`fs.statSync` of a missing file).  As a Node process of its own the server ends with
such an exception; inside the desktop application it goes on.  `UploadsSettle` says so
in its premise: unless some upload is stalled for ever, in one of these two ways, each
upload that is queued or runs is settled.

`FFairness`: an operation on a forward that has begun goes on (a probe, an SSH
connect and the 900 ms wait all end, by time-outs of the code), a settled promise
resumes its waiter, and the monitor's interval fires.  `AFairness`: time passes, the
scheduler's timer fires, a run goes on.  `SFairness` of `SyncRun`: a run goes on and
another follows it; a transfer that is tried again and again succeeds once.
`PFairness`: a dial and a closing socket end, a command or a reading ends;
`RequestsEnd` of `SftpSessions` has been checked under it and is no part of a
listed run.

## 4. Proofs

Checked by TLAPS for every value of the constants, under the named assumptions
of the modules (finite sets of jobs and kinds, a positive limit; a positive
number of jobs and records; files of at least one block).

`TransferScheduler_proofs`.  None of the invariants is inductive alone: that a
queue holds exactly the pending jobs needs that it holds each once, which needs
that only jobs that are not queued are pushed, and so on.  `SInv` is the
conjunction of the type invariant, the agreement of slots and queues with the
statuses (`QueueAgrees` has the absence of duplicates), the agreement of waiters, and the
fact that whenever a job waits and there is room a drain is running or due.
`SchedulerInvariant` proves `SSafety => []SInv`, by one lemma per operation; the
lemmas about `Without` (removal from a queue without repetition) are stated once.
From it follow `TypeCorrect`, `SlotAccounting`, `QueueAccounting`,
`WaitersAreSettled`, `NothingStranded`, and `SchedulerRefinesAdmission`: initial
states map to initial states and each step maps to a step of `FifoAdmission`
or to a stutter.  `StoppedJobsStayStopped` says of every engine that is shown to
implement the scheduler what only a resume may do to a stopped job.  The module
also has the lemmas about files of blocks (`SourceProperties`,
`WrittenProperties`), which uploads and copies share.

`UploadJobs_proofs` (any number of jobs, blocks, slots and resumes).  Nearly every
fact is about one job, so `UInv` is the scheduler's `SInv`, the types, and for each
job a predicate `JobInv` of six values: what its target was, its status, whether
it is marked as queued, its job object, its command and its remote files.  One
lemma per handler shows that the new values keep the predicate; `JobChanges`
lifts it to the step.  `Control` is the part about every upload: a running one
receives or awaits exactly the command of its phase (`Pairs`); a run whose late error
is still to come is older than the run that counts or, after a local read error, which
raises no generation, as old, and then its job does not run (`GhostsAreOld`): `LateError`
counts only against a job that is queued for a resume, whose runner is not one that
waits for a browser (`ResumesArePlain`), and is then `FailQueued` of the scheduler; a
clean-up is only sent for jobs nobody can resume
(`RemovalIsFinal`); who writes to the staging file has one.  `Content` is about
uploads resumed at most once: late writes of the first run go to their own
place, so the file stays a beginning of the source; the appending `cat` of the second run
is exact or the file has become too long for good (`Ahead`); hence a file of the
right length is the source whenever a commit script may look at it (`SizeTells`).
With a second resume, a late *appended* block can land under a third run and the
length says nothing any more: `UploadResumes.cfg` shows it, and the hypothesis
`resumes <= 1` of `WholeOrUntouched` is where the argument needs it.  `UploadInvariant`
proves `USafety => []UInv`.  From it: `UploadsImplementScheduler` (each step is a scheduler
step or a stutter, so all that is proved of the scheduler holds of uploads),
`SlotsAreUsed`, `StagedFilesAreKept`, `TargetsAreWhole`, `StoppedUploadsStayStopped`
and `UploadTypeCorrect`; the last needs that the resumes of one job are among those
that `Resumed` counts.

The proof found the model wrong in one place: a commit script whose answer was lost
may move the staging file while the `cat` of a resumed run still has it open.  That
`cat` keeps writing to the inode, that is to the target, and a second lost commit
does not cancel the first.  `Writer` now carries `at`, and `LateMoveRuns` and
`ChildFails` treat both; every property of the runs holds as before.

`JobHistory_proofs`.  `HInv` adds to the types of the memory and of the history that
a record in the history under a job in memory has that job's status
(`RecordIsCurrent`), that memory is empty until the history is loaded
(`MemoryIsLoaded`: else loading could bring an old record under a newer job), and
that jobs beyond `next` are absent (`FutureIsBlank`).  `HistoryInvariant`,
`RecordsAreCurrent` and `FinishedIsFinal` follow; the last has no hypothesis and shows that
nothing but the resume of a record of an earlier process (section 5), no crash, overflow, maintenance or
re-read of the history brings a finished job back.  `OnlyOldestIsDropped` is
`OverflowTakesOldest`: storing drops a record only below `MAX_HISTORY` newer ones.

`BookInv` (`BooksAreKept`) adds that jobs in memory are recorded unless they are
beyond the limit, and that a record which only the history knows is not active.
From it: `HistoryTypeCorrect`; `WorkIsNotForgotten`, when all jobs fit into the history
(`NoOverflow`); `ArtifactsAreNamed`, when only desktop downloads can overflow;
`DoneIsFetchable`, when all fit.  `UsefulIsKept` has no hypothesis: it says that the four
ways named beside `ArtifactKept`, in which the code does take an artifact that is of
use, are all there are.  For three of them a configuration of section 5 shows the loss.
`NoOverflow` is needed: without it the record of a job that still runs is dropped, and
with it the file (`HistoryOverflow.cfg`).  That `NoOrphan` needs its hypothesis came out of the
proof attempt: let an upload be older than `MaxHistory` records of newer browser
downloads; its record is pushed out while it runs and its staged file is taken, the
transfer opens the file again, and a crash then leaves a file that no record names.
In `HistoryLimit` only a desktop download is old enough to overflow, and its file is
moved out of the cache.  In the program it takes 120 transfers begun during one.

`CrossCopy_proofs` (any number of jobs, files, blocks and resumes).  A copy has no
events to discard: each run is an async function that shares its job object with
the runs after it, and pause and cancel only flag the job.  The proofs therefore
assume that a job is resumed only after its paused run has ended (`~QuickResume`).
Without that, two runs write at a time, and `CopyOverlap.cfg` shows it.  `XInv` is `SInv`, the
types, that all runs but the current one rest (`OthersRest`), and `JobInv`, a predicate
of one job's values as for uploads.  Its part `Control` says which statuses go with
which awaits (`Pairs`) and that whoever writes has a file.  `Content` is about jobs
resumed at most once: a file the run has passed is the source, the one it writes is a
beginning of the source or too long for good, the rest are beginnings which late
writes leave beginnings (`Progress`); and when a commit script may run, the staging
directory has everything or nothing (`Committable`), so that neither a commit that is
repeated nor one whose answer was lost can leave part of a tree.  `CopyInvariant` proves
it inductive, by one lemma per await.  From it: `CopiesImplementScheduler`,
`RunningCopiesHaveRun`, `CopyTargetsAreWhole` and `CopyTypesCorrect`, each for jobs resumed
in that way only: of early resumes nothing is proved.

`DownloadJobs_proofs` (any number of jobs, slots and resumes, any size).  `DInv`
relates a job's object and temporary file to each of its closures: those of earlier
resumes rest or wait for an answer that changes nothing, those that ask for a size may
find the job cancelled or deleted, and only the current one reads, from where the
file ends (`RunOK`); what the job believes of the size is true, and the temporary file
is a beginning of the source, complete when the job is done (`JobOK`).  `DownloadInvariant`
proves it for sources that do not change (`MaxChanges = 0`).  From it:
`DownloadsImplementScheduler`, `DoneDownloadsAreWhole` (with one writer and every block in
its place) and `DownloadTypesCorrect`.  The hypothesis is
where the code needs it: after the second size query the status is not looked at
again, and a source whose size changed then lets a cancelled job run on
(`DownloadCancelled`, section 5).  That step is none of the scheduler's.
`OnlyAnotherSizeRevives` is about it and has no hypothesis: whatever the sources do, a
cancelled download is set running again by that answer and by nothing else.

`Connections_proofs`, secrets.  That every secret can be read is not inductive: while a
route rewrites secrets, some have the old key and some the new one, and a crash
leaves that state to the next unlock.  `KInv` says for each `step` which keys the
settings, the memory and the secrets may have (`Steps`, `Whole`), that a restoration's
copies fit together (`Restoring`) and that each snapshot fits the key it was taken
under (`SnapFits`).  From it follow `SecretsStayReadable` and `ReadyMeansReadable`,
for any number of secrets, keys and snapshots and whichever writes throw.  Four
accidents are recorded in `mixed` and set apart by both.  One was found by letting
every write fail: `prepareEncryptionUpgrade` sets the active key before the write that
makes it known (`src/crypto-store.ts:213`).  When that write throws, the key is `Stray`, in
memory and in no settings; a secret saved before the next unlock is lost with it.
`KeysFit` says when a key may be stray; the other accidents are restorations that
were disturbed, cut off or rolled back by half.

`Background_proofs`, sync.  `SInv` adds to `UnchangedIsSame` what a listing and a hash that is
still current say of the contents: a file unchanged since it was listed has
the listed content (`ListingHolds`), and between the hashes and the storing of the
baseline a file that is still as listed is the same on both sides
(`StandingIsSame`).  `BaselineIsTrue` holds when deletions are propagated; without
them it is false (section 5).  `NothingIsLost` needs another invariant, `KInv`, that speaks
only of histories in which nobody edits during a run: a written content is on a
side, in a conflict copy, or given up by the user (`WrittenIsKept`); a side that has
the baseline's stamp may be overwritten, because its content is elsewhere too
(`BaselineIsKept`); and what the run has decided still fits the two sides when it
acts (`PlanIsTrue`).  It holds with and without propagated deletions, and for any
number of edits between runs.

`Background_proofs`, automations.  `HistoryTellsRunning`: the open row, the set in
memory and the run agree.  `RepeatStaysScheduled`: an enabled repeating automation has a
next time.  The invariants are `RInv` and `TInv`.  `HistoryIsComplete`: what is stored
is what happened since the last clear, compacted and cut to the limit
(`HistoryAddsUp`).  The code compacts what is stored each time a row is added, the
property compacts all that happened at once, so the proof is that compaction can
go on where it stopped: one row more is joined to the last of the compacted rows or
put after it (`Counted`), whatever came before, and the cut to the limit, which takes
old rows, does not touch the last one.

That compaction, and the lists of ranges below, are folds of the community modules.  No
induction theorem of the library can be used here, so the module begins with
induction stated for a set of numbers, which the order of the naturals gives; it
shows that the recursion behind a fold has a solution, and what one element more does
to it (`FoldExists` and the lemmas after it).  Only facts about folds that can be said
of a set of indices are proved in this way.

`Background_proofs`, range cache (any size of file, any number of streams, retries,
restarts and removals).  `CInv` says of every stream that the segments ahead of it follow
one another up to the end of what was asked (`Walking`), and, until something takes
the data away, that what it takes for cached is in the data file (`Covered`) and what
it has delivered is the beginning of what was asked, each block the source's
(`Delivering`); that the metadata speaks of blocks that survive a loss of power
(`Durable`); and that the ranges are ascending and apart (in `Stored`).  Most of a stream's
actions change its own record only, so there is one lemma for those
(`StreamMoves`), and one for each action that writes, records or flushes.  The lemmas
about the operators say what the merge of `addRange` covers, that it keeps ranges apart, and that
`segmentsForRange` cuts the span asked for into pieces that are cached as they
claim.  From it: `MetadataStaysSynced`, `RangesAreOnDisk`, `RangesStayApart` and
`StreamsDeliverTheSource`.  The last assumes that no write of metadata has failed: a
chunk whose flush fails is counted and never delivered (`CacheMetadata.cfg`).

The attempt to prove `DeliversUntilUndercut` as it was first stated found it false beyond
the bounds of its run.  Of two streams that are open at a time, the flush of one
persists ranges that hold blocks of the other which are not synced; power fails;
after the restart a third stream takes those blocks for cached.  The property now
leaves out a restart after streams that were open at a time (`Kept`).

`Connections_proofs`, sessions.  `OneClientStaysOpen`: an SSH client that is open belongs to
the record the map leads to, for any number of requests and reconnections.  The
strengthening is its type part and that the map never leads to a record that has
not been made.  `NoChannelIsLost`: a channel that is open on the server is idle in the pool or
in the hands of the request that opened it.  Its invariant `LInv` says that an open
channel is leased, given or idle (`OpenIsInHand`), that each held channel has exactly
one request (`Owned`), that idle channels belong to a usable session
(`PoolIsUsable`), and that the pool keeps its bound.

`Forwards_proofs` (any number of forwards, requests, tunnels and exits).  The three
invariants lean on each other, so `FInv` has all of them in one, per forward:
operations run one at a time and only on a forward that is down (`Serial`), a forward
is carried by the built-in client or by a child and never by both (`Carried`), the operation under
way uses the configuration of the row (`Shown`), what runs is on the restore list
(`Listed`), a tunnel that is up is in the map, the row or the hands of the operation
(`Known`), and who waits for a start that failed finds no child in the row (`NoPid`).
The map of built-in tunnels is empty once the process is down (`Down`).  From it:
`NoTunnelIsForgotten`, `RowsShowTheirTunnels`, `RunningOnesAreRestored`, and
`ForwardsTypeCorrect`.  Deleted forwards and children that outlive the end of the
process (`lost`) are left out, as in the property.

Every inductive invariant above was checked by TLC on the instances of its runs
before it was proved.

Only model-checked:

* liveness, and the fairness part of the refinements: out of the prover's reach, as
  is `ENABLED`;
* what holds of downloads whose source changes, `OnlyAnotherSizeRevives` apart: the
  invariants above are those of a constant source.

Every safety property of a passing run is stated by a theorem.  Where the theorem has
a hypothesis that the property does not state itself, the paragraph above says which
behaviour is left out and what shows that it must be.

## 5. Where the program does not do what it says

Two runs end in a counterexample; `PROJECT.json` quotes the promise each breaks.

* `DownloadCancelled`: the status is not looked at after the second size query.
* `SyncDiverges`: without propagated deletions the baseline takes the stamps of a
  second listing without comparing contents; an edit in between is never seen.

Further configurations are kept beside the regular runs.  Each is violated unless
the table says otherwise; the claims they check are stated in the modules.

| Configuration | Module | Outcome |
|---|---|---|
| `UploadResumes.cfg` | `MCUploadJobs` | `DoneIsIntact`: resume trusts the length of the staged file while a write of the killed `cat` may still arrive; after two resumes the commit, which compares lengths, accepts a file with a block out of place (`docs/update.md:1671`) |
| `UploadCancel.cfg` | `MCUploadJobs` | `CancelCleansStaging`: cancelling a queued, resumed upload leaves its remote staging file |
| `CopyOverlap.cfg` | `MCCrossCopy` | `ResumedRunWritesAlone`: a copy can be resumed while its paused run is between two awaits; runs have no generation and both write |
| `CopyPausedCommit.cfg` | `MCCrossCopy` | `PausedNeverCommits`: a pause during the restore of directory modes does not stop the commit |
| `CopyLiveness.cfg` | `MCCrossCopy` | passes: two files of two blocks, `CopiesSettle` |
| `DownloadResume.cfg` | `MCDownloadJobs` | `ResumeRechecksSource`: a resume appends to what an older source left |
| `HistoryIdle.cfg` | `MCJobHistory` | `KeptByTimer`: maintenance before the first read of the history deletes every checkpoint file |
| `HistoryCleared.cfg` | `MCJobHistory` | `KeptByClearing`: clearing the cache after a restart deletes checkpoints of records |
| `HistoryOverflow.cfg` | `MCJobHistory` | `KeptByOverflow`: a record pushed out of the history takes the file of a job that still runs |
| `HistoryResumed.cfg` | `MCJobHistory` | `FinishedForGood`: a resume request for a cancelled or finished record starts it again |
| `ForwardClaims.cfg` | `MCForwards` | `StopIsFinal`: the monitor restarts a forward from a row it read before the user stopped it (`README.md:98`); `EditsKnowPrevious`: of two edits in the queue the second rolls back to what was there before the first (`docs/update.md:1305`); `NoTunnelWithoutRow`: a start queued behind a deletion; `ShutdownStopsAll`: a child younger than 900 ms outlives the shutdown |
| `CacheCleared.cfg` | `MCRangeCache` | `DeliversSource`: clearing removes the files, the ranges in memory stay, and blocks of the new, empty file pass for cached (`docs/update.md:1645`) |
| `CacheMetadata.cfg` | `MCRangeCache` | `DeliversUntilUndercut`: when the metadata cannot be written, the chunk just stored is counted and not delivered |
| `AutomationClaims.cfg` | `Automations` | `BaselineIsOfItsRules`: a save that keeps the rules stamps them on a baseline that was taken under earlier ones (`scripts/sftp-automation-check.js:141`); `EditStays`: a finished one-shot run disables an automation edited meanwhile; `StoppedTriesNothing`: a paused automation retries |
| `AutomationLeaks.cfg` | `Automations` | `RunsGoOn`, when storing a new run may fail, before or after its row is inserted: the automation stays marked as running |
| `SecretClaims.cfg` | `SecretKeys` | `SecretsReadable`: a secret saved under a stray key, settings changed while a restore awaits the stop of the forwards, an exit while it copies, or a roll back that stops half way, leave a secret nobody can read (`docs/update.md:2232`) |

In the same modules, without a configuration of their own: `WritersSurviveClear`
of `RangeCache` (a comment at `src/sftp-session.ts:962` promises it) fails with two
streams, because the end of either one turns the lease of both into a grace;
`ResetsOnlyDisconnected` of `SftpSessions` (comment at `src/sftp-session.ts:1005`)
fails, because a session that is being connected again is reset as well;
`Converges` and `ConflictCopiedOnce` of `SyncRun` fail without propagated deletions,
`NothingLost` with them, by an edit between a check and the write it allows.  A
snapshot taken before a bundle with another key is restored cannot be restored
afterwards.

The passing runs state their limits accordingly: `TargetWholeOrOriginal` and
`WholeOrUntouched` speak of jobs resumed at most once, `CopySlots` lets a copy be
resumed only after its paused run has ended (`QuickResume`), `DownloadSlots` has a
constant source.  `ArtifactKept`, `DoneCanBeFetched` and `FinishedStaysFinished` name the
steps of the code they except.  `DeliversUntilUndercut` ends when the data file is removed or
emptied under the process, or restarts after two streams were open at a time,
`MetadataIsSynced` speaks of one stream at a time (the
flush of one stream persists ranges another has not synced), `TunnelsKnown` leaves
out deleted forwards and children the end of the process overtook,
`SecretsReadableUnlessMixed` and `ReadyReads` the four accidents above, `UploadsSettle` uploads
stalled for ever, and `NothingLostBetweenRuns` edits during a run.

## 6. Assumptions and abstractions

* Bytes are blocks, progress, speed, messages and notifications are left out.
* A killed stream leaves at most the writes already sent; a local write that is in
  flight when a download is paused lands before the next resume.
* The commit script of a copy whose channel is lost has run by the time the loss is
  reported, or never does; that of an upload may also run later.  For copies this is
  an assumption about the target host that nothing in the code enforces.
* `AwaitStart` is used on fresh jobs only: the one caller waits for the upload it
  has just created.
* In `JobHistory` the clock is abstracted, any set of entitled files may have
  expired; clients fetch finished downloads; the remote clean-up of a copy takes
  effect; a restart may happen at any point between two handlers.
* `Forwards` has one connection; one `startConnectionForwards` runs at a time; PIDs
  are not used again, and `stopPid` takes effect at once.
* `SftpSessions` has one connection, and an edit of it always changes the fingerprint;
  readings and other openings of a channel share the retry rules of `openSftpChannel`
  and `spawnSftpSessionCommand`, listings those of `readSftpDirectory`.
* `RangeCache`: the source does not change (its key has size and time); a file is
  written whole chunks at a time; a removal reaches the disk.
* A single statement of SQLite is atomic; failing ones are modelled where a handler has
  more than one write to undo (`Throws` and `Halt` of `Forwards`, `CreateFails` of
  `Automations`, all of `SecretKeys`), elsewhere a statement succeeds, as does writing the
  job history.
* An automation has a shape: `repeat` always finds a next time, `once` while that time
  is ahead, `countdown` on every save, and `never` stands for manual triggers, empty
  plans and dates that no year has.
* `Automations` has one automation (the set `running` and the rows are by id) and a
  constant history limit; the clock is "later" or "due".  A run deleted under way
  fails to save its baseline and is tried again, as any failure.
* `SyncRun` has one file; hashes do not collide; every edit changes the size or the
  time of a file by more than the code's tolerance of two seconds.
* `SecretKeys`: a key is a password with a salt, entered right whenever it is asked for;
  a wrong password changes nothing.

## 7. Not modelled, and the plan

Left out for good: parsing, formatting, remote scripts other than the ones above,
the user interface, and the native modules in `native/`.  These make up most of the
repository's lines; the models follow the state that outlives one request.

In order:

1. archive downloads and local delivery (extend `DownloadJobs`), the tickets and
   jobs of native drag;
2. host trust, terminal sessions, offline tasks; the login throttle as a numeric
   model;
3. a split of `FinishDone` in `JobHistory` to let a crash fall between the move
   of a desktop download and its record.
