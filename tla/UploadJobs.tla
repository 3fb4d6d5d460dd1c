----------------------------- MODULE UploadJobs -----------------------------
(***************************************************************************)
(* SFTP uploads (src/src/sftp-upload-jobs.ts and the upload branches of    *)
(* pause, resume, cancel and delete in src/src/sftp-jobs.ts) on top of the *)
(* transfer scheduler.                                                     *)
(*                                                                         *)
(* A browser upload is first received into a local staged file; then, like *)
(* an upload of a local file, `cat` writes it to a hidden remote file and  *)
(* a shell script checks its size and moves it over the target.  Each of   *)
(* these remote commands is a `child`; its close and error events carry    *)
(* the generation of the run that spawned it.                              *)
(*                                                                         *)
(* kill() closes the SSH channel and reports "close" at once                *)
(* (src/src/sftp-session.ts:1324), but the remote `cat` is not signalled:   *)
(* what was already in flight is still written, later, by an orphan.       *)
(***************************************************************************)
EXTENDS TransferScheduler, RemoteFiles

CONSTANTS
  Browser,     \* uploads whose content the browser sends; Terma owns their local file
  Overwrite,   \* uploads whose conflict_mode is "overwrite"
  Blocks,      \* the content of a file is the blocks 1..Blocks
  MaxResumes   \* bound on resumes, of all jobs together

ASSUME UploadAssumption ==
  /\ Browser \subseteq Jobs
  /\ Overwrite \subseteq Jobs
  /\ Jobs \ Browser \subseteq Overwrite     \* startUploadJob always overwrites
  /\ Blocks \in Nat \ {0}
  /\ MaxResumes \in Nat
  /\ FailInQueue = Jobs                     \* see ReadFails and LateError

VARIABLES
  job,      \* the other fields of the job object
  child,    \* job.child: the remote command whose events are still awaited
  remote    \* what is on the remote host

uvars == <<svars, job, child, remote>>

Whole == Source(Blocks)
Original(j) == IF j \in Overwrite THEN <<0>> ELSE NoFile   \* the target before the upload

NoChild == [kind |-> "none", lo |-> 0, app |-> FALSE, at |-> "temp"]
Command(kind) == [NoChild EXCEPT !.kind = kind]
(* The close handler of the last command has thrown: no event is to come.   *)
Thrown == Command("thrown")
(* `cat > temp` or `cat >> temp`; block lo is the next one to reach the     *)
(* file, which a late mv may have made the target meanwhile.                *)
Writer(lo, app) == [kind |-> "write", lo |-> lo, app |-> app, at |-> "temp"]

(* The remote files of r when the next block of w, which has one open, lands. *)
Landed(r, w) ==
  [r EXCEPT !.temp = IF w.at = "temp" THEN Written(@, w) ELSE @,
            !.target = IF w.at = "target" THEN Written(@, w) ELSE @]

UInit ==
  /\ SInit
  /\ job = [j \in Jobs |-> [task |-> "new", phase |-> "", gen |-> 0, staged |-> FALSE,
                            local |-> FALSE, recv |-> "none", resumes |-> 0]]
  /\ child = [j \in Jobs |-> NoChild]
  /\ remote = [j \in Jobs |-> [temp |-> NoFile, target |-> Original(j), orphans |-> {},
                               ghosts |-> {}, rm |-> FALSE, lateMove |-> FALSE]]

-----------------------------------------------------------------------------
(* Creating a job: startUploadJob and startUploadReceiveJob. *)

StartUploadJob(j) ==
  /\ Idle /\ job[j].task = "new" /\ j \notin Browser
  /\ QueueTransferJob(j, "resolving")
  /\ job' = [job EXCEPT ![j].task = "start", ![j].phase = "queued",
                        ![j].staged = TRUE, ![j].local = TRUE]
  /\ UNCHANGED <<child, remote>>

StartUploadReceiveJob(j) ==
  /\ Idle /\ job[j].task = "new" /\ j \in Browser
  /\ QueueTransferJob(j, "resolving")
  /\ job' = [job EXCEPT ![j].task = "receive", ![j].phase = "queued"]
  /\ UNCHANGED <<child, remote>>

-----------------------------------------------------------------------------
(* The transfer: startUploadTransfer, its events and the commit. *)

StartUploadTransfer(j, offset, g) ==
  /\ job' = [job EXCEPT ![j].phase = "uploading", ![j].gen = g, ![j].staged = TRUE,
                        ![j].local = TRUE, ![j].recv = "none"]
  /\ child' = [child EXCEPT ![j] = Writer(offset + 1, offset > 0)]
  /\ remote' = [remote EXCEPT ![j].temp = IF offset > 0 THEN @ ELSE <<>>]

(* The drain loop starts the runner of the job at the head of the queue. *)
RunStart(k) ==
  LET j == Head(queue[k]) IN
  /\ AdmitHead(k)
  /\ job[j].task = "start"
  /\ StartUploadTransfer(j, 0, job[j].gen + 1)

RunReceive(k) ==
  LET j == Head(queue[k]) IN
  /\ AdmitHead(k)
  /\ job[j].task = "receive"
  /\ job' = [job EXCEPT ![j].phase = "receiving",
                        ![j].recv = IF @ = "waiting" THEN "open" ELSE @]
  /\ UNCHANGED <<child, remote>>

RunResume(k) ==
  LET j == Head(queue[k]) IN
  /\ AdmitHead(k)
  /\ job[j].task = "resume"
  /\ job' = [job EXCEPT ![j].phase = "resuming", ![j].gen = @ + 1]
  /\ child' = [child EXCEPT ![j] = Command("size")]
  /\ UNCHANGED remote

(* getSftpConnection throws inside the runner: the connection was deleted. *)
RunThrows(k) ==
  /\ FailHead(k)
  /\ job[Head(queue[k])].task \in {"start", "resume"}
  /\ UNCHANGED <<job, child, remote>>

(* The handler of a close event throws before it has done anything: the     *)
(* connection was deleted (getSftpConnection), or the local file is gone    *)
(* (statSync).  Nothing catches it; the job stays as it is.                 *)
CloseThrows(j) ==
  /\ Idle
  /\ child[j].kind = "size" \/ (child[j].kind = "write" /\ child[j].lo > Blocks)
  /\ child' = [child EXCEPT ![j] = Thrown]
  /\ UNCHANGED <<svars, job, remote>>

(* The answer of `wc -c` on the staging file decides where to go on. *)
SizeCloses(j) ==
  LET file == remote[j].temp
      offset == IF file = NoFile THEN 0 ELSE Len(file)
  IN
  /\ Idle /\ child[j].kind = "size"
  /\ \/ /\ offset <= Blocks
        /\ StartUploadTransfer(j, offset, job[j].gen)
        /\ UNCHANGED svars
     \/ /\ offset > Blocks
        /\ Release(j, "failed")
        /\ child' = [child EXCEPT ![j] = NoChild]
        /\ UNCHANGED <<job, remote>>

(* The remote cat writes one more block. *)
CatWrites(j) ==
  /\ Idle /\ child[j].kind = "write" /\ child[j].lo <= Blocks
  /\ child' = [child EXCEPT ![j].lo = @ + 1]
  /\ remote' = [remote EXCEPT ![j] = Landed(@, child[j])]
  /\ UNCHANGED <<svars, job>>

(* cat ends with code 0: commitUploadTransfer spawns the commit script. *)
WriteCloses(j) ==
  /\ Idle /\ child[j].kind = "write" /\ child[j].lo > Blocks
  /\ child' = [child EXCEPT ![j] = Command("commit")]
  /\ job' = [job EXCEPT ![j].phase = "committing"]
  /\ UNCHANGED <<svars, remote>>

(* Mutant: the script does not compare the size. *)
CommitUnsized(j) ==
  /\ remote[j].temp # NoFile
  /\ j \in Overwrite \/ remote[j].target = NoFile

(* The checks of uploadRemoteCommitCommand before its mv. *)
CommitAllowed(j) ==
  /\ remote[j].temp # NoFile
  /\ Len(remote[j].temp) = Blocks
  /\ j \in Overwrite \/ remote[j].target = NoFile

(* mv keeps the inode: a cat that still has it open now writes to the target. *)
Moved(r) ==
  [r EXCEPT !.target = r.temp, !.temp = NoFile, !.lateMove = FALSE,
            !.orphans = {[o EXCEPT !.at = "target"] : o \in {p \in r.orphans : p.at = "temp"}}]

CommitRuns(j) ==
  /\ Idle /\ child[j].kind = "commit"
  /\ child' = [child EXCEPT ![j].kind = IF CommitAllowed(j) THEN "moved" ELSE "refused"]
  /\ remote' = [remote EXCEPT ![j] = IF CommitAllowed(j) THEN Moved(@) ELSE @]
  /\ UNCHANGED <<svars, job>>

(* Mutant: a refused commit is only logged. *)
RefusalLogged(j) ==
  /\ Idle /\ child[j].kind \in {"moved", "refused"}
  /\ IF child[j].kind = "moved" THEN Release(j, "done") ELSE UNCHANGED svars
  /\ child' = [child EXCEPT ![j] = NoChild]
  /\ UNCHANGED <<job, remote>>

(* finishUploadTransfer after the commit: an owned local file goes with "done". *)
CommitCloses(j) ==
  /\ Idle /\ child[j].kind \in {"moved", "refused"}
  /\ Release(j, IF child[j].kind = "moved" THEN "done" ELSE "failed")
  /\ job' = [job EXCEPT ![j].local = @ /\ ~(child[j].kind = "moved" /\ j \in Browser)]
  /\ child' = [child EXCEPT ![j] = NoChild]
  /\ UNCHANGED remote

(* What a killed or lost cat may still write. *)
OrphansLeft(j) ==
  LET c == child[j] IN
  {remote[j].orphans} \cup
  (IF c.kind # "write" THEN {}
   ELSE {remote[j].orphans \cup {[gen |-> job[j].gen, lo |-> c.lo, hi |-> h, app |-> c.app, at |-> c.at]}
           : h \in c.lo..Blocks})

(* The channel of the awaited command is lost: "error", then "close".  The  *)
(* commit script may have run, or may still run after the answer is lost.   *)
ChildFails(j) ==
  /\ Idle /\ child[j].kind \notin {"none", "thrown"}
  /\ Release(j, "failed")
  /\ child' = [child EXCEPT ![j] = NoChild]
  /\ \E left \in OrphansLeft(j) :
       remote' = [remote EXCEPT ![j].orphans = left,
                                ![j].lateMove = @ \/ child[j].kind = "commit"]
  /\ UNCHANGED job

(* The local file cannot be read on: its handler kills cat and fails the    *)
(* job, but does not raise the generation, so the error of a channel that   *)
(* was still being opened will find the generation it was spawned with.     *)
ReadFails(j) ==
  /\ Idle /\ child[j].kind = "write" /\ child[j].lo <= Blocks
  /\ Release(j, "failed")
  /\ child' = [child EXCEPT ![j] = NoChild]
  /\ \E left \in OrphansLeft(j) :
       remote' = [remote EXCEPT ![j].orphans = left, ![j].ghosts = @ \cup {job[j].gen}]
  /\ UNCHANGED job

OrphanWrites(j) ==
  /\ Idle
  /\ \E o \in remote[j].orphans :
       LET rest == IF o.lo < o.hi THEN {[o EXCEPT !.lo = @ + 1]} ELSE {}
           kept == (remote[j].orphans \ {o}) \cup rest
       IN  remote' = [remote EXCEPT ![j] = [Landed(@, o) EXCEPT !.orphans = kept]]
  /\ UNCHANGED <<svars, job, child>>

LateMoveRuns(j) ==
  /\ Idle /\ remote[j].lateMove
  /\ remote' = [remote EXCEPT ![j] = IF CommitAllowed(j) THEN Moved(@)
                                     ELSE [@ EXCEPT !.lateMove = FALSE]]
  /\ child' = [child EXCEPT ![j].at =
                 IF child[j].kind = "write" /\ CommitAllowed(j) THEN "target" ELSE @]
  /\ UNCHANGED <<svars, job>>

(* Mutants: the handler compares no generations; nor does it look at the status. *)
ErrorCountsAnyRun(j, g) == status[j] \in {"pending", "running"}
ErrorCountsAlways(j, g) == TRUE

(* A child killed while its channel was still being opened reports "error"  *)
(* afterwards; its handler compares generations, then finishUploadTransfer  *)
(* ignores jobs that are stopped or finished.  After ReadFails and a resume *)
(* the job is queued with the same generation, and fails there.             *)
ErrorCounts(j, g) == job[j].gen = g /\ status[j] \in {"pending", "running"}

LateError(j) ==
  /\ Idle
  /\ \E g \in remote[j].ghosts :
       /\ remote' = [remote EXCEPT ![j].ghosts = @ \ {g}]
       /\ IF ErrorCounts(j, g) THEN Release(j, "failed") ELSE UNCHANGED svars
  /\ UNCHANGED <<job, child>>

-----------------------------------------------------------------------------
(* Receiving the content of a browser upload: receiveUploadJobContent. *)

PostContentEarly(j) ==
  /\ job[j].task = "receive" /\ job[j].recv = "none"
  /\ AwaitStart(j)
  /\ job' = [job EXCEPT ![j].recv = "waiting"]
  /\ UNCHANGED <<child, remote>>

PostContent(j) ==
  /\ Idle
  /\ status[j] = "running" /\ job[j].phase = "receiving" /\ job[j].recv = "none"
  /\ job' = [job EXCEPT ![j].recv = "open"]
  /\ UNCHANGED <<svars, child, remote>>

(* Aborted, short, too long or unwritable: finishUploadReceiveFailure. *)
ReceiveFails(j) ==
  /\ Idle
  /\ status[j] = "running" /\ job[j].phase = "receiving"
  /\ Release(j, "failed")
  /\ job' = [job EXCEPT ![j].recv = "none", ![j].local = FALSE]
  /\ UNCHANGED <<child, remote>>

(* The request of a cancelled upload ends: only the local file is removed. *)
ReceiveStops(j) ==
  /\ Idle
  /\ status[j] \in {"cancelled", "absent"} /\ job[j].recv = "open"
  /\ job' = [job EXCEPT ![j].recv = "none", ![j].local = FALSE]
  /\ UNCHANGED <<svars, child, remote>>

ReceiveCompletes(j) ==
  /\ Idle
  /\ job[j].recv = "open" /\ status[j] = "running"
  /\ StartUploadTransfer(j, 0, job[j].gen + 1)
  /\ UNCHANGED svars

-----------------------------------------------------------------------------
(* The user: pauseSftpJob, resumeSftpJob, cancelSftpJob, deleteSftpJob. *)

(* Mutant: pausing cleans up the local file as cancelling does. *)
PauseDiscards(j) ==
  /\ Idle /\ status[j] = "running" /\ job[j].phase = "uploading"
  /\ Release(j, "paused")
  /\ job' = [job EXCEPT ![j].gen = @ + 1, ![j].local = j \notin Browser]
  /\ child' = [child EXCEPT ![j] = NoChild]
  /\ \E left \in OrphansLeft(j) :
       remote' = [remote EXCEPT ![j].orphans = left, ![j].ghosts = @ \cup {job[j].gen}]

(* can_pause is true exactly while cat runs. *)
PauseTransfer(j) ==
  /\ Idle /\ status[j] = "running" /\ job[j].phase = "uploading"
  /\ Release(j, "paused")
  /\ job' = [job EXCEPT ![j].gen = @ + 1]
  /\ child' = [child EXCEPT ![j] = NoChild]
  /\ \E left \in OrphansLeft(j) :
       remote' = [remote EXCEPT ![j].orphans = left, ![j].ghosts = @ \cup {job[j].gen}]

PauseQueued(j) ==
  /\ Idle /\ status[j] = "pending"
  /\ Withdraw(j, "paused")
  /\ job' = [job EXCEPT ![j].recv = "none"]
  /\ UNCHANGED <<child, remote>>

Resumed == Cardinality(UNION {{i} \X (1..job[i].resumes) : i \in Jobs})

ResumeUploadJob(j) ==
  /\ Idle /\ status[j] \in {"paused", "failed"}
  /\ job[j].staged /\ job[j].local
  /\ Resumed < MaxResumes
  /\ QueueTransferJob(j, "plain")
  /\ job' = [job EXCEPT ![j].task = "resume", ![j].phase = "queued", ![j].resumes = @ + 1]
  /\ UNCHANGED <<child, remote>>

(* job.transfer_queued: only the local file is cleaned up. *)
CancelQueued(j) ==
  /\ Idle /\ status[j] = "pending"
  /\ Withdraw(j, "cancelled")
  /\ job' = [job EXCEPT ![j].recv = "none", ![j].local = @ /\ j \notin Browser]
  /\ UNCHANGED <<child, remote>>

(* Refused while the commit script runs. *)
CancelTransfer(j) ==
  /\ Idle /\ status[j] \in {"running", "paused"} /\ job[j].phase # "committing"
  /\ Release(j, "cancelled")
  /\ job' = [job EXCEPT ![j].gen = @ + 1, ![j].local = @ /\ j \notin Browser]
  /\ child' = [child EXCEPT ![j] = NoChild]
  /\ \E left \in OrphansLeft(j) :
       remote' = [remote EXCEPT
         ![j].orphans = left,
         ![j].ghosts = IF child[j] # NoChild THEN @ \cup {job[j].gen} ELSE @,
         ![j].rm = job[j].phase # "receiving"]

DeleteUploadJob(j) ==
  /\ DeleteJob(j)
  /\ job' = [job EXCEPT ![j].task = "deleted", ![j].local = @ /\ j \notin Browser]
  /\ remote' = [remote EXCEPT ![j].rm = TRUE]
  /\ UNCHANGED child

(* The remote `rm -f` of cleanupRemoteUploadArtifact. *)
RemoveStaging(j) ==
  /\ Idle /\ remote[j].rm
  /\ remote' = [remote EXCEPT ![j].rm = FALSE, ![j].temp = NoFile,
                              ![j].orphans = {o \in @ : o.at # "temp"}]
  /\ UNCHANGED <<svars, job, child>>

-----------------------------------------------------------------------------
UStart(j) == StartUploadJob(j) \/ StartUploadReceiveJob(j)
UReceive(j) ==
  PostContentEarly(j) \/ PostContent(j) \/ ReceiveFails(j) \/ ReceiveStops(j) \/ ReceiveCompletes(j)
UTransfer(j) ==
  \/ SizeCloses(j) \/ CatWrites(j) \/ WriteCloses(j) \/ CommitRuns(j) \/ CommitCloses(j)
  \/ ChildFails(j) \/ ReadFails(j) \/ CloseThrows(j)
URemote(j) == OrphanWrites(j) \/ LateMoveRuns(j) \/ LateError(j) \/ RemoveStaging(j)
UUser(j) ==
  \/ PauseTransfer(j) \/ PauseQueued(j) \/ ResumeUploadJob(j)
  \/ CancelQueued(j) \/ CancelTransfer(j) \/ DeleteUploadJob(j)
UDrain(k) ==
  \/ RunStart(k) \/ RunReceive(k) \/ RunResume(k) \/ RunThrows(k)
  \/ (SkipHead(k) \/ DrainDone(k) \/ ReleaseCallback(k)) /\ UNCHANGED <<job, child, remote>>
USettings ==
  \E l \in [Kinds -> Limits] : ChangeSettings(l) /\ UNCHANGED <<job, child, remote>>

UNext ==
  \/ \E j \in Jobs : UStart(j) \/ UReceive(j) \/ UTransfer(j) \/ URemote(j) \/ UUser(j)
  \/ \E k \in Kinds : UDrain(k)
  \/ USettings

USafety == UInit /\ [][UNext]_uvars

(* SSH commands close or fail.  Nothing is asked of the user or the browser. *)
UFairness ==
  /\ \A k \in Kinds : SF_uvars(UDrain(k))
  /\ \A j \in Jobs : SF_uvars(UTransfer(j))

USpec == USafety /\ UFairness

-----------------------------------------------------------------------------
(* Properties. *)

UTypeOK ==
  /\ STypeOK
  /\ job \in [Jobs -> [task : {"new", "start", "receive", "resume", "deleted"},
                       phase : {"", "queued", "receiving", "resuming", "uploading", "committing"},
                       gen : Nat, staged : BOOLEAN, local : BOOLEAN,
                       recv : {"none", "waiting", "open"}, resumes : 0..MaxResumes]]
  /\ \A j \in Jobs :
       /\ child[j].kind \in {"none", "size", "write", "commit", "moved", "refused", "thrown"}
       /\ remote[j].temp = NoFile \/ \A b \in DOMAIN remote[j].temp : remote[j].temp[b] \in 0..Blocks

(* Nothing of an upload is on the wire outside its slot, and a slot is      *)
(* spent on nothing only after a close handler has thrown: each running     *)
(* upload is receiving from the browser, waiting for exactly one remote     *)
(* command, or left over from such an exception.                            *)
SlotHasOneTransfer ==
  \A j \in Jobs : slot[j] <=> (child[j] # NoChild \/ (status[j] = "running" /\ job[j].phase = "receiving"))

(* The target is untouched or complete, whatever is paused, lost or late,   *)
(* as long as the upload was resumed at most once; "done" means complete.   *)
WholeOrUntouched ==
  \A j \in Jobs : job[j].resumes <= 1 =>
    /\ remote[j].target \in {Original(j), Whole}
    /\ status[j] = "done" => remote[j].target = Whole

(* An upload that can still go on has its staged content on disk: no        *)
(* delayed cleanup of an earlier phase removes it.                          *)
StagedFileKept ==
  \A j \in Jobs : status[j] \in {"pending", "running", "paused"} /\ job[j].staged => job[j].local

(* A stopped upload stays stopped until the user acts: late events of a     *)
(* killed run turn no cancelled, finished or paused upload into another     *)
(* state.                                                                   *)
StoppedStaysStopped ==
  [][\A j \in Jobs :
       /\ status[j] = "cancelled" => status'[j] \in {"cancelled", "absent"}
       /\ status[j] = "done" => status'[j] \in {"done", "absent"}
       /\ status[j] = "paused" => status'[j] \in {"paused", "pending", "cancelled", "absent"}]_uvars

(* Every upload step is a step the scheduler allows its job engine. *)
ImplementsScheduler == SSafety

(* What no timeout of the program ends: a browser that neither sends its    *)
(* file nor drops the connection, and a run whose close handler has thrown. *)
Stalled(j) == status[j] = "running" /\ (job[j].phase = "receiving" \/ child[j] = Thrown)

(* Unless some upload stays stalled for ever, with the slot it holds, every *)
(* upload that was queued or runs is settled in the end.                    *)
UploadsSettle ==
  (\A i \in Jobs : []<>~Stalled(i)) =>
    \A j \in Jobs : status[j] \in {"pending", "running"} ~> status[j] \in Settled \cup {"absent"}

(* Size checks alone make "done" mean that the target holds the content.    *)
DoneIsIntact == \A j \in Jobs : status[j] = "done" => remote[j].target = Whole

(* Cancelling an upload removes its remote temporary file, or has started to. *)
CancelCleansStaging ==
  \A j \in Jobs : status[j] = "cancelled" /\ remote[j].temp # NoFile => remote[j].rm
=============================================================================
