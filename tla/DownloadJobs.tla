---------------------------- MODULE DownloadJobs ----------------------------
(***************************************************************************)
(* SFTP downloads of one file (src/src/sftp-download-jobs.ts, with pause,  *)
(* resume and cancel in src/src/sftp-jobs.ts) on top of the transfer       *)
(* scheduler.                                                              *)
(*                                                                         *)
(* runDownloadJob starts an async closure and returns.  The closure asks   *)
(* for the remote size, reads the file with `cat` or, behind what a        *)
(* temporary file already holds, with `tail`, asks for the size again, and *)
(* finishes: a browser download is done, a desktop download is moved to    *)
(* the user's directory first.  run[j][r].pc is where closure r waits.     *)
(* The source file may change at any time; content is a sequence of        *)
(* <<version, block>> pairs.                                               *)
(***************************************************************************)
EXTENDS TransferScheduler

CONSTANTS
  Desktop,      \* downloads whose delivery_mode is "desktop"
  Sizes,        \* sizes a version of the source may have, in blocks
  MaxChanges,   \* bound on changes of the source
  MaxResumes    \* bound on resumes, of all jobs together

ASSUME DownloadAssumption ==
  /\ Desktop \subseteq Jobs
  /\ Sizes \subseteq Nat /\ Sizes # {}
  /\ MaxChanges \in Nat /\ MaxResumes \in Nat
  /\ FailInQueue = {}    \* a job fails in the turn of its own closure; no queue holds a failed job

VARIABLES
  load,     \* the other fields of the job object
  run,      \* the closures of a job; closure r was queued by resume r - 1
  temp,     \* the temporary file
  source    \* the remote file

dvars == <<svars, load, run, temp, source>>

Runs == 1..(MaxResumes + 1)
Unknown == -1
NoRun == [pc |-> "none", lo |-> 0, real |-> 0, ok |-> FALSE]

DInit ==
  /\ SInit
  /\ load = [j \in Jobs |-> [phase |-> "", canPause |-> FALSE, size |-> Unknown, initial |-> Unknown,
                             changed |-> FALSE, owner |-> 0, saved |-> FALSE, resumes |-> 0]]
  /\ run = [j \in Jobs |-> [r \in Runs |-> NoRun]]
  /\ temp = [j \in Jobs |-> <<>>]
  /\ \E n \in Sizes : source = [j \in Jobs |-> [ver |-> 0, len |-> n]]

Goes(j, r, pc) == run' = [run EXCEPT ![j][r].pc = pc]
Stopped(j) == status[j] \in {"paused", "cancelled", "absent"}

-----------------------------------------------------------------------------
(* The end of a transfer. *)

(* autoSaveAndFinishDownload *)
StartsSaving(j, r, l) ==
  /\ Goes(j, r, "saving")
  /\ load' = [load EXCEPT ![j] = [l EXCEPT !.phase = "system-saving", !.canPause = FALSE]]
  /\ UNCHANGED svars

(* finalizeDownloadTransfer *)
Finalizes(j, r, l, s) ==
  /\ Goes(j, r, "ended")
  /\ load' = [load EXCEPT ![j] = [l EXCEPT !.phase = "", !.canPause = FALSE]]
  /\ Release(j, s)

(* Mutant: a late answer finishes a stopped job. *)
FinishAlways(j, r, l, s) ==
  IF s = "done" /\ j \in Desktop THEN StartsSaving(j, r, l) ELSE Finalizes(j, r, l, s)

(* The closure's `finish`: nothing if the job was stopped or deleted. *)
Finish(j, r, l, s) ==
  CASE Stopped(j) -> Goes(j, r, "ended") /\ load' = [load EXCEPT ![j] = l] /\ UNCHANGED svars
    [] ~Stopped(j) /\ s = "done" /\ j \in Desktop -> StartsSaving(j, r, l)
    [] OTHER -> Finalizes(j, r, l, s)

-----------------------------------------------------------------------------
(* The closure of runDownloadJob. *)

(* Spawn `cat` to a new temporary file, or `tail` to append to it.          *)
Spawn(j, r, l, offset) ==
  /\ run' = [run EXCEPT ![j][r] = [NoRun EXCEPT !.pc = "pipe", !.lo = offset + 1]]
  /\ temp' = [temp EXCEPT ![j] = IF offset > 0 THEN @ ELSE <<>>]
  /\ load' = [load EXCEPT ![j] = [l EXCEPT !.phase = "downloading", !.canPause = TRUE, !.owner = r]]

(* From the known size to the read, or to a second look at the source. *)
Prepare(j, r, l) ==
  LET offset == IF Len(temp[j]) > l.size THEN 0 ELSE Len(temp[j]) IN
  IF offset = l.size
  THEN /\ run' = [run EXCEPT ![j][r] = [NoRun EXCEPT !.pc = "size2", !.lo = offset]]
       /\ load' = [load EXCEPT ![j] = l]
       /\ UNCHANGED temp
  ELSE Spawn(j, r, l, offset)

RunDownloadJob(k) ==
  LET j == Head(queue[k])
      r == load[j].resumes + 1
      l == [load[j] EXCEPT !.phase = "preparing"]
  IN
  /\ AdmitHead(k)
  /\ IF r > 1 /\ l.size # Unknown
     THEN Prepare(j, r, l)
     ELSE Goes(j, r, "size1") /\ load' = [load EXCEPT ![j] = l] /\ UNCHANGED temp
  /\ UNCHANGED source

(* getSftpConnection throws: the connection was deleted. *)
RunThrows(k) == FailHead(k) /\ UNCHANGED <<load, run, temp, source>>

(* The first answer of getRemoteSize. *)
SizeArrives(j, r) ==
  LET n == source[j].len
      l == [load[j] EXCEPT !.size = n, !.initial = IF r = 1 \/ @ = Unknown THEN n ELSE @]
  IN
  /\ Idle /\ run[j][r].pc = "size1"
  /\ IF Stopped(j)
     THEN Goes(j, r, "ended") /\ load' = [load EXCEPT ![j] = l] /\ UNCHANGED temp
     ELSE Prepare(j, r, l)
  /\ UNCHANGED <<svars, source>>

(* The second one: the temporary file was as long as the source. *)
SameSize(j, r) ==
  /\ Idle /\ run[j][r].pc = "size2" /\ source[j].len = load[j].size
  /\ Finish(j, r, load[j], "done")
  /\ UNCHANGED <<temp, source>>

(* Mutant: a stopped job ends here, but so does a running one. *)
OtherSizeEnds(j, r) ==
  /\ Idle /\ run[j][r].pc = "size2" /\ source[j].len # load[j].size
  /\ Goes(j, r, "ended")
  /\ load' = [load EXCEPT ![j].size = source[j].len, ![j].changed = TRUE]
  /\ UNCHANGED <<svars, temp, source>>

(* The offset is the one from before the query; the status is set, not      *)
(* looked at, and no slot is taken.  A deleted job is out of sight.  If the *)
(* file was removed meanwhile there is nothing to truncate, and catch ends  *)
(* the closure.                                                             *)
OtherSize(j, r) ==
  LET n == source[j].len
      offset == run[j][r].lo
      l == [load[j] EXCEPT !.size = n, !.changed = TRUE]
  IN
  /\ Idle /\ run[j][r].pc = "size2" /\ n # load[j].size
  /\ \/ /\ offset <= n \/ Len(temp[j]) >= offset
        /\ Spawn(j, r, l, IF offset > n THEN 0 ELSE offset)
        /\ status' = [status EXCEPT ![j] = IF @ = "absent" THEN @ ELSE "running"]
        /\ UNCHANGED <<queue, active, slot, queued, runner, waiting, due, turn, limit>>
     \/ /\ offset > n /\ Len(temp[j]) < offset
        /\ Goes(j, r, "ended")
        /\ load' = [load EXCEPT ![j] = l]
        /\ UNCHANGED <<svars, temp>>
  /\ UNCHANGED source

(* catch: a size query was rejected. *)
SizeFails(j, r) ==
  /\ Idle /\ run[j][r].pc \in {"size1", "size2"}
  /\ Goes(j, r, "ended")
  /\ IF Stopped(j) THEN UNCHANGED svars ELSE Release(j, "failed")
  /\ UNCHANGED <<load, temp, source>>

(* The source is read as it is now. *)
PipeReads(j, r) ==
  /\ Idle /\ run[j][r].pc = "pipe" /\ run[j][r].lo <= source[j].len
  /\ run' = [run EXCEPT ![j][r].lo = @ + 1]
  /\ temp' = [temp EXCEPT ![j] = Append(@, <<source[j].ver, run[j][r].lo>>)]
  /\ UNCHANGED <<svars, load, source>>

(* "close" and the end of stdout: with code 0 at the end of the file, with  *)
(* another code anywhere.  The size on disk is taken now; then a third      *)
(* query starts.                                                            *)
PipeEnds(j, r) ==
  /\ Idle /\ run[j][r].pc = "pipe"
  /\ \E ok \in {FALSE, run[j][r].lo > source[j].len} :
       run' = [run EXCEPT ![j][r].pc = "size3", ![j][r].ok = ok, ![j][r].real = Len(temp[j])]
  /\ UNCHANGED <<svars, load, temp, source>>

(* "error": the channel is lost. *)
PipeFails(j, r) ==
  /\ Idle /\ run[j][r].pc = "pipe"
  /\ Finish(j, r, load[j], "failed")
  /\ UNCHANGED <<temp, source>>

(* Mutant: a failed read passes for a short file. *)
VerdictTrusting(l, w, changed) == "done"
Verdict(l, w, changed) ==
  IF (changed /\ w.ok) \/ (w.real = l.size /\ (w.ok \/ l.size > 0)) THEN "done" ELSE "failed"

(* completeAfterStreams: a read with code 0 is done, with a warning if the  *)
(* source has changed; any other must have the expected size, and not 0.    *)
FinalSize(j, r) ==
  LET w == run[j][r]
      l == load[j]
  IN
  /\ Idle /\ w.pc = "size3"
  /\ \E n \in {source[j].len, l.initial} :    \* the answer; if unknown it is not compared
       LET changed == w.real # l.initial \/ n # l.initial
           after == [l EXCEPT !.changed = @ \/ changed,
                              !.size = IF changed /\ w.ok THEN w.real ELSE @]
       IN  Finish(j, r, after, Verdict(l, w, changed))
  /\ UNCHANGED <<temp, source>>

(* The third answer reaches a closure that was paused meanwhile: it still   *)
(* writes to the job.                                                       *)
StaleFinalSize(j, r) ==
  LET w == run[j][r]
      l == load[j]
  IN
  /\ Idle /\ w.pc = "stale"
  /\ Goes(j, r, "ended")
  /\ \E n \in {source[j].len, l.initial} :
       LET changed == w.real # l.initial \/ n # l.initial
       IN  load' = [load EXCEPT ![j].changed = @ \/ changed,
                                ![j].size = IF changed /\ w.ok THEN w.real ELSE @]
  /\ UNCHANGED <<svars, temp, source>>

(* autoSaveDownloadedFile; its failure to deliver leaves the download done. *)
SaveEnds(j, r) ==
  /\ Idle /\ run[j][r].pc = "saving"
  /\ IF load[j].phase = "cancelling" \/ status[j] = "cancelled"
     THEN /\ Finalizes(j, r, load[j], "cancelled")
          /\ temp' = [temp EXCEPT ![j] = <<>>]
     ELSE /\ \E delivered \in BOOLEAN : Finalizes(j, r, [load[j] EXCEPT !.saved = delivered], "done")
          /\ UNCHANGED temp
  /\ UNCHANGED source

-----------------------------------------------------------------------------
(* The user, and the owner of the source. *)

StartDownloadJob(j) ==
  /\ Idle /\ status[j] = "absent" /\ load[j].phase = ""
  /\ QueueTransferJob(j, "plain")
  /\ load' = [load EXCEPT ![j].phase = "queued"]
  /\ UNCHANGED <<run, temp, source>>

(* What pauseNow, or child.kill and out.destroy, do to the owning closure. *)
StopsOwner(j) ==
  LET o == load[j].owner IN
  run' = [run EXCEPT ![j] = [r \in Runs |->
            IF r # o THEN @[r]
            ELSE IF @[r].pc = "pipe" THEN [@[r] EXCEPT !.pc = "ended"]
            ELSE IF @[r].pc = "size3" THEN [@[r] EXCEPT !.pc = "stale"] ELSE @[r]]]

PauseDownload(j) ==
  /\ Idle /\ status[j] = "running" /\ load[j].canPause
  /\ Release(j, "paused")
  /\ StopsOwner(j)
  /\ load' = [load EXCEPT ![j].canPause = FALSE]
  /\ UNCHANGED <<temp, source>>

PauseQueued(j) ==
  /\ Idle /\ status[j] = "pending"
  /\ Withdraw(j, "paused")
  /\ UNCHANGED <<load, run, temp, source>>

Resumed == Cardinality(UNION {{i} \X (1..load[i].resumes) : i \in Jobs})

ResumeDownloadJob(j) ==
  /\ Idle /\ status[j] \in {"paused", "failed"}
  /\ Resumed < MaxResumes
  /\ QueueTransferJob(j, "plain")
  /\ load' = [load EXCEPT ![j].phase = "queued", ![j].canPause = FALSE, ![j].resumes = @ + 1]
  /\ UNCHANGED <<run, temp, source>>

CancelQueued(j) ==
  /\ Idle /\ status[j] = "pending"
  /\ Withdraw(j, "cancelled")
  /\ temp' = [temp EXCEPT ![j] = <<>>]
  /\ UNCHANGED <<load, run, source>>

(* job.download_finalizing: the running save is asked to stop. *)
CancelSaving(j) ==
  /\ Idle /\ status[j] = "running" /\ load[j].phase = "system-saving"
  /\ load' = [load EXCEPT ![j].phase = "cancelling"]
  /\ UNCHANGED <<svars, run, temp, source>>

CancelDownload(j) ==
  /\ Idle /\ status[j] \in {"running", "paused"}
  /\ load[j].phase \notin {"system-saving", "cancelling"}
  /\ Release(j, "cancelled")
  /\ StopsOwner(j)
  /\ load' = [load EXCEPT ![j].canPause = FALSE]
  /\ temp' = [temp EXCEPT ![j] = <<>>]
  /\ UNCHANGED source

DeleteDownload(j) ==
  /\ DeleteJob(j)
  /\ load' = [load EXCEPT ![j].phase = "deleted"]
  /\ temp' = [temp EXCEPT ![j] = <<>>]
  /\ UNCHANGED <<run, source>>

SourceChanges(j) ==
  /\ Idle /\ source[j].ver < MaxChanges
  /\ \E n \in Sizes : source' = [source EXCEPT ![j] = [ver |-> @.ver + 1, len |-> n]]
  /\ UNCHANGED <<svars, load, run, temp>>

-----------------------------------------------------------------------------
DRunStep(j) ==
  \E r \in Runs :
    \/ SizeArrives(j, r) \/ SameSize(j, r) \/ OtherSize(j, r) \/ SizeFails(j, r)
    \/ PipeReads(j, r) \/ PipeEnds(j, r) \/ PipeFails(j, r)
    \/ FinalSize(j, r) \/ StaleFinalSize(j, r) \/ SaveEnds(j, r)
DUser(j) ==
  \/ StartDownloadJob(j) \/ PauseDownload(j) \/ PauseQueued(j) \/ ResumeDownloadJob(j)
  \/ CancelQueued(j) \/ CancelSaving(j) \/ CancelDownload(j) \/ DeleteDownload(j)
DDrain(k) ==
  \/ RunDownloadJob(k) \/ RunThrows(k)
  \/ (SkipHead(k) \/ DrainDone(k) \/ ReleaseCallback(k)) /\ UNCHANGED <<load, run, temp, source>>

DNext ==
  \/ \E j \in Jobs : DRunStep(j) \/ DUser(j) \/ SourceChanges(j)
  \/ \E k \in Kinds : DDrain(k)
  \/ \E l \in [Kinds -> Limits] : ChangeSettings(l) /\ UNCHANGED <<load, run, temp, source>>

DSafety == DInit /\ [][DNext]_dvars

(* Size queries have a timeout, reads end or fail, saves end. *)
DFairness ==
  /\ \A k \in Kinds : SF_dvars(DDrain(k))
  /\ \A j \in Jobs : SF_dvars(DRunStep(j))

DSpec == DSafety /\ DFairness

-----------------------------------------------------------------------------
(* Properties. *)

DTypeOK ==
  /\ STypeOK
  /\ \A j \in Jobs :
       /\ load[j].phase \in {"", "queued", "preparing", "downloading", "system-saving", "cancelling", "deleted"}
       /\ load[j].owner \in 0..(MaxResumes + 1)
       /\ \A r \in Runs : run[j][r].pc \in {"none", "size1", "size2", "pipe", "size3", "stale", "saving", "ended"}
       /\ \A p \in DOMAIN temp[j] : temp[j][p][1] \in 0..MaxChanges

(* The blocks of a temporary file are in their places, whatever was paused, *)
(* truncated or resumed, no two closures ever write to it, and as long as   *)
(* the source does not change "done" means the whole file.                  *)
DoneIsWhole ==
  \A j \in Jobs :
    /\ \A p \in DOMAIN temp[j] : temp[j][p][2] = p
    /\ Cardinality({r \in Runs : run[j][r].pc = "pipe"}) <= 1
    /\ status[j] = "done" /\ source[j].ver = 0 => Len(temp[j]) = source[j].len

(* As long as the source does not change, every step of a download is one   *)
(* the scheduler allows its job engine.                                     *)
ImplementsScheduler == SSafety

(* Every download that was queued or runs is settled in the end. *)
DownloadsSettle ==
  \A j \in Jobs : status[j] \in {"pending", "running"} ~> status[j] \in Settled \cup {"absent"}

(* A cancelled download is over. *)
CancelledStaysCancelled ==
  [][\A j \in Jobs : status[j] = "cancelled" => status'[j] \in {"cancelled", "absent"}]_dvars

(* The source is looked at again before a resumed download goes on: when a  *)
(* read starts behind what is already there, the source has the size the    *)
(* job goes by.                                                             *)
ResumeRechecksSource ==
  [][\A j \in Jobs, r \in Runs :
       run[j][r].pc # "pipe" /\ run'[j][r].pc = "pipe" /\ run'[j][r].lo > 1
         => source[j].len = load'[j].size]_dvars
=============================================================================
