----------------------------- MODULE CrossCopy -----------------------------
(***************************************************************************)
(* Copies of remote entries from one SFTP host to another                  *)
(* (src/src/sftp-checkpoint-transfers.ts) on top of the transfer scheduler: *)
(* a directory with files 1..Files is copied file by file into a staging   *)
(* directory on the target host, which a shell script then moves in place. *)
(*                                                                         *)
(* runCrossCopyJob is an async function.  Each `await` ends a step, and    *)
(* other handlers run before it goes on; `run[j][r].pc` is where run r of  *)
(* job j waits.  Unlike uploads, runs carry no generation: they all read   *)
(* and write the same job object, whose status, stream, child and pauseNow *)
(* may meanwhile belong to a later run.                                    *)
(***************************************************************************)
EXTENDS TransferScheduler, RemoteFiles

CONSTANTS
  Files,        \* regular files of the copied directory
  Blocks,       \* blocks of each file
  Overwrite,    \* copies whose conflict_mode is "overwrite"; their target exists
  MaxResumes,   \* bound on resumes, of all jobs together
  QuickResume   \* may a job be resumed before its paused run has ended?

ASSUME CopyAssumption ==
  /\ Files \in Nat \ {0} /\ Blocks \in Nat \ {0} /\ MaxResumes \in Nat
  /\ Overwrite \subseteq Jobs
  /\ QuickResume \in BOOLEAN
  /\ FailInQueue = IF QuickResume THEN Jobs ELSE {}    \* only a paused run that goes on fails a queued job

VARIABLES
  copy,   \* the other fields of the job object
  run,    \* the runs of a job; run r was queued by resume r - 1
  site    \* the target host

xvars == <<svars, copy, run, site>>

Runs == 1..(MaxResumes + 1)
NoRun == [pc |-> "none", i |-> 0, lo |-> 0, app |-> FALSE, at |-> "stage"]
Live(j) == {r \in Runs : run[j][r].pc \notin {"none", "ended"}}

Original(j) == [f \in 1..Files |-> IF j \in Overwrite THEN <<0>> ELSE NoFile]
Whole == [f \in 1..Files |-> Source(Blocks)]
Nothing == [f \in 1..Files |-> NoFile]

XInit ==
  /\ SInit
  /\ copy = [j \in Jobs |-> [phase |-> "", known |-> FALSE, canPause |-> FALSE, resumable |-> TRUE,
                             pipe |-> 0, child |-> 0, resumes |-> 0]]
  /\ run = [j \in Jobs |-> [r \in Runs |-> NoRun]]
  /\ site = [j \in Jobs |-> [stage |-> Nothing, target |-> Original(j), late |-> {}, rm |-> FALSE]]

-----------------------------------------------------------------------------
(* Pieces of runCrossCopyJob. *)

(* `finally`: the handles on the job object are dropped, whoever owns them. *)
Ends(j, r) == run' = [run EXCEPT ![j][r].pc = "ended"]

Stopped(j) == status[j] \in {"paused", "cancelled", "absent"}

(* Mutants: the handler does not look at the status; it reports nothing. *)
CatchAlways(j, r, final) ==
  /\ Ends(j, r)
  /\ Release(j, "failed")
  /\ copy' = [copy EXCEPT ![j].pipe = 0, ![j].canPause = FALSE]
CatchSilently(j, r, final) ==
  /\ Ends(j, r)
  /\ copy' = [copy EXCEPT ![j].pipe = 0]
  /\ UNCHANGED svars

(* `catch`; final errors are a changed source and a damaged checkpoint. *)
Catch(j, r, final) ==
  /\ Ends(j, r)
  /\ IF Stopped(j)
     THEN /\ copy' = [copy EXCEPT ![j].pipe = 0]
          /\ UNCHANGED svars
     ELSE /\ Release(j, "failed")
          /\ copy' = [copy EXCEPT ![j].pipe = 0, ![j].phase = "", ![j].canPause = FALSE,
                                  ![j].resumable = @ /\ ~final]

(* The head of the loop over the manifest; after the last entry the modes   *)
(* and times of the directories are restored.                               *)
Loop(j, r, i, c) ==
  /\ UNCHANGED svars
  /\ IF status[j] # "running"
     THEN Ends(j, r) /\ copy' = [c EXCEPT ![j].pipe = 0]
     ELSE /\ run' = [run EXCEPT ![j][r] = [NoRun EXCEPT !.pc = IF i > Files THEN "dirs" ELSE "look",
                                                        !.i = i]]
          /\ copy' = c

(* The drain loop starts a run, which goes on to its first await. *)
RunCrossCopyJob(k) ==
  LET j == Head(queue[k]) IN
  /\ AdmitHead(k)
  /\ copy' = [copy EXCEPT ![j].phase = IF copy[j].known THEN "transferring" ELSE "scanning",
                          ![j].canPause = FALSE]
  /\ run' = [run EXCEPT ![j][copy[j].resumes + 1].pc = IF copy[j].known THEN "open" ELSE "scan"]
  /\ UNCHANGED site

(* prepareCrossCopyJob: the manifest is on the job before the staging       *)
(* directory exists.                                                        *)
ScanEnds(j, r) ==
  /\ Idle /\ run[j][r].pc = "scan"
  /\ run' = [run EXCEPT ![j][r].pc = "mkdir"]
  /\ copy' = [copy EXCEPT ![j].known = TRUE]
  /\ UNCHANGED <<svars, site>>

Prepared(j, r) ==
  /\ Idle /\ run[j][r].pc = "mkdir"
  /\ IF status[j] # "running"
     THEN Ends(j, r) /\ copy' = [copy EXCEPT ![j].pipe = 0]
     ELSE run' = [run EXCEPT ![j][r].pc = "open"] /\ UNCHANGED copy
  /\ UNCHANGED <<svars, site>>

(* Both channels are open.  No look at the status before can_pause is set. *)
ChannelsOpen(j, r) ==
  /\ Idle /\ run[j][r].pc = "open"
  /\ Loop(j, r, 1, [copy EXCEPT ![j].phase = "transferring", ![j].canPause = TRUE])
  /\ UNCHANGED site

-----------------------------------------------------------------------------
(* transferFile. *)

Follows(w) == IF w.at = "stage" THEN [w EXCEPT !.at = "target"] ELSE w
Forgets(w) == IF w.at = "stage" THEN [w EXCEPT !.at = "gone"] ELSE w
Writing(w) == w.pc = "pipe"

(* Mutant: a staged file that exists is taken for complete. *)
LookSkipsExisting(j, r) ==
  LET i == run[j][r].i IN
  /\ Idle /\ run[j][r].pc = "look"
  /\ \/ /\ site[j].stage[i] # NoFile
        /\ Loop(j, r, i + 1, copy)
        /\ UNCHANGED site
     \/ /\ site[j].stage[i] = NoFile
        /\ run' = [run EXCEPT ![j][r] = [pc |-> "pipe", i |-> i, lo |-> 1, app |-> FALSE, at |-> "stage"]]
        /\ copy' = [copy EXCEPT ![j].pipe = r]
        /\ site' = [site EXCEPT ![j].stage[i] = <<>>]
        /\ UNCHANGED svars

(* The source entry is as in the manifest, and lstat of the staged file has *)
(* answered: skip the file, or open both streams at its size.  The status   *)
(* is not looked at.                                                        *)
Look(j, r) ==
  LET i == run[j][r].i
      file == site[j].stage[i]
      size == IF file = NoFile THEN 0 ELSE Len(file)
      offset == IF size > Blocks THEN 0 ELSE size
  IN
  /\ Idle /\ run[j][r].pc = "look"
  /\ \/ /\ offset = Blocks
        /\ Loop(j, r, i + 1, copy)
        /\ UNCHANGED site
     \/ /\ offset < Blocks
        /\ run' = [run EXCEPT ![j] = [p \in Runs |->
                      IF p = r THEN [pc |-> "pipe", i |-> i, lo |-> offset + 1,
                                     app |-> offset > 0, at |-> "stage"]
                      ELSE IF size > Blocks /\ Writing(@[p]) /\ @[p].i = i THEN Forgets(@[p]) ELSE @[p]]]
        /\ copy' = [copy EXCEPT ![j].pipe = r]
        /\ site' = [site EXCEPT
             ![j].stage[i] = IF offset > 0 THEN @ ELSE <<>>,
             ![j].late = {IF size > Blocks /\ w.i = i THEN Forgets(w) ELSE w : w \in @}]
        /\ UNCHANGED svars

(* A block arrives where the writer's handle points to. *)
Lands(s, w) ==
  CASE w.at = "stage"  -> [s EXCEPT !.stage[w.i] = Written(@, w)]
    [] w.at = "target" -> [s EXCEPT !.target[w.i] = Written(@, w)]
    [] OTHER           -> s

PipeWrites(j, r) ==
  /\ Idle /\ run[j][r].pc = "pipe" /\ run[j][r].lo <= Blocks
  /\ run' = [run EXCEPT ![j][r].lo = @ + 1]
  /\ site' = [site EXCEPT ![j] = Lands(@, run[j][r])]
  /\ UNCHANGED <<svars, copy>>

PipeEnds(j, r) ==
  /\ Idle /\ run[j][r].pc = "pipe" /\ run[j][r].lo > Blocks
  /\ IF Stopped(j)
     THEN Loop(j, r, run[j][r].i + 1, [copy EXCEPT ![j].pipe = 0])
     ELSE /\ run' = [run EXCEPT ![j][r].pc = "check"]
          /\ copy' = [copy EXCEPT ![j].pipe = 0]
          /\ UNCHANGED svars
  /\ UNCHANGED site

(* The write that is on its way when the streams of run r are destroyed. *)
InFlight(j, r) ==
  LET w == run[j][r] IN
  IF r # 0 /\ w.pc = "pipe" /\ w.lo <= Blocks
  THEN {[i |-> w.i, lo |-> w.lo, app |-> w.app, at |-> w.at]} ELSE {}

(* The rejection of a pipeline whose streams failed or were destroyed. *)
PipeFails(j, r) ==
  /\ Idle /\ run[j][r].pc \in {"pipe", "broken"}
  /\ Catch(j, r, FALSE)
  /\ \E lost \in SUBSET InFlight(j, r) : site' = [site EXCEPT ![j].late = @ \cup lost]

Arrived(s, w) == [s EXCEPT !.late = @ \ {w}]

LateWrite(j) ==
  /\ Idle
  /\ \E w \in site[j].late : site' = [site EXCEPT ![j] = Lands(Arrived(@, w), w)]
  /\ UNCHANGED <<svars, copy, run>>

CheckSize(j, r) ==
  LET file == site[j].stage[run[j][r].i] IN
  /\ Idle /\ run[j][r].pc = "check"
  /\ IF file # NoFile /\ Len(file) = Blocks
     THEN Loop(j, r, run[j][r].i + 1, copy)
     ELSE Catch(j, r, TRUE)
  /\ UNCHANGED site

(* Any other await of the run may reject; validateSourceEntry may find that *)
(* the source has changed.                                                  *)
AwaitRejects(j, r) ==
  /\ Idle /\ run[j][r].pc \in {"scan", "mkdir", "open", "look", "check", "dirs"}
  /\ Catch(j, r, FALSE) \/ (run[j][r].pc = "look" /\ Catch(j, r, TRUE))
  /\ UNCHANGED site

-----------------------------------------------------------------------------
(* The commit. *)

(* The last directory has its mode and times.  The status is not looked at. *)
DirsDone(j, r) ==
  /\ Idle /\ run[j][r].pc = "dirs"
  /\ run' = [run EXCEPT ![j][r].pc = "commit"]
  /\ copy' = [copy EXCEPT ![j].phase = "committing", ![j].canPause = FALSE, ![j].child = r]
  /\ UNCHANGED <<svars, site>>

(* The script of commitCommand: everything is placed, or all rolled back. *)
CommitAllowed(j) ==
  /\ site[j].stage # Nothing
  /\ j \in Overwrite \/ site[j].target = Nothing

Moved(s) == [s EXCEPT !.target = s.stage, !.stage = Nothing, !.late = {Follows(w) : w \in @}]

(* Open handles follow their files. *)
CommitRuns(j, r) ==
  /\ Idle /\ run[j][r].pc = "commit"
  /\ IF CommitAllowed(j)
     THEN /\ site' = [site EXCEPT ![j] = Moved(@)]
          /\ run' = [run EXCEPT ![j] = [p \in Runs |->
                       IF p = r THEN [@[p] EXCEPT !.pc = "moved"]
                       ELSE IF Writing(@[p]) THEN Follows(@[p]) ELSE @[p]]]
     ELSE /\ run' = [run EXCEPT ![j][r].pc = "refused"]
          /\ UNCHANGED site
  /\ UNCHANGED <<svars, copy>>

CommitReturns(j, r) ==
  /\ Idle
  /\ \/ /\ run[j][r].pc = "moved"
        /\ Ends(j, r)
        /\ copy' = [copy EXCEPT ![j].child = 0, ![j].pipe = 0,
                                ![j].phase = IF status[j] = "running" THEN "" ELSE @,
                                ![j].canPause = @ /\ status[j] # "running"]
        /\ IF status[j] = "running" THEN Release(j, "done") ELSE UNCHANGED svars
     \/ run[j][r].pc = "refused" /\ Catch(j, r, FALSE)
  /\ UNCHANGED site

(* The channel of the script is lost or was closed, after the script has    *)
(* run or before it could.                                                  *)
CommitLost(j, r) ==
  /\ Idle /\ run[j][r].pc \in {"commit", "moved", "refused", "killed"}
  /\ Catch(j, r, FALSE)
  /\ UNCHANGED site

-----------------------------------------------------------------------------
(* The user. *)

StartCrossCopyJob(j) ==
  /\ Idle /\ status[j] = "absent" /\ copy[j].phase = ""
  /\ QueueTransferJob(j, "plain")
  /\ copy' = [copy EXCEPT ![j].phase = "queued"]
  /\ UNCHANGED <<run, site>>

(* pauseNow() or stream.destroy(), and child.kill(): what they reach is     *)
(* whatever the job object holds.                                           *)
Interrupt(j, killsChild) ==
  LET p == copy[j].pipe
      c == copy[j].child
      cut == killsChild /\ c # 0 /\ run[j][c].pc \in {"commit", "moved", "refused"}
  IN
  /\ run' = [run EXCEPT ![j] = [r \in Runs |->
               IF r = p /\ @[r].pc = "pipe" THEN [@[r] EXCEPT !.pc = "broken"]
               ELSE IF cut /\ r = c THEN [@[r] EXCEPT !.pc = "killed"] ELSE @[r]]]
  /\ \E lost \in SUBSET InFlight(j, p) : site' = [site EXCEPT ![j].late = @ \cup lost]

PauseCopy(j) ==
  /\ Idle /\ status[j] = "running" /\ copy[j].canPause
  /\ Release(j, "paused")
  /\ Interrupt(j, copy[j].pipe = 0)
  /\ copy' = [copy EXCEPT ![j].canPause = FALSE]

PauseQueued(j) ==
  /\ Idle /\ status[j] = "pending"
  /\ Withdraw(j, "paused")
  /\ UNCHANGED <<copy, run, site>>

Resumed == Cardinality(UNION {{i} \X (1..copy[i].resumes) : i \in Jobs})

ResumeCrossCopyJob(j) ==
  /\ Idle /\ status[j] \in {"paused", "failed"} /\ copy[j].resumable
  /\ Resumed < MaxResumes
  /\ QuickResume \/ Live(j) = {}
  /\ QueueTransferJob(j, "plain")
  /\ copy' = [copy EXCEPT ![j].phase = "queued", ![j].canPause = FALSE, ![j].resumes = @ + 1]
  /\ UNCHANGED <<run, site>>

CancelQueued(j) ==
  /\ Idle /\ status[j] = "pending"
  /\ Withdraw(j, "cancelled")
  /\ site' = [site EXCEPT ![j].rm = copy[j].known]
  /\ UNCHANGED <<copy, run>>

CancelCopy(j) ==
  /\ Idle /\ status[j] \in {"running", "paused"}
  /\ Release(j, "cancelled")
  /\ Interrupt(j, TRUE)
  /\ copy' = [copy EXCEPT ![j].canPause = FALSE]

DeleteCopy(j) ==
  /\ DeleteJob(j)
  /\ site' = [site EXCEPT ![j].rm = copy[j].known]
  /\ copy' = [copy EXCEPT ![j].phase = "deleted"]
  /\ UNCHANGED run

(* The remote `rm -rf` of cleanupCrossCopyArtifacts. *)
RemoveStaging(j) ==
  /\ Idle /\ site[j].rm
  /\ site' = [site EXCEPT ![j].rm = FALSE, ![j].stage = Nothing, ![j].late = {Forgets(w) : w \in @}]
  /\ run' = [run EXCEPT ![j] = [r \in Runs |-> IF Writing(@[r]) THEN Forgets(@[r]) ELSE @[r]]]
  /\ UNCHANGED <<svars, copy>>

-----------------------------------------------------------------------------
XRunStep(j) ==
  \E r \in Runs :
    \/ ScanEnds(j, r) \/ Prepared(j, r) \/ ChannelsOpen(j, r) \/ Look(j, r) \/ PipeWrites(j, r) \/ PipeEnds(j, r)
    \/ PipeFails(j, r) \/ CheckSize(j, r) \/ AwaitRejects(j, r)
    \/ DirsDone(j, r) \/ CommitRuns(j, r) \/ CommitReturns(j, r) \/ CommitLost(j, r)
XRemote(j) == LateWrite(j) \/ RemoveStaging(j)
XUser(j) ==
  \/ StartCrossCopyJob(j) \/ PauseCopy(j) \/ PauseQueued(j) \/ ResumeCrossCopyJob(j)
  \/ CancelQueued(j) \/ CancelCopy(j) \/ DeleteCopy(j)
XDrain(k) ==
  \/ RunCrossCopyJob(k)
  \/ (SkipHead(k) \/ DrainDone(k) \/ ReleaseCallback(k)) /\ UNCHANGED <<copy, run, site>>

XNext ==
  \/ \E j \in Jobs : XRunStep(j) \/ XRemote(j) \/ XUser(j)
  \/ \E k \in Kinds : XDrain(k)
  \/ \E l \in [Kinds -> Limits] : ChangeSettings(l) /\ UNCHANGED <<copy, run, site>>

XSafety == XInit /\ [][XNext]_xvars

(* Remote answers arrive or fail, and the event loop serves them. *)
XFairness ==
  /\ \A k \in Kinds : SF_xvars(XDrain(k))
  /\ \A j \in Jobs : SF_xvars(XRunStep(j))

XSpec == XSafety /\ XFairness

-----------------------------------------------------------------------------
(* Properties. *)

XTypeOK ==
  /\ STypeOK
  /\ \A j \in Jobs :
       /\ copy[j].phase \in {"", "queued", "scanning", "transferring", "committing", "deleted"}
       /\ copy[j].pipe \in 0..(MaxResumes + 1) /\ copy[j].child \in 0..(MaxResumes + 1)
       /\ \A r \in Runs : run[j][r].pc \in {"none", "scan", "mkdir", "open", "look", "pipe", "broken", "check",
                                            "dirs", "commit", "moved", "refused", "killed", "ended"}
       /\ \A f \in 1..Files :
            site[j].stage[f] = NoFile \/ \A b \in DOMAIN site[j].stage[f] : site[j].stage[f][b] \in 0..Blocks

(* A job that shows "running" has a run that will settle it: no early       *)
(* return or swallowed error of the async function leaves a job holding its *)
(* slot with nobody to give it back.                                        *)
RunningHasRun == \A j \in Jobs : status[j] = "running" => Live(j) # {}

(* When a job is resumed only after its paused run has ended, every step of *)
(* the copy is a step the scheduler allows its job engine; in particular a  *)
(* late rejection neither fails a queued job nor gives back another's slot. *)
ImplementsScheduler == SSafety

(* The target is as it was or the whole copy, for a job resumed at most     *)
(* once and only after its paused run has ended.                            *)
TargetWholeOrOriginal ==
  \A j \in Jobs : copy[j].resumes <= 1 =>
    /\ site[j].target \in {Original(j), Whole}
    /\ status[j] = "done" => site[j].target = Whole

(* A copy that was queued or runs is settled in the end. *)
CopiesSettle ==
  \A j \in Jobs : status[j] \in {"pending", "running"} ~> status[j] \in Settled \cup {"absent"}

(* What a resumed run appends to a staged file is what was missing of it:   *)
(* no other run of the job is still writing.                                *)
ResumedRunWritesAlone == \A j \in Jobs : Cardinality({r \in Runs : Writing(run[j][r])}) <= 1

(* The commit cannot be paused: no paused job is committing. *)
PausedNeverCommits ==
  \A j \in Jobs : status[j] = "paused" => \A r \in Runs : run[j][r].pc # "commit"
=============================================================================
