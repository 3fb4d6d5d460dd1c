----------------------------- MODULE JobHistory -----------------------------
(***************************************************************************)
(* What survives a transfer job: its record in data/sftp-jobs.json and its *)
(* artifact (a download's temporary file, an upload's staged file, the     *)
(* remote staging directory of a cross copy).  src/src/sftp-jobs.ts,       *)
(* src/src/sftp-job-store.ts and src/src/sftp-download-cache.ts.           *)
(*                                                                         *)
(* Every change of a status is followed in the same turn by                *)
(* persistJobs(true); only progress waits for the 400 ms debounce, and     *)
(* progress is not modelled, so each action stores what it changes.        *)
(* Scheduling and the transfers themselves are in the other modules; here  *)
(* a job starts, opens its artifact, stops and ends at any time.           *)
(***************************************************************************)
EXTENDS Integers, FiniteSets

CONSTANTS
  LastJob,      \* jobs 1, 2, ... LastJob, numbered by created_at
  TypeOf,       \* job.type and, for a download, its delivery_mode
  MaxHistory    \* MAX_HISTORY, 120 in the code

Jobs == 1..LastJob
Types == {"browser", "desktop", "upload", "cross-copy"}

ASSUME HistoryAssumption ==
  /\ LastJob \in Nat \ {0} /\ MaxHistory \in Nat \ {0}
  /\ TypeOf \in [Jobs -> Types]

VARIABLES
  next,      \* the next job to be created
  mem,       \* status in the jobs Map, "absent" without an entry
  hist,      \* status in the history, in the file and in historyCache alike
  loaded,    \* historyCache is not null
  file,      \* the artifact: "present", "missing", or "nameless" (temp_path is "")
  opened,    \* the running transfer has opened its artifact
  delivery,  \* a download's delivery_status: "pending", "taken", "gone"
  barred     \* resume_supported is FALSE: corrupt or changed cross copy

hvars == <<next, mem, hist, loaded, file, opened, delivery, barred>>

Active == {"pending", "running", "paused"}
Statuses == Active \cup {"absent", "failed", "done", "cancelled"}
Finished == {"done", "cancelled"}
Download(j) == TypeOf[j] \in {"browser", "desktop"}

Shown(j) == IF mem[j] # "absent" THEN mem[j] ELSE hist[j]

HInit ==
  /\ next = 1
  /\ mem = [j \in Jobs |-> "absent"]
  /\ hist = [j \in Jobs |-> "absent"]
  /\ loaded = FALSE
  /\ file = [j \in Jobs |-> "missing"]
  /\ opened = [j \in Jobs |-> FALSE]
  /\ delivery = [j \in Jobs |-> "pending"]
  /\ barred = [j \in Jobs |-> FALSE]

-----------------------------------------------------------------------------
(* The store. *)

Lose(f, S) == [j \in Jobs |-> IF j \in S /\ f[j] = "present" THEN "missing" ELSE f[j]]

(* removeDownloadCacheFile: the file goes and so does the record's temp_path. *)
RemoveCacheFiles(f, S) == [j \in Jobs |-> IF j \in S /\ Download(j) THEN "nameless" ELSE f[j]]

(* Mutant: one record too few. *)
OneRecordFewer(r) ==
  {j \in Jobs : r[j] # "absent"
                /\ Cardinality({i \in Jobs : i > j /\ r[i] # "absent"}) < MaxHistory - 1}

(* The records that survive slice(0, MAX_HISTORY), newest first. *)
Newest(r) ==
  {j \in Jobs : r[j] # "absent"
                /\ Cardinality({i \in Jobs : i > j /\ r[i] # "absent"}) < MaxHistory}

Merged(m) == [j \in Jobs |-> IF m[j] # "absent" THEN m[j] ELSE hist[j]]

Records(r) == [j \in Jobs |-> IF j \in Newest(r) THEN r[j] ELSE "absent"]

(* Mutant: a dropped record leaves its artifact behind. *)
NothingCleaned(f, r) == f

(* Every previous record that was not retained is cleaned up. *)
Cleaned(f, r) == Lose(f, {j \in Jobs : hist[j] # "absent" /\ j \notin Newest(r)})

(* writeJsonJobs *)
Store(f, r) == hist' = Records(r) /\ file' = Cleaned(f, r)

(* Mutant: what is in the history already wins over memory. *)
PersistStale(f, m) ==
  /\ mem' = m
  /\ Store(f, [j \in Jobs |-> IF hist[j] # "absent" THEN hist[j] ELSE m[j]])

(* persistJobs(true) after the jobs Map became m. *)
Persist(f, m) == mem' = m /\ Store(f, Merged(m))

Becomes(j, s) == [mem EXCEPT ![j] = s]

-----------------------------------------------------------------------------
(* A job's life. *)

Submit(j) ==
  /\ loaded /\ j = next
  /\ next' = j + 1
  /\ Persist(file, Becomes(j, "pending"))
  /\ UNCHANGED <<loaded, opened, delivery, barred>>

(* drainTransferQueue *)
Start(j) ==
  /\ mem[j] = "pending"
  /\ Persist(file, Becomes(j, "running"))
  /\ opened' = [opened EXCEPT ![j] = FALSE]
  /\ UNCHANGED <<next, loaded, delivery, barred>>

(* createWriteStream, or the remote mkdir of a cross copy. *)
Open(j) ==
  /\ mem[j] = "running" /\ ~opened[j] /\ file[j] # "nameless"
  /\ opened' = [opened EXCEPT ![j] = TRUE]
  /\ file' = [file EXCEPT ![j] = "present"]
  /\ UNCHANGED <<next, mem, hist, loaded, delivery, barred>>

PauseSftpJob(j) ==
  /\ mem[j] \in {"pending", "running"} /\ ~barred[j]
  /\ Persist(file, Becomes(j, "paused"))
  /\ UNCHANGED <<next, loaded, opened, delivery, barred>>

(* The transfer ends well: a desktop download has been moved to the user's  *)
(* directory if its file is there, an upload's staged file is unlinked and   *)
(* the commit of a cross copy removes its staging directory.                 *)
FinishDone(j) ==
  /\ mem[j] = "running" /\ (opened[j] \/ file[j] = "present")
  /\ Persist(CASE TypeOf[j] = "browser" -> file
               [] TypeOf[j] = "desktop" -> IF file[j] = "present" THEN RemoveCacheFiles(file, {j}) ELSE file
               [] OTHER -> Lose(file, {j}),
             Becomes(j, "done"))
  /\ delivery' = [delivery EXCEPT ![j] =
                    IF TypeOf[j] = "desktop" /\ file[j] = "present" THEN "taken" ELSE @]
  /\ UNCHANGED <<next, loaded, opened, barred>>

(* ... or fails.  Only an upload that was still being received loses its    *)
(* artifact; a cross copy whose checkpoint is corrupt cannot be resumed.     *)
FinishFailed(j) ==
  /\ mem[j] = "running"
  /\ \E received \in IF TypeOf[j] = "upload" THEN BOOLEAN ELSE {TRUE} :
       Persist(IF received THEN file ELSE Lose(file, {j}), Becomes(j, "failed"))
  /\ \E corrupt \in IF TypeOf[j] = "cross-copy" THEN BOOLEAN ELSE {FALSE} :
       barred' = [barred EXCEPT ![j] = @ \/ corrupt]
  /\ UNCHANGED <<next, loaded, opened, delivery>>

(* cancelSftpJob.  A queued job's artifact is cleaned up whatever its type; *)
(* otherwise a download's and an upload's are, and a cross copy's is left.   *)
CancelSftpJob(j) ==
  /\ mem[j] \in Active
  /\ Persist(CASE mem[j] = "pending" \/ TypeOf[j] = "upload" -> Lose(file, {j})
               [] OTHER -> RemoveCacheFiles(file, {j}),
             Becomes(j, "cancelled"))
  /\ UNCHANGED <<next, loaded, opened, delivery, barred>>

(* Mutant: any settled job can be resumed. *)
MayResumeAny(j) == mem[j] \in Statuses \ {"absent", "pending", "running"}

MayResume(j) == mem[j] \in {"paused", "failed"}

(* resumeSftpJob, of a job in memory. *)
ResumeJob(j) ==
  /\ MayResume(j) /\ ~barred[j]
  /\ TypeOf[j] = "upload" => file[j] = "present"
  /\ Persist(file, Becomes(j, "pending"))
  /\ UNCHANGED <<next, loaded, opened, delivery, barred>>

(* ... and of one known from the history only, whose status is not asked.   *)
ResumeRecord(j) ==
  /\ loaded /\ mem[j] = "absent" /\ hist[j] # "absent"
  /\ TypeOf[j] # "upload" /\ ~barred[j]
  /\ Persist(file, Becomes(j, "pending"))
  /\ UNCHANGED <<next, loaded, opened, delivery, barred>>

(* Mutant: a running job can be deleted. *)
MayDeleteAny(j) == loaded /\ Shown(j) # "absent"

(* The guards of deleteSftpJob. *)
MayDelete(j) == loaded /\ Shown(j) # "absent" /\ mem[j] \notin {"pending", "running"}

DeleteSftpJob(j) ==
  /\ MayDelete(j)
  /\ mem' = Becomes(j, "absent")
  /\ Store(Lose(file, {j}), [hist EXCEPT ![j] = "absent"])
  /\ UNCHANGED <<next, loaded, opened, delivery, barred>>

ClearFinishedSftpJobs ==
  LET m == [j \in Jobs |-> IF mem[j] \in Finished THEN "absent" ELSE mem[j]]
      h == [j \in Jobs |-> IF hist[j] \in Finished THEN "absent" ELSE hist[j]]
  IN
  /\ loaded
  /\ mem' = m
  /\ Store(file, [j \in Jobs |-> IF m[j] # "absent" THEN m[j] ELSE h[j]])
  /\ UNCHANGED <<next, loaded, opened, delivery, barred>>

(* markSftpJobDelivered, after the whole file went to a browser. *)
MarkDelivered(j) ==
  /\ loaded /\ Download(j) /\ Shown(j) = "done" /\ file[j] = "present"
  /\ delivery' = [delivery EXCEPT ![j] = "taken"]
  /\ IF mem[j] # "absent" THEN Persist(file, mem) ELSE mem' = mem /\ Store(file, hist)
  /\ UNCHANGED <<next, loaded, opened, barred>>

-----------------------------------------------------------------------------
(* Housekeeping, crash and restart. *)

(* Mutant: an expired file goes and the record still promises it. *)
GoneNever(S) == delivery

GoneIf(S) == [j \in Jobs |-> IF j \in S /\ delivery[j] = "pending" THEN "gone" ELSE delivery[j]]

(* maintainDownloadCache: cancelled downloads, those the clock has expired   *)
(* (any set: the clock is not modelled), and files no record names.          *)
Swept(r, expired, f) ==
  Lose(RemoveCacheFiles(f, {j \in Jobs : j \in expired \/ r[j] = "cancelled"}),
       {j \in Jobs : Download(j) /\ r[j] = "absent"})
Maintain(r, expired, f) ==
  /\ file' = Swept(r, expired, f)
  /\ delivery' = GoneIf({j \in expired : r[j] = "done"})

Expirable(r) == {j \in Jobs : Download(j) /\ (r[j] = "done" \/ (r[j] # "absent" /\ delivery[j] = "taken"))}

(* The timer, and sftpCacheInfo, which maintains the cache before it counts. *)
(* Until a request reads the history, the timer takes it for empty.          *)
HourlyTimer ==
  /\ LET r == IF loaded THEN Merged(mem) ELSE mem IN
     \E expired \in SUBSET Expirable(r) : Maintain(r, expired, file)
  /\ UNCHANGED <<next, mem, hist, loaded, opened, barred>>

RestartResumable(j) == TypeOf[j] # "upload" /\ ~barred[j]

(* The first readHistory of a process: interrupted jobs become failed, those *)
(* that cannot be resumed lose their artifact, and the cache is maintained.  *)
ReadHistory ==
  LET interrupted == {j \in Jobs : hist[j] \in Active}
      r == [j \in Jobs |-> IF j \in interrupted THEN "failed" ELSE hist[j]]
      f == Lose(file, {j \in interrupted : ~RestartResumable(j)})
  IN
  /\ ~loaded
  /\ loaded' = TRUE
  /\ hist' = r
  /\ \E expired \in SUBSET Expirable(r) : Maintain(r, expired, f)
  /\ UNCHANGED <<next, mem, opened, barred>>

(* Mutant: files of failed jobs are taken for leftovers. *)
SpareActive == {j \in Jobs : mem[j] \in Active}

(* PROTECTED_JOB_STATUSES, looked up in the jobs Map only. *)
Protected == {j \in Jobs : mem[j] \in Active \cup {"failed"}}

(* clearSftpCache, with the maintenance sftpCacheInfo does at its end. *)
ClearSftpCache ==
  LET r == Merged(mem)
      ended == {j \in Jobs : Download(j) /\ r[j] \in Finished}
      wiped == {j \in Jobs : TypeOf[j] # "cross-copy"} \ Protected
  IN
  /\ loaded
  /\ hist' = Records(r)
  /\ \E expired \in SUBSET Expirable(r) :
       file' = Swept(r, expired, Cleaned(Lose(RemoveCacheFiles(file, ended), wiped), r))
  /\ delivery' = GoneIf({j \in ended : file[j] # "nameless"})
  /\ UNCHANGED <<next, mem, loaded, opened, barred>>

(* The process dies at any point and is started again. *)
Restart ==
  /\ mem' = [j \in Jobs |-> "absent"]
  /\ loaded' = FALSE
  /\ opened' = [j \in Jobs |-> FALSE]
  /\ UNCHANGED <<next, hist, file, delivery, barred>>

HNext ==
  \/ \E j \in Jobs :
       \/ Submit(j) \/ Start(j) \/ Open(j) \/ PauseSftpJob(j) \/ FinishDone(j) \/ FinishFailed(j)
       \/ CancelSftpJob(j) \/ ResumeJob(j) \/ ResumeRecord(j) \/ DeleteSftpJob(j) \/ MarkDelivered(j)
  \/ ClearFinishedSftpJobs \/ HourlyTimer \/ ReadHistory \/ ClearSftpCache \/ Restart

HSafety == HInit /\ [][HNext]_hvars

-----------------------------------------------------------------------------
(* Properties. *)

(* The types, and the bound on what is stored. *)
HTypeOK ==
  /\ next \in 1..(LastJob + 1)
  /\ mem \in [Jobs -> Statuses] /\ hist \in [Jobs -> Statuses]
  /\ Cardinality({j \in Jobs : hist[j] # "absent"}) <= MaxHistory
  /\ loaded \in BOOLEAN
  /\ file \in [Jobs -> {"present", "missing", "nameless"}]
  /\ opened \in [Jobs -> BOOLEAN]
  /\ delivery \in [Jobs -> {"pending", "taken", "gone"}]
  /\ barred \in [Jobs -> BOOLEAN]

(* A crash finds in the file the status the user saw last, for every job    *)
(* that has a record at all.                                                 *)
RecordIsCurrent == \A j \in Jobs : mem[j] # "absent" /\ hist[j] # "absent" => hist[j] = mem[j]

(* A job can still use its artifact, as the running process or the next one *)
(* shows it.  An upload's staged file serves this process only.              *)
Useful(j) ==
  \/ Shown(j) \in Active
  \/ Shown(j) = "failed" /\ TypeOf[j] # "upload" /\ ~barred[j]
LosesUseful(j) == file[j] = "present" /\ Useful(j) /\ Useful(j)' /\ file'[j] # "present"

(* The four ways the code takes an artifact from a job that could use it:   *)
(* the timer of a process that has not read the history, clearing the cache *)
(* over a job of an earlier process, MAX_HISTORY newer records, and the     *)
(* maintenance of a delivered download whose record was resumed.             *)
Unread == ~loaded'
Cleared(j) == mem[j] = "absent" /\ ClearSftpCache
Dropped(j) == hist[j] # "absent" /\ hist'[j] = "absent"
Delivered(j) == delivery[j] = "taken"

(* Nothing else takes an artifact away from a job that can use it: no other *)
(* cleanup or maintenance, no clearing while the job is in memory, no end or *)
(* resume of another job, no crash.                                          *)
ArtifactKept == [][\A j \in Jobs : LosesUseful(j) => Unread \/ Cleared(j) \/ Dropped(j) \/ Delivered(j)]_hvars

(* Once the history is read, no artifact is left that no record names.      *)
NoOrphan == loaded => \A j \in Jobs : file[j] = "present" => Shown(j) # "absent"

(* A record that offers a download nobody has fetched is backed by its file: *)
(* no step of a process that has read the history makes such an offer        *)
(* without the file, or takes the file and leaves the offer standing.  The   *)
(* timer of a process that has not read the history does the latter.         *)
Offered(j) == Download(j) /\ Shown(j) = "done" /\ delivery[j] = "pending"
DoneCanBeFetched ==
  [][\A j \in Jobs : Offered(j)' /\ file'[j] # "present"
       => (Offered(j) /\ file[j] # "present") \/ Unread]_hvars

(* Queued and running jobs never vanish without a trace: not by deleting,   *)
(* clearing, maintenance, or a crash.                                        *)
WorkIsRemembered ==
  [][\A j \in Jobs : Shown(j) \in {"pending", "running"} => Shown(j)' # "absent"]_hvars

(* A record leaves the history under a job in memory only when MAX_HISTORY  *)
(* newer ones are stored.                                                    *)
OverflowTakesOldest ==
  [][\A j \in Jobs :
       hist[j] # "absent" /\ hist'[j] = "absent" /\ mem'[j] # "absent"
         => Cardinality({i \in Jobs : i > j /\ hist'[i] # "absent"}) = MaxHistory]_hvars

(* What is done or cancelled stays so until it is deleted: no late end of a *)
(* transfer, no restart and no resume of a job in memory makes it run again. *)
(* Only a request to resume the record of an earlier process does.           *)
FinishedStaysFinished ==
  [][\A j \in Jobs : Shown(j) \in Finished =>
       Shown(j)' \in {Shown(j), "absent"} \/ (mem[j] = "absent" /\ mem'[j] = "pending")]_hvars

(* What one would like to hold and does not: each of the first three leaves *)
(* out one of the ways above, the last one the resume of a record.           *)
KeptByTimer == [][\A j \in Jobs : LosesUseful(j) => Cleared(j) \/ Dropped(j) \/ Delivered(j)]_hvars
KeptByClearing == [][\A j \in Jobs : LosesUseful(j) => Unread \/ Dropped(j) \/ Delivered(j)]_hvars
KeptByOverflow == [][\A j \in Jobs : LosesUseful(j) => Unread \/ Cleared(j) \/ Delivered(j)]_hvars
FinishedForGood ==
  [][\A j \in Jobs : Shown(j) \in Finished => Shown(j)' \in {Shown(j), "absent"}]_hvars
=============================================================================
