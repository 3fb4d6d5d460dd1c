-------------------------- MODULE UploadJobs_proofs --------------------------
(***************************************************************************)
(* Proofs about uploads, for any number of jobs, blocks, slots and resumes: *)
(* the engine implements the scheduler, keeps slot and transfer together,   *)
(* keeps staged files, lets no late event wake a stopped upload, and, as    *)
(* long as an upload was resumed at most once, leaves its target untouched  *)
(* or whole.                                                               *)
(*                                                                         *)
(* Nearly every fact is about one job: what the scheduler shows of it (s,  *)
(* its status, and q, whether it is marked as queued), its job object x,    *)
(* its command c and its remote files r.  The invariant is therefore a      *)
(* predicate of these values, and a step is shown to keep it value by       *)
(* value.                                                                  *)
(***************************************************************************)
EXTENDS UploadJobs, TransferScheduler_proofs

Tasks == {"new", "start", "receive", "resume", "deleted"}
Phases == {"", "queued", "receiving", "resuming", "uploading", "committing"}
JobObjects ==
  [task : Tasks, phase : Phases, gen : Nat, staged : BOOLEAN, local : BOOLEAN,
   recv : {"none", "waiting", "open"}, resumes : Nat]
Commands ==
  [kind : {"none", "size", "write", "commit", "moved", "refused", "thrown"},
   lo : Nat, app : BOOLEAN, at : {"temp", "target"}]
Leftovers ==
  [gen : Nat, lo : 1..Blocks, hi : 1..Blocks, app : BOOLEAN, at : {"temp", "target"}]
RemoteFileSets ==
  [temp : Seq(Int), target : Seq(Int), orphans : SUBSET Leftovers, ghosts : SUBSET Nat,
   rm : BOOLEAN, lateMove : BOOLEAN]

UTypes ==
  /\ job \in [Jobs -> JobObjects]
  /\ child \in [Jobs -> Commands]
  /\ remote \in [Jobs -> RemoteFileSets]

-----------------------------------------------------------------------------
(* Control: what status, phase, task and command say of each other. *)

(* The phases in which each remote command is awaited, or has thrown. *)
PhasesOf(kind) ==
  CASE kind = "size" -> {"resuming"}
    [] kind = "write" -> {"uploading"}
    [] kind = "thrown" -> {"resuming", "uploading"}
    [] OTHER -> {"committing"}

Pairs(s, q, x, c) ==
  /\ q => s \in {"pending", "failed", "absent"}
  /\ s = "pending" => x.phase = "queued"
  /\ x.task \in {"new", "deleted"} => s = "absent"
  /\ c.kind = "none" => c = NoChild
  /\ c.kind # "none" => s = "running" /\ x.phase \in PhasesOf(c.kind)
  /\ s = "running" /\ c.kind = "none" => x.phase = "receiving"

(* The browser's request: it waits for a queued job or feeds a running one. *)
Receiving(s, x) ==
  /\ x.recv = "open" => x.phase = "receiving" /\ s \in {"running", "cancelled", "absent"}
  /\ x.recv = "waiting" => s = "pending" /\ x.task = "receive"

(* Only a resumed job asks for the size of what is there. *)
Resuming(x) ==
  /\ x.task \in {"new", "start", "receive"} => x.resumes = 0
  /\ x.resumes > 0 => x.phase \in {"queued", "resuming", "uploading", "committing"}
  /\ x.task = "resume" => x.resumes > 0
  /\ x.phase = "resuming" => x.resumes > 0

Staged(s, x) ==
  /\ s \in {"pending", "running", "paused"} /\ x.staged => x.local
  /\ x.task = "new" => ~x.staged /\ x.recv = "none"

(* Runs whose error is still to come are older than the run that counts, or *)
(* were ended by a read error, which raises no generation: such a run is    *)
(* over, and only a resume can have queued the job again.                   *)
GhostsAreOld(s, x, r) ==
  \A g \in r.ghosts :
    \/ g < x.gen
    \/ g = x.gen /\ s # "running" /\ x.task # "new" /\ (s = "pending" => x.task = "resume")

(* The staging file is removed of jobs that nobody can resume. *)
RemovalIsFinal(s, x, r) == r.rm => s \in {"cancelled", "absent"} /\ x.task # "new"

(* Who writes to the staging file has one to write to. *)
WritersHaveFile(c, r) ==
  /\ \A o \in r.orphans : o.at = "temp" => r.temp # NoFile
  /\ c.kind = "write" => c.lo \in 1..(Blocks + 1) /\ (c.at = "temp" => r.temp # NoFile)
  /\ r.temp = NoFile \/ \A b \in DOMAIN r.temp : r.temp[b] \in 0..Blocks

Control(s, q, x, c, r) ==
  /\ Pairs(s, q, x, c)
  /\ Receiving(s, x)
  /\ Resuming(x)
  /\ Staged(s, x)
  /\ GhostsAreOld(s, x, r)
  /\ RemovalIsFinal(s, x, r)
  /\ WritersHaveFile(c, r)

-----------------------------------------------------------------------------
(* Content, of uploads that were resumed at most once. *)

IsStart(f) == \E n \in 0..Blocks : f = Source(n)

(* Its length tells whether such a file is the source. *)
SizeTells(f) == f = NoFile \/ Len(f) > Blocks \/ IsStart(f)

(* The file has what its writer has written; an appending writer is exact    *)
(* unless the file has grown behind its back, and then stays too long.       *)
Ahead(f, c) ==
  IF c.app
  THEN c.lo > 1 /\ (Len(f) >= c.lo \/ f = Source(c.lo - 1))
  ELSE \E n \in (c.lo - 1)..Blocks : f = Source(n)

(* No command has appended to the staging file yet. *)
Early(x) == x.resumes = 0 \/ x.phase \in {"queued", "resuming"}

TargetGood(o, s, c, r) ==
  /\ r.target \in {o, Whole}
  /\ s = "done" \/ c.kind = "moved" => r.target = Whole
  /\ \A w \in r.orphans : w.at = "target" => ~w.app /\ r.target = Whole

TempGood(s, x, c, r) ==
  /\ \A w \in r.orphans : w.at = "temp" /\ ~w.app => w.lo <= Len(r.temp) + 1
  /\ Early(x) => (r.temp = NoFile \/ IsStart(r.temp)) /\ (c.kind = "write" => ~c.app /\ c.at = "temp")
  /\ Early(x) \/ r.lateMove \/ c.kind # "none" => \A w \in r.orphans : ~w.app
  /\ c.kind = "write" => IF c.at = "temp" THEN Ahead(r.temp, c) ELSE r.temp = NoFile /\ c.lo > Blocks
  /\ c.kind = "commit" \/ r.lateMove => SizeTells(r.temp)
  /\ c.kind = "commit" /\ Early(x) => r.temp = Whole
  /\ r.lateMove /\ Early(x) => r.temp \in {NoFile, Source(Blocks)}
  /\ r.lateMove /\ c.kind = "write" =>
       /\ c.app => c.lo > Blocks
       /\ c.at = "temp" => /\ Len(r.temp) = c.lo - 1
                           /\ c.lo > Blocks \/ \A w \in r.orphans : w.at # "temp"
  /\ x.resumes = 0 /\ (s \in {"pending", "running"} \/ x.task = "new") =>
       ~r.lateMove /\ r.orphans = {}

Content(o, s, x, c, r) == x.resumes <= 1 => TargetGood(o, s, c, r) /\ TempGood(s, x, c, r)

JobInv(o, s, q, x, c, r) == Control(s, q, x, c, r) /\ Content(o, s, x, c, r)

UInv ==
  /\ SInv
  /\ UTypes
  /\ \A j \in Jobs : JobInv(Original(j), status[j], queued[j], job[j], child[j], remote[j])

(* Nobody waits for the start of a job that was resumed. *)
ResumesArePlain ==
  \A j \in Jobs : status[j] = "pending" /\ job[j].task = "resume" => runner[j] = "plain"

-----------------------------------------------------------------------------
(* Every step of the upload engine is one the scheduler allows. *)

JobOK(j) == JobInv(Original(j), status[j], queued[j], job[j], child[j], remote[j])

LEMMA RunningHolds ==
  ASSUME UInv, NEW j \in Jobs, child[j].kind # "none"
  PROVE  status[j] = "running" /\ job[j].phase \in PhasesOf(child[j].kind)
BY DEF UInv, JobInv, Control, Pairs

LEMMA NotQueued ==
  ASSUME UInv, NEW j \in Jobs, status[j] = "paused"
  PROVE  ~queued[j]
BY DEF UInv, JobInv, Control, Pairs

(* The error of a killed run counts for nothing, or fails a resumed job in   *)
(* the queue.                                                               *)
LEMMA LateErrorCounts ==
  ASSUME UInv, NEW j \in Jobs, LateError(j)
  PROVE  \/ UNCHANGED svars
         \/ Release(j, "failed") /\ status[j] = "pending" /\ job[j].task = "resume"
<1>1. PICK g \in remote[j].ghosts : IF ErrorCounts(j, g) THEN Release(j, "failed") ELSE UNCHANGED svars
  BY DEF LateError
<1>2. g \in Nat /\ job[j].gen \in Nat /\ GhostsAreOld(status[j], job[j], remote[j])
  BY <1>1 DEF UInv, UTypes, JobInv, Control, RemoteFileSets, JobObjects
<1>3. ErrorCounts(j, g) => status[j] = "pending" /\ job[j].task = "resume"
  BY <1>1, <1>2 DEF ErrorCounts, GhostsAreOld
<1> QED BY <1>1, <1>3

LEMMA LateErrorRefines ==
  ASSUME UInv, ResumesArePlain, NEW j \in Jobs, LateError(j)
  PROVE  FailQueued(j) \/ UNCHANGED svars
<1>1. Idle /\ j \in FailInQueue
  BY UploadAssumption DEF LateError
<1> QED BY <1>1, LateErrorCounts DEF FailQueued, ResumesArePlain

LEMMA UserStepRefines ==
  ASSUME UInv, NEW j \in Jobs, UUser(j)
  PROVE  SNext
<1>1. ASSUME PauseTransfer(j) PROVE SNext
  <2>1. Release(j, "paused") /\ Idle /\ status[j] = "running"
    BY <1>1 DEF PauseTransfer
  <2> QED BY <2>1, ReleaseIsEnding DEF Settled
<1>2. ASSUME PauseQueued(j) PROVE SNext
  <2>1. WithdrawJob(j, "paused")
    BY <1>2 DEF PauseQueued, WithdrawJob
  <2> QED BY <2>1 DEF SNext, Settled
<1>3. ASSUME ResumeUploadJob(j) PROVE SNext
  BY <1>3 DEF ResumeUploadJob, ResumeJob, SNext
<1>4. ASSUME CancelQueued(j) PROVE SNext
  <2>1. WithdrawJob(j, "cancelled")
    BY <1>4 DEF CancelQueued, WithdrawJob
  <2> QED BY <2>1 DEF SNext, Settled
<1>5. ASSUME CancelTransfer(j) PROVE SNext
  <2>1. Release(j, "cancelled") /\ Idle /\ status[j] \in {"running", "paused"}
    BY <1>5 DEF CancelTransfer
  <2> QED BY <2>1, ReleaseIsEnding, NotQueued, CancelPausedIsWithdrawal DEF UInv, Settled
<1>6. ASSUME DeleteUploadJob(j) PROVE SNext
  BY <1>6 DEF DeleteUploadJob, SNext
<1> QED BY <1>1, <1>2, <1>3, <1>4, <1>5, <1>6 DEF UUser

LEMMA JobStepRefines ==
  ASSUME UInv, ResumesArePlain, NEW j \in Jobs, UStart(j) \/ UReceive(j) \/ UTransfer(j) \/ URemote(j)
  PROVE  SNext \/ UNCHANGED svars
<1>1. ASSUME UStart(j) PROVE SNext
  <2>1. job[j].task = "new" /\ Idle /\ QueueTransferJob(j, "resolving")
    BY <1>1 DEF UStart, StartUploadJob, StartUploadReceiveJob
  <2>2. status[j] = "absent"
    BY <2>1 DEF UInv, JobInv, Control, Pairs
  <2> QED BY <2>1, <2>2 DEF Submit, SNext
<1>2. ASSUME UReceive(j) PROVE SNext \/ UNCHANGED svars
  <2>1. ASSUME PostContentEarly(j) PROVE SNext
    BY <2>1 DEF PostContentEarly, SNext
  <2>2. ASSUME PostContent(j) \/ ReceiveStops(j) \/ ReceiveCompletes(j) PROVE UNCHANGED svars
    BY <2>2 DEF PostContent, ReceiveStops, ReceiveCompletes
  <2>3. ASSUME ReceiveFails(j) PROVE SNext
    <3>1. Release(j, "failed") /\ Idle /\ status[j] = "running"
      BY <2>3 DEF ReceiveFails
    <3> QED BY <3>1, ReleaseIsEnding DEF Settled
  <2> QED BY <1>2, <2>1, <2>2, <2>3 DEF UReceive
<1>3. ASSUME UTransfer(j) PROVE SNext \/ UNCHANGED svars
  <2>1. ASSUME SizeCloses(j) PROVE SNext \/ UNCHANGED svars
    <3>1. Idle /\ child[j].kind = "size" /\ (UNCHANGED svars \/ Release(j, "failed"))
      BY <2>1 DEF SizeCloses
    <3> QED BY <3>1, RunningHolds, ReleaseIsEnding DEF Settled
  <2>2. ASSUME CatWrites(j) \/ WriteCloses(j) \/ CommitRuns(j) \/ CloseThrows(j) PROVE UNCHANGED svars
    BY <2>2 DEF CatWrites, WriteCloses, CommitRuns, CloseThrows
  <2>3. ASSUME CommitCloses(j) PROVE SNext
    <3>1. /\ Idle /\ child[j].kind \in {"moved", "refused"}
          /\ Release(j, IF child[j].kind = "moved" THEN "done" ELSE "failed")
      BY <2>3 DEF CommitCloses
    <3>2. \E s \in Settled : Release(j, s)
      BY <3>1 DEF Settled
    <3> QED BY <3>1, <3>2, RunningHolds, ReleaseIsEnding
  <2>4. ASSUME ChildFails(j) \/ ReadFails(j) PROVE SNext
    <3>1. Idle /\ child[j].kind # "none" /\ Release(j, "failed")
      BY <2>4 DEF ChildFails, ReadFails
    <3> QED BY <3>1, RunningHolds, ReleaseIsEnding DEF Settled
  <2> QED BY <1>3, <2>1, <2>2, <2>3, <2>4 DEF UTransfer
<1>4. ASSUME URemote(j) PROVE SNext \/ UNCHANGED svars
  BY <1>4, LateErrorRefines DEF URemote, OrphanWrites, LateMoveRuns, RemoveStaging, SNext
<1> QED BY <1>1, <1>2, <1>3, <1>4

LEMMA UStepRefines ==
  ASSUME UInv, ResumesArePlain, [UNext]_uvars
  PROVE  [SNext]_svars
<1>1. ASSUME NEW j \in Jobs, UStart(j) \/ UReceive(j) \/ UTransfer(j) \/ URemote(j) \/ UUser(j)
      PROVE  SNext \/ UNCHANGED svars
  BY <1>1, JobStepRefines, UserStepRefines
<1>2. ASSUME NEW k \in Kinds, UDrain(k) PROVE SNext
  BY <1>2 DEF UDrain, RunStart, RunReceive, RunResume, RunThrows, DrainStep, SNext
<1>3. ASSUME USettings PROVE SNext
  BY <1>3 DEF USettings, SNext
<1>4. ASSUME UNCHANGED uvars PROVE UNCHANGED svars
  BY <1>4 DEF uvars
<1> QED BY <1>1, <1>2, <1>3, <1>4 DEF UNext

-----------------------------------------------------------------------------
(* What happens to a job, in terms of its own values: y, d and p are its    *)
(* job object, command and remote files afterwards.                         *)

Sorts(x, c, r) == x \in JobObjects /\ c \in Commands /\ r \in RemoteFileSets

LEMMA NoChildTyped ==
  /\ NoChild \in Commands
  /\ NoChild.kind = "none" /\ NoChild.lo = 0 /\ NoChild.at = "temp" /\ NoChild.app = FALSE
BY DEF NoChild, Commands

LEMMA CommandTyped ==
  ASSUME NEW k \in {"size", "commit", "thrown"}
  PROVE  /\ Command(k) \in Commands
         /\ Command(k).kind = k
         /\ Command(k).at = "temp" /\ Command(k).app = FALSE
BY NoChildTyped DEF Command, Commands

LEMMA WriterTyped ==
  ASSUME NEW n \in Nat, NEW a \in BOOLEAN
  PROVE  /\ Writer(n, a) \in Commands
         /\ Writer(n, a).kind = "write"
         /\ Writer(n, a).lo = n /\ Writer(n, a).app = a /\ Writer(n, a).at = "temp"
BY DEF Writer, Commands

(* A new job enters the queue. *)
LEMMA StartOK ==
  ASSUME NEW o, NEW x, NEW c, NEW r, NEW s, NEW q, Sorts(x, c, r), JobInv(o, s, q, x, c, r),
         x.task = "new",
         NEW y \in JobObjects, y.phase = "queued", y.task \in {"start", "receive"}, y.gen = x.gen,
         y.staged # x.staged => y.local, y.recv = x.recv, y.resumes = x.resumes
  PROVE  JobInv(o, "pending", TRUE, y, c, r)
<1>1. s = "absent" /\ c.kind = "none" /\ x.resumes = 0 /\ x.recv = "none" /\ ~x.staged /\ ~r.rm
  BY DEF Sorts, JobInv, Control, Pairs, Staged, Resuming, RemovalIsFinal
<1>2. y.staged => y.local
  BY <1>1 DEF Sorts, JobObjects
<1>3. Control("pending", TRUE, y, c, r)
  BY <1>1, <1>2 DEF JobInv, Control, Pairs, Receiving, Resuming, Staged, GhostsAreOld,
     RemovalIsFinal, WritersHaveFile
<1>4. Content(o, "pending", y, c, r)
  BY <1>1 DEF JobInv, Content, TargetGood, TempGood, Early
<1> QED BY <1>3, <1>4 DEF JobInv

(* The runner of an upload, or the end of its reception, starts the first run. *)
LEMMA FirstRunOK ==
  ASSUME NEW o, NEW x, NEW c, NEW r, NEW s \in {"pending", "running"}, NEW q,
         Sorts(x, c, r), JobInv(o, s, q, x, c, r), x.resumes = 0, c.kind = "none",
         NEW y \in JobObjects, y.phase = "uploading", y.task = x.task, y.gen >= x.gen,
         y.local, y.recv = "none", y.resumes = 0,
         NEW d \in Commands, d.kind = "write", d.lo = 1, d.app = FALSE, d.at = "temp",
         NEW p \in RemoteFileSets, p.temp = <<>>, p.target = r.target, p.orphans = r.orphans,
         p.ghosts = r.ghosts, p.rm = r.rm, p.lateMove = r.lateMove
  PROVE  JobInv(o, "running", FALSE, y, d, p)
<1>1. /\ x.task \notin {"new", "deleted"} /\ ~r.rm
      /\ r.target \in {o, Whole} /\ ~r.lateMove /\ r.orphans = {}
  BY DEF Sorts, JobInv, Control, Pairs, RemovalIsFinal, Content, TargetGood, TempGood
<1>2. Source(0) = <<>> /\ <<>> # NoFile /\ Len(<<>>) = 0
  BY EmptyIsSource, SourceProperties DEF NoFile
<1>3. \A g \in p.ghosts : g < y.gen
  <2>1. x.task # "resume"
    BY DEF JobInv, Control, Resuming
  <2>2. \A g \in r.ghosts : g < x.gen /\ g \in Nat
    BY <2>1 DEF Sorts, JobInv, Control, GhostsAreOld, RemoteFileSets
  <2>3. x.gen \in Nat /\ y.gen \in Nat
    BY DEF Sorts, JobObjects
  <2> QED BY <2>2, <2>3
<1>4. Control("running", FALSE, y, d, p)
  <2>1. Pairs("running", FALSE, y, d) /\ Receiving("running", y) /\ Staged("running", y)
    BY <1>1 DEF Pairs, Receiving, Staged, PhasesOf
  <2>2. Resuming(y)
    BY DEF JobInv, Control, Resuming
  <2>3. GhostsAreOld("running", y, p) /\ RemovalIsFinal("running", y, p)
    BY <1>1, <1>3 DEF GhostsAreOld, RemovalIsFinal
  <2>4. WritersHaveFile(d, p)
    BY <1>1, <1>2, UploadAssumption DEF WritersHaveFile
  <2> QED BY <2>1, <2>2, <2>3, <2>4 DEF Control
<1>5. TargetGood(o, "running", d, p)
  BY <1>1 DEF TargetGood
<1>6. TempGood("running", y, d, p)
  <2>1. 0 \in 0..Blocks /\ 0 \in (1 - 1)..Blocks
    BY UploadAssumption
  <2>2. IsStart(p.temp)
    BY <1>2, <2>1 DEF IsStart
  <2>3. Ahead(p.temp, d)
    BY <1>2, <2>1 DEF Ahead
  <2> QED BY <1>1, <2>2, <2>3 DEF TempGood
<1> QED BY <1>4, <1>5, <1>6 DEF JobInv, Content

(* `wc -c` answered: the resumed run writes on at the end of what is there. *)
LEMMA SizeOK ==
  ASSUME NEW o, NEW x, NEW c, NEW r, NEW s, NEW q,
         Sorts(x, c, r), JobInv(o, s, q, x, c, r), c.kind = "size",
         NEW n \in 0..Blocks, n = IF r.temp = NoFile THEN 0 ELSE Len(r.temp),
         NEW y \in JobObjects, y.phase = "uploading", y.task = x.task, y.gen = x.gen,
         y.local, y.recv = "none", y.resumes = x.resumes,
         NEW d \in Commands, d.kind = "write", d.lo = n + 1, d.app <=> n > 0, d.at = "temp",
         NEW p \in RemoteFileSets, p.temp = IF n > 0 THEN r.temp ELSE <<>>, p.target = r.target,
         p.orphans = r.orphans, p.ghosts = r.ghosts, p.rm = r.rm, p.lateMove = r.lateMove
  PROVE  JobInv(o, s, q, y, d, p)
<1>1. /\ s = "running" /\ x.phase = "resuming" /\ x.resumes > 0 /\ ~r.rm
      /\ x.task \notin {"new", "deleted"}
  BY DEF Sorts, JobInv, Control, Pairs, PhasesOf, RemovalIsFinal, Resuming
<1>2. Source(0) = <<>> /\ <<>> # NoFile /\ Len(<<>>) = 0
  BY EmptyIsSource, SourceProperties DEF NoFile
<1>3. p.temp # NoFile /\ Len(p.temp) = n
  BY <1>2 DEF Sorts, RemoteFileSets
<1>4. Control(s, q, y, d, p)
  <2>1. Pairs(s, q, y, d) /\ Receiving(s, y) /\ Staged(s, y)
    BY <1>1 DEF JobInv, Control, Pairs, Receiving, Staged, PhasesOf
  <2>2. Resuming(y)
    BY <1>1 DEF JobInv, Control, Resuming
  <2>3. GhostsAreOld(s, y, p) /\ RemovalIsFinal(s, y, p)
    BY <1>1 DEF JobInv, Control, GhostsAreOld, RemovalIsFinal
  <2>4. d.lo \in 1..(Blocks + 1)
    BY UploadAssumption
  <2>5. p.temp = NoFile \/ \A b \in DOMAIN p.temp : p.temp[b] \in 0..Blocks
    BY <1>2 DEF JobInv, Control, WritersHaveFile
  <2>6. WritersHaveFile(d, p)
    BY <1>3, <2>4, <2>5 DEF WritersHaveFile
  <2> QED BY <2>1, <2>2, <2>3, <2>6 DEF Control
<1>5. ASSUME x.resumes <= 1 PROVE TargetGood(o, s, d, p) /\ TempGood(s, y, d, p)
  <2>1. Early(x) /\ TargetGood(o, s, c, r) /\ TempGood(s, x, c, r)
    BY <1>1, <1>5 DEF JobInv, Content, Early
  <2>2. TargetGood(o, s, d, p)
    BY <1>1, <2>1 DEF TargetGood
  <2>3. ~Early(y)
    BY <1>1 DEF Early
  <2>4. /\ \A w \in r.orphans : ~w.app
        /\ r.temp = NoFile \/ IsStart(r.temp)
        /\ r.lateMove => r.temp \in {NoFile, Source(Blocks)}
        /\ r.temp = NoFile => \A w \in r.orphans : w.at # "temp"
    BY <2>1 DEF TempGood, JobInv, Control, WritersHaveFile
  <2>5. p.temp = Source(n)
    <3>1. CASE r.temp = NoFile
      BY <1>2, <3>1
    <3>2. CASE r.temp # NoFile
      <4>1. PICK m \in 0..Blocks : r.temp = Source(m)
        BY <2>4, <3>2 DEF IsStart
      <4>2. m = n
        BY <3>2, <4>1, SourceProperties
      <4> QED BY <1>2, <4>1, <4>2
    <3> QED BY <3>1, <3>2
  <2>6. Ahead(p.temp, d)
    <3>1. CASE n > 0
      BY <2>5, <3>1 DEF Ahead
    <3>2. CASE n = 0
      <4>1. ~d.app /\ d.lo = 1 /\ 0 \in (d.lo - 1)..Blocks
        BY <3>2, UploadAssumption
      <4>2. p.temp = Source(0)
        BY <2>5, <3>2
      <4> QED BY <4>1, <4>2 DEF Ahead
    <3> QED BY <3>1, <3>2
  <2>7. \A w \in p.orphans : w.at = "temp" /\ ~w.app => w.lo <= Len(p.temp) + 1
    <3>1. CASE r.temp = NoFile
      BY <2>4, <3>1
    <3>2. CASE r.temp # NoFile
      BY <1>3, <2>1, <3>2 DEF TempGood
    <3> QED BY <3>1, <3>2
  <2>8. p.lateMove => SizeTells(p.temp)
    BY <2>5 DEF SizeTells, IsStart
  <2>9. ASSUME p.lateMove
        PROVE  /\ d.app => d.lo > Blocks
               /\ Len(p.temp) = d.lo - 1
               /\ d.lo > Blocks \/ \A w \in p.orphans : w.at # "temp"
    <3>1. CASE r.temp = NoFile
      <4>1. n = 0 /\ ~d.app /\ d.lo = 1 /\ \A w \in p.orphans : w.at # "temp"
        BY <2>4, <3>1
      <4> QED BY <1>3, <4>1
    <3>2. CASE r.temp = Source(Blocks) /\ r.temp # NoFile
      <4>1. n = Blocks
        BY <3>2, UploadAssumption, SourceProperties
      <4> QED BY <1>3, <4>1, UploadAssumption
    <3> QED BY <2>4, <2>9, <3>1, <3>2
  <2> QED BY <1>1, <2>2, <2>3, <2>4, <2>6, <2>7, <2>8, <2>9 DEF TempGood
<1> QED BY <1>4, <1>5 DEF JobInv, Content

(* A block lands in the staging file, or in what that file has become. *)
LEMMA LandedProperties ==
  ASSUME NEW r \in RemoteFileSets, NEW w, w.lo \in 1..Blocks, w.app \in BOOLEAN,
         w.at \in {"temp", "target"},
         w.at = "temp" => r.temp # NoFile,
         r.temp = NoFile \/ \A b \in DOMAIN r.temp : r.temp[b] \in 0..Blocks
  PROVE  /\ Landed(r, w) \in RemoteFileSets
         /\ Landed(r, w).temp = IF w.at = "temp" THEN Written(r.temp, w) ELSE r.temp
         /\ Landed(r, w).target = IF w.at = "target" THEN Written(r.target, w) ELSE r.target
         /\ Landed(r, w).orphans = r.orphans
         /\ Landed(r, w).ghosts = r.ghosts
         /\ Landed(r, w).rm = r.rm
         /\ Landed(r, w).lateMove = r.lateMove
         /\ (Landed(r, w).temp = NoFile) <=> (r.temp = NoFile)
         /\ Landed(r, w).temp = NoFile \/
              \A b \in DOMAIN Landed(r, w).temp : Landed(r, w).temp[b] \in 0..Blocks
<1> DEFINE t == IF w.at = "temp" THEN Written(r.temp, w) ELSE r.temp
           u == IF w.at = "target" THEN Written(r.target, w) ELSE r.target
<1>1. r.temp \in Seq(Int) /\ r.target \in Seq(Int)
  BY DEF RemoteFileSets
<1>2. w.lo \in Nat \ {0} /\ w.lo \in 0..Blocks /\ 0 \in 0..Blocks
  BY UploadAssumption
<1>3. t \in Seq(Int) /\ u \in Seq(Int)
  BY <1>1, <1>2, WrittenProperties
<1>4. ASSUME w.at = "temp"
      PROVE  t # NoFile /\ \A b \in DOMAIN t : t[b] \in 0..Blocks
  <2>1. \A b \in DOMAIN t : t[b] \in 0..Blocks
    <3>1. t = Written(r.temp, w) /\ \A b \in DOMAIN r.temp : r.temp[b] \in 0..Blocks
      BY <1>4
    <3>2. \A k \in DOMAIN Written(r.temp, w) :
            \/ Written(r.temp, w)[k] \in {w.lo, 0}
            \/ k \in DOMAIN r.temp /\ Written(r.temp, w)[k] = r.temp[k]
      BY <1>1, <1>2, WrittenProperties
    <3> HIDE DEF t
    <3> QED BY <1>2, <3>1, <3>2
  <2>2. 1 \in DOMAIN NoFile /\ NoFile[1] \notin 0..Blocks
    BY UploadAssumption DEF NoFile
  <2> HIDE DEF t
  <2> QED BY <2>1, <2>2
<1>5. (t = NoFile <=> r.temp = NoFile) /\ (t = NoFile \/ \A b \in DOMAIN t : t[b] \in 0..Blocks)
  <2>1. CASE w.at = "temp"
    <3> HIDE DEF t
    <3> QED BY <1>4, <2>1
  <2>2. CASE w.at # "temp"
    BY <2>2
  <2> QED BY <2>1, <2>2
<1>6. Landed(r, w) = [r EXCEPT !.temp = t, !.target = u]
  BY DEF Landed
<1> HIDE DEF t, u
<1>7. /\ [r EXCEPT !.temp = t, !.target = u] \in RemoteFileSets
      /\ [r EXCEPT !.temp = t, !.target = u].temp = t
      /\ [r EXCEPT !.temp = t, !.target = u].target = u
      /\ [r EXCEPT !.temp = t, !.target = u].orphans = r.orphans
      /\ [r EXCEPT !.temp = t, !.target = u].ghosts = r.ghosts
      /\ [r EXCEPT !.temp = t, !.target = u].rm = r.rm
      /\ [r EXCEPT !.temp = t, !.target = u].lateMove = r.lateMove
  BY <1>3 DEF RemoteFileSets
<1> QED BY <1>5, <1>6, <1>7 DEF t, u

(* The start of the source grows, stays, or becomes too long. *)
LEMMA PlacedOnStart ==
  ASSUME NEW n \in 0..Blocks, NEW w, w.lo \in 1..Blocks, w.app = FALSE, w.lo <= n + 1
  PROVE  \E m \in 0..Blocks : /\ Written(Source(n), w) = Source(m)
                              /\ m >= n /\ m >= w.lo /\ (m > n => m = w.lo)
<1>1. n \in Nat /\ w.lo \in 1..(n + 1)
  BY UploadAssumption
<1>2. Written(Source(n), w) = Source(IF w.lo > n THEN w.lo ELSE n)
  BY <1>1, SourceWritten DEF Written
<1> DEFINE m == IF w.lo > n THEN w.lo ELSE n
<1>3. m \in 0..Blocks /\ m >= n /\ m >= w.lo /\ (m > n => m = w.lo)
  BY <1>1, UploadAssumption
<1>4. Written(Source(n), w) = Source(m)
  BY <1>2
<1> HIDE DEF m
<1> QED BY <1>3, <1>4

LEMMA StartLength ==
  ASSUME NEW n \in 0..Blocks
  PROVE  Source(n) \in Seq(Int) /\ Len(Source(n)) = n /\ Source(n) # NoFile
BY SourceProperties, UploadAssumption

(* cat writes one more block. *)
LEMMA CatOK ==
  ASSUME NEW o, NEW x, NEW c, NEW r, NEW s, NEW q,
         Sorts(x, c, r), JobInv(o, s, q, x, c, r), c.kind = "write", c.lo <= Blocks,
         NEW d \in Commands, d.kind = "write", d.lo = c.lo + 1, d.app = c.app, d.at = c.at
  PROVE  Landed(r, c) \in RemoteFileSets /\ JobInv(o, s, q, x, d, Landed(r, c))
<1> DEFINE p == Landed(r, c)
<1>1. /\ c.lo \in 1..Blocks /\ c.app \in BOOLEAN /\ c.at \in {"temp", "target"}
      /\ c.at = "temp" => r.temp # NoFile
      /\ r.temp = NoFile \/ \A b \in DOMAIN r.temp : r.temp[b] \in 0..Blocks
      /\ r.temp \in Seq(Int) /\ r.target \in Seq(Int)
  BY UploadAssumption DEF Sorts, JobInv, Control, WritersHaveFile, Commands, RemoteFileSets
<1>2. /\ p \in RemoteFileSets
      /\ p.temp = IF c.at = "temp" THEN Written(r.temp, c) ELSE r.temp
      /\ p.target = IF c.at = "target" THEN Written(r.target, c) ELSE r.target
      /\ p.orphans = r.orphans /\ p.ghosts = r.ghosts /\ p.rm = r.rm /\ p.lateMove = r.lateMove
      /\ (p.temp = NoFile) <=> (r.temp = NoFile)
      /\ p.temp = NoFile \/ \A b \in DOMAIN p.temp : p.temp[b] \in 0..Blocks
  BY <1>1, LandedProperties DEF Sorts
<1> HIDE DEF p
<1>3. Control(s, q, x, d, p)
  <2>1. Pairs(s, q, x, d)
    BY DEF JobInv, Control, Pairs
  <2>2. Receiving(s, x) /\ Resuming(x) /\ Staged(s, x) /\ GhostsAreOld(s, x, p) /\ RemovalIsFinal(s, x, p)
    BY <1>2 DEF JobInv, Control, GhostsAreOld, RemovalIsFinal
  <2>3. WritersHaveFile(d, p)
    <3>1. d.lo \in 1..(Blocks + 1)
      BY <1>1, UploadAssumption
    <3> QED BY <1>1, <1>2, <3>1 DEF JobInv, Control, WritersHaveFile
  <2> QED BY <2>1, <2>2, <2>3 DEF Control
<1>4. ASSUME x.resumes <= 1 PROVE TargetGood(o, s, d, p) /\ TempGood(s, x, d, p)
  <2>1. TargetGood(o, s, c, r) /\ TempGood(s, x, c, r)
    BY <1>4 DEF JobInv, Content
  <2>2. c.at = "temp" /\ Ahead(r.temp, c)
    BY <1>1, <2>1, UploadAssumption DEF TempGood
  <2>0. /\ Early(x) => ~c.app
        /\ r.lateMove /\ c.app => c.lo > Blocks
        /\ r.lateMove => Len(r.temp) = c.lo - 1 /\ (c.lo > Blocks \/ \A w \in r.orphans : w.at # "temp")
    BY <2>1, <2>2 DEF TempGood
  <2>3. p.temp = Written(r.temp, c) /\ p.target = r.target /\ p.temp \in Seq(Int)
    BY <1>2, <2>2 DEF RemoteFileSets
  <2>4. TargetGood(o, s, d, p)
    BY <1>2, <2>1, <2>3 DEF TargetGood
  <2>5. CASE c.app
    <3>1. p.temp = Append(r.temp, c.lo) /\ Len(p.temp) = Len(r.temp) + 1
      BY <1>1, <2>3, <2>5 DEF Written
    <3>2. Ahead(p.temp, d)
      <4>1. c.lo > 1 /\ (Len(r.temp) >= c.lo \/ r.temp = Source(c.lo - 1))
        BY <2>2, <2>5 DEF Ahead
      <4>2. CASE Len(r.temp) >= c.lo
        BY <1>1, <2>5, <3>1, <4>1, <4>2 DEF Ahead
      <4>3. CASE r.temp = Source(c.lo - 1)
        <5>1. c.lo - 1 \in Nat /\ (c.lo - 1) + 1 = c.lo /\ d.lo - 1 = c.lo
          BY <1>1
        <5>2. p.temp = Source(d.lo - 1)
          BY <3>1, <4>3, <5>1, SourceAppended
        <5>3. d.lo > 1 /\ d.app
          BY <1>1, <2>5
        <5> QED BY <5>2, <5>3 DEF Ahead
      <4> QED BY <4>1, <4>2, <4>3
    <3>3. ~Early(x) /\ ~r.lateMove
      <4>1. ~(c.lo > Blocks)
        BY <1>1, UploadAssumption
      <4> QED BY <2>0, <2>5, <4>1
    <3>4. \A w \in p.orphans : ~w.app
      BY <1>2, <2>1 DEF TempGood
    <3>5. \A w \in p.orphans : w.at = "temp" /\ ~w.app => w.lo <= Len(p.temp) + 1
      <4>1. ASSUME NEW w \in p.orphans, w.at = "temp", ~w.app PROVE w.lo <= Len(p.temp) + 1
        <5>1. w.lo <= Len(r.temp) + 1 /\ w.lo \in Nat /\ Len(r.temp) \in Nat
          BY <1>1, <1>2, <2>1, <4>1 DEF TempGood, Sorts, RemoteFileSets, Leftovers
        <5> QED BY <3>1, <5>1
      <4> QED BY <4>1
    <3>6. x.resumes # 0
      BY <3>3 DEF Early
    <3> QED BY <1>2, <2>2, <2>4, <3>2, <3>3, <3>4, <3>5, <3>6 DEF TempGood
  <2>6. CASE ~c.app
    <3>1. PICK n \in (c.lo - 1)..Blocks : r.temp = Source(n)
      BY <2>2, <2>6 DEF Ahead
    <3>2. n \in 0..Blocks /\ c.lo <= n + 1 /\ c.app = FALSE
      BY <1>1, <2>6
    <3>3. PICK m \in 0..Blocks : p.temp = Source(m) /\ m >= n /\ m >= c.lo /\ (m > n => m = c.lo)
      BY <1>1, <2>3, <3>1, <3>2, PlacedOnStart
    <3>4. Len(p.temp) = m /\ Len(r.temp) = n
      BY <3>1, <3>2, <3>3, StartLength
    <3>5. Ahead(p.temp, d)
      <4>1. m \in (d.lo - 1)..Blocks /\ ~d.app
        BY <1>1, <2>6, <3>3
      <4> QED BY <3>3, <4>1 DEF Ahead
    <3>6. IsStart(p.temp) /\ SizeTells(p.temp)
      BY <3>3 DEF IsStart, SizeTells
    <3>7. \A w \in p.orphans : w.at = "temp" /\ ~w.app => w.lo <= Len(p.temp) + 1
      <4>1. ASSUME NEW w \in p.orphans, w.at = "temp", ~w.app PROVE w.lo <= Len(p.temp) + 1
        <5>1. w.lo <= n + 1 /\ w.lo \in Nat
          BY <1>1, <1>2, <2>1, <3>4, <4>1 DEF TempGood, Sorts, RemoteFileSets, Leftovers
        <5> QED BY <3>2, <3>3, <3>4, <5>1
      <4> QED BY <4>1
    <3>8. \A w \in p.orphans : ~w.app
      BY <1>2, <2>1 DEF TempGood
    <3>9. ASSUME p.lateMove
          PROVE  ~Early(x) /\ Len(p.temp) = d.lo - 1 /\ \A w \in p.orphans : w.at # "temp"
      <4>1. Len(r.temp) = c.lo - 1 /\ \A w \in r.orphans : w.at # "temp"
        <5>1. ~(c.lo > Blocks)
          BY <1>1, UploadAssumption
        <5> QED BY <1>2, <2>0, <3>9, <5>1
      <4>2. n = c.lo - 1 /\ m = c.lo
        BY <1>1, <3>2, <3>3, <3>4, <4>1
      <4>3. ~Early(x)
        <5>1. n # Blocks /\ r.temp # NoFile /\ Len(Source(Blocks)) = Blocks
          BY <1>1, <3>1, <3>2, <4>2, StartLength, UploadAssumption
        <5> QED BY <1>2, <2>1, <3>4, <3>9, <5>1 DEF TempGood
      <4> QED BY <1>1, <1>2, <3>4, <4>1, <4>2, <4>3
    <3>10. x.resumes = 0 /\ (s \in {"pending", "running"} \/ x.task = "new") =>
             ~p.lateMove /\ p.orphans = {}
      BY <1>2, <2>1 DEF TempGood
    <3> QED BY <1>2, <2>2, <2>4, <2>6, <3>5, <3>6, <3>7, <3>8, <3>9, <3>10 DEF TempGood
  <2> QED BY <2>5, <2>6
<1>5. JobInv(o, s, q, x, d, p)
  BY <1>3, <1>4 DEF JobInv, Content
<1> QED BY <1>2, <1>5 DEF p

(* A killed cat still writes a block: w is what was left of it. *)
LEMMA OrphanOK ==
  ASSUME NEW o, NEW x, NEW c, NEW r, NEW s, NEW q,
         Sorts(x, c, r), JobInv(o, s, q, x, c, r), NEW w \in r.orphans,
         NEW p \in RemoteFileSets,
         p.temp = Landed(r, w).temp, p.target = Landed(r, w).target,
         p.ghosts = r.ghosts, p.rm = r.rm, p.lateMove = r.lateMove,
         \A v \in p.orphans : v \in r.orphans \/ (v.lo = w.lo + 1 /\ v.app = w.app /\ v.at = w.at)
  PROVE  JobInv(o, s, q, x, c, p)
<1>1. /\ w.lo \in 1..Blocks /\ w.app \in BOOLEAN /\ w.at \in {"temp", "target"}
      /\ w.at = "temp" => r.temp # NoFile
      /\ r.temp = NoFile \/ \A b \in DOMAIN r.temp : r.temp[b] \in 0..Blocks
      /\ r.temp \in Seq(Int) /\ r.target \in Seq(Int)
  BY DEF Sorts, JobInv, Control, WritersHaveFile, RemoteFileSets, Leftovers
<1>2. /\ p.temp = IF w.at = "temp" THEN Written(r.temp, w) ELSE r.temp
      /\ p.target = IF w.at = "target" THEN Written(r.target, w) ELSE r.target
      /\ (p.temp = NoFile) <=> (r.temp = NoFile)
      /\ p.temp = NoFile \/ \A b \in DOMAIN p.temp : p.temp[b] \in 0..Blocks
  BY <1>1, LandedProperties DEF Sorts
<1>3. Control(s, q, x, c, p)
  <2>1. \A v \in p.orphans : v.at = "temp" => p.temp # NoFile
    BY <1>1, <1>2 DEF JobInv, Control, WritersHaveFile
  <2>2. WritersHaveFile(c, p)
    BY <1>2, <2>1 DEF JobInv, Control, WritersHaveFile
  <2> QED BY <2>2 DEF JobInv, Control, GhostsAreOld, RemovalIsFinal
<1>4. ASSUME x.resumes <= 1 PROVE TargetGood(o, s, c, p) /\ TempGood(s, x, c, p)
  <2>1. TargetGood(o, s, c, r) /\ TempGood(s, x, c, r)
    BY <1>4 DEF JobInv, Content
  <2>2. ~(x.resumes = 0 /\ (s \in {"pending", "running"} \/ x.task = "new"))
    BY <2>1 DEF TempGood
  <2>3. Blocks \in 0..Blocks /\ Whole = Source(Blocks) /\ Len(Whole) = Blocks
    BY UploadAssumption, StartLength DEF Whole
  <2>4. CASE w.at = "target"
    <3>1. p.temp = r.temp /\ p.target = Written(Whole, w) /\ r.target = Whole /\ w.app = FALSE
      BY <1>1, <1>2, <2>1, <2>4 DEF TargetGood
    <3>2. p.target = Whole
      <4>1. w.lo <= Blocks + 1
        BY <1>1, UploadAssumption
      <4>2. PICK m \in 0..Blocks : Written(Source(Blocks), w) = Source(m) /\ m >= Blocks
        BY <1>1, <2>3, <3>1, <4>1, PlacedOnStart
      <4>3. m = Blocks
        BY <4>2, UploadAssumption
      <4> QED BY <2>3, <3>1, <4>2, <4>3
    <3>3. \A v \in p.orphans : v.at = "target" => ~v.app
      BY <2>1, <3>1 DEF TargetGood
    <3>4. TargetGood(o, s, c, p)
      BY <2>1, <3>1, <3>2, <3>3 DEF TargetGood
    <3>5. \A v \in p.orphans : v \in r.orphans \/ (v.at # "temp" /\ ~v.app)
      BY <2>4, <3>1
    <3>6. TempGood(s, x, c, p)
      BY <2>1, <2>2, <3>1, <3>5 DEF TempGood
    <3> QED BY <3>4, <3>6
  <2>5. CASE w.at = "temp"
    <3>1. p.temp = Written(r.temp, w) /\ p.target = r.target /\ p.temp \in Seq(Int)
      BY <1>2, <2>5 DEF RemoteFileSets
    <3>2. TargetGood(o, s, c, p)
      BY <2>1, <2>5, <3>1 DEF TargetGood
    <3>3. /\ Len(p.temp) \in Nat /\ Len(r.temp) \in Nat /\ Len(p.temp) >= Len(r.temp)
          /\ ~w.app => Len(p.temp) >= w.lo
      <4>1. w.lo \in Nat \ {0}
        BY <1>1, UploadAssumption
      <4>2. /\ Len(Written(r.temp, w)) >= Len(r.temp)
            /\ ~w.app => Len(Written(r.temp, w)) >= w.lo
        BY <1>1, <4>1, WrittenProperties
      <4> QED BY <1>1, <3>1, <4>2
    <3>4. \A v \in p.orphans : v.at = "temp" /\ ~v.app => v.lo <= Len(p.temp) + 1
      <4>1. ASSUME NEW v \in p.orphans, v.at = "temp", ~v.app PROVE v.lo <= Len(p.temp) + 1
        <5>1. CASE v \in r.orphans
          <6>1. v.lo <= Len(r.temp) + 1 /\ v.lo \in Nat
            BY <1>1, <2>1, <4>1, <5>1 DEF TempGood, Sorts, RemoteFileSets, Leftovers
          <6> QED BY <3>3, <6>1
        <5>2. CASE v.lo = w.lo + 1 /\ v.app = w.app
          <6>1. ~w.app
            BY <4>1, <5>2
          <6> QED BY <1>1, <3>3, <5>2, <6>1
        <5> QED BY <4>1, <5>1, <5>2
      <4> QED BY <4>1
    <3>5. CASE w.app
      <4>1. ~Early(x) /\ ~r.lateMove /\ c.kind = "none"
        BY <2>1, <3>5 DEF TempGood
      <4>2. TempGood(s, x, c, p)
        BY <2>2, <3>4, <4>1 DEF TempGood
      <4> QED BY <3>2, <4>2
    <3>6. CASE ~w.app
      <4>1. w.lo <= Len(r.temp) + 1 /\ w.app = FALSE
        BY <1>1, <2>1, <2>5, <3>6 DEF TempGood
      <4>2. ASSUME NEW n \in 0..Blocks, r.temp = Source(n)
            PROVE  \E m \in 0..Blocks : p.temp = Source(m) /\ Len(p.temp) = m /\ m >= n /\ (m > n => m = w.lo)
        <5>1. w.lo <= n + 1
          BY <4>1, <4>2, StartLength
        <5>2. PICK m \in 0..Blocks : Written(Source(n), w) = Source(m) /\ m >= n /\ (m > n => m = w.lo)
          BY <1>1, <4>1, <5>1, PlacedOnStart
        <5> QED BY <3>1, <4>2, <5>2, StartLength
      <4>3. IsStart(r.temp) => IsStart(p.temp)
        BY <4>2 DEF IsStart
      <4>4. r.temp = Source(Blocks) => p.temp = Source(Blocks)
        <5>1. ASSUME r.temp = Source(Blocks) PROVE p.temp = Source(Blocks)
          <6>1. PICK m \in 0..Blocks : p.temp = Source(m) /\ m >= Blocks
            BY <2>3, <4>2, <5>1
          <6>2. m = Blocks
            BY <6>1, UploadAssumption
          <6> QED BY <6>1, <6>2
        <5> QED BY <5>1
      <4>5. SizeTells(r.temp) => SizeTells(p.temp)
        <5>1. r.temp # NoFile
          BY <1>1, <2>5
        <5>2. Len(r.temp) > Blocks => Len(p.temp) > Blocks
          BY <3>3, UploadAssumption
        <5> QED BY <4>3, <5>1, <5>2 DEF SizeTells
      <4>6. ASSUME c.kind = "write"
            PROVE  c.at = "temp" /\ Ahead(p.temp, c)
        <5>1. c.at = "temp" /\ Ahead(r.temp, c)
          BY <1>1, <2>1, <2>5, <4>6 DEF TempGood
        <5>0. c.lo \in 1..(Blocks + 1) /\ c.app \in BOOLEAN
          BY <4>6 DEF JobInv, Control, WritersHaveFile, Sorts, Commands
        <5>2. CASE c.app
          <6>1. c.lo > 1 /\ (Len(r.temp) >= c.lo \/ r.temp = Source(c.lo - 1))
            BY <5>1, <5>2 DEF Ahead
          <6>2. CASE Len(r.temp) >= c.lo
            <7>1. Len(p.temp) >= c.lo
              BY <3>3, <5>0, <6>2
            <7> QED BY <5>1, <5>2, <6>1, <7>1 DEF Ahead
          <6>3. CASE r.temp = Source(c.lo - 1)
            <7>1. c.lo - 1 \in 0..Blocks
              BY <5>0, UploadAssumption
            <7>2. PICK m \in 0..Blocks : /\ p.temp = Source(m) /\ Len(p.temp) = m
                                         /\ m >= c.lo - 1 /\ (m > c.lo - 1 => m = w.lo)
              BY <4>2, <6>3, <7>1
            <7>3. m = c.lo - 1 \/ Len(p.temp) >= c.lo
              BY <5>0, <7>2
            <7> QED BY <5>1, <5>2, <6>1, <7>2, <7>3 DEF Ahead
          <6> QED BY <6>1, <6>2, <6>3
        <5>3. CASE ~c.app
          <6>1. PICK n \in (c.lo - 1)..Blocks : r.temp = Source(n)
            BY <5>1, <5>3 DEF Ahead
          <6>2. n \in 0..Blocks
            BY <5>0, <6>1, UploadAssumption
          <6>3. PICK m \in 0..Blocks : p.temp = Source(m) /\ m >= n
            BY <4>2, <6>1, <6>2
          <6>4. m \in (c.lo - 1)..Blocks
            BY <5>0, <6>1, <6>3, UploadAssumption
          <6> QED BY <5>1, <5>3, <6>3, <6>4 DEF Ahead
        <5> QED BY <5>2, <5>3
      <4>7. ASSUME r.lateMove, c.kind = "write"
            PROVE  Len(p.temp) = c.lo - 1 /\ c.lo > Blocks
        <5>1. Len(r.temp) = c.lo - 1 /\ c.lo > Blocks
          BY <2>1, <2>5, <4>6, <4>7 DEF TempGood
        <5>2. c.lo \in 1..(Blocks + 1)
          BY <4>7 DEF JobInv, Control, WritersHaveFile
        <5>3. Len(r.temp) = Blocks /\ r.temp # NoFile /\ SizeTells(r.temp)
          BY <1>1, <2>1, <2>5, <4>7, <5>1, <5>2, UploadAssumption DEF TempGood
        <5>4. PICK n \in 0..Blocks : r.temp = Source(n)
          BY <5>3, UploadAssumption DEF SizeTells, IsStart
        <5>5. n = Blocks
          BY <5>3, <5>4, StartLength
        <5>6. p.temp = Source(Blocks)
          BY <4>4, <5>4, <5>5
        <5> QED BY <2>3, <5>1, <5>3, <5>6
      <4>8. \A v \in p.orphans : v.app => v \in r.orphans
        BY <3>6
      <4>9. /\ Early(x) => (p.temp = NoFile \/ IsStart(p.temp)) /\ (c.kind = "write" => ~c.app /\ c.at = "temp")
            /\ Early(x) \/ r.lateMove \/ c.kind # "none" => \A v \in p.orphans : ~v.app
            /\ c.kind = "commit" \/ r.lateMove => SizeTells(p.temp)
            /\ c.kind = "commit" /\ Early(x) => p.temp = Whole
            /\ r.lateMove /\ Early(x) => p.temp \in {NoFile, Source(Blocks)}
            /\ r.lateMove /\ c.kind = "write" /\ c.app => c.lo > Blocks
        BY <1>2, <2>1, <2>3, <4>3, <4>4, <4>5, <4>8 DEF TempGood
      <4>10. TempGood(s, x, c, p)
        BY <2>2, <3>4, <4>6, <4>7, <4>9 DEF TempGood
      <4> QED BY <3>2, <4>10
    <3> QED BY <3>5, <3>6
  <2> QED BY <1>1, <2>4, <2>5
<1> QED BY <1>3, <1>4 DEF JobInv, Content

(* A command is lost or killed: the job stops, what was in flight of a cat   *)
(* is left behind (w), and a commit script may still run.                   *)
LEMMA KillOK ==
  ASSUME NEW o, NEW x, NEW c, NEW r, NEW s \in {"running", "paused"}, NEW q,
         Sorts(x, c, r), JobInv(o, s, q, x, c, r),
         NEW t \in {"failed", "paused", "cancelled"}, t # "cancelled" => c.kind # "none",
         NEW y \in JobObjects, y.task = x.task, y.phase = x.phase, y.gen >= x.gen,
         y.staged = x.staged, y.recv = x.recv, y.resumes = x.resumes,
         t = "paused" => y.local = x.local,
         NEW p \in RemoteFileSets, p.temp = r.temp, p.target = r.target,
         p.ghosts \subseteq r.ghosts \cup {x.gen},
         p.rm => r.rm \/ t = "cancelled",
         p.lateMove <=> r.lateMove \/ (c.kind = "commit" /\ t = "failed"),
         \A v \in p.orphans :
           \/ v \in r.orphans
           \/ c.kind = "write" /\ c.lo <= Blocks /\ v.lo = c.lo /\ v.app = c.app /\ v.at = c.at
  PROVE  JobInv(o, t, q, y, NoChild, p)
<1>1. /\ x.task \notin {"new", "deleted"} /\ ~r.rm
      /\ s = "paused" => c.kind = "none"
      /\ c.kind # "none" => x.phase # "receiving" /\ x.recv # "open"
      /\ (x.recv # "waiting" /\ x.phase # "queued") \/ s = "paused"
  BY DEF JobInv, Control, Pairs, Receiving, RemovalIsFinal, PhasesOf, Sorts, RemoteFileSets, Commands
<1>2. NoChild.kind = "none" /\ NoChild.at = "temp" /\ NoChild.app = FALSE
  BY NoChildTyped
<1>3. c.kind = "write" => c.lo \in 1..(Blocks + 1) /\ c.app \in BOOLEAN /\ c.at \in {"temp", "target"}
  BY DEF JobInv, Control, WritersHaveFile, Sorts, Commands
<1>4. Control(t, q, y, NoChild, p)
  <2>1. Pairs(t, q, y, NoChild)
    BY <1>1, <1>2 DEF JobInv, Control, Pairs
  <2>2. Receiving(t, y)
    BY <1>1 DEF JobInv, Control, Receiving
  <2>3. Resuming(y) /\ RemovalIsFinal(t, y, p)
    BY <1>1 DEF JobInv, Control, Resuming, RemovalIsFinal
  <2>4. Staged(t, y)
    BY <1>1 DEF JobInv, Control, Staged
  <2>5. GhostsAreOld(t, y, p)
    <3>1. \A g \in p.ghosts : (g < x.gen \/ g = x.gen) /\ g \in Nat
      BY DEF JobInv, Control, GhostsAreOld, Sorts, RemoteFileSets
    <3>2. x.gen \in Nat /\ y.gen \in Nat
      BY DEF Sorts, JobObjects
    <3> QED BY <1>1, <3>1, <3>2 DEF GhostsAreOld
  <2>6. WritersHaveFile(NoChild, p)
    BY <1>2 DEF JobInv, Control, WritersHaveFile
  <2> QED BY <2>1, <2>2, <2>3, <2>4, <2>5, <2>6 DEF Control
<1>5. ASSUME x.resumes <= 1 PROVE TargetGood(o, t, NoChild, p) /\ TempGood(t, y, NoChild, p)
  <2>1. TargetGood(o, s, c, r) /\ TempGood(s, x, c, r)
    BY <1>5 DEF JobInv, Content
  <2>2. ASSUME NEW v \in p.orphans, v \notin r.orphans
        PROVE  /\ c.kind = "write" /\ c.lo <= Blocks /\ v.lo = c.lo /\ v.app = c.app /\ v.at = "temp"
               /\ ~(c.lo > Blocks)
    BY <1>3, <2>1, <2>2, UploadAssumption DEF TempGood
  <2>3. TargetGood(o, t, NoChild, p)
    BY <1>2, <2>1, <2>2 DEF TargetGood
  <2>4. Early(y) <=> Early(x)
    BY DEF Early
  <2>5. \A v \in p.orphans : v.at = "temp" /\ ~v.app => v.lo <= Len(p.temp) + 1
    <3>1. ASSUME NEW v \in p.orphans, v \notin r.orphans, ~v.app PROVE v.lo <= Len(p.temp) + 1
      <4>1. c.at = "temp" /\ ~c.app /\ Ahead(r.temp, c)
        BY <2>1, <2>2, <3>1 DEF TempGood
      <4>2. PICK n \in (c.lo - 1)..Blocks : r.temp = Source(n)
        BY <4>1 DEF Ahead
      <4>3. n \in 0..Blocks
        BY <1>3, <2>2, <3>1, <4>2, UploadAssumption
      <4>4. Len(p.temp) = n
        BY <4>2, <4>3, StartLength
      <4> QED BY <1>3, <2>2, <3>1, <4>2, <4>4
    <3> QED BY <2>1, <3>1 DEF TempGood
  <2>6. Early(y) \/ p.lateMove => \A v \in p.orphans : ~v.app
    <3>1. ASSUME NEW v \in p.orphans, v.app, Early(y) \/ p.lateMove PROVE FALSE
      <4>1. CASE v \in r.orphans
        BY <2>1, <2>4, <3>1, <4>1 DEF TempGood
      <4>2. CASE v \notin r.orphans
        <5>1. c.kind = "write" /\ c.app /\ ~(c.lo > Blocks) /\ c.kind # "commit"
          BY <2>2, <3>1, <4>2
        <5>2. Early(x) \/ r.lateMove
          BY <2>4, <3>1, <5>1
        <5> QED BY <2>1, <5>1, <5>2 DEF TempGood
      <4> QED BY <4>1, <4>2
    <3> QED BY <3>1
  <2>7. /\ p.lateMove => SizeTells(p.temp)
        /\ p.lateMove /\ Early(y) => p.temp \in {NoFile, Source(Blocks)}
        /\ Early(y) => p.temp = NoFile \/ IsStart(p.temp)
    BY <2>1, <2>4 DEF TempGood, Whole
  <2>8. ~(t \in {"pending", "running"} \/ y.task = "new")
    BY <1>1
  <2> QED BY <1>2, <2>3, <2>5, <2>6, <2>7, <2>8 DEF TempGood
<1> QED BY <1>4, <1>5 DEF JobInv, Content

(* cat ended with everything written: the commit script is spawned. *)
LEMMA WriteClosesOK ==
  ASSUME NEW o, NEW x, NEW c, NEW r, NEW s, NEW q, Sorts(x, c, r), JobInv(o, s, q, x, c, r),
         c.kind = "write", c.lo > Blocks,
         NEW y \in JobObjects, y.task = x.task, y.phase = "committing", y.gen = x.gen,
         y.staged = x.staged, y.local = x.local, y.recv = x.recv, y.resumes = x.resumes,
         NEW d \in Commands, d.kind = "commit"
  PROVE  JobInv(o, s, q, y, d, r)
<1>1. s = "running" /\ x.recv = "none" /\ x.phase = "uploading"
  BY DEF JobInv, Control, Pairs, Receiving, PhasesOf, Sorts, JobObjects
<1>2. c.lo = Blocks + 1
  BY UploadAssumption DEF JobInv, Control, WritersHaveFile
<1>3. Control(s, q, y, d, r)
  BY <1>1 DEF JobInv, Control, Pairs, Receiving, Resuming, Staged, GhostsAreOld, RemovalIsFinal,
     WritersHaveFile, PhasesOf
<1>4. ASSUME x.resumes <= 1 PROVE TargetGood(o, s, d, r) /\ TempGood(s, y, d, r)
  <2>1. TargetGood(o, s, c, r) /\ TempGood(s, x, c, r)
    BY <1>4 DEF JobInv, Content
  <2>2. TargetGood(o, s, d, r)
    BY <1>1, <2>1 DEF TargetGood
  <2>3. Early(y) <=> x.resumes = 0
    BY DEF Early
  <2>4. Early(y) => Early(x)
    BY <2>3 DEF Early
  <2>5. c.at = "temp" => SizeTells(r.temp) /\ (~c.app => r.temp = Whole)
    <3>1. CASE c.app /\ c.at = "temp"
      <4>1. Len(r.temp) >= c.lo \/ r.temp = Source(c.lo - 1)
        BY <2>1, <3>1 DEF TempGood, Ahead
      <4>2. c.lo - 1 = Blocks /\ Blocks \in 0..Blocks
        BY <1>2, UploadAssumption
      <4>3. CASE Len(r.temp) >= c.lo
        <5>1. r.temp \in Seq(Int)
          BY DEF Sorts, RemoteFileSets
        <5> QED BY <1>2, <3>1, <4>3, <5>1, UploadAssumption DEF SizeTells
      <4>4. CASE r.temp = Source(c.lo - 1)
        BY <3>1, <4>2, <4>4 DEF SizeTells, IsStart
      <4> QED BY <4>1, <4>3, <4>4
    <3>2. CASE ~c.app /\ c.at = "temp"
      <4>1. PICK n \in (c.lo - 1)..Blocks : r.temp = Source(n)
        BY <2>1, <3>2 DEF TempGood, Ahead
      <4>2. n = Blocks /\ n \in 0..Blocks
        BY <1>2, <4>1, UploadAssumption
      <4> QED BY <4>1, <4>2 DEF SizeTells, IsStart, Whole
    <3> QED BY <3>1, <3>2
  <2>6. c.at # "temp" => r.temp = NoFile
    BY <2>1 DEF TempGood
  <2>7. SizeTells(r.temp)
    BY <2>5, <2>6 DEF SizeTells
  <2>8. Early(y) => r.temp = Whole
    <3>1. ASSUME Early(y) PROVE r.temp = Whole
      <4>1. Early(x) /\ ~c.app /\ ~r.lateMove
        BY <1>1, <2>1, <2>3, <2>4, <3>1 DEF TempGood
      <4>2. c.at = "temp"
        BY <1>1, <2>1, <4>1 DEF TempGood
      <4> QED BY <2>5, <4>1, <4>2
    <3> QED BY <3>1
  <2>9. /\ \A w \in r.orphans : w.at = "temp" /\ ~w.app => w.lo <= Len(r.temp) + 1
        /\ Early(y) => r.temp = NoFile \/ IsStart(r.temp)
        /\ \A w \in r.orphans : ~w.app
        /\ r.lateMove /\ Early(y) => r.temp \in {NoFile, Source(Blocks)}
        /\ y.resumes = 0 => ~r.lateMove /\ r.orphans = {}
    BY <1>1, <2>1, <2>4 DEF TempGood
  <2> QED BY <2>2, <2>7, <2>8, <2>9 DEF TempGood
<1> QED BY <1>3, <1>4 DEF JobInv, Content

LEMMA MovedProperties ==
  ASSUME NEW r \in RemoteFileSets
  PROVE  /\ Moved(r) \in RemoteFileSets
         /\ Moved(r).target = r.temp /\ Moved(r).temp = NoFile /\ Moved(r).lateMove = FALSE
         /\ Moved(r).ghosts = r.ghosts /\ Moved(r).rm = r.rm
         /\ \A v \in Moved(r).orphans :
              v.at = "target" /\ \E w \in r.orphans : w.at = "temp" /\ v.app = w.app
<1> DEFINE K == {[w EXCEPT !.at = "target"] : w \in {v \in r.orphans : v.at = "temp"}}
<1>1. K \in SUBSET Leftovers
  <2>1. ASSUME NEW w \in r.orphans PROVE [w EXCEPT !.at = "target"] \in Leftovers
    <3>1. w \in Leftovers
      BY DEF RemoteFileSets
    <3> QED BY <3>1 DEF Leftovers
  <2> QED BY <2>1
<1>2. \A v \in K : v.at = "target" /\ \E w \in r.orphans : w.at = "temp" /\ v.app = w.app
  <2>1. ASSUME NEW w \in r.orphans
        PROVE  [w EXCEPT !.at = "target"].at = "target" /\ [w EXCEPT !.at = "target"].app = w.app
    <3>1. w \in Leftovers
      BY DEF RemoteFileSets
    <3> QED BY <3>1 DEF Leftovers
  <2> QED BY <2>1
<1>3. NoFile \in Seq(Int) /\ r.temp \in Seq(Int)
  BY DEF NoFile, RemoteFileSets
<1>4. Moved(r) = [r EXCEPT !.target = r.temp, !.temp = NoFile, !.lateMove = FALSE, !.orphans = K]
  BY DEF Moved
<1> HIDE DEF K
<1>5. /\ Moved(r) \in RemoteFileSets
      /\ Moved(r).target = r.temp /\ Moved(r).temp = NoFile /\ Moved(r).lateMove = FALSE
      /\ Moved(r).ghosts = r.ghosts /\ Moved(r).rm = r.rm /\ Moved(r).orphans = K
  BY <1>1, <1>3, <1>4 DEF RemoteFileSets
<1> QED BY <1>2, <1>5

(* The script of this run, or of a run whose channel was lost, moves the file. *)
LEMMA MovedOK ==
  ASSUME NEW o, NEW x, NEW c, NEW r, NEW s, NEW q, Sorts(x, c, r), JobInv(o, s, q, x, c, r),
         r.temp # NoFile, Len(r.temp) = Blocks, c.kind = "commit" \/ r.lateMove,
         NEW d \in Commands, d.lo = c.lo, d.app = c.app,
         \/ c.kind = "commit" /\ d.kind = "moved"
         \/ r.lateMove /\ d.kind = c.kind /\ (IF c.kind = "write" THEN d.at = "target" ELSE d = c)
  PROVE  Moved(r) \in RemoteFileSets /\ JobInv(o, s, q, x, d, Moved(r))
<1> DEFINE p == Moved(r)
<1>1. /\ p \in RemoteFileSets
      /\ p.target = r.temp /\ p.temp = NoFile /\ p.lateMove = FALSE
      /\ p.ghosts = r.ghosts /\ p.rm = r.rm
      /\ \A v \in p.orphans :
           v.at = "target" /\ \E w \in r.orphans : w.at = "temp" /\ v.app = w.app
  BY MovedProperties DEF Sorts
<1> HIDE DEF p
<1>2. Control(s, q, x, d, p)
  <2>1. Pairs(s, q, x, d)
    BY NoChildTyped DEF JobInv, Control, Pairs, PhasesOf
  <2>2. WritersHaveFile(d, p)
    BY <1>1 DEF JobInv, Control, WritersHaveFile
  <2> QED BY <1>1, <2>1, <2>2 DEF JobInv, Control, GhostsAreOld, RemovalIsFinal
<1>3. ASSUME x.resumes <= 1 PROVE TargetGood(o, s, d, p) /\ TempGood(s, x, d, p)
  <2>1. TargetGood(o, s, c, r) /\ TempGood(s, x, c, r)
    BY <1>3 DEF JobInv, Content
  <2>2. r.temp = Whole
    <3>1. SizeTells(r.temp)
      BY <2>1 DEF TempGood
    <3>2. PICK n \in 0..Blocks : r.temp = Source(n)
      BY <3>1, UploadAssumption DEF SizeTells, IsStart
    <3>3. n = Blocks
      BY <3>2, StartLength
    <3> QED BY <3>2, <3>3 DEF Whole
  <2>3. \A v \in p.orphans : v.at = "target" /\ ~v.app
    BY <1>1, <2>1 DEF TempGood
  <2>4. TargetGood(o, s, d, p)
    BY <1>1, <2>2, <2>3 DEF TargetGood
  <2>5. ASSUME d.kind = "write" PROVE d.at = "target" /\ d.lo > Blocks /\ ~Early(x)
    <3>1. c.kind = "write" /\ r.lateMove /\ d.at = "target"
      BY <2>5
    <3>2. (c.lo \in 1..(Blocks + 1) /\ c.at = "temp") \/ c.lo > Blocks
      BY <2>1, <3>1 DEF TempGood, JobInv, Control, WritersHaveFile
    <3>3. c.at = "temp" => Len(r.temp) = c.lo - 1
      BY <2>1, <3>1 DEF TempGood
    <3>4. c.lo > Blocks
      BY <3>2, <3>3, UploadAssumption
    <3>5. ~Early(x)
      <4>1. ASSUME Early(x) PROVE FALSE
        <5>1. s = "running" /\ x.phase = "uploading"
          BY <3>1 DEF JobInv, Control, Pairs, PhasesOf
        <5>2. x.resumes = 0
          BY <4>1, <5>1 DEF Early
        <5> QED BY <2>1, <3>1, <5>1, <5>2 DEF TempGood
      <4> QED BY <4>1
    <3> QED BY <3>1, <3>4, <3>5
  <2>6. ASSUME d.kind = "commit", Early(x) PROVE FALSE
    <3>1. c.kind = "commit" /\ r.lateMove
      BY <2>6
    <3>2. s = "running" /\ x.phase = "committing"
      BY <3>1 DEF JobInv, Control, Pairs, PhasesOf
    <3>3. x.resumes = 0
      BY <2>6, <3>2 DEF Early
    <3> QED BY <2>1, <3>1, <3>2, <3>3 DEF TempGood
  <2>7. x.resumes = 0 /\ (s \in {"pending", "running"} \/ x.task = "new") => p.orphans = {}
    BY <1>1, <2>1 DEF TempGood
  <2> QED BY <1>1, <2>3, <2>4, <2>5, <2>6, <2>7 DEF TempGood, SizeTells
<1> QED BY <1>1, <1>2, <1>3 DEF JobInv, Content, p

(* A script that finds the wrong size, or an existing file, moves nothing. *)
LEMMA RefusedOK ==
  ASSUME NEW o, NEW x, NEW c, NEW r, NEW s, NEW q, Sorts(x, c, r), JobInv(o, s, q, x, c, r),
         c.kind = "commit", NEW d \in Commands, d.kind = "refused"
  PROVE  JobInv(o, s, q, x, d, r)
<1>1. Control(s, q, x, d, r)
  BY DEF JobInv, Control, Pairs, WritersHaveFile, PhasesOf
<1>2. Content(o, s, x, d, r)
  BY DEF JobInv, Content, TargetGood, TempGood
<1> QED BY <1>1, <1>2 DEF JobInv

(* A close handler that throws leaves the run without a command. *)
LEMMA ThrownOK ==
  ASSUME NEW o, NEW x, NEW c, NEW r, NEW s, NEW q, Sorts(x, c, r), JobInv(o, s, q, x, c, r),
         c.kind \in {"size", "write"}, NEW d \in Commands, d.kind = "thrown"
  PROVE  JobInv(o, s, q, x, d, r)
<1>1. Control(s, q, x, d, r)
  BY DEF JobInv, Control, Pairs, WritersHaveFile, PhasesOf
<1>2. Content(o, s, x, d, r)
  BY DEF JobInv, Content, TargetGood, TempGood
<1> QED BY <1>1, <1>2 DEF JobInv

LEMMA LateRefusedOK ==
  ASSUME NEW o, NEW x, NEW c, NEW r, NEW s, NEW q, Sorts(x, c, r), JobInv(o, s, q, x, c, r),
         NEW p \in RemoteFileSets, p.temp = r.temp, p.target = r.target, p.orphans = r.orphans,
         p.ghosts \subseteq r.ghosts, p.rm = r.rm, ~p.lateMove \/ p.lateMove = r.lateMove
  PROVE  JobInv(o, s, q, x, c, p)
<1>1. Control(s, q, x, c, p)
  BY DEF JobInv, Control, GhostsAreOld, RemovalIsFinal, WritersHaveFile
<1>2. p.lateMove => r.lateMove
  OBVIOUS
<1>3. Content(o, s, x, c, p)
  BY <1>2 DEF JobInv, Content, TargetGood, TempGood
<1> QED BY <1>1, <1>3 DEF JobInv

(* The answer of the commit script ends the job. *)
LEMMA CommitClosesOK ==
  ASSUME NEW o, NEW x, NEW c, NEW r, NEW s, NEW q, Sorts(x, c, r), JobInv(o, s, q, x, c, r),
         c.kind \in {"moved", "refused"},
         NEW t, t = IF c.kind = "moved" THEN "done" ELSE "failed",
         NEW y \in JobObjects, y.task = x.task, y.phase = x.phase, y.gen = x.gen,
         y.staged = x.staged, y.recv = x.recv, y.resumes = x.resumes
  PROVE  JobInv(o, t, q, y, NoChild, r)
<1>1. /\ s = "running" /\ x.recv = "none" /\ x.phase = "committing" /\ ~r.rm
      /\ x.task \notin {"new", "deleted"} /\ ~q
  BY DEF JobInv, Control, Pairs, Receiving, PhasesOf, Sorts, JobObjects, RemovalIsFinal
<1>2. NoChild.kind = "none"
  BY NoChildTyped
<1>3. t \in {"done", "failed"}
  OBVIOUS
<1>4. Control(t, q, y, NoChild, r)
  BY <1>1, <1>2, <1>3 DEF JobInv, Control, Pairs, Receiving, Resuming, Staged, GhostsAreOld,
     RemovalIsFinal, WritersHaveFile
<1>5. ASSUME x.resumes <= 1 PROVE TargetGood(o, t, NoChild, r) /\ TempGood(t, y, NoChild, r)
  <2>1. TargetGood(o, s, c, r) /\ TempGood(s, x, c, r)
    BY <1>5 DEF JobInv, Content
  <2>2. TargetGood(o, t, NoChild, r)
    BY <1>2, <2>1 DEF TargetGood
  <2>3. Early(y) <=> Early(x)
    BY DEF Early
  <2> QED BY <1>1, <1>2, <1>3, <2>1, <2>2, <2>3 DEF TempGood
<1> QED BY <1>4, <1>5 DEF JobInv, Content

(* The remote rm takes the staging file from under what still writes to it. *)
LEMMA RemoveOK ==
  ASSUME NEW o, NEW x, NEW c, NEW r, NEW s, NEW q, Sorts(x, c, r), JobInv(o, s, q, x, c, r),
         r.rm,
         NEW p \in RemoteFileSets, p.temp = NoFile, p.target = r.target,
         p.orphans = {w \in r.orphans : w.at # "temp"},
         p.ghosts = r.ghosts, ~p.rm, p.lateMove = r.lateMove
  PROVE  JobInv(o, s, q, x, c, p)
<1>1. s \in {"cancelled", "absent"} /\ c.kind = "none"
  BY DEF JobInv, Control, Pairs, RemovalIsFinal
<1>2. Control(s, q, x, c, p)
  BY <1>1 DEF JobInv, Control, GhostsAreOld, RemovalIsFinal, WritersHaveFile
<1>3. Content(o, s, x, c, p)
  BY <1>1 DEF JobInv, Content, TargetGood, TempGood, SizeTells
<1> QED BY <1>2, <1>3 DEF JobInv

(* What is on the remote host stays, and no command writes before or after. *)
LEMMA QuietContent ==
  ASSUME NEW o, NEW x, NEW c, NEW r, NEW s, NEW y, NEW d, NEW t,
         x \in JobObjects, y \in JobObjects, Content(o, s, x, c, r),
         c.kind = "none", d.kind = "none" \/ (d.kind = "size" /\ Early(y)),
         t # "done" \/ s = "done",
         x.resumes <= y.resumes, Early(y) => Early(x),
         y.resumes = 0 /\ (t \in {"pending", "running"} \/ y.task = "new") =>
           s \in {"pending", "running"} \/ x.task = "new"
  PROVE  Content(o, t, y, d, r)
<1>1. x.resumes \in Nat /\ y.resumes \in Nat
  BY DEF JobObjects
<1>2. ASSUME y.resumes <= 1 PROVE TargetGood(o, t, d, r) /\ TempGood(t, y, d, r)
  <2>1. TargetGood(o, s, c, r) /\ TempGood(s, x, c, r)
    BY <1>1, <1>2 DEF Content
  <2>2. TargetGood(o, t, d, r)
    BY <2>1 DEF TargetGood
  <2>3. y.resumes = 0 => x.resumes = 0
    BY <1>1
  <2> QED BY <2>1, <2>2, <2>3 DEF TempGood
<1> QED BY <1>2 DEF Content

(* A queued job starts to receive, or asks for the size of its staging file. *)
LEMMA AdmittedOK ==
  ASSUME NEW o, NEW x, NEW c, NEW r, NEW q, Sorts(x, c, r), JobInv(o, "pending", q, x, c, r),
         NEW y \in JobObjects, y.task = x.task, y.staged = x.staged, y.local = x.local,
         y.resumes = x.resumes, y.gen >= x.gen, NEW d \in Commands,
         \/ /\ x.task = "receive" /\ y.phase = "receiving" /\ d = c
            /\ y.recv = IF x.recv = "waiting" THEN "open" ELSE x.recv
         \/ /\ x.task = "resume" /\ y.phase = "resuming" /\ d.kind = "size"
            /\ y.recv = x.recv /\ y.gen > x.gen
  PROVE  JobInv(o, "running", FALSE, y, d, r)
<1>1. /\ c.kind = "none" /\ c = NoChild /\ x.phase = "queued" /\ ~r.rm /\ x.recv # "open"
      /\ x.recv = "waiting" => x.task = "receive"
      /\ x.task = "receive" => x.resumes = 0
      /\ x.task = "resume" => x.resumes > 0
  BY DEF JobInv, Control, Pairs, Receiving, Resuming, RemovalIsFinal
<1>2. \A g \in r.ghosts : g < y.gen
  <2>1. \A g \in r.ghosts : g \in Nat /\ (g < x.gen \/ (g = x.gen /\ x.task = "resume"))
    BY DEF Sorts, JobInv, Control, GhostsAreOld, RemoteFileSets
  <2>2. x.gen \in Nat /\ y.gen \in Nat
    BY DEF Sorts, JobObjects
  <2> QED BY <2>1, <2>2
<1>3. x.resumes \in Nat /\ x.recv \in {"none", "waiting", "open"}
  BY DEF Sorts, JobObjects
<1>4. Control("running", FALSE, y, d, r)
  <2>1. Pairs("running", FALSE, y, d)
    BY <1>1 DEF Pairs, PhasesOf
  <2>2. Receiving("running", y) /\ Resuming(y)
    BY <1>1, <1>3 DEF Receiving, Resuming
  <2>3. Staged("running", y) /\ GhostsAreOld("running", y, r) /\ RemovalIsFinal("running", y, r)
    BY <1>1, <1>2 DEF JobInv, Control, Staged, GhostsAreOld, RemovalIsFinal
  <2>4. WritersHaveFile(d, r)
    BY <1>1 DEF JobInv, Control, WritersHaveFile
  <2> QED BY <2>1, <2>2, <2>3, <2>4 DEF Control
<1>5. Early(x) /\ (d.kind = "none" \/ (d.kind = "size" /\ Early(y)))
  BY <1>1 DEF Early
<1>6. x.resumes <= y.resumes
  BY <1>3
<1>7. Content(o, "running", y, d, r)
  BY <1>1, <1>5, <1>6, QuietContent DEF JobInv, Sorts
<1> QED BY <1>4, <1>7 DEF JobInv

(* A queued job leaves the queue without having run. *)
LEMMA LeavesQueueOK ==
  ASSUME NEW o, NEW x, NEW c, NEW r, NEW q, Sorts(x, c, r), JobInv(o, "pending", q, x, c, r),
         NEW t \in {"failed", "paused", "cancelled"},
         NEW y \in JobObjects, y.task = x.task, y.phase = x.phase, y.gen = x.gen,
         y.staged = x.staged, y.resumes = x.resumes,
         t = "paused" => y.local = x.local,
         y.recv = "none" \/ (y.recv = x.recv /\ x.task # "receive")
  PROVE  JobInv(o, t, FALSE, y, c, r)
<1>1. /\ c.kind = "none" /\ c = NoChild /\ x.phase = "queued" /\ ~r.rm /\ x.recv # "open"
      /\ x.recv = "waiting" => x.task = "receive"
      /\ x.task \notin {"new", "deleted"}
  BY DEF JobInv, Control, Pairs, Receiving, Resuming, RemovalIsFinal
<1>2. Control(t, FALSE, y, c, r)
  BY <1>1 DEF JobInv, Control, Pairs, Receiving, Resuming, Staged, GhostsAreOld, RemovalIsFinal,
     WritersHaveFile
<1>3. x.resumes <= y.resumes
  BY DEF Sorts, JobObjects
<1>4. Content(o, t, y, c, r)
  BY <1>1, <1>3, QuietContent DEF JobInv, Sorts, Early
<1> QED BY <1>2, <1>4 DEF JobInv

(* A resumed job in the queue fails there, and stays marked as queued. *)
LEMMA FailedInQueueOK ==
  ASSUME NEW o, NEW x, NEW c, NEW r, NEW q, Sorts(x, c, r), JobInv(o, "pending", q, x, c, r),
         x.task = "resume",
         NEW p \in RemoteFileSets, p.temp = r.temp, p.target = r.target, p.orphans = r.orphans,
         p.ghosts \subseteq r.ghosts, p.rm = r.rm, p.lateMove = r.lateMove
  PROVE  JobInv(o, "failed", q, x, c, p)
<1>1. JobInv(o, "pending", q, x, c, p)
  BY LateRefusedOK
<1>2. /\ c.kind = "none" /\ c = NoChild /\ x.phase = "queued" /\ ~p.rm
      /\ x.recv = "none" /\ x.resumes \in Nat
  BY <1>1 DEF JobInv, Control, Pairs, Receiving, RemovalIsFinal, Sorts, JobObjects
<1>3. Control("failed", q, x, c, p)
  BY <1>1, <1>2 DEF JobInv, Control, Pairs, Receiving, Resuming, Staged, GhostsAreOld,
     RemovalIsFinal, WritersHaveFile
<1>4. Content(o, "failed", x, c, p)
  BY <1>1, <1>2, QuietContent DEF JobInv, Sorts
<1> QED BY <1>3, <1>4 DEF JobInv

(* A stopped job is queued again. *)
LEMMA ResumeOK ==
  ASSUME NEW o, NEW x, NEW c, NEW r, NEW s \in {"paused", "failed"}, NEW q,
         Sorts(x, c, r), JobInv(o, s, q, x, c, r), x.local,
         NEW y \in JobObjects, y.task = "resume", y.phase = "queued", y.gen = x.gen,
         y.local = x.local, y.recv = x.recv, y.resumes = x.resumes + 1
  PROVE  JobInv(o, "pending", TRUE, y, c, r)
<1>1. /\ c.kind = "none" /\ c = NoChild /\ ~r.rm /\ x.recv = "none" /\ x.resumes \in Nat
  BY DEF JobInv, Control, Pairs, Receiving, RemovalIsFinal, Sorts, JobObjects
<1>2. Control("pending", TRUE, y, c, r)
  BY <1>1 DEF JobInv, Control, Pairs, Receiving, Resuming, Staged, GhostsAreOld, RemovalIsFinal,
     WritersHaveFile
<1>3. ASSUME y.resumes <= 1 PROVE Content(o, "pending", y, c, r)
  <2>1. x.resumes = 0 /\ y.resumes = 1
    BY <1>1, <1>3
  <2>2. Early(x) /\ x.resumes <= y.resumes
    BY <2>1 DEF Early
  <2> QED BY <1>1, <2>1, <2>2, QuietContent DEF JobInv, Sorts
<1>4. Content(o, "pending", y, c, r)
  BY <1>3 DEF Content
<1> QED BY <1>2, <1>4 DEF JobInv

(* The request that carries the content comes, ends or breaks off. *)
LEMMA ReceptionOK ==
  ASSUME NEW o, NEW x, NEW c, NEW r, NEW s, NEW q, Sorts(x, c, r), JobInv(o, s, q, x, c, r),
         NEW y \in JobObjects, y.task = x.task, y.phase = x.phase, y.gen = x.gen,
         y.staged = x.staged, y.resumes = x.resumes, NEW t,
         \/ s = "pending" /\ t = s /\ x.task = "receive" /\ y.recv = "waiting" /\ y.local = x.local
         \/ s = "running" /\ t = s /\ x.phase = "receiving" /\ y.recv = "open" /\ y.local = x.local
         \/ s = "running" /\ t = "failed" /\ x.phase = "receiving" /\ y.recv = "none"
         \/ s \in {"cancelled", "absent"} /\ t = s /\ x.recv = "open" /\ y.recv = "none"
  PROVE  JobInv(o, t, q, y, c, r)
<1>1. /\ c.kind = "none" /\ c = NoChild
      /\ x.task = "new" => s = "absent" /\ x.recv # "open"
      /\ s # "absent" => x.task \notin {"new", "deleted"}
  BY DEF JobInv, Control, Pairs, Staged, PhasesOf, Sorts, Commands
<1>2. ~r.rm \/ (t = s /\ x.task # "new")
  BY DEF JobInv, Control, RemovalIsFinal
<1>3. Control(t, q, y, c, r)
  <2>1. Pairs(t, q, y, c) /\ Receiving(t, y) /\ Resuming(y)
    BY <1>1 DEF JobInv, Control, Pairs, Receiving, Resuming
  <2>2. Staged(t, y)
    BY <1>1 DEF JobInv, Control, Staged
  <2>3. GhostsAreOld(t, y, r) /\ RemovalIsFinal(t, y, r) /\ WritersHaveFile(c, r)
    BY <1>2 DEF JobInv, Control, GhostsAreOld, RemovalIsFinal, WritersHaveFile
  <2> QED BY <2>1, <2>2, <2>3 DEF Control
<1>4. x.resumes <= y.resumes
  BY DEF Sorts, JobObjects
<1>5. Content(o, t, y, c, r)
  BY <1>1, <1>4, QuietContent DEF JobInv, Sorts, Early
<1> QED BY <1>3, <1>5 DEF JobInv

(* The record of a settled job is deleted. *)
LEMMA DeletedOK ==
  ASSUME NEW o, NEW x, NEW c, NEW r, NEW s \in Settled, NEW q, Sorts(x, c, r), JobInv(o, s, q, x, c, r),
         NEW y \in JobObjects, y.task = "deleted", y.phase = x.phase, y.gen = x.gen,
         y.staged = x.staged, y.recv = x.recv, y.resumes = x.resumes,
         NEW p \in RemoteFileSets, p.temp = r.temp, p.target = r.target, p.orphans = r.orphans,
         p.ghosts = r.ghosts, p.lateMove = r.lateMove
  PROVE  JobInv(o, "absent", q, y, c, p)
<1>1. c.kind = "none" /\ c = NoChild /\ x.task # "new"
  BY DEF JobInv, Control, Pairs, Settled
<1>2. x.recv = "open" => x.phase = "receiving"
  BY DEF JobInv, Control, Receiving
<1>3. x.recv # "waiting"
  BY DEF JobInv, Control, Receiving, Settled
<1>4. Control("absent", q, y, c, p)
  BY <1>1, <1>2, <1>3 DEF JobInv, Control, Pairs, Receiving, Resuming, Staged, GhostsAreOld,
     RemovalIsFinal, WritersHaveFile
<1>5. Content(o, s, x, c, p)
  BY DEF JobInv, Content, TargetGood, TempGood
<1>6. x.resumes <= y.resumes
  BY DEF Sorts, JobObjects
<1>7. Content(o, "absent", y, c, p)
  BY <1>1, <1>5, <1>6, QuietContent DEF Sorts, Early
<1> QED BY <1>4, <1>7 DEF JobInv

-----------------------------------------------------------------------------
(* Every action keeps the invariant. *)

LEMMA JobChanges ==
  ASSUME UInv, SInv', NEW j \in Jobs, NEW t, NEW u,
         NEW y \in JobObjects, NEW d \in Commands, NEW p \in RemoteFileSets,
         status' = [status EXCEPT ![j] = t], queued' = [queued EXCEPT ![j] = u],
         job' = [job EXCEPT ![j] = y], child' = [child EXCEPT ![j] = d],
         remote' = [remote EXCEPT ![j] = p],
         JobInv(Original(j), t, u, y, d, p)
  PROVE  UInv'
<1>1. /\ status \in [Jobs -> Statuses] /\ queued \in [Jobs -> BOOLEAN]
      /\ job \in [Jobs -> JobObjects] /\ child \in [Jobs -> Commands]
      /\ remote \in [Jobs -> RemoteFileSets]
  BY DEF UInv, SInv, STypeOK, UTypes
<1>2. UTypes'
  BY <1>1 DEF UTypes
<1>3. ASSUME NEW i \in Jobs
      PROVE  JobInv(Original(i), status'[i], queued'[i], job'[i], child'[i], remote'[i])
  <2>1. CASE i = j
    <3>1. status'[i] = t /\ queued'[i] = u /\ job'[i] = y /\ child'[i] = d /\ remote'[i] = p
      BY <1>1, <2>1
    <3> QED BY <2>1, <3>1
  <2>2. CASE i # j
    <3>1. /\ status'[i] = status[i] /\ queued'[i] = queued[i] /\ job'[i] = job[i]
          /\ child'[i] = child[i] /\ remote'[i] = remote[i]
      BY <1>1, <2>2
    <3>2. JobInv(Original(i), status[i], queued[i], job[i], child[i], remote[i])
      BY DEF UInv
    <3> QED BY <3>1, <3>2
  <2> QED BY <2>1, <2>2
<1> QED BY <1>2, <1>3 DEF UInv

LEMMA Same ==
  ASSUME UInv, NEW j \in Jobs
  PROVE  /\ status = [status EXCEPT ![j] = status[j]]
         /\ queued = [queued EXCEPT ![j] = queued[j]]
         /\ job = [job EXCEPT ![j] = job[j]]
         /\ child = [child EXCEPT ![j] = child[j]]
         /\ remote = [remote EXCEPT ![j] = remote[j]]
BY DEF UInv, SInv, STypeOK, UTypes

LEMMA JobFacts ==
  ASSUME UInv, NEW j \in Jobs
  PROVE  /\ Sorts(job[j], child[j], remote[j])
         /\ JobInv(Original(j), status[j], queued[j], job[j], child[j], remote[j])
         /\ status[j] \in Statuses /\ queued[j] \in BOOLEAN
         /\ status[j] = "pending" => queued[j]
         /\ queued[j] => status[j] \in {"pending", "failed", "absent"}
<1>1. status[j] \in Statuses /\ queued[j] \in BOOLEAN /\ (status[j] = "pending" => queued[j])
  BY DEF UInv, SInv, STypeOK, QueueAgrees
<1> QED BY <1>1 DEF UInv, UTypes, Sorts, JobInv, Control, Pairs

LEMMA StartKeepsInv ==
  ASSUME UInv, SInv', NEW j \in Jobs, UStart(j)
  PROVE  UInv'
<1> DEFINE x == job[j]
           a == [x EXCEPT !.task = "start", !.phase = "queued", !.staged = TRUE, !.local = TRUE]
           b == [x EXCEPT !.task = "receive", !.phase = "queued"]
<1>1. x \in JobObjects /\ x.task = "new"
  BY JobFacts DEF Sorts, UStart, StartUploadJob, StartUploadReceiveJob
<1>2. /\ status' = [status EXCEPT ![j] = "pending"] /\ queued' = [queued EXCEPT ![j] = TRUE]
      /\ child' = [child EXCEPT ![j] = child[j]] /\ remote' = [remote EXCEPT ![j] = remote[j]]
  BY Same DEF UStart, StartUploadJob, StartUploadReceiveJob, QueueTransferJob
<1>3. /\ a \in JobObjects /\ a.phase = "queued" /\ a.task = "start" /\ a.gen = x.gen
      /\ a.local = TRUE /\ a.recv = x.recv /\ a.resumes = x.resumes
  BY <1>1 DEF JobObjects, Tasks, Phases
<1>4. /\ b \in JobObjects /\ b.phase = "queued" /\ b.task = "receive" /\ b.gen = x.gen
      /\ b.staged = x.staged /\ b.recv = x.recv /\ b.resumes = x.resumes
  BY <1>1 DEF JobObjects, Tasks, Phases
<1>5. job' = [job EXCEPT ![j] = a] \/ job' = [job EXCEPT ![j] = b]
  <2>1. CASE StartUploadJob(j)
    BY <2>1 DEF StartUploadJob, UInv, UTypes
  <2>2. CASE StartUploadReceiveJob(j)
    BY <2>2 DEF StartUploadReceiveJob, UInv, UTypes
  <2> QED BY <2>1, <2>2 DEF UStart
<1> HIDE DEF a, b
<1>6. JobInv(Original(j), "pending", TRUE, a, child[j], remote[j])
  BY <1>1, <1>3, JobFacts, StartOK
<1>7. JobInv(Original(j), "pending", TRUE, b, child[j], remote[j])
  BY <1>1, <1>4, JobFacts, StartOK
<1>8. child[j] \in Commands /\ remote[j] \in RemoteFileSets
  BY JobFacts DEF Sorts
<1> HIDE DEF x
<1>9. CASE job' = [job EXCEPT ![j] = a]
  BY <1>2, <1>3, <1>6, <1>8, <1>9, JobChanges
<1>10. CASE job' = [job EXCEPT ![j] = b]
  BY <1>2, <1>4, <1>7, <1>8, <1>10, JobChanges
<1> QED BY <1>5, <1>9, <1>10

LEMMA NothingChanges ==
  ASSUME UInv, SInv', UNCHANGED <<status, queued, job, child, remote>>
  PROVE  UInv'
<1>1. UTypes'
  BY DEF UInv, UTypes
<1>2. ASSUME NEW i \in Jobs
      PROVE  JobInv(Original(i), status'[i], queued'[i], job'[i], child'[i], remote'[i])
  BY DEF UInv
<1> QED BY <1>1, <1>2 DEF UInv

LEMMA TransferStarts ==
  ASSUME UInv, NEW j \in Jobs, NEW n \in Nat, NEW g \in Nat, StartUploadTransfer(j, n, g)
  PROVE  \E y \in JobObjects, d \in Commands, p \in RemoteFileSets :
           /\ job' = [job EXCEPT ![j] = y] /\ child' = [child EXCEPT ![j] = d]
           /\ remote' = [remote EXCEPT ![j] = p]
           /\ y.phase = "uploading" /\ y.task = job[j].task /\ y.gen = g
           /\ y.local /\ y.recv = "none" /\ y.resumes = job[j].resumes
           /\ d.kind = "write" /\ d.lo = n + 1 /\ (d.app <=> n > 0) /\ d.at = "temp"
           /\ p.temp = IF n > 0 THEN remote[j].temp ELSE <<>>
           /\ p.target = remote[j].target /\ p.orphans = remote[j].orphans
           /\ p.ghosts = remote[j].ghosts /\ p.rm = remote[j].rm
           /\ p.lateMove = remote[j].lateMove
<1> DEFINE x == job[j]
           r == remote[j]
           y == [x EXCEPT !.phase = "uploading", !.gen = g, !.staged = TRUE, !.local = TRUE, !.recv = "none"]
           f == IF n > 0 THEN r.temp ELSE <<>>
           p == [r EXCEPT !.temp = f]
           d == Writer(n + 1, n > 0)
<1>1. x \in JobObjects /\ r \in RemoteFileSets
  BY DEF UInv, UTypes
<1>2. f \in Seq(Int)
  BY <1>1 DEF RemoteFileSets
<1>3. /\ y \in JobObjects /\ y.phase = "uploading" /\ y.task = x.task /\ y.gen = g
      /\ y.local = TRUE /\ y.recv = "none" /\ y.resumes = x.resumes
  BY <1>1 DEF JobObjects, Phases
<1>4. job' = [job EXCEPT ![j] = y]
  BY DEF StartUploadTransfer, UInv, UTypes
<1>5. remote' = [remote EXCEPT ![j] = p]
  BY DEF StartUploadTransfer, UInv, UTypes
<1>6. /\ d \in Commands /\ d.kind = "write" /\ d.lo = n + 1 /\ d.app = (n > 0) /\ d.at = "temp"
      /\ child' = [child EXCEPT ![j] = d]
  <2>1. (n > 0) \in BOOLEAN /\ n + 1 \in Nat
    OBVIOUS
  <2> QED BY <2>1, WriterTyped, ZenonT(40) DEF StartUploadTransfer
<1> HIDE DEF f
<1>7. /\ p \in RemoteFileSets /\ p.temp = f /\ p.target = r.target /\ p.orphans = r.orphans
      /\ p.ghosts = r.ghosts /\ p.rm = r.rm /\ p.lateMove = r.lateMove
  BY <1>1, <1>2 DEF RemoteFileSets
<1>8. p.temp = IF n > 0 THEN r.temp ELSE <<>>
  BY <1>7 DEF f
<1> HIDE DEF y, p, d
<1>9. y.local /\ (d.app <=> n > 0)
  BY <1>3, <1>6
<1> QED BY <1>3, <1>4, <1>5, <1>6, <1>7, <1>8, <1>9

(* The first run, of a job admitted from the queue or received completely. *)
LEMMA FirstRunKeepsInv ==
  ASSUME UInv, SInv', NEW j \in Jobs, status[j] \in {"pending", "running"},
         job[j].resumes = 0, child[j].kind = "none",
         StartUploadTransfer(j, 0, job[j].gen + 1),
         status' = [status EXCEPT ![j] = "running"], queued' = [queued EXCEPT ![j] = FALSE]
  PROVE  UInv'
<1>1. job[j].gen + 1 \in Nat /\ job[j].gen \in Nat /\ 0 \in Nat
  BY DEF UInv, UTypes, JobObjects
<1>2. PICK y \in JobObjects, d \in Commands, p \in RemoteFileSets :
           /\ job' = [job EXCEPT ![j] = y] /\ child' = [child EXCEPT ![j] = d]
           /\ remote' = [remote EXCEPT ![j] = p]
           /\ y.phase = "uploading" /\ y.task = job[j].task /\ y.gen = job[j].gen + 1
           /\ y.local /\ y.recv = "none" /\ y.resumes = job[j].resumes
           /\ d.kind = "write" /\ d.lo = 0 + 1 /\ (d.app <=> 0 > 0) /\ d.at = "temp"
           /\ p.temp = IF 0 > 0 THEN remote[j].temp ELSE <<>>
           /\ p.target = remote[j].target /\ p.orphans = remote[j].orphans
           /\ p.ghosts = remote[j].ghosts /\ p.rm = remote[j].rm
           /\ p.lateMove = remote[j].lateMove
  BY <1>1, TransferStarts
<1>3. y.gen >= job[j].gen /\ d.lo = 1 /\ d.app = FALSE /\ p.temp = <<>>
  BY <1>1, <1>2 DEF Commands
<1>4. JobInv(Original(j), "running", FALSE, y, d, p)
  <2> DEFINE x == job[j]
             c == child[j]
             r == remote[j]
             o == Original(j)
             s == status[j]
             q == queued[j]
  <2>1. s \in {"pending", "running"} /\ Sorts(x, c, r) /\ JobInv(o, s, q, x, c, r) /\ x.resumes = 0 /\ c.kind = "none"
    BY JobFacts
  <2>2. /\ y.phase = "uploading" /\ y.task = x.task /\ y.gen >= x.gen
        /\ y.local /\ y.recv = "none" /\ y.resumes = 0
        /\ d.kind = "write" /\ d.lo = 1 /\ d.app = FALSE /\ d.at = "temp"
        /\ p.temp = <<>> /\ p.target = r.target /\ p.orphans = r.orphans
        /\ p.ghosts = r.ghosts /\ p.rm = r.rm /\ p.lateMove = r.lateMove
    BY <1>2, <1>3
  <2> HIDE DEF x, c, r, o, s, q
  <2>3. JobInv(o, "running", FALSE, y, d, p)
    BY <2>1, <2>2, FirstRunOK, ZenonT(40)
  <2> QED BY <2>3 DEF o
<1> QED BY <1>2, <1>4, JobChanges

LEMMA OrphansLeftProperties ==
  ASSUME UInv, NEW j \in Jobs, NEW left \in OrphansLeft(j)
  PROVE  /\ left \in SUBSET Leftovers
         /\ \A v \in left :
              \/ v \in remote[j].orphans
              \/ /\ child[j].kind = "write" /\ child[j].lo <= Blocks
                 /\ v.lo = child[j].lo /\ v.app = child[j].app /\ v.at = child[j].at
<1> DEFINE c == child[j]
<1>1. /\ c \in Commands /\ job[j].gen \in Nat /\ remote[j].orphans \in SUBSET Leftovers
      /\ c.kind = "write" => c.lo \in 1..(Blocks + 1)
  BY JobFacts DEF Sorts, JobObjects, RemoteFileSets, JobInv, Control, WritersHaveFile
<1>2. CASE left = remote[j].orphans
  BY <1>1, <1>2
<1>3. CASE c.kind = "write" /\
           \E h \in c.lo..Blocks :
             left = remote[j].orphans \cup
                      {[gen |-> job[j].gen, lo |-> c.lo, hi |-> h, app |-> c.app, at |-> c.at]}
  <2>1. PICK h \in c.lo..Blocks :
             left = remote[j].orphans \cup
                      {[gen |-> job[j].gen, lo |-> c.lo, hi |-> h, app |-> c.app, at |-> c.at]}
    BY <1>3
  <2>2. c.lo <= Blocks /\ h \in 1..Blocks /\ c.lo \in 1..Blocks
    BY <1>1, <1>3, <2>1, UploadAssumption
  <2> DEFINE w == [gen |-> job[j].gen, lo |-> c.lo, hi |-> h, app |-> c.app, at |-> c.at]
  <2>3. w \in Leftovers /\ w.lo = c.lo /\ w.app = c.app /\ w.at = c.at
    BY <1>1, <2>2 DEF Leftovers, Commands
  <2>4. left = remote[j].orphans \cup {w}
    BY <2>1
  <2> HIDE DEF w
  <2> QED BY <1>1, <1>3, <2>2, <2>3, <2>4
<1> QED BY <1>2, <1>3 DEF OrphansLeft

LEMMA ReceiveKeepsInv ==
  ASSUME UInv, SInv', NEW j \in Jobs, UReceive(j)
  PROVE  UInv'
<1> DEFINE x == job[j]
           c == child[j]
           r == remote[j]
<1>1. /\ x \in JobObjects /\ c \in Commands /\ r \in RemoteFileSets /\ Sorts(x, c, r)
      /\ JobInv(Original(j), status[j], queued[j], x, c, r)
  BY JobFacts DEF Sorts
<1>2. /\ status = [status EXCEPT ![j] = status[j]] /\ queued = [queued EXCEPT ![j] = queued[j]]
      /\ child = [child EXCEPT ![j] = c] /\ remote = [remote EXCEPT ![j] = r]
  BY Same
<1>3. ASSUME NEW v \in {"waiting", "open"}
      PROVE  LET y == [x EXCEPT !.recv = v]
             IN  /\ y \in JobObjects /\ y.task = x.task /\ y.phase = x.phase /\ y.gen = x.gen
                 /\ y.staged = x.staged /\ y.resumes = x.resumes /\ y.recv = v /\ y.local = x.local
                 /\ [job EXCEPT ![j].recv = v] = [job EXCEPT ![j] = y]
  BY <1>1 DEF JobObjects, UInv, UTypes
<1>4. ASSUME PostContentEarly(j) PROVE UInv'
  <2> DEFINE y == [x EXCEPT !.recv = "waiting"]
  <2>1. /\ status[j] = "pending" /\ x.task = "receive" /\ job' = [job EXCEPT ![j].recv = "waiting"]
        /\ UNCHANGED <<status, queued, child, remote>>
    BY <1>4 DEF PostContentEarly, AwaitStart
  <2>2. /\ y \in JobObjects /\ y.task = x.task /\ y.phase = x.phase /\ y.gen = x.gen
        /\ y.staged = x.staged /\ y.resumes = x.resumes /\ y.recv = "waiting" /\ y.local = x.local
        /\ job' = [job EXCEPT ![j] = y]
    BY <1>3, <2>1
  <2> HIDE DEF y
  <2>3. JobInv(Original(j), status[j], queued[j], y, c, r)
    BY <1>1, <2>1, <2>2, ReceptionOK
  <2>4. /\ status' = [status EXCEPT ![j] = status[j]] /\ queued' = [queued EXCEPT ![j] = queued[j]]
        /\ child' = [child EXCEPT ![j] = c] /\ remote' = [remote EXCEPT ![j] = r]
    BY <1>2, <2>1
  <2> HIDE DEF x, c, r
  <2> QED BY <1>1, <2>2, <2>3, <2>4, JobChanges
<1>5. ASSUME PostContent(j) PROVE UInv'
  <2> DEFINE y == [x EXCEPT !.recv = "open"]
  <2>1. /\ status[j] = "running" /\ x.phase = "receiving" /\ job' = [job EXCEPT ![j].recv = "open"]
        /\ UNCHANGED <<status, queued, child, remote>>
    BY <1>5 DEF PostContent, svars
  <2>2. /\ y \in JobObjects /\ y.task = x.task /\ y.phase = x.phase /\ y.gen = x.gen
        /\ y.staged = x.staged /\ y.resumes = x.resumes /\ y.recv = "open" /\ y.local = x.local
        /\ job' = [job EXCEPT ![j] = y]
    BY <1>3, <2>1
  <2> HIDE DEF y
  <2>3. JobInv(Original(j), status[j], queued[j], y, c, r)
    BY <1>1, <2>1, <2>2, ReceptionOK
  <2>4. /\ status' = [status EXCEPT ![j] = status[j]] /\ queued' = [queued EXCEPT ![j] = queued[j]]
        /\ child' = [child EXCEPT ![j] = c] /\ remote' = [remote EXCEPT ![j] = r]
    BY <1>2, <2>1
  <2> HIDE DEF x, c, r
  <2> QED BY <1>1, <2>2, <2>3, <2>4, JobChanges
<1>6. ASSUME ReceiveFails(j) \/ ReceiveStops(j) PROVE UInv'
  <2> DEFINE y == [x EXCEPT !.recv = "none", !.local = FALSE]
  <2>1. /\ job' = [job EXCEPT ![j].recv = "none", ![j].local = FALSE]
        /\ UNCHANGED <<queued, child, remote>>
        /\ \/ /\ status[j] = "running" /\ x.phase = "receiving"
              /\ status' = [status EXCEPT ![j] = "failed"]
           \/ /\ status[j] \in {"cancelled", "absent"} /\ x.recv = "open"
              /\ status' = status
    BY <1>6 DEF ReceiveFails, ReceiveStops, Release, EndWith, svars
  <2>2. /\ y \in JobObjects /\ y.task = x.task /\ y.phase = x.phase /\ y.gen = x.gen
        /\ y.staged = x.staged /\ y.resumes = x.resumes /\ y.recv = "none"
    BY <1>1 DEF JobObjects
  <2>3. job' = [job EXCEPT ![j] = y]
    BY <2>1 DEF UInv, UTypes
  <2> HIDE DEF y
  <2>4. PICK t : /\ status' = [status EXCEPT ![j] = t]
                 /\ \/ status[j] = "running" /\ t = "failed" /\ x.phase = "receiving"
                    \/ status[j] \in {"cancelled", "absent"} /\ t = status[j] /\ x.recv = "open"
    BY <1>2, <2>1
  <2>5. JobInv(Original(j), t, queued[j], y, c, r)
    BY <1>1, <2>2, <2>4, ReceptionOK
  <2>6. /\ queued' = [queued EXCEPT ![j] = queued[j]]
        /\ child' = [child EXCEPT ![j] = c] /\ remote' = [remote EXCEPT ![j] = r]
    BY <1>2, <2>1
  <2> HIDE DEF x, c, r
  <2> QED BY <1>1, <2>2, <2>3, <2>4, <2>5, <2>6, JobChanges
<1>7. ASSUME ReceiveCompletes(j) PROVE UInv'
  <2>1. /\ status[j] = "running" /\ x.recv = "open" /\ UNCHANGED <<status, queued>>
        /\ StartUploadTransfer(j, 0, job[j].gen + 1)
    BY <1>7 DEF ReceiveCompletes, svars
  <2>2. x.phase = "receiving" /\ c.kind = "none" /\ queued[j] = FALSE
    <3>1. x.phase = "receiving" /\ c.kind = "none" /\ ~queued[j] /\ queued[j] \in BOOLEAN
      BY <1>1, <2>1, JobFacts DEF JobInv, Control, Pairs, Receiving, PhasesOf, Commands
    <3> QED BY <3>1
  <2>3. x.resumes = 0
    BY <1>1, <2>2 DEF JobInv, Control, Resuming, JobObjects
  <2>4. status' = [status EXCEPT ![j] = "running"] /\ queued' = [queued EXCEPT ![j] = FALSE]
    BY <1>2, <2>1, <2>2
  <2> QED BY <2>1, <2>2, <2>3, <2>4, FirstRunKeepsInv
<1> QED BY <1>4, <1>5, <1>6, <1>7 DEF UReceive

(* A job that ends because its command was lost, killed or gave a bad answer. *)
LEMMA FailureKeepsInv ==
  ASSUME UInv, SInv', NEW j \in Jobs, child[j].kind # "none",
         status' = [status EXCEPT ![j] = "failed"], queued' = queued, job' = job,
         child' = [child EXCEPT ![j] = NoChild],
         NEW p \in RemoteFileSets, remote' = [remote EXCEPT ![j] = p],
         p.temp = remote[j].temp, p.target = remote[j].target,
         p.ghosts \subseteq remote[j].ghosts \cup {job[j].gen}, p.rm = remote[j].rm,
         p.lateMove <=> remote[j].lateMove \/ child[j].kind = "commit",
         p.orphans = remote[j].orphans \/ p.orphans \in OrphansLeft(j)
  PROVE  UInv'
<1> DEFINE x == job[j]
           c == child[j]
           r == remote[j]
<1>1. /\ x \in JobObjects /\ c \in Commands /\ r \in RemoteFileSets /\ Sorts(x, c, r)
      /\ JobInv(Original(j), status[j], queued[j], x, c, r)
  BY JobFacts DEF Sorts
<1>2. status[j] = "running"
  BY RunningHolds
<1>3. \A v \in p.orphans :
        \/ v \in r.orphans
        \/ c.kind = "write" /\ c.lo <= Blocks /\ v.lo = c.lo /\ v.app = c.app /\ v.at = c.at
  BY OrphansLeftProperties
<1>4. JobInv(Original(j), "failed", queued[j], x, NoChild, p)
  <2>1. /\ x.gen >= x.gen /\ "failed" # "cancelled" /\ status[j] \in {"running", "paused"}
        /\ p.lateMove <=> r.lateMove \/ (c.kind = "commit" /\ "failed" = "failed")
    BY <1>1, <1>2 DEF JobObjects
  <2> HIDE DEF x, c, r
  <2>2. /\ p.temp = r.temp /\ p.target = r.target /\ p.ghosts \subseteq r.ghosts \cup {x.gen}
        /\ p.rm => r.rm
        /\ c.kind # "none"
    BY DEF r, c, x
  <2> QED BY <1>1, <1>3, <2>1, <2>2, KillOK, SMTT(40)
<1>5. job' = [job EXCEPT ![j] = x] /\ queued' = [queued EXCEPT ![j] = queued[j]]
  BY Same
<1>6. NoChild \in Commands
  BY NoChildTyped
<1> HIDE DEF x, c, r
<1> QED BY <1>1, <1>4, <1>5, <1>6, JobChanges

LEMMA SizeClosesKeepsInv ==
  ASSUME UInv, SInv', NEW j \in Jobs, SizeCloses(j)
  PROVE  UInv'
<1> DEFINE x == job[j]
           c == child[j]
           r == remote[j]
           n == IF r.temp = NoFile THEN 0 ELSE Len(r.temp)
<1>1. /\ x \in JobObjects /\ c \in Commands /\ r \in RemoteFileSets /\ Sorts(x, c, r)
      /\ JobInv(Original(j), status[j], queued[j], x, c, r)
  BY JobFacts DEF Sorts
<1>2. n \in Nat /\ c.kind = "size"
  BY <1>1 DEF RemoteFileSets, SizeCloses
<1>3. CASE n <= Blocks /\ StartUploadTransfer(j, n, job[j].gen) /\ UNCHANGED svars
  <2>1. job[j].gen \in Nat /\ n \in 0..Blocks
    BY <1>1, <1>2, <1>3, UploadAssumption DEF JobObjects
  <2> HIDE DEF n
  <2>2. PICK y \in JobObjects, d \in Commands, p \in RemoteFileSets :
           /\ job' = [job EXCEPT ![j] = y] /\ child' = [child EXCEPT ![j] = d]
           /\ remote' = [remote EXCEPT ![j] = p]
           /\ y.phase = "uploading" /\ y.task = job[j].task /\ y.gen = job[j].gen
           /\ y.local /\ y.recv = "none" /\ y.resumes = job[j].resumes
           /\ d.kind = "write" /\ d.lo = n + 1 /\ (d.app <=> n > 0) /\ d.at = "temp"
           /\ p.temp = IF n > 0 THEN remote[j].temp ELSE <<>>
           /\ p.target = remote[j].target /\ p.orphans = remote[j].orphans
           /\ p.ghosts = remote[j].ghosts /\ p.rm = remote[j].rm
           /\ p.lateMove = remote[j].lateMove
    BY <1>2, <1>3, <2>1, TransferStarts
  <2>3. JobInv(Original(j), status[j], queued[j], y, d, p)
    <3>1. n = IF r.temp = NoFile THEN 0 ELSE Len(r.temp)
      BY DEF n
    <3> HIDE DEF x, c, r
    <3>2. /\ y.task = x.task /\ y.gen = x.gen /\ y.resumes = x.resumes
          /\ p.temp = IF n > 0 THEN r.temp ELSE <<>>
          /\ p.target = r.target /\ p.orphans = r.orphans
          /\ p.ghosts = r.ghosts /\ p.rm = r.rm /\ p.lateMove = r.lateMove
      BY <2>2 DEF x, r
    <3>3. /\ y.phase = "uploading" /\ y.local /\ y.recv = "none"
          /\ d.kind = "write" /\ d.lo = n + 1 /\ (d.app <=> n > 0) /\ d.at = "temp"
      BY <2>2
    <3> QED BY <1>1, <1>2, <2>1, <3>1, <3>2, <3>3, SizeOK, ZenonT(60)
  <2>4. status' = [status EXCEPT ![j] = status[j]] /\ queued' = [queued EXCEPT ![j] = queued[j]]
    BY <1>3, Same DEF svars
  <2> QED BY <2>2, <2>3, <2>4, JobChanges
<1>4. CASE Release(j, "failed") /\ child' = [child EXCEPT ![j] = NoChild] /\ UNCHANGED <<job, remote>>
  <2>1. /\ status' = [status EXCEPT ![j] = "failed"] /\ queued' = queued
        /\ remote' = [remote EXCEPT ![j] = r]
    BY <1>4, Same DEF Release, EndWith
  <2>2. c.kind # "none" /\ (r.lateMove <=> r.lateMove \/ c.kind = "commit")
    BY <1>2
  <2> QED BY <1>1, <1>4, <2>1, <2>2, FailureKeepsInv
<1> QED BY <1>3, <1>4 DEF SizeCloses

LEMMA ChildFailsKeepsInv ==
  ASSUME UInv, SInv', NEW j \in Jobs, ChildFails(j)
  PROVE  UInv'
<1> DEFINE r == remote[j]
           m == r.lateMove \/ child[j].kind = "commit"
<1>1. r \in RemoteFileSets
  BY JobFacts DEF Sorts
<1>2. PICK left \in OrphansLeft(j) :
        remote' = [remote EXCEPT ![j].orphans = left, ![j].lateMove = @ \/ child[j].kind = "commit"]
  BY DEF ChildFails
<1>3. left \in SUBSET Leftovers /\ m \in BOOLEAN
  BY <1>1, OrphansLeftProperties DEF RemoteFileSets
<1>4. remote' = [remote EXCEPT ![j] = [r EXCEPT !.orphans = left, !.lateMove = m]]
  BY <1>2 DEF UInv, UTypes
<1>5. m <=> r.lateMove \/ child[j].kind = "commit"
  OBVIOUS
<1> HIDE DEF m
<1> DEFINE p == [r EXCEPT !.orphans = left, !.lateMove = m]
<1>6. /\ p \in RemoteFileSets /\ p.temp = r.temp /\ p.target = r.target /\ p.ghosts = r.ghosts
      /\ p.rm = r.rm /\ p.lateMove = m /\ p.orphans = left
  BY <1>1, <1>3 DEF RemoteFileSets
<1> HIDE DEF p
<1>7. /\ child[j].kind # "none" /\ status' = [status EXCEPT ![j] = "failed"] /\ queued' = queued
      /\ job' = job /\ child' = [child EXCEPT ![j] = NoChild]
  BY DEF ChildFails, Release, EndWith
<1>8. remote' = [remote EXCEPT ![j] = p] /\ p.orphans \in OrphansLeft(j)
  BY <1>2, <1>4, <1>6 DEF p
<1>9. p.lateMove <=> r.lateMove \/ child[j].kind = "commit"
  BY <1>5, <1>6
<1> QED BY <1>6, <1>7, <1>8, <1>9, FailureKeepsInv

LEMMA ReadFailsKeepsInv ==
  ASSUME UInv, SInv', NEW j \in Jobs, ReadFails(j)
  PROVE  UInv'
<1> DEFINE r == remote[j]
           G == r.ghosts \cup {job[j].gen}
<1>1. r \in RemoteFileSets /\ job[j].gen \in Nat
  BY JobFacts DEF Sorts, JobObjects
<1>2. PICK left \in OrphansLeft(j) :
        remote' = [remote EXCEPT ![j].orphans = left, ![j].ghosts = @ \cup {job[j].gen}]
  BY DEF ReadFails
<1>3. left \in SUBSET Leftovers /\ G \in SUBSET Nat
  BY <1>1, OrphansLeftProperties DEF RemoteFileSets
<1>4. remote' = [remote EXCEPT ![j] = [r EXCEPT !.orphans = left, !.ghosts = G]]
  BY <1>2 DEF UInv, UTypes
<1>5. G \subseteq remote[j].ghosts \cup {job[j].gen}
  OBVIOUS
<1> HIDE DEF G
<1> DEFINE p == [r EXCEPT !.orphans = left, !.ghosts = G]
<1>6. /\ p \in RemoteFileSets /\ p.temp = r.temp /\ p.target = r.target /\ p.ghosts = G
      /\ p.rm = r.rm /\ p.lateMove = r.lateMove /\ p.orphans = left
  BY <1>1, <1>3 DEF RemoteFileSets
<1>7. remote' = [remote EXCEPT ![j] = p]
  BY <1>4
<1> HIDE DEF p
<1>8. /\ child[j].kind = "write" /\ status' = [status EXCEPT ![j] = "failed"] /\ queued' = queued
      /\ job' = job /\ child' = [child EXCEPT ![j] = NoChild]
  BY DEF ReadFails, Release, EndWith
<1>9. p.lateMove <=> remote[j].lateMove \/ child[j].kind = "commit"
  BY <1>6, <1>8
<1> QED BY <1>2, <1>5, <1>6, <1>7, <1>8, <1>9, FailureKeepsInv

LEMMA CloseThrowsKeepsInv ==
  ASSUME UInv, SInv', NEW j \in Jobs, CloseThrows(j)
  PROVE  UInv'
<1> DEFINE x == job[j]
           c == child[j]
           r == remote[j]
<1>1. /\ x \in JobObjects /\ c \in Commands /\ r \in RemoteFileSets /\ Sorts(x, c, r)
      /\ JobInv(Original(j), status[j], queued[j], x, c, r)
  BY JobFacts DEF Sorts
<1>2. c.kind \in {"size", "write"} /\ child' = [child EXCEPT ![j] = Thrown]
  BY DEF CloseThrows
<1>3. Thrown \in Commands /\ Thrown.kind = "thrown"
  BY CommandTyped DEF Thrown
<1>4. JobInv(Original(j), status[j], queued[j], x, Thrown, r)
  BY <1>1, <1>2, <1>3, ThrownOK
<1>5. /\ status' = [status EXCEPT ![j] = status[j]] /\ queued' = [queued EXCEPT ![j] = queued[j]]
      /\ job' = [job EXCEPT ![j] = x] /\ remote' = [remote EXCEPT ![j] = r]
  BY Same DEF CloseThrows, svars
<1> HIDE DEF x, c, r
<1> QED BY <1>1, <1>2, <1>3, <1>4, <1>5, JobChanges

LEMMA CatWritesKeepsInv ==
  ASSUME UInv, SInv', NEW j \in Jobs, CatWrites(j)
  PROVE  UInv'
<1> DEFINE x == job[j]
           c == child[j]
           r == remote[j]
           d == [c EXCEPT !.lo = @ + 1]
<1>1. /\ x \in JobObjects /\ c \in Commands /\ r \in RemoteFileSets /\ Sorts(x, c, r)
      /\ JobInv(Original(j), status[j], queued[j], x, c, r)
  BY JobFacts DEF Sorts
<1>2. /\ d \in Commands /\ d.kind = c.kind /\ d.lo = c.lo + 1 /\ d.app = c.app /\ d.at = c.at
  BY <1>1 DEF Commands
<1>3. child' = [child EXCEPT ![j] = d] /\ remote' = [remote EXCEPT ![j] = Landed(r, c)]
  BY DEF CatWrites, UInv, UTypes
<1> HIDE DEF d
<1>4. c.kind = "write" /\ c.lo <= Blocks
  BY DEF CatWrites
<1>5. Landed(r, c) \in RemoteFileSets /\ JobInv(Original(j), status[j], queued[j], x, d, Landed(r, c))
  BY <1>1, <1>2, <1>4, CatOK
<1>6. /\ status' = [status EXCEPT ![j] = status[j]] /\ queued' = [queued EXCEPT ![j] = queued[j]]
      /\ job' = [job EXCEPT ![j] = x]
  BY Same DEF CatWrites, svars
<1> HIDE DEF x, c, r
<1> QED BY <1>1, <1>2, <1>3, <1>5, <1>6, JobChanges

LEMMA WriteClosesKeepsInv ==
  ASSUME UInv, SInv', NEW j \in Jobs, WriteCloses(j)
  PROVE  UInv'
<1> DEFINE x == job[j]
           c == child[j]
           r == remote[j]
           y == [x EXCEPT !.phase = "committing"]
           d == Command("commit")
<1>1. /\ x \in JobObjects /\ c \in Commands /\ r \in RemoteFileSets /\ Sorts(x, c, r)
      /\ JobInv(Original(j), status[j], queued[j], x, c, r)
  BY JobFacts DEF Sorts
<1>2. /\ y \in JobObjects /\ y.task = x.task /\ y.phase = "committing" /\ y.gen = x.gen
      /\ y.staged = x.staged /\ y.local = x.local /\ y.recv = x.recv /\ y.resumes = x.resumes
  BY <1>1 DEF JobObjects, Phases
<1>3. job' = [job EXCEPT ![j] = y] /\ child' = [child EXCEPT ![j] = d]
  BY DEF WriteCloses, UInv, UTypes
<1>4. d \in Commands /\ d.kind = "commit"
  BY CommandTyped
<1> HIDE DEF y, d
<1>5. c.kind = "write" /\ c.lo > Blocks
  BY DEF WriteCloses
<1>6. JobInv(Original(j), status[j], queued[j], y, d, r)
  BY <1>1, <1>2, <1>4, <1>5, WriteClosesOK
<1>7. /\ status' = [status EXCEPT ![j] = status[j]] /\ queued' = [queued EXCEPT ![j] = queued[j]]
      /\ remote' = [remote EXCEPT ![j] = r]
  BY Same DEF WriteCloses, svars
<1> HIDE DEF x, c, r
<1> QED BY <1>1, <1>2, <1>3, <1>4, <1>6, <1>7, JobChanges

LEMMA CommitRunsKeepsInv ==
  ASSUME UInv, SInv', NEW j \in Jobs, CommitRuns(j)
  PROVE  UInv'
<1> DEFINE x == job[j]
           c == child[j]
           r == remote[j]
           d == [c EXCEPT !.kind = IF CommitAllowed(j) THEN "moved" ELSE "refused"]
<1>1. /\ x \in JobObjects /\ c \in Commands /\ r \in RemoteFileSets /\ Sorts(x, c, r)
      /\ JobInv(Original(j), status[j], queued[j], x, c, r)
  BY JobFacts DEF Sorts
<1>2. /\ d \in Commands /\ d.lo = c.lo /\ d.app = c.app
      /\ d.kind = IF CommitAllowed(j) THEN "moved" ELSE "refused"
  BY <1>1 DEF Commands
<1>3. child' = [child EXCEPT ![j] = d]
  BY DEF CommitRuns, UInv, UTypes
<1> HIDE DEF d
<1>4. c.kind = "commit"
  BY DEF CommitRuns
<1>5. PICK p \in RemoteFileSets :
        /\ remote' = [remote EXCEPT ![j] = p]
        /\ JobInv(Original(j), status[j], queued[j], x, d, p)
  <2>1. CASE CommitAllowed(j)
    <3>1. r.temp # NoFile /\ Len(r.temp) = Blocks /\ d.kind = "moved"
      BY <1>2, <2>1 DEF CommitAllowed
    <3>2. Moved(r) \in RemoteFileSets /\ JobInv(Original(j), status[j], queued[j], x, d, Moved(r))
      BY <1>1, <1>2, <1>4, <3>1, MovedOK
    <3>3. remote' = [remote EXCEPT ![j] = Moved(r)]
      BY <2>1 DEF CommitRuns
    <3> QED BY <3>2, <3>3
  <2>2. CASE ~CommitAllowed(j)
    <3>1. remote' = [remote EXCEPT ![j] = r]
      BY <2>2 DEF CommitRuns
    <3>2. d.kind = "refused"
      BY <1>2, <2>2
    <3>3. JobInv(Original(j), status[j], queued[j], x, d, r)
      BY <1>1, <1>2, <1>4, <3>2, RefusedOK
    <3> QED BY <1>1, <3>1, <3>3
  <2> QED BY <2>1, <2>2
<1>6. /\ status' = [status EXCEPT ![j] = status[j]] /\ queued' = [queued EXCEPT ![j] = queued[j]]
      /\ job' = [job EXCEPT ![j] = x]
  BY Same DEF CommitRuns, svars
<1> HIDE DEF x, c, r
<1> QED BY <1>1, <1>2, <1>3, <1>5, <1>6, JobChanges

LEMMA CommitClosesKeepsInv ==
  ASSUME UInv, SInv', NEW j \in Jobs, CommitCloses(j)
  PROVE  UInv'
<1> DEFINE x == job[j]
           c == child[j]
           r == remote[j]
           b == x.local /\ ~(c.kind = "moved" /\ j \in Browser)
           t == IF c.kind = "moved" THEN "done" ELSE "failed"
<1>1. /\ x \in JobObjects /\ c \in Commands /\ r \in RemoteFileSets /\ Sorts(x, c, r)
      /\ JobInv(Original(j), status[j], queued[j], x, c, r)
  BY JobFacts DEF Sorts
<1>2. b \in BOOLEAN
  OBVIOUS
<1>3. job' = [job EXCEPT ![j].local = b]
  BY DEF CommitCloses, UInv, UTypes, JobObjects
<1> HIDE DEF b
<1> DEFINE y == [x EXCEPT !.local = b]
<1>4. /\ y \in JobObjects /\ y.task = x.task /\ y.phase = x.phase /\ y.gen = x.gen
      /\ y.staged = x.staged /\ y.recv = x.recv /\ y.resumes = x.resumes
  BY <1>1, <1>2 DEF JobObjects
<1>5. job' = [job EXCEPT ![j] = y]
  BY <1>3 DEF UInv, UTypes
<1> HIDE DEF y
<1>6. c.kind \in {"moved", "refused"} /\ status' = [status EXCEPT ![j] = t]
  BY DEF CommitCloses, Release, EndWith
<1>7. JobInv(Original(j), t, queued[j], y, NoChild, r)
  BY <1>1, <1>4, <1>6, CommitClosesOK
<1>8. /\ queued' = [queued EXCEPT ![j] = queued[j]] /\ child' = [child EXCEPT ![j] = NoChild]
      /\ remote' = [remote EXCEPT ![j] = r]
  BY Same DEF CommitCloses, Release, EndWith
<1>9. NoChild \in Commands
  BY NoChildTyped
<1> HIDE DEF x, c, r, t
<1> QED BY <1>1, <1>4, <1>5, <1>6, <1>7, <1>8, <1>9, JobChanges

LEMMA TransferKeepsInv ==
  ASSUME UInv, SInv', NEW j \in Jobs, UTransfer(j)
  PROVE  UInv'
BY SizeClosesKeepsInv, CatWritesKeepsInv, WriteClosesKeepsInv, CommitRunsKeepsInv,
   CommitClosesKeepsInv, ChildFailsKeepsInv, ReadFailsKeepsInv, CloseThrowsKeepsInv DEF UTransfer

(* A step of what is on the remote host alone. *)
LEMMA RemoteChanges ==
  ASSUME UInv, SInv', NEW j \in Jobs, UNCHANGED <<svars, job>>,
         NEW d \in Commands, NEW p \in RemoteFileSets,
         child' = [child EXCEPT ![j] = d], remote' = [remote EXCEPT ![j] = p],
         JobInv(Original(j), status[j], queued[j], job[j], d, p)
  PROVE  UInv'
<1>1. /\ status' = [status EXCEPT ![j] = status[j]] /\ queued' = [queued EXCEPT ![j] = queued[j]]
      /\ job' = [job EXCEPT ![j] = job[j]]
  BY Same DEF svars
<1>2. job[j] \in JobObjects
  BY JobFacts DEF Sorts
<1> QED BY <1>1, <1>2, JobChanges

LEMMA OrphanWritesKeepsInv ==
  ASSUME UInv, SInv', NEW j \in Jobs, OrphanWrites(j)
  PROVE  UInv'
<1> DEFINE x == job[j]
           c == child[j]
           r == remote[j]
<1>1. /\ x \in JobObjects /\ c \in Commands /\ r \in RemoteFileSets /\ Sorts(x, c, r)
      /\ JobInv(Original(j), status[j], queued[j], x, c, r)
  BY JobFacts DEF Sorts
<1>2. PICK w \in r.orphans :
        remote' = [remote EXCEPT ![j] =
                     [Landed(r, w) EXCEPT
                        !.orphans = (r.orphans \ {w}) \cup
                                      (IF w.lo < w.hi THEN {[w EXCEPT !.lo = @ + 1]} ELSE {})]]
  BY DEF OrphanWrites, UInv, UTypes
<1>3. w \in Leftovers
  BY <1>1 DEF RemoteFileSets
<1> DEFINE rest == IF w.lo < w.hi THEN {[w EXCEPT !.lo = @ + 1]} ELSE {}
           K == (r.orphans \ {w}) \cup rest
<1>4. rest \in SUBSET Leftovers /\ \A v \in rest : v.lo = w.lo + 1 /\ v.app = w.app /\ v.at = w.at
  <2>1. CASE w.lo < w.hi
    <3> DEFINE v == [w EXCEPT !.lo = @ + 1]
    <3>1. w.lo + 1 \in 1..Blocks
      BY <1>3, <2>1, UploadAssumption DEF Leftovers
    <3>2. v \in Leftovers /\ v.lo = w.lo + 1 /\ v.app = w.app /\ v.at = w.at
      BY <1>3, <3>1 DEF Leftovers
    <3>3. rest = {v}
      BY <2>1
    <3> HIDE DEF v, rest
    <3> QED BY <3>2, <3>3
  <2>2. CASE ~(w.lo < w.hi)
    BY <2>2
  <2> QED BY <2>1, <2>2
<1>5. /\ K \in SUBSET Leftovers
      /\ \A v \in K : v \in r.orphans \/ (v.lo = w.lo + 1 /\ v.app = w.app /\ v.at = w.at)
  <2> HIDE DEF rest
  <2> QED BY <1>1, <1>4 DEF RemoteFileSets
<1>6. remote' = [remote EXCEPT ![j] = [Landed(r, w) EXCEPT !.orphans = K]]
  BY <1>2
<1> HIDE DEF K
<1>7. /\ Landed(r, w) \in RemoteFileSets
      /\ Landed(r, w).ghosts = r.ghosts /\ Landed(r, w).rm = r.rm /\ Landed(r, w).lateMove = r.lateMove
  <2>1. /\ w.lo \in 1..Blocks /\ w.app \in BOOLEAN /\ w.at \in {"temp", "target"}
        /\ w.at = "temp" => r.temp # NoFile
        /\ r.temp = NoFile \/ \A b \in DOMAIN r.temp : r.temp[b] \in 0..Blocks
    BY <1>1, <1>3 DEF JobInv, Control, WritersHaveFile, Leftovers
  <2> QED BY <1>1, <2>1, LandedProperties
<1> DEFINE f == Landed(r, w)
           p == [f EXCEPT !.orphans = K]
<1>8. f \in RemoteFileSets /\ f.ghosts = r.ghosts /\ f.rm = r.rm /\ f.lateMove = r.lateMove
  BY <1>7
<1>9. f.temp = Landed(r, w).temp /\ f.target = Landed(r, w).target /\ remote' = [remote EXCEPT ![j] = p]
  BY <1>6
<1> HIDE DEF f
<1>10. /\ p \in RemoteFileSets /\ p.temp = f.temp /\ p.target = f.target
       /\ p.ghosts = r.ghosts /\ p.rm = r.rm /\ p.lateMove = r.lateMove /\ p.orphans = K
  BY <1>5, <1>8 DEF RemoteFileSets
<1> HIDE DEF p
<1>11. JobInv(Original(j), status[j], queued[j], x, c, p)
  <2>1. /\ p.temp = Landed(r, w).temp /\ p.target = Landed(r, w).target
        /\ \A v \in p.orphans : v \in r.orphans \/ (v.lo = w.lo + 1 /\ v.app = w.app /\ v.at = w.at)
    BY <1>5, <1>9, <1>10
  <2> HIDE DEF x, c, r
  <2> QED BY <1>1, <1>2, <1>10, <2>1, OrphanOK, ZenonT(60)
<1>12. child' = [child EXCEPT ![j] = c] /\ UNCHANGED <<svars, job>>
  BY Same DEF OrphanWrites
<1> QED BY <1>1, <1>9, <1>10, <1>11, <1>12, RemoteChanges

LEMMA LateMoveKeepsInv ==
  ASSUME UInv, SInv', NEW j \in Jobs, LateMoveRuns(j)
  PROVE  UInv'
<1> DEFINE x == job[j]
           c == child[j]
           r == remote[j]
           a == IF child[j].kind = "write" /\ CommitAllowed(j) THEN "target" ELSE child[j].at
           d == [c EXCEPT !.at = a]
<1>1. /\ x \in JobObjects /\ c \in Commands /\ r \in RemoteFileSets /\ Sorts(x, c, r)
      /\ JobInv(Original(j), status[j], queued[j], x, c, r)
  BY JobFacts DEF Sorts
<1>2. r.lateMove /\ UNCHANGED <<svars, job>>
  BY DEF LateMoveRuns
<1>3. a \in {"temp", "target"}
  BY <1>1 DEF Commands
<1>4. child' = [child EXCEPT ![j] = d]
  BY DEF LateMoveRuns, UInv, UTypes
<1>5. a = c.at \/ (c.kind = "write" /\ CommitAllowed(j) /\ a = "target")
  OBVIOUS
<1>50. CommitAllowed(j) /\ c.kind = "write" => a = "target"
  OBVIOUS
<1> HIDE DEF a
<1>6. /\ d \in Commands /\ d.kind = c.kind /\ d.lo = c.lo /\ d.app = c.app /\ d.at = a
      /\ a = c.at => d = c
  BY <1>1, <1>3 DEF Commands
<1> HIDE DEF d
<1>7. PICK p \in RemoteFileSets :
        /\ remote' = [remote EXCEPT ![j] = p]
        /\ JobInv(Original(j), status[j], queued[j], x, d, p)
  <2>1. CASE CommitAllowed(j)
    <3>1. r.temp # NoFile /\ Len(r.temp) = Blocks
      BY <2>1 DEF CommitAllowed
    <3>2. IF c.kind = "write" THEN d.at = "target" ELSE d = c
      BY <1>5, <1>50, <1>6, <2>1
    <3>3. Moved(r) \in RemoteFileSets /\ JobInv(Original(j), status[j], queued[j], x, d, Moved(r))
      BY <1>1, <1>2, <1>6, <3>1, <3>2, MovedOK
    <3>4. remote' = [remote EXCEPT ![j] = Moved(r)]
      BY <2>1 DEF LateMoveRuns
    <3> QED BY <3>3, <3>4
  <2>2. CASE ~CommitAllowed(j)
    <3> DEFINE p == [r EXCEPT !.lateMove = FALSE]
    <3>1. /\ p \in RemoteFileSets /\ p.temp = r.temp /\ p.target = r.target /\ p.orphans = r.orphans
          /\ p.ghosts = r.ghosts /\ p.rm = r.rm /\ p.lateMove = FALSE
      BY <1>1 DEF RemoteFileSets
    <3>2. remote' = [remote EXCEPT ![j] = p]
      BY <2>2 DEF LateMoveRuns
    <3> HIDE DEF p
    <3>3. d = c
      BY <1>5, <1>6, <2>2
    <3>4. p.ghosts \subseteq r.ghosts /\ ~p.lateMove
      BY <3>1
    <3>5. JobInv(Original(j), status[j], queued[j], x, c, p)
      BY <1>1, <3>1, <3>4, LateRefusedOK
    <3> QED BY <3>1, <3>2, <3>3, <3>5
  <2> QED BY <2>1, <2>2
<1> QED BY <1>2, <1>4, <1>6, <1>7, RemoteChanges

LEMMA RemoteKeepsInv ==
  ASSUME UInv, SInv', NEW j \in Jobs, URemote(j)
  PROVE  UInv'
<1> DEFINE x == job[j]
           c == child[j]
           r == remote[j]
<1>1. /\ x \in JobObjects /\ c \in Commands /\ r \in RemoteFileSets /\ Sorts(x, c, r)
      /\ JobInv(Original(j), status[j], queued[j], x, c, r)
  BY JobFacts DEF Sorts
<1>2. ASSUME LateError(j) PROVE UInv'
  <2>1. PICK g \in r.ghosts : remote' = [remote EXCEPT ![j].ghosts = @ \ {g}]
    BY <1>2 DEF LateError
  <2> DEFINE G == r.ghosts \ {g}
             p == [r EXCEPT !.ghosts = G]
  <2>2. remote' = [remote EXCEPT ![j] = p]
    BY <2>1 DEF UInv, UTypes
  <2>3. G \in SUBSET Nat /\ G \subseteq r.ghosts
    BY <1>1 DEF RemoteFileSets
  <2> HIDE DEF G
  <2>4. /\ p \in RemoteFileSets /\ p.temp = r.temp /\ p.target = r.target /\ p.orphans = r.orphans
        /\ p.ghosts = G /\ p.rm = r.rm /\ p.lateMove = r.lateMove
    BY <1>1, <2>3 DEF RemoteFileSets
  <2> HIDE DEF p
  <2>5. p.ghosts \subseteq r.ghosts
    BY <2>3, <2>4
  <2>6. CASE UNCHANGED svars
    <3>1. JobInv(Original(j), status[j], queued[j], x, c, p)
      BY <1>1, <2>4, <2>5, LateRefusedOK
    <3>2. UNCHANGED <<svars, job>> /\ child' = [child EXCEPT ![j] = c]
      BY <1>2, <2>6, Same DEF LateError
    <3> QED BY <1>1, <2>2, <2>4, <3>1, <3>2, RemoteChanges
  <2>7. CASE Release(j, "failed") /\ status[j] = "pending" /\ x.task = "resume"
    <3>1. status[j] = "pending" /\ status' = [status EXCEPT ![j] = "failed"] /\ queued' = queued
      BY <2>7 DEF Release, EndWith
    <3>2. x.task = "resume"
      BY <2>7
    <3>3. JobInv(Original(j), "failed", queued[j], x, c, p)
      BY <1>1, <2>4, <2>5, <3>1, <3>2, FailedInQueueOK
    <3>4. /\ queued' = [queued EXCEPT ![j] = queued[j]] /\ job' = [job EXCEPT ![j] = x]
          /\ child' = [child EXCEPT ![j] = c]
      BY <1>2, <3>1, Same DEF LateError
    <3> HIDE DEF x, c, r
    <3> QED BY <1>1, <2>2, <2>4, <3>1, <3>3, <3>4, JobChanges
  <2> QED BY <1>2, <2>6, <2>7, LateErrorCounts
<1>3. ASSUME RemoveStaging(j) PROVE UInv'
  <2> DEFINE K == {w \in r.orphans : w.at # "temp"}
             p == [r EXCEPT !.rm = FALSE, !.temp = NoFile, !.orphans = K]
  <2>1. remote' = [remote EXCEPT ![j] = p]
    BY <1>3 DEF RemoveStaging, UInv, UTypes
  <2>2. K \in SUBSET Leftovers /\ K = {w \in r.orphans : w.at # "temp"} /\ NoFile \in Seq(Int)
    BY <1>1 DEF RemoteFileSets, NoFile
  <2> HIDE DEF K
  <2>3. /\ p \in RemoteFileSets /\ p.temp = NoFile /\ p.target = r.target /\ p.orphans = K
        /\ p.ghosts = r.ghosts /\ p.rm = FALSE /\ p.lateMove = r.lateMove
    BY <1>1, <2>2 DEF RemoteFileSets
  <2> HIDE DEF p
  <2>4. p.orphans = {w \in r.orphans : w.at # "temp"} /\ ~p.rm /\ r.rm
    BY <1>3, <2>2, <2>3 DEF RemoveStaging
  <2>5. JobInv(Original(j), status[j], queued[j], x, c, p)
    BY <1>1, <2>3, <2>4, RemoveOK
  <2>6. UNCHANGED <<svars, job>> /\ child' = [child EXCEPT ![j] = c]
    BY <1>3, Same DEF RemoveStaging
  <2> QED BY <1>1, <2>1, <2>3, <2>5, <2>6, RemoteChanges
<1> QED BY <1>2, <1>3, OrphanWritesKeepsInv, LateMoveKeepsInv DEF URemote

LEMMA PauseTransferKeepsInv ==
  ASSUME UInv, SInv', NEW j \in Jobs, PauseTransfer(j)
  PROVE  UInv'
<1> DEFINE x == job[j]
           c == child[j]
           r == remote[j]
           y == [x EXCEPT !.gen = @ + 1]
<1>1. /\ x \in JobObjects /\ c \in Commands /\ r \in RemoteFileSets /\ Sorts(x, c, r)
      /\ JobInv(Original(j), status[j], queued[j], x, c, r)
  BY JobFacts DEF Sorts
<1>2. /\ status[j] = "running" /\ x.phase = "uploading"
      /\ status' = [status EXCEPT ![j] = "paused"] /\ queued' = queued
      /\ child' = [child EXCEPT ![j] = NoChild]
  BY DEF PauseTransfer, Release, EndWith
<1>3. c.kind # "none"
  BY <1>1, <1>2 DEF JobInv, Control, Pairs
<1>4. /\ y \in JobObjects /\ y.task = x.task /\ y.phase = x.phase /\ y.gen = x.gen + 1
      /\ y.staged = x.staged /\ y.local = x.local /\ y.recv = x.recv /\ y.resumes = x.resumes
      /\ x.gen \in Nat
  BY <1>1 DEF JobObjects
<1>5. job' = [job EXCEPT ![j] = y]
  BY DEF PauseTransfer, UInv, UTypes
<1> HIDE DEF y
<1>6. PICK left \in OrphansLeft(j) :
        remote' = [remote EXCEPT ![j].orphans = left, ![j].ghosts = @ \cup {job[j].gen}]
  BY DEF PauseTransfer
<1> DEFINE G == r.ghosts \cup {x.gen}
           p == [r EXCEPT !.orphans = left, !.ghosts = G]
<1>7. remote' = [remote EXCEPT ![j] = p]
  BY <1>6 DEF UInv, UTypes
<1>8. left \in SUBSET Leftovers /\ G \in SUBSET Nat /\ G = r.ghosts \cup {x.gen}
  BY <1>1, <1>4, OrphansLeftProperties DEF RemoteFileSets
<1> HIDE DEF G
<1>9. /\ p \in RemoteFileSets /\ p.temp = r.temp /\ p.target = r.target /\ p.orphans = left
      /\ p.ghosts = G /\ p.rm = r.rm /\ p.lateMove = r.lateMove
  BY <1>1, <1>8 DEF RemoteFileSets
<1> HIDE DEF p
<1>10. \A v \in p.orphans :
        \/ v \in r.orphans
        \/ c.kind = "write" /\ c.lo <= Blocks /\ v.lo = c.lo /\ v.app = c.app /\ v.at = c.at
  BY <1>9, OrphansLeftProperties
<1>11. JobInv(Original(j), "paused", queued[j], y, NoChild, p)
  <2>1. /\ y.gen >= x.gen /\ status[j] \in {"running", "paused"}
        /\ p.ghosts \subseteq r.ghosts \cup {x.gen}
        /\ p.lateMove <=> r.lateMove \/ (c.kind = "commit" /\ "paused" = "failed")
    BY <1>2, <1>4, <1>8, <1>9
  <2>2. p.rm => r.rm
    BY <1>9
  <2> HIDE DEF x, c, r
  <2> QED BY <1>1, <1>3, <1>4, <1>9, <1>10, <2>1, <2>2, KillOK, ZenonT(60)
<1>12. queued' = [queued EXCEPT ![j] = queued[j]] /\ NoChild \in Commands
  BY <1>2, Same, NoChildTyped
<1> HIDE DEF x, c, r
<1> QED BY <1>2, <1>4, <1>5, <1>7, <1>9, <1>11, <1>12, JobChanges

LEMMA CancelOK ==
  ASSUME NEW o, NEW x, NEW c, NEW r, NEW s \in {"running", "paused"}, NEW q,
         Sorts(x, c, r), JobInv(o, s, q, x, c, r),
         NEW y \in JobObjects, y.task = x.task, y.phase = x.phase, y.gen >= x.gen,
         y.staged = x.staged, y.recv = x.recv, y.resumes = x.resumes,
         NEW p \in RemoteFileSets, p.temp = r.temp, p.target = r.target,
         p.ghosts \subseteq r.ghosts \cup {x.gen},
         p.lateMove = r.lateMove,
         \A v \in p.orphans :
           \/ v \in r.orphans
           \/ c.kind = "write" /\ c.lo <= Blocks /\ v.lo = c.lo /\ v.app = c.app /\ v.at = c.at
  PROVE  JobInv(o, "cancelled", q, y, NoChild, p)
<1> DEFINE t == "cancelled"
<1>1. /\ p.lateMove <=> r.lateMove \/ (c.kind = "commit" /\ t = "failed")
      /\ p.rm => r.rm \/ t = "cancelled"
      /\ t # "cancelled" => c.kind # "none"
      /\ t = "paused" => y.local = x.local
      /\ t \in {"failed", "paused", "cancelled"}
  OBVIOUS
<1> HIDE DEF t
<1>2. JobInv(o, t, q, y, NoChild, p)
  BY <1>1, KillOK
<1> QED BY <1>2 DEF t

LEMMA CancelTransferKeepsInv ==
  ASSUME UInv, SInv', NEW j \in Jobs, CancelTransfer(j)
  PROVE  UInv'
<1> DEFINE x == job[j]
           c == child[j]
           r == remote[j]
           b == x.local /\ j \notin Browser
<1>1. /\ x \in JobObjects /\ c \in Commands /\ r \in RemoteFileSets /\ Sorts(x, c, r)
      /\ JobInv(Original(j), status[j], queued[j], x, c, r)
  BY JobFacts DEF Sorts
<1>2. /\ status[j] \in {"running", "paused"}
      /\ status' = [status EXCEPT ![j] = "cancelled"] /\ queued' = queued
      /\ child' = [child EXCEPT ![j] = NoChild]
  BY DEF CancelTransfer, Release, EndWith
<1>3. job' = [job EXCEPT ![j].gen = x.gen + 1, ![j].local = b] /\ b \in BOOLEAN
  BY DEF CancelTransfer, UInv, UTypes
<1> HIDE DEF b
<1> DEFINE g == x.gen + 1
           y == [x EXCEPT !.gen = g, !.local = b]
<1>31. x.gen \in Nat /\ g \in Nat /\ g > x.gen /\ g >= x.gen
  BY <1>1 DEF JobObjects
<1>5. job' = [job EXCEPT ![j] = y]
  BY <1>3 DEF UInv, UTypes
<1> HIDE DEF g
<1>4. /\ y \in JobObjects /\ y.task = x.task /\ y.phase = x.phase /\ y.gen = g
      /\ y.staged = x.staged /\ y.recv = x.recv /\ y.resumes = x.resumes
  BY <1>1, <1>3, <1>31 DEF JobObjects
<1> HIDE DEF y
<1>6. PICK left \in OrphansLeft(j) :
        remote' = [remote EXCEPT
         ![j].orphans = left,
         ![j].ghosts = IF child[j] # NoChild THEN @ \cup {job[j].gen} ELSE @,
         ![j].rm = job[j].phase # "receiving"]
  BY DEF CancelTransfer
<1> DEFINE G == IF c # NoChild THEN r.ghosts \cup {x.gen} ELSE r.ghosts
           m == x.phase # "receiving"
<1>7. remote' = [remote EXCEPT ![j] = [r EXCEPT !.orphans = left, !.ghosts = G, !.rm = m]]
  BY <1>6 DEF UInv, UTypes
<1>8. /\ left \in SUBSET Leftovers /\ G \in SUBSET Nat /\ m \in BOOLEAN
      /\ G = r.ghosts \/ G = r.ghosts \cup {x.gen}
  BY <1>1, <1>31, OrphansLeftProperties DEF RemoteFileSets
<1> HIDE DEF G, m
<1> DEFINE p == [r EXCEPT !.orphans = left, !.ghosts = G, !.rm = m]
<1>9. /\ p \in RemoteFileSets /\ p.temp = r.temp /\ p.target = r.target /\ p.orphans = left
      /\ p.ghosts = G /\ p.rm = m /\ p.lateMove = r.lateMove
  BY <1>1, <1>8 DEF RemoteFileSets
<1>90. remote' = [remote EXCEPT ![j] = p]
  BY <1>7
<1> HIDE DEF p
<1>10. \A v \in p.orphans :
        \/ v \in r.orphans
        \/ c.kind = "write" /\ c.lo <= Blocks /\ v.lo = c.lo /\ v.app = c.app /\ v.at = c.at
  BY <1>9, OrphansLeftProperties
<1>11. JobInv(Original(j), "cancelled", queued[j], y, NoChild, p)
  <2>1. y.gen >= x.gen /\ p.ghosts \subseteq r.ghosts \cup {x.gen}
    BY <1>4, <1>31, <1>8, <1>9
  <2>2. status[j] \in {"running", "paused"}
    BY <1>2
  <2> HIDE DEF x, c, r
  <2>3. Sorts(x, c, r) /\ JobInv(Original(j), status[j], queued[j], x, c, r)
    BY <1>1
  <2>4. /\ y.task = x.task /\ y.phase = x.phase /\ y.gen >= x.gen
        /\ y.staged = x.staged /\ y.recv = x.recv /\ y.resumes = x.resumes
        /\ y \in JobObjects
    BY <1>4, <2>1
  <2>5. p \in RemoteFileSets /\ p.temp = r.temp /\ p.target = r.target /\ p.lateMove = r.lateMove
    BY <1>9
  <2> QED BY <1>10, <2>1, <2>2, <2>3, <2>4, <2>5, CancelOK, SMTT(60)
<1>12. queued' = [queued EXCEPT ![j] = queued[j]] /\ NoChild \in Commands
  BY <1>2, Same, NoChildTyped
<1> HIDE DEF x, c, r
<1> QED BY <1>2, <1>4, <1>5, <1>9, <1>90, <1>11, <1>12, JobChanges

LEMMA UserKeepsInv ==
  ASSUME UInv, SInv', NEW j \in Jobs, UUser(j)
  PROVE  UInv'
<1> DEFINE x == job[j]
           c == child[j]
           r == remote[j]
           b == x.local /\ j \notin Browser
<1>1. /\ x \in JobObjects /\ c \in Commands /\ r \in RemoteFileSets /\ Sorts(x, c, r)
      /\ JobInv(Original(j), status[j], queued[j], x, c, r)
  BY JobFacts DEF Sorts
<1>2. b \in BOOLEAN
  OBVIOUS
<1>3. ASSUME PauseQueued(j) PROVE UInv'
  <2> DEFINE y == [x EXCEPT !.recv = "none"]
  <2>1. /\ status[j] = "pending" /\ status' = [status EXCEPT ![j] = "paused"]
        /\ queued' = [queued EXCEPT ![j] = FALSE] /\ child' = [child EXCEPT ![j] = c]
        /\ remote' = [remote EXCEPT ![j] = r]
    BY <1>3, Same DEF PauseQueued, Withdraw
  <2>2. job' = [job EXCEPT ![j] = y]
    BY <1>3 DEF PauseQueued, UInv, UTypes
  <2>3. /\ y \in JobObjects /\ y.task = x.task /\ y.phase = x.phase /\ y.gen = x.gen
        /\ y.staged = x.staged /\ y.resumes = x.resumes /\ y.local = x.local /\ y.recv = "none"
    BY <1>1 DEF JobObjects
  <2> HIDE DEF y
  <2>4. JobInv(Original(j), "paused", FALSE, y, c, r)
    BY <1>1, <2>1, <2>3, LeavesQueueOK
  <2> HIDE DEF x, c, r
  <2> QED BY <1>1, <2>1, <2>2, <2>3, <2>4, JobChanges
<1>4. ASSUME CancelQueued(j) PROVE UInv'
  <2>1. /\ status[j] = "pending" /\ status' = [status EXCEPT ![j] = "cancelled"]
        /\ queued' = [queued EXCEPT ![j] = FALSE] /\ child' = [child EXCEPT ![j] = c]
        /\ remote' = [remote EXCEPT ![j] = r]
    BY <1>4, Same DEF CancelQueued, Withdraw
  <2>2. job' = [job EXCEPT ![j].recv = "none", ![j].local = b]
    BY <1>4 DEF CancelQueued, UInv, UTypes
  <2> HIDE DEF b
  <2> DEFINE y == [x EXCEPT !.recv = "none", !.local = b]
  <2>3. /\ y \in JobObjects /\ y.task = x.task /\ y.phase = x.phase /\ y.gen = x.gen
        /\ y.staged = x.staged /\ y.resumes = x.resumes /\ y.recv = "none"
    BY <1>1, <1>2 DEF JobObjects
  <2>4. job' = [job EXCEPT ![j] = y]
    BY <2>2 DEF UInv, UTypes
  <2> HIDE DEF y
  <2>5. JobInv(Original(j), "cancelled", FALSE, y, c, r)
    BY <1>1, <2>1, <2>3, LeavesQueueOK
  <2> HIDE DEF x, c, r
  <2> QED BY <1>1, <2>1, <2>3, <2>4, <2>5, JobChanges
<1>5. ASSUME ResumeUploadJob(j) PROVE UInv'
  <2> DEFINE n == x.resumes + 1
             y == [x EXCEPT !.task = "resume", !.phase = "queued", !.resumes = n]
  <2>1. /\ status[j] \in {"paused", "failed"} /\ status' = [status EXCEPT ![j] = "pending"]
        /\ queued' = [queued EXCEPT ![j] = TRUE] /\ child' = [child EXCEPT ![j] = c]
        /\ remote' = [remote EXCEPT ![j] = r] /\ x.local
    BY <1>5, Same DEF ResumeUploadJob, QueueTransferJob
  <2>2. job' = [job EXCEPT ![j] = y]
    BY <1>5 DEF ResumeUploadJob, UInv, UTypes
  <2>3. n \in Nat /\ n = x.resumes + 1
    BY <1>1 DEF JobObjects
  <2> HIDE DEF n
  <2>4. /\ y \in JobObjects /\ y.task = "resume" /\ y.phase = "queued" /\ y.gen = x.gen
        /\ y.local = x.local /\ y.recv = x.recv /\ y.resumes = n
    BY <1>1, <2>3 DEF JobObjects, Tasks, Phases
  <2> HIDE DEF y
  <2>5. JobInv(Original(j), "pending", TRUE, y, c, r)
    BY <1>1, <2>1, <2>3, <2>4, ResumeOK
  <2> HIDE DEF x, c, r
  <2> QED BY <1>1, <2>1, <2>2, <2>4, <2>5, JobChanges
<1>6. ASSUME DeleteUploadJob(j) PROVE UInv'
  <2>1. /\ status[j] \in Settled /\ status' = [status EXCEPT ![j] = "absent"]
        /\ queued' = [queued EXCEPT ![j] = queued[j]] /\ child' = [child EXCEPT ![j] = c]
    BY <1>6, Same DEF DeleteUploadJob, DeleteJob
  <2>2. job' = [job EXCEPT ![j].task = "deleted", ![j].local = b]
    BY <1>6 DEF DeleteUploadJob, UInv, UTypes
  <2> HIDE DEF b
  <2> DEFINE y == [x EXCEPT !.task = "deleted", !.local = b]
             p == [r EXCEPT !.rm = TRUE]
  <2>3. /\ y \in JobObjects /\ y.task = "deleted" /\ y.phase = x.phase /\ y.gen = x.gen
        /\ y.staged = x.staged /\ y.resumes = x.resumes /\ y.recv = x.recv
    BY <1>1, <1>2 DEF JobObjects, Tasks
  <2>4. job' = [job EXCEPT ![j] = y]
    BY <2>2 DEF UInv, UTypes
  <2>5. remote' = [remote EXCEPT ![j] = p]
    BY <1>6 DEF DeleteUploadJob, UInv, UTypes
  <2>6. /\ p \in RemoteFileSets /\ p.temp = r.temp /\ p.target = r.target /\ p.orphans = r.orphans
        /\ p.ghosts = r.ghosts /\ p.lateMove = r.lateMove
    BY <1>1 DEF RemoteFileSets
  <2> HIDE DEF y, p
  <2>7. JobInv(Original(j), "absent", queued[j], y, c, p)
    BY <1>1, <2>1, <2>3, <2>6, DeletedOK
  <2> HIDE DEF x, c, r
  <2> QED BY <1>1, <2>1, <2>3, <2>4, <2>5, <2>6, <2>7, JobChanges
<1> QED BY <1>3, <1>4, <1>5, <1>6, PauseTransferKeepsInv, CancelTransferKeepsInv DEF UUser

(* The job that the drain loop starts. *)
LEMMA HeadFacts ==
  ASSUME UInv, NEW k \in Kinds, CanShift(k), NEW j, j = Head(queue[k]), Startable(j)
  PROVE  j \in Jobs /\ status[j] = "pending" /\ child[j].kind = "none"
<1>1. j \in Jobs /\ status[j] = "pending"
  BY HeadIsOfKind DEF UInv, Startable
<1> QED BY <1>1, RunningHolds

LEMMA RunStartKeepsInv ==
  ASSUME UInv, SInv', NEW k \in Kinds, RunStart(k)
  PROVE  UInv'
<1> DEFINE j == Head(queue[k])
<1>1. /\ CanShift(k) /\ Startable(j) /\ job[j].task = "start" /\ StartUploadTransfer(j, 0, job[j].gen + 1)
      /\ status' = [status EXCEPT ![j] = "running"] /\ queued' = [queued EXCEPT ![j] = FALSE]
  BY DEF RunStart, AdmitHead
<1> HIDE DEF j
<1>2. j \in Jobs /\ status[j] \in {"pending", "running"} /\ child[j].kind = "none"
  BY <1>1, HeadFacts DEF j
<1>3. job[j].resumes = 0
  BY <1>1, <1>2, JobFacts DEF JobInv, Control, Resuming
<1> QED BY <1>1, <1>2, <1>3, FirstRunKeepsInv

LEMMA RunReceiveKeepsInv ==
  ASSUME UInv, SInv', NEW k \in Kinds, RunReceive(k)
  PROVE  UInv'
<1> DEFINE j == Head(queue[k])
           x == job[j]
           c == child[j]
           r == remote[j]
           e == IF x.recv = "waiting" THEN "open" ELSE x.recv
           y == [x EXCEPT !.phase = "receiving", !.recv = e]
<1>1. /\ CanShift(k) /\ Startable(j) /\ job[j].task = "receive" /\ UNCHANGED <<child, remote>>
      /\ status' = [status EXCEPT ![j] = "running"] /\ queued' = [queued EXCEPT ![j] = FALSE]
  BY DEF RunReceive, AdmitHead
<1>2. job' = [job EXCEPT ![j] = y]
  BY DEF RunReceive, UInv, UTypes
<1> HIDE DEF j
<1>3. j \in Jobs /\ status[j] = "pending"
  BY <1>1, HeadFacts DEF j
<1>4. /\ x \in JobObjects /\ c \in Commands /\ r \in RemoteFileSets /\ Sorts(x, c, r)
      /\ JobInv(Original(j), "pending", queued[j], x, c, r)
  BY <1>3, JobFacts DEF Sorts
<1>5. e \in {"none", "waiting", "open"} /\ x.gen \in Nat
  BY <1>4 DEF JobObjects
<1>6. e = IF x.recv = "waiting" THEN "open" ELSE x.recv
  OBVIOUS
<1> HIDE DEF e
<1>7. /\ y \in JobObjects /\ y.task = x.task /\ y.phase = "receiving" /\ y.gen = x.gen
      /\ y.staged = x.staged /\ y.local = x.local /\ y.recv = e /\ y.resumes = x.resumes
  BY <1>4, <1>5 DEF JobObjects, Phases
<1> HIDE DEF y
<1>8. y.gen >= x.gen /\ x.task = "receive"
  BY <1>1, <1>5, <1>7
<1>9. child' = [child EXCEPT ![j] = c] /\ remote' = [remote EXCEPT ![j] = r]
  BY <1>1, <1>3, Same
<1> HIDE DEF x, c, r
<1>10. JobInv(Original(j), "running", FALSE, y, c, r)
  <2>1. \/ /\ x.task = "receive" /\ y.phase = "receiving" /\ c = c
           /\ y.recv = IF x.recv = "waiting" THEN "open" ELSE x.recv
        \/ /\ x.task = "resume" /\ y.phase = "resuming" /\ c.kind = "size"
           /\ y.recv = x.recv /\ y.gen > x.gen
    BY <1>6, <1>7, <1>8
  <2>2. /\ y \in JobObjects /\ y.task = x.task /\ y.gen >= x.gen
        /\ y.staged = x.staged /\ y.local = x.local /\ y.resumes = x.resumes
    BY <1>7, <1>8
  <2> QED BY <1>4, <2>1, <2>2, AdmittedOK
<1> QED BY <1>1, <1>2, <1>3, <1>4, <1>7, <1>9, <1>10, JobChanges, ZenonT(40)

LEMMA RunResumeKeepsInv ==
  ASSUME UInv, SInv', NEW k \in Kinds, RunResume(k)
  PROVE  UInv'
<1> DEFINE j == Head(queue[k])
           x == job[j]
           c == child[j]
           r == remote[j]
           g == x.gen + 1
           y == [x EXCEPT !.phase = "resuming", !.gen = g]
           d == Command("size")
<1>1. /\ CanShift(k) /\ Startable(j) /\ job[j].task = "resume" /\ UNCHANGED remote
      /\ child' = [child EXCEPT ![j] = d]
      /\ status' = [status EXCEPT ![j] = "running"] /\ queued' = [queued EXCEPT ![j] = FALSE]
  BY DEF RunResume, AdmitHead
<1>2. job' = [job EXCEPT ![j] = y]
  BY DEF RunResume, UInv, UTypes
<1> HIDE DEF j
<1>3. j \in Jobs /\ status[j] = "pending"
  BY <1>1, HeadFacts DEF j
<1>4. /\ x \in JobObjects /\ c \in Commands /\ r \in RemoteFileSets /\ Sorts(x, c, r)
      /\ JobInv(Original(j), "pending", queued[j], x, c, r)
  BY <1>3, JobFacts DEF Sorts
<1>5. g \in Nat /\ g >= x.gen /\ g > x.gen
  BY <1>4 DEF JobObjects
<1> HIDE DEF g
<1>6. /\ y \in JobObjects /\ y.task = x.task /\ y.phase = "resuming" /\ y.gen = g
      /\ y.staged = x.staged /\ y.local = x.local /\ y.recv = x.recv /\ y.resumes = x.resumes
  BY <1>4, <1>5 DEF JobObjects, Phases
<1>7. d \in Commands /\ d.kind = "size"
  BY CommandTyped
<1> HIDE DEF y, d
<1>8. y.gen >= x.gen /\ y.gen > x.gen /\ x.task = "resume"
  BY <1>1, <1>5, <1>6
<1>9. remote' = [remote EXCEPT ![j] = r]
  BY <1>1, <1>3, Same
<1> HIDE DEF x, c, r
<1>10. JobInv(Original(j), "running", FALSE, y, d, r)
  <2>1. \/ /\ x.task = "receive" /\ y.phase = "receiving" /\ d = c
           /\ y.recv = IF x.recv = "waiting" THEN "open" ELSE x.recv
        \/ /\ x.task = "resume" /\ y.phase = "resuming" /\ d.kind = "size"
           /\ y.recv = x.recv /\ y.gen > x.gen
    BY <1>6, <1>7, <1>8
  <2>2. /\ y \in JobObjects /\ y.task = x.task /\ y.gen >= x.gen
        /\ y.staged = x.staged /\ y.local = x.local /\ y.resumes = x.resumes
    BY <1>6, <1>8
  <2> QED BY <1>4, <1>7, <2>1, <2>2, AdmittedOK
<1> QED BY <1>1, <1>2, <1>3, <1>4, <1>6, <1>7, <1>9, <1>10, JobChanges

LEMMA RunThrowsKeepsInv ==
  ASSUME UInv, SInv', NEW k \in Kinds, RunThrows(k)
  PROVE  UInv'
<1> DEFINE j == Head(queue[k])
           x == job[j]
           c == child[j]
           r == remote[j]
<1>1. /\ CanShift(k) /\ Startable(j) /\ job[j].task \in {"start", "resume"} /\ UNCHANGED <<job, child, remote>>
      /\ status' = [status EXCEPT ![j] = "failed"] /\ queued' = [queued EXCEPT ![j] = FALSE]
  BY DEF RunThrows, FailHead
<1> HIDE DEF j
<1>2. j \in Jobs /\ status[j] = "pending"
  BY <1>1, HeadFacts DEF j
<1>3. /\ x \in JobObjects /\ c \in Commands /\ r \in RemoteFileSets /\ Sorts(x, c, r)
      /\ JobInv(Original(j), "pending", queued[j], x, c, r)
  BY <1>2, JobFacts DEF Sorts
<1>4. /\ job' = [job EXCEPT ![j] = x] /\ child' = [child EXCEPT ![j] = c]
      /\ remote' = [remote EXCEPT ![j] = r] /\ x.task # "receive"
  BY <1>1, <1>2, Same
<1> HIDE DEF x, c, r
<1>5. JobInv(Original(j), "failed", FALSE, x, c, r)
  <2>1. /\ x.recv = "none" \/ (x.recv = x.recv /\ x.task # "receive")
        /\ "failed" = "paused" => x.local = x.local
        /\ "failed" \in {"failed", "paused", "cancelled"}
    BY <1>4
  <2> QED BY <1>3, <2>1, LeavesQueueOK
<1>6. /\ status' = [status EXCEPT ![j] = "failed"] /\ queued' = [queued EXCEPT ![j] = FALSE]
      /\ x \in JobObjects /\ c \in Commands /\ r \in RemoteFileSets
  BY <1>1, <1>3
<1> QED BY <1>2, <1>4, <1>5, <1>6, JobChanges, ZenonT(60)

LEMMA DrainKeepsInv ==
  ASSUME UInv, SInv', NEW k \in Kinds, UDrain(k)
  PROVE  UInv'
<1>1. ASSUME (SkipHead(k) \/ DrainDone(k) \/ ReleaseCallback(k)) /\ UNCHANGED <<job, child, remote>>
      PROVE  UInv'
  BY <1>1, NothingChanges DEF SkipHead, DrainDone, ReleaseCallback
<1> QED BY <1>1, RunStartKeepsInv, RunReceiveKeepsInv, RunResumeKeepsInv, RunThrowsKeepsInv
        DEF UDrain

-----------------------------------------------------------------------------
(* The invariant holds at the start and in every step. *)

LEMMA InitialJobOK ==
  ASSUME NEW o, NEW x \in JobObjects, x.task = "new",
         x.phase \notin {"queued", "receiving", "resuming"}, x.gen = 0,
         x.staged = FALSE, x.local = FALSE, x.recv = "none", x.resumes = 0,
         NEW r \in RemoteFileSets, r.temp = NoFile, r.target = o, r.orphans = {}, r.ghosts = {},
         r.rm = FALSE, r.lateMove = FALSE
  PROVE  JobInv(o, "absent", FALSE, x, NoChild, r)
<1>1. /\ NoChild.kind = "none" /\ NoChild.at = "temp" /\ NoChild.app = FALSE
  BY NoChildTyped
<1>2. Control("absent", FALSE, x, NoChild, r)
  <2>1. Pairs("absent", FALSE, x, NoChild)
    BY <1>1 DEF Pairs
  <2>4. Receiving("absent", x)
    BY DEF Receiving
  <2>5. Resuming(x)
    BY DEF Resuming
  <2>2. Staged("absent", x) /\ GhostsAreOld("absent", x, r) /\ RemovalIsFinal("absent", x, r)
    BY DEF Staged, GhostsAreOld, RemovalIsFinal
  <2>3. WritersHaveFile(NoChild, r)
    BY <1>1 DEF WritersHaveFile
  <2> QED BY <2>1, <2>2, <2>3, <2>4, <2>5 DEF Control
<1>3. TargetGood(o, "absent", NoChild, r) /\ TempGood("absent", x, NoChild, r)
  BY <1>1 DEF TargetGood, TempGood, Early
<1> QED BY <1>2, <1>3 DEF JobInv, Content

LEMMA UInitInv == UInit => UInv
<1> SUFFICES ASSUME UInit PROVE UInv
  OBVIOUS
<1>1. SInv
  BY SInitInv DEF UInit
<1> DEFINE x == [task |-> "new", phase |-> "", gen |-> 0, staged |-> FALSE,
                 local |-> FALSE, recv |-> "none", resumes |-> 0]
<1> DEFINE r(j) == [temp |-> NoFile, target |-> Original(j), orphans |-> {},
                    ghosts |-> {}, rm |-> FALSE, lateMove |-> FALSE]
<1>2. /\ x \in JobObjects /\ x.task = "new" /\ x.phase \notin {"queued", "receiving", "resuming"} /\ x.gen = 0
      /\ x.staged = FALSE /\ x.local = FALSE /\ x.recv = "none" /\ x.resumes = 0
  BY DEF JobObjects, Tasks, Phases
<1>3. ASSUME NEW j \in Jobs
      PROVE  /\ r(j) \in RemoteFileSets
             /\ r(j).temp = NoFile /\ r(j).target = Original(j) /\ r(j).orphans = {}
             /\ r(j).ghosts = {} /\ r(j).rm = FALSE /\ r(j).lateMove = FALSE
  <2>1. NoFile \in Seq(Int) /\ <<0>> \in Seq(Int)
    BY DEF NoFile
  <2>2. Original(j) \in Seq(Int)
    BY <2>1 DEF Original
  <2> HIDE DEF x
  <2> QED BY <2>1, <2>2 DEF RemoteFileSets
<1>4. /\ job = [j \in Jobs |-> x] /\ child = [j \in Jobs |-> NoChild]
      /\ remote = [j \in Jobs |-> r(j)]
      /\ status = [j \in Jobs |-> "absent"] /\ queued = [j \in Jobs |-> FALSE]
  BY DEF UInit, SInit
<1> HIDE DEF x, r
<1>5. UTypes
  BY <1>2, <1>3, <1>4, NoChildTyped DEF UTypes
<1>6. ASSUME NEW j \in Jobs
      PROVE  JobInv(Original(j), status[j], queued[j], job[j], child[j], remote[j])
  <2>1. /\ job[j] = x /\ child[j] = NoChild /\ remote[j] = r(j)
        /\ status[j] = "absent" /\ queued[j] = FALSE
    BY <1>4
  <2>2. JobInv(Original(j), "absent", FALSE, x, NoChild, r(j))
    BY <1>2, <1>3, InitialJobOK
  <2> QED BY <2>1, <2>2
<1> QED BY <1>1, <1>5, <1>6 DEF UInv

LEMMA UNextInv ==
  ASSUME UInv, ResumesArePlain, [UNext]_uvars
  PROVE  UInv'
<1>1. SInv'
  BY UStepRefines, SNextInv DEF UInv
<1>2. ASSUME NEW j \in Jobs, UStart(j) \/ UReceive(j) \/ UTransfer(j) \/ URemote(j) \/ UUser(j)
      PROVE  UInv'
  BY <1>1, <1>2, StartKeepsInv, ReceiveKeepsInv, TransferKeepsInv, RemoteKeepsInv, UserKeepsInv
<1>3. ASSUME NEW k \in Kinds, UDrain(k) PROVE UInv'
  BY <1>1, <1>3, DrainKeepsInv
<1>4. ASSUME USettings PROVE UInv'
  BY <1>1, <1>4, NothingChanges DEF USettings, ChangeSettings
<1>5. ASSUME UNCHANGED uvars PROVE UInv'
  BY <1>1, <1>5, NothingChanges DEF uvars, svars
<1> QED BY <1>2, <1>3, <1>4, <1>5 DEF UNext

(* Resuming is the only way to queue a job whose task is "resume". *)
LEMMA ResumesStayPlain ==
  ASSUME UInv, ResumesArePlain, [UNext]_uvars
  PROVE  ResumesArePlain'
<1> DEFINE Plain(i) == status'[i] = "pending" /\ job'[i].task = "resume" => runner'[i] = "plain"
           Quiet(i) == /\ status'[i] = "pending" => status[i] = "pending"
                       /\ job'[i].task = "resume" => job[i].task = "resume"
                       /\ runner'[i] = runner[i]
<1>0. /\ status \in [Jobs -> Statuses] /\ runner \in [Jobs -> Runners] /\ job \in [Jobs -> JobObjects]
  BY DEF UInv, SInv, STypeOK, UTypes
<1>1. ASSUME NEW i \in Jobs, Quiet(i) PROVE Plain(i)
  BY <1>1 DEF ResumesArePlain
<1>2. ASSUME NEW i \in Jobs, NEW j \in Jobs, NEW n, NEW g, StartUploadTransfer(j, n, g)
      PROVE  job'[i].task = job[i].task
  BY <1>0, <1>2 DEF StartUploadTransfer, JobObjects
<1>3. ASSUME NEW i \in Jobs, NEW j \in Jobs, NEW t, t # "pending", Release(j, t)
      PROVE  (status'[i] = "pending" => status[i] = "pending") /\ runner'[i] = runner[i]
  BY <1>0, <1>3 DEF Release, EndWith
<1>4. ASSUME NEW i \in Jobs, NEW j \in Jobs, UStart(j) PROVE Plain(i)
  <2>1. CASE i = j
    BY <1>0, <1>4, <2>1 DEF UStart, StartUploadJob, StartUploadReceiveJob, JobObjects
  <2>2. CASE i # j
    <3>1. Quiet(i)
      BY <1>0, <1>4, <2>2 DEF UStart, StartUploadJob, StartUploadReceiveJob, QueueTransferJob
    <3> QED BY <1>1, <3>1
  <2> QED BY <2>1, <2>2
<1>5. ASSUME NEW i \in Jobs, NEW j \in Jobs, UReceive(j) PROVE Quiet(i)
  <2>1. CASE PostContentEarly(j)
    BY <1>0, <2>1 DEF PostContentEarly, AwaitStart, JobObjects
  <2>2. CASE PostContent(j) \/ ReceiveStops(j)
    BY <1>0, <2>2 DEF PostContent, ReceiveStops, JobObjects, svars
  <2>3. CASE ReceiveFails(j)
    <3>1. job'[i].task = job[i].task /\ Release(j, "failed")
      BY <1>0, <2>3 DEF ReceiveFails, JobObjects
    <3> QED BY <1>3, <3>1
  <2>4. CASE ReceiveCompletes(j)
    BY <1>2, <2>4 DEF ReceiveCompletes, svars
  <2> QED BY <1>5, <2>1, <2>2, <2>3, <2>4 DEF UReceive
<1>6. ASSUME NEW i \in Jobs, NEW j \in Jobs, UTransfer(j) PROVE Quiet(i)
  <2>1. CASE SizeCloses(j)
    <3>1. job'[i].task = job[i].task
      BY <1>2, <2>1 DEF SizeCloses
    <3>2. Release(j, "failed") \/ UNCHANGED svars
      BY <2>1 DEF SizeCloses
    <3> QED BY <1>3, <3>1, <3>2 DEF svars
  <2>2. CASE CatWrites(j) \/ WriteCloses(j) \/ CommitRuns(j) \/ CloseThrows(j)
    <3>1. job'[i].task = job[i].task
      BY <1>0, <2>2 DEF CatWrites, WriteCloses, CommitRuns, CloseThrows, JobObjects
    <3> QED BY <2>2, <3>1 DEF CatWrites, WriteCloses, CommitRuns, CloseThrows, svars
  <2>3. CASE CommitCloses(j) \/ ChildFails(j) \/ ReadFails(j)
    <3>1. job'[i].task = job[i].task
      BY <1>0, <2>3 DEF CommitCloses, ChildFails, ReadFails, JobObjects
    <3>2. PICK t \in {"done", "failed"} : Release(j, t)
      BY <2>3 DEF CommitCloses, ChildFails, ReadFails
    <3> QED BY <1>3, <3>1, <3>2
  <2> QED BY <1>6, <2>1, <2>2, <2>3 DEF UTransfer
<1>7. ASSUME NEW i \in Jobs, NEW j \in Jobs, URemote(j) PROVE Quiet(i)
  <2>1. job' = job /\ (UNCHANGED svars \/ Release(j, "failed"))
    BY <1>7 DEF URemote, OrphanWrites, LateMoveRuns, LateError, RemoveStaging
  <2> QED BY <1>3, <2>1 DEF svars
<1>8. ASSUME NEW i \in Jobs, NEW j \in Jobs, UUser(j) PROVE Plain(i)
  <2>1. CASE PauseTransfer(j) \/ CancelTransfer(j)
    <3>1. job'[i].task = job[i].task
      <4>1. CASE PauseTransfer(j)
        BY <1>0, <4>1 DEF PauseTransfer, JobObjects
      <4>2. CASE CancelTransfer(j)
        BY <1>0, <4>2 DEF CancelTransfer, JobObjects
      <4> QED BY <2>1, <4>1, <4>2
    <3>2. PICK t \in {"paused", "cancelled"} : Release(j, t)
      BY <2>1 DEF PauseTransfer, CancelTransfer
    <3> QED BY <1>1, <1>3, <3>1, <3>2
  <2>2. CASE PauseQueued(j) \/ CancelQueued(j)
    <3>1. job'[i].task = job[i].task
      BY <1>0, <2>2 DEF PauseQueued, CancelQueued, JobObjects
    <3>2. (status'[i] = "pending" => status[i] = "pending") /\ runner'[i] = runner[i]
      BY <1>0, <2>2 DEF PauseQueued, CancelQueued, Withdraw
    <3> QED BY <1>1, <3>1, <3>2
  <2>3. CASE ResumeUploadJob(j)
    <3>1. CASE i = j
      BY <1>0, <2>3, <3>1 DEF ResumeUploadJob, QueueTransferJob
    <3>2. CASE i # j
      <4>1. Quiet(i)
        BY <1>0, <2>3, <3>2 DEF ResumeUploadJob, QueueTransferJob
      <4> QED BY <1>1, <4>1
    <3> QED BY <3>1, <3>2
  <2>4. CASE DeleteUploadJob(j)
    <3>1. Quiet(i)
      BY <1>0, <2>4 DEF DeleteUploadJob, DeleteJob, JobObjects
    <3> QED BY <1>1, <3>1
  <2> QED BY <1>8, <2>1, <2>2, <2>3, <2>4 DEF UUser
<1>9. ASSUME NEW i \in Jobs, NEW k \in Kinds, UDrain(k) PROVE Plain(i)
  <2> DEFINE h == Head(queue[k])
  <2>1. CASE (SkipHead(k) \/ DrainDone(k) \/ ReleaseCallback(k)) /\ UNCHANGED <<job, child, remote>>
    <3>1. Quiet(i)
      BY <2>1 DEF SkipHead, DrainDone, ReleaseCallback
    <3> QED BY <1>1, <3>1
  <2>2. CASE RunStart(k) \/ RunReceive(k) \/ RunResume(k) \/ RunThrows(k)
    <3>1. PICK t \in {"running", "failed"} :
            /\ status' = [status EXCEPT ![h] = t]
            /\ runner' = [runner EXCEPT ![h] = "none"]
      BY <2>2 DEF RunStart, RunReceive, RunResume, RunThrows, AdmitHead, FailHead
    <3>2. job'[i].task = job[i].task
      <4>1. CASE RunStart(k)
        BY <1>0, <4>1 DEF RunStart, StartUploadTransfer, JobObjects
      <4>2. CASE RunReceive(k)
        BY <1>0, <4>2 DEF RunReceive, JobObjects
      <4>3. CASE RunResume(k)
        BY <1>0, <4>3 DEF RunResume, JobObjects
      <4>4. CASE RunThrows(k)
        BY <4>4 DEF RunThrows
      <4> QED BY <2>2, <4>1, <4>2, <4>3, <4>4
    <3> HIDE DEF h
    <3>3. CASE i = h
      BY <1>0, <3>1, <3>3
    <3>4. CASE i # h
      <4>1. Quiet(i)
        BY <1>0, <3>1, <3>2, <3>4
      <4> QED BY <1>1, <4>1
    <3> QED BY <3>3, <3>4
  <2> QED BY <1>9, <2>1, <2>2 DEF UDrain
<1>10. ASSUME NEW i \in Jobs, USettings \/ UNCHANGED uvars PROVE Plain(i)
  <2>1. Quiet(i)
    BY <1>10 DEF USettings, ChangeSettings, uvars, svars
  <2> QED BY <1>1, <2>1
<1>11. ASSUME NEW i \in Jobs PROVE Plain(i)
  <2> HIDE DEF Plain, Quiet
  <2> QED BY <1>1, <1>4, <1>5, <1>6, <1>7, <1>8, <1>9, <1>10 DEF UNext
<1> QED BY <1>11 DEF ResumesArePlain

(* The invariant of uploads: the scheduler's, and that of every job.        *)
THEOREM UploadInvariant == USafety => [](UInv /\ ResumesArePlain)
<1>1. UInit => UInv /\ ResumesArePlain
  BY UInitInv DEF UInit, SInit, ResumesArePlain
<1>2. UInv /\ ResumesArePlain /\ [UNext]_uvars => (UInv /\ ResumesArePlain)'
  BY UNextInv, ResumesStayPlain
<1> QED BY <1>1, <1>2, PTL DEF USafety

(* The upload engine asks nothing of the scheduler that the scheduler's     *)
(* own model of an engine does not ask: every step of uploads is a step, or *)
(* a stutter, of the transfer scheduler.                                    *)
THEOREM UploadsImplementScheduler == USafety => ImplementsScheduler
<1>1. UInit => SInit
  BY DEF UInit
<1>2. UInv /\ ResumesArePlain /\ [UNext]_uvars => [SNext]_svars
  BY UStepRefines
<1> QED BY <1>1, <1>2, UploadInvariant, PTL DEF USafety, ImplementsScheduler, SSafety

(* A slot of the transfer limit is held exactly while an upload receives    *)
(* from the browser, awaits one remote command, or is left over from a      *)
(* close handler that has thrown.                                           *)
THEOREM SlotsAreUsed == USafety => []SlotHasOneTransfer
<1>1. UInv => SlotHasOneTransfer
  <2> SUFFICES ASSUME UInv, NEW j \in Jobs
               PROVE  slot[j] <=> \/ child[j] # NoChild
                                  \/ status[j] = "running" /\ job[j].phase = "receiving"
    BY DEF SlotHasOneTransfer
  <2>1. slot[j] <=> status[j] = "running"
    BY DEF UInv, SInv, SlotsAgree
  <2>2. child[j].kind = "none" <=> child[j] = NoChild
    BY NoChildTyped, JobFacts DEF JobInv, Control, Pairs
  <2>3. /\ child[j].kind # "none" => status[j] = "running"
        /\ status[j] = "running" /\ child[j].kind = "none" => job[j].phase = "receiving"
    BY JobFacts DEF JobInv, Control, Pairs
  <2> QED BY <2>1, <2>2, <2>3
<1> QED BY <1>1, UploadInvariant, PTL

(* An upload that can still go on finds its staged content on disk.         *)
THEOREM StagedFilesAreKept == USafety => []StagedFileKept
<1>1. UInv => StagedFileKept
  BY JobFacts DEF StagedFileKept, JobInv, Control, Staged
<1> QED BY <1>1, UploadInvariant, PTL

(* The target of an upload that was resumed at most once is untouched or    *)
(* the whole content, and the whole content once the upload is done.        *)
THEOREM TargetsAreWhole == USafety => []WholeOrUntouched
<1>1. UInv => WholeOrUntouched
  BY JobFacts DEF WholeOrUntouched, JobInv, Content, TargetGood
<1> QED BY <1>1, UploadInvariant, PTL

-----------------------------------------------------------------------------
(* No late event wakes a stopped upload. *)

(* A cancelled, finished or paused upload changes only by what the user     *)
(* does, however late the events of its killed commands arrive.             *)
THEOREM StoppedUploadsStayStopped == USafety => StoppedStaysStopped
<1>1. UInv /\ ResumesArePlain /\ [UNext]_uvars =>
        [\A j \in Jobs :
           /\ status[j] = "cancelled" => status'[j] \in {"cancelled", "absent"}
           /\ status[j] = "done" => status'[j] \in {"done", "absent"}
           /\ status[j] = "paused" => status'[j] \in {"paused", "pending", "cancelled", "absent"}]_uvars
  BY UStepRefines, StoppedStayStopped DEF UInv, MayBecome
<1> QED BY <1>1, UploadInvariant, PTL DEF USafety, StoppedStaysStopped

-----------------------------------------------------------------------------
(* Types, with the bound on resumes. *)

ResumesBounded == \A j \in Jobs : job[j].resumes <= MaxResumes

(* Only resuming counts as a resume. *)
LEMMA OthersResumeNothing ==
  ASSUME UTypes, [UNext]_uvars, NEW i \in Jobs, job'[i].resumes # job[i].resumes
  PROVE  ResumeUploadJob(i) /\ job'[i].resumes = job[i].resumes + 1
<1>0. job \in [Jobs -> JobObjects]
  BY DEF UTypes
<1>1. ASSUME NEW j \in Jobs, NEW n, NEW g, StartUploadTransfer(j, n, g)
      PROVE  job'[i].resumes = job[i].resumes
  BY <1>0, <1>1 DEF StartUploadTransfer, JobObjects
<1>2. ASSUME NEW j \in Jobs, UStart(j) PROVE FALSE
  BY <1>0, <1>2 DEF UStart, StartUploadJob, StartUploadReceiveJob, JobObjects
<1>3. ASSUME NEW j \in Jobs, UReceive(j) PROVE FALSE
  BY <1>0, <1>1, <1>3 DEF UReceive, PostContentEarly, PostContent, ReceiveFails, ReceiveStops,
     ReceiveCompletes, JobObjects
<1>4. ASSUME NEW j \in Jobs, UTransfer(j) PROVE FALSE
  <2>1. ASSUME SizeCloses(j) PROVE FALSE
    BY <1>1, <2>1 DEF SizeCloses
  <2>2. ASSUME job' = job PROVE FALSE
    BY <2>2
  <2>3. ASSUME WriteCloses(j) PROVE FALSE
    BY <1>0, <2>3 DEF WriteCloses, JobObjects
  <2>4. ASSUME CommitCloses(j) PROVE FALSE
    BY <1>0, <2>4 DEF CommitCloses, JobObjects
  <2> QED BY <1>4, <2>1, <2>2, <2>3, <2>4
          DEF UTransfer, CatWrites, CommitRuns, ChildFails, ReadFails, CloseThrows
<1>5. ASSUME NEW j \in Jobs, URemote(j) PROVE FALSE
  BY <1>0, <1>5 DEF URemote, OrphanWrites, LateMoveRuns, LateError, RemoveStaging
<1>6. ASSUME NEW j \in Jobs, UUser(j), ~ResumeUploadJob(j) PROVE FALSE
  <2>1. ASSUME PauseTransfer(j) PROVE FALSE
    BY <1>0, <2>1 DEF PauseTransfer, JobObjects
  <2>2. ASSUME PauseQueued(j) PROVE FALSE
    BY <1>0, <2>2 DEF PauseQueued, JobObjects
  <2>3. ASSUME CancelQueued(j) PROVE FALSE
    BY <1>0, <2>3 DEF CancelQueued, JobObjects
  <2>4. ASSUME CancelTransfer(j) PROVE FALSE
    BY <1>0, <2>4 DEF CancelTransfer, JobObjects
  <2>5. ASSUME DeleteUploadJob(j) PROVE FALSE
    BY <1>0, <2>5 DEF DeleteUploadJob, JobObjects
  <2> QED BY <1>6, <2>1, <2>2, <2>3, <2>4, <2>5 DEF UUser
<1>7. ASSUME NEW k \in Kinds, UDrain(k) PROVE FALSE
  <2>1. ASSUME NEW j, job' = [job EXCEPT ![j].phase = "receiving",
                                         ![j].recv = IF @ = "waiting" THEN "open" ELSE @]
        PROVE FALSE
    BY <1>0, <2>1 DEF JobObjects
  <2>2. ASSUME NEW j, job' = [job EXCEPT ![j].phase = "resuming", ![j].gen = @ + 1] PROVE FALSE
    BY <1>0, <2>2 DEF JobObjects
  <2>3. ASSUME NEW j, NEW n, NEW g, StartUploadTransfer(j, n, g) PROVE FALSE
    BY <1>0, <2>3 DEF StartUploadTransfer, JobObjects
  <2> QED BY <1>7, <2>1, <2>2, <2>3 DEF UDrain, RunStart, RunReceive, RunResume, RunThrows
<1>8. ASSUME USettings \/ UNCHANGED uvars PROVE FALSE
  BY <1>8 DEF USettings, uvars
<1>9. PICK j \in Jobs : ResumeUploadJob(j)
  BY <1>2, <1>3, <1>4, <1>5, <1>6, <1>7, <1>8 DEF UNext
<1> QED BY <1>0, <1>9 DEF ResumeUploadJob, JobObjects

LEMMA ResumesStayBounded ==
  ASSUME UTypes, [UNext]_uvars, ResumesBounded, UTypes'
  PROVE  ResumesBounded'
<1> SUFFICES ASSUME NEW i \in Jobs PROVE job'[i].resumes <= MaxResumes
  BY DEF ResumesBounded
<1>1. CASE job'[i].resumes = job[i].resumes
  BY <1>1 DEF ResumesBounded
<1>2. CASE job'[i].resumes # job[i].resumes
  <2>1. ResumeUploadJob(i) /\ job'[i].resumes = job[i].resumes + 1
    BY <1>2, OthersResumeNothing
  <2>2. Resumed < MaxResumes
    BY <2>1 DEF ResumeUploadJob
  <2>3. Resumed \in Nat /\ job[i].resumes <= Resumed /\ job[i].resumes \in Nat
    <3>1. \A j \in Jobs : job[j].resumes \in Nat
      BY DEF UTypes, JobObjects
    <3> QED BY <3>1, ResumesAreCounted DEF Resumed
  <2> QED BY <2>1, <2>2, <2>3, UploadAssumption
<1> QED BY <1>1, <1>2

(* Types: job objects, commands, resumes within their bound, and a staging  *)
(* file that holds nothing but blocks of the source and gaps.               *)
THEOREM UploadTypeCorrect == USafety => []UTypeOK
<1>1. UInit => ResumesBounded
  <2> SUFFICES ASSUME UInit, NEW j \in Jobs PROVE job[j].resumes <= MaxResumes
    BY DEF ResumesBounded
  <2>1. job[j].resumes = 0
    BY Zenon DEF UInit
  <2> QED BY <2>1, UploadAssumption
<1>2. UInv /\ UInv' /\ ResumesBounded /\ [UNext]_uvars => ResumesBounded'
  BY ResumesStayBounded DEF UInv
<1>3. UInv /\ ResumesBounded => UTypeOK
  <2> SUFFICES ASSUME UInv, ResumesBounded PROVE UTypeOK
    OBVIOUS
  <2>1. STypeOK
    BY DEF UInv, SInv
  <2>2. job \in [Jobs -> JobObjects]
    BY DEF UInv, UTypes
  <2>3. ASSUME NEW j \in Jobs
        PROVE  job[j] \in [task : Tasks, phase : Phases, gen : Nat, staged : BOOLEAN, local : BOOLEAN,
                           recv : {"none", "waiting", "open"}, resumes : 0..MaxResumes]
    <3>1. job[j] \in JobObjects /\ job[j].resumes \in 0..MaxResumes
      BY <2>2, UploadAssumption DEF ResumesBounded, JobObjects
    <3> QED BY <3>1 DEF JobObjects
  <2>4. job \in [Jobs -> [task : Tasks, phase : Phases, gen : Nat, staged : BOOLEAN, local : BOOLEAN,
                          recv : {"none", "waiting", "open"}, resumes : 0..MaxResumes]]
    BY <2>2, <2>3
  <2>5. \A j \in Jobs :
          /\ child[j].kind \in {"none", "size", "write", "commit", "moved", "refused", "thrown"}
          /\ remote[j].temp = NoFile \/ \A b \in DOMAIN remote[j].temp : remote[j].temp[b] \in 0..Blocks
    BY JobFacts DEF Sorts, Commands, JobInv, Control, WritersHaveFile
  <2> QED BY <2>1, <2>4, <2>5 DEF UTypeOK, Tasks, Phases
<1> QED BY <1>1, <1>2, <1>3, UploadInvariant, PTL DEF USafety
=============================================================================
