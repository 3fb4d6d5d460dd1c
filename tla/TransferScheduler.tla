------------------------- MODULE TransferScheduler -------------------------
(***************************************************************************)
(* The FIFO concurrency limiter of SFTP transfers                          *)
(* (src/src/sftp-transfer-scheduler.ts) together with the most general job *)
(* engine that may drive it: jobs are submitted, paused, resumed,          *)
(* cancelled, finished and deleted in any order the engine's guards allow. *)
(*                                                                         *)
(* Node runs one handler at a time, so a handler is one action, with one   *)
(* exception: drainTransferQueue is a loop that starts several transfers.  *)
(* Each iteration is a step, and `turn` names the queues whose loop the    *)
(* current turn of the event loop still has to finish; no handler starts   *)
(* while it is not empty.  setImmediate(drainTransferQueue) is `due`.      *)
(***************************************************************************)
EXTENDS Integers, Sequences, FiniteSets

CONSTANTS
  Jobs,       \* transfer job identifiers
  Kinds,      \* {"upload", "download"}
  KindOf,     \* job.transfer_queue_kind: uploads in one queue, the rest in the other
  MaxLimit,   \* the code clamps the configured concurrency to 1..8
  FailInQueue \* jobs whose engine may report a failure of an earlier run while they are queued again

ASSUME JobsAssumption == IsFiniteSet(Jobs)
ASSUME KindsAssumption == IsFiniteSet(Kinds) /\ KindOf \in [Jobs -> Kinds]
ASSUME LimitAssumption == MaxLimit \in Nat \ {0}
ASSUME FailAssumption == FailInQueue \subseteq Jobs

VARIABLES
  status,     \* job.status; "absent" when the jobs Map has no entry
  queue,      \* transferQueues[kind]
  active,     \* activeTransferJobs[kind]
  slot,       \* job.transfer_slot_kind is not ""
  queued,     \* job.transfer_queued
  runner,     \* job.transfer_runner
  waiting,    \* job.transfer_waiters is not empty
  due,        \* due[kind]: a setImmediate drain is scheduled
  turn,       \* kinds whose drain loop is running in this turn
  limit       \* transferConcurrency(kind), read from the settings file

svars == <<status, queue, active, slot, queued, runner, waiting, due, turn, limit>>

Statuses == {"absent", "pending", "running", "paused", "failed", "done", "cancelled"}
Settled  == {"paused", "failed", "done", "cancelled"}   \* neither queued nor transferring
Runners  == {"none", "resolving", "plain"}  \* does the runner resolve the waiters?
Limits   == 1..MaxLimit

Idle == turn = {}

InQueue(k, j) == \E p \in 1..Len(queue[k]) : queue[k][p] = j

(* queue.filter(id => id !== job.id), for a queue that holds j at most once. *)
Without(s, j) ==
  IF \E p \in 1..Len(s) : s[p] = j
  THEN LET p == CHOOSE q \in 1..Len(s) : s[q] = j
       IN  [i \in 1..(Len(s) - 1) |-> IF i < p THEN s[i] ELSE s[i + 1]]
  ELSE s

-----------------------------------------------------------------------------
(* The scheduler's own operations. *)

SInit ==
  /\ status = [j \in Jobs |-> "absent"]
  /\ queue = [k \in Kinds |-> <<>>]
  /\ active = [k \in Kinds |-> {}]
  /\ slot = [j \in Jobs |-> FALSE]
  /\ queued = [j \in Jobs |-> FALSE]
  /\ runner = [j \in Jobs |-> "none"]
  /\ waiting = [j \in Jobs |-> FALSE]
  /\ due = [k \in Kinds |-> FALSE]
  /\ turn = {}
  /\ limit \in [Kinds -> Limits]

(* queueTransferJob: to the end of the queue, then drain at once. *)
QueueTransferJob(j, r) ==
  LET k == KindOf[j] IN
  /\ status' = [status EXCEPT ![j] = "pending"]
  /\ queue' = [queue EXCEPT ![k] = Append(Without(@, j), j)]
  /\ queued' = [queued EXCEPT ![j] = TRUE]
  /\ runner' = [runner EXCEPT ![j] = r]
  /\ turn' = {k}
  /\ UNCHANGED <<active, slot, waiting, due, limit>>

(* Mutant: the loop compares with <= instead of <. *)
CanShiftOneMore(k) == k \in turn /\ queue[k] # <<>> /\ Cardinality(active[k]) <= limit[k]

(* The loop condition of drainTransferQueue. *)
CanShift(k) == k \in turn /\ queue[k] # <<>> /\ Cardinality(active[k]) < limit[k]

Startable(j) == status[j] = "pending" /\ runner[j] # "none"

(* One iteration whose runner starts the transfer. *)
AdmitHead(k) ==
  LET j == Head(queue[k]) IN
  /\ CanShift(k)
  /\ Startable(j)
  /\ queue' = [queue EXCEPT ![k] = Tail(@)]
  /\ active' = [active EXCEPT ![k] = @ \cup {j}]
  /\ slot' = [slot EXCEPT ![j] = TRUE]
  /\ queued' = [queued EXCEPT ![j] = FALSE]
  /\ status' = [status EXCEPT ![j] = "running"]
  /\ runner' = [runner EXCEPT ![j] = "none"]
  /\ waiting' = [waiting EXCEPT ![j] = @ /\ runner[j] # "resolving"]
  /\ UNCHANGED <<due, turn, limit>>

(* One iteration whose runner throws: failTransferStart gives the slot back. *)
FailHead(k) ==
  LET j == Head(queue[k]) IN
  /\ CanShift(k)
  /\ Startable(j)
  /\ queue' = [queue EXCEPT ![k] = Tail(@)]
  /\ queued' = [queued EXCEPT ![j] = FALSE]
  /\ status' = [status EXCEPT ![j] = "failed"]
  /\ runner' = [runner EXCEPT ![j] = "none"]
  /\ waiting' = [waiting EXCEPT ![j] = FALSE]
  /\ due' = [due EXCEPT ![k] = TRUE]
  /\ UNCHANGED <<active, slot, turn, limit>>

(* The loop's `continue`: the job at the head is gone or no longer pending. *)
SkipHead(k) ==
  /\ CanShift(k)
  /\ ~Startable(Head(queue[k]))
  /\ queue' = [queue EXCEPT ![k] = Tail(@)]
  /\ UNCHANGED <<status, active, slot, queued, runner, waiting, due, turn, limit>>

(* The loop ends: no room, or nothing queued. *)
DrainDone(k) ==
  /\ k \in turn
  /\ ~CanShift(k)
  /\ turn' = turn \ {k}
  /\ UNCHANGED <<status, queue, active, slot, queued, runner, waiting, due, limit>>

(* The setImmediate callback of releaseTransferSlot. *)
ReleaseCallback(k) ==
  /\ Idle
  /\ due[k]
  /\ due' = [due EXCEPT ![k] = FALSE]
  /\ turn' = {k}
  /\ UNCHANGED <<status, queue, active, slot, queued, runner, waiting, limit>>

(* Mutants: the active set keeps the job; no drain is scheduled. *)
EndWithLeak(j, s) ==
  /\ status' = [status EXCEPT ![j] = s]
  /\ slot' = [slot EXCEPT ![j] = FALSE]
  /\ due' = [due EXCEPT ![KindOf[j]] = @ \/ slot[j]]
  /\ UNCHANGED active
EndWithoutDrain(j, s) ==
  /\ status' = [status EXCEPT ![j] = s]
  /\ active' = [active EXCEPT ![KindOf[j]] = @ \ {j}]
  /\ slot' = [slot EXCEPT ![j] = FALSE]
  /\ UNCHANGED due

(* job.status = s followed by releaseTransferSlot(job): a job without a     *)
(* slot releases nothing and schedules nothing.                             *)
EndWith(j, s) ==
  LET k == KindOf[j] IN
  /\ status' = [status EXCEPT ![j] = s]
  /\ active' = [active EXCEPT ![k] = IF slot[j] THEN @ \ {j} ELSE @]
  /\ due' = [due EXCEPT ![k] = @ \/ slot[j]]
  /\ slot' = [slot EXCEPT ![j] = FALSE]

Release(j, s) == EndWith(j, s) /\ UNCHANGED <<queue, queued, runner, waiting, turn, limit>>

(* Mutants: the queue entry, or the waiters, are forgotten. *)
WithdrawKeepsEntry(j, s) ==
  /\ status' = [status EXCEPT ![j] = s]
  /\ queued' = [queued EXCEPT ![j] = FALSE]
  /\ waiting' = [waiting EXCEPT ![j] = FALSE]
  /\ UNCHANGED <<queue, active, slot, runner, due, turn, limit>>
WithdrawKeepsWaiters(j, s) ==
  /\ status' = [status EXCEPT ![j] = s]
  /\ queue' = [queue EXCEPT ![KindOf[j]] = Without(@, j)]
  /\ queued' = [queued EXCEPT ![j] = FALSE]
  /\ UNCHANGED <<active, slot, runner, waiting, due, turn, limit>>

(* removeQueuedTransfer and rejectTransferWaiters, then job.status = s. *)
Withdraw(j, s) ==
  LET k == KindOf[j] IN
  /\ status' = [status EXCEPT ![j] = s]
  /\ queue' = [queue EXCEPT ![k] = Without(@, j)]
  /\ queued' = [queued EXCEPT ![j] = FALSE]
  /\ waiting' = [waiting EXCEPT ![j] = FALSE]
  /\ UNCHANGED <<active, slot, runner, due, turn, limit>>

(* waitForSftpTransferStart on a pending job. *)
AwaitStart(j) ==
  /\ Idle
  /\ status[j] = "pending"
  /\ runner[j] = "resolving"
  /\ waiting' = [waiting EXCEPT ![j] = TRUE]
  /\ UNCHANGED <<status, queue, active, slot, queued, runner, due, turn, limit>>

(* The settings route stores new limits and calls refreshSftpTransferQueues. *)
ChangeSettings(l) ==
  /\ Idle
  /\ limit' = l
  /\ turn' = Kinds
  /\ UNCHANGED <<status, queue, active, slot, queued, runner, waiting, due>>

-----------------------------------------------------------------------------
(* The job engine, as far as the scheduler can tell. *)

Submit(j) ==
  /\ Idle /\ status[j] = "absent"
  /\ \E r \in {"resolving", "plain"} : QueueTransferJob(j, r)

ResumeJob(j) == Idle /\ status[j] \in {"paused", "failed"} /\ QueueTransferJob(j, "plain")

EndJob(j, s) == Idle /\ status[j] = "running" /\ s \in Settled /\ Release(j, s)

(* The late event of an earlier run ends a resumed job that waits for its   *)
(* slot: it holds none, and its id stays in the queue.                      *)
FailQueued(j) ==
  /\ Idle
  /\ j \in FailInQueue
  /\ status[j] = "pending" /\ runner[j] = "plain"
  /\ Release(j, "failed")

WithdrawJob(j, s) ==
  /\ Idle
  /\ status[j] = "pending" \/ (status[j] = "paused" /\ s = "cancelled")
  /\ s \in {"paused", "cancelled"}
  /\ Withdraw(j, s)

DeleteJob(j) ==
  /\ Idle
  /\ status[j] \in Settled
  /\ status' = [status EXCEPT ![j] = "absent"]
  /\ UNCHANGED <<queue, active, slot, queued, runner, waiting, due, turn, limit>>

DrainStep(k) == AdmitHead(k) \/ FailHead(k) \/ SkipHead(k) \/ DrainDone(k)

SNext ==
  \/ \E j \in Jobs :
       \/ Submit(j) \/ ResumeJob(j) \/ AwaitStart(j) \/ FailQueued(j) \/ DeleteJob(j)
       \/ \E s \in Settled : EndJob(j, s) \/ WithdrawJob(j, s)
  \/ \E k \in Kinds : DrainStep(k) \/ ReleaseCallback(k)
  \/ \E l \in [Kinds -> Limits] : ChangeSettings(l)

SSafety == SInit /\ [][SNext]_svars

(* The event loop serves every callback and every close event in the end,    *)
(* however many other handlers run in between, hence strong fairness; a     *)
(* drain loop cannot be interrupted, hence weak fairness.  That a transfer   *)
(* ends, is paused or is cancelled is what its SSH channel and its client    *)
(* owe the scheduler, which has no timeout of its own.                       *)
SFairness ==
  /\ \A k \in Kinds : WF_svars(DrainStep(k)) /\ SF_svars(ReleaseCallback(k))
  /\ \A j \in Jobs : SF_svars(\E s \in Settled : EndJob(j, s))

SSpec == SSafety /\ SFairness

-----------------------------------------------------------------------------
(* Properties. *)

STypeOK ==
  /\ status \in [Jobs -> Statuses]
  /\ queue \in [Kinds -> Seq(Jobs)]
  /\ active \in [Kinds -> SUBSET Jobs]
  /\ slot \in [Jobs -> BOOLEAN]
  /\ queued \in [Jobs -> BOOLEAN]
  /\ runner \in [Jobs -> Runners]
  /\ waiting \in [Jobs -> BOOLEAN]
  /\ due \in [Kinds -> BOOLEAN]
  /\ turn \in SUBSET Kinds
  /\ limit \in [Kinds -> Limits]

(* The slot a job believes it holds, the active set that is counted against *)
(* the limit and the status the user sees never drift apart: no slot leaks  *)
(* and nothing transfers outside the accounting.                            *)
SlotsAgree ==
  /\ \A j \in Jobs : slot[j] <=> status[j] = "running"
  /\ \A k \in Kinds : active[k] = {j \in Jobs : KindOf[j] = k /\ slot[j]}

(* Every pending job is in the queue of its kind, once and with a runner,   *)
(* so the loop's `continue` never drops a job that was promised a start;    *)
(* what it drops is left of jobs that a late event failed while they waited, *)
(* and no other job is in a queue.                                          *)
QueueAgrees ==
  /\ \A k \in Kinds : \A p, q \in 1..Len(queue[k]) :
       queue[k][p] = queue[k][q] => p = q
  /\ \A j \in Jobs : status[j] = "pending" =>
       InQueue(KindOf[j], j) /\ queued[j] /\ runner[j] # "none"
  /\ \A k \in Kinds, j \in Jobs : InQueue(k, j) =>
       /\ KindOf[j] = k
       /\ status[j] = "pending" \/ (j \in FailInQueue /\ status[j] \in {"failed", "absent"})

(* Nobody waits for the start of a job that has left the queue, or whose    *)
(* runner would start without a word: every promise handed out by           *)
(* waitForSftpTransferStart is settled on the way out.                      *)
NoForgottenWaiter ==
  \A j \in Jobs : waiting[j] => status[j] = "pending" /\ runner[j] = "resolving"

(* Between two turns a job is queued next to a free slot only if a drain is *)
(* already scheduled; no path forgets to look at the queue again.           *)
NoStrandedJob ==
  \A k \in Kinds : Idle /\ queue[k] # <<>> /\ Cardinality(active[k]) < limit[k] => due[k]

Admission == INSTANCE FifoAdmission WITH line <- queue, admitted <- active

(* Every step of the scheduler is a step of FIFO admission within the       *)
(* limit, and room next to a queued job is always used in the end.          *)
ImplementsAdmission == Admission!ASpec
=============================================================================
