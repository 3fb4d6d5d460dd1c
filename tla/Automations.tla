---------------------------- MODULE Automations -----------------------------
(***************************************************************************)
(* The scheduled transfers and folder syncs (src/src/sftp-automations.ts   *)
(* and sftp-automation-repository.ts): one automation, its row, the runs   *)
(* it has had and the baseline its last clean run left.  What a run does   *)
(* to the files is SyncRun.                                                *)
(*                                                                         *)
(* A run works with the automation as it was when the run began.  A row's  *)
(* id is never used again (AUTOINCREMENT), so a deleted automation does    *)
(* not come back.  The history keeps `limit` finished runs.                *)
(***************************************************************************)
EXTENDS Integers, Sequences, SequencesExt

CONSTANTS
  Rules,          \* what automationRuleFingerprint tells apart
  Limit,          \* history_limit, 100 to 5000 in the code
  Attempts,       \* MAX_RETRIES, 3 in the code
  MaxStreak,      \* bound on no_change_streak, 10^9 in the code
  MaxSaves,       \* bound on saves, pauses and enablings
  Missed,         \* missed_policy: "run_once" or "skip"
  CreateFails     \* whether storing a new run may fail

ASSUME AutomationAssumption ==
  /\ Limit \in Nat \ {0} /\ Attempts \in Nat \ {0} /\ MaxStreak \in Nat \ {0} /\ MaxSaves \in Nat
  /\ Missed \in {"run_once", "skip"} /\ CreateFails \in BOOLEAN

VARIABLES
  up,        \* the scheduler is started
  task,      \* its row in sftp_automations
  running,   \* the set `running` has it
  run,       \* the run in progress
  table,     \* its finished rows of sftp_automation_runs, oldest first
  open,      \* there is a row of status "running"
  baseline,  \* rules: the fingerprint in it; of: the rules it was taken under
  saves,     \* number of saves, pauses and enablings
  past       \* history: the outcomes since the last clear, no-change runs counted together

avars == <<up, task, running, run, table, open, baseline, saves, past>>

NoRun == [pc |-> "none", once |-> FALSE, rules |-> 0, try |-> 0, edited |-> FALSE]
NoBaseline == [rules |-> 0, of |-> 0]

(* once: at a time that is ahead or gone.  countdown: from now on.  never:  *)
(* started by hand only, or a schedule that finds no time.                  *)
Shapes == {"once", "countdown", "repeat", "never"}
(* isOneShotAutomation *)
OneShot(r) == r.shape \in {"once", "countdown"}
(* nextAutomationRun *)
NextTime(r) == IF r.shape \in {"countdown", "repeat"} \/ (r.shape = "once" /\ r.ahead) THEN "later" ELSE "none"
(* syncAutomationSchedule(id, true) *)
Scheduled(r) == [r EXCEPT !.next = IF r.enabled THEN NextTime(r) ELSE "none"]

AInit ==
  /\ up = TRUE
  /\ \E s \in Shapes, r \in Rules, a \in BOOLEAN :
       task = Scheduled([exists |-> TRUE, enabled |-> TRUE, shape |-> s, ahead |-> a, next |-> "none", rules |-> r])
  /\ running = FALSE /\ run = NoRun
  /\ table = <<>> /\ open = FALSE /\ past = <<>>
  /\ baseline = NoBaseline /\ saves = 0

-----------------------------------------------------------------------------
(* The history: a finished run is a "quiet" one (done, nothing changed) or  *)
(* an event (anything else).                                                *)

Least(a, b) == IF a < b THEN a ELSE b
Event == [quiet |-> FALSE, streak |-> 0]
Quiet(n) == [quiet |-> TRUE, streak |-> n]

(* Mutant: the last of each streak stays as it is. *)
CompactedUncounted(rows) ==
  FoldLeft(LAMBDA out, r : IF out # <<>> /\ Last(out).quiet /\ r.quiet
                           THEN Append(Front(out), r) ELSE Append(out, r),
           <<>>, rows)
(* compactNoChangeRuns: of neighbouring quiet rows the last one stays, with *)
(* the sum of their streaks.                                                *)
Compacted(rows) ==
  FoldLeft(LAMBDA out, r : IF out # <<>> /\ Last(out).quiet /\ r.quiet
                           THEN Append(Front(out), Quiet(Least(MaxStreak, Last(out).streak + r.streak)))
                           ELSE Append(out, r),
           <<>>, rows)

(* trimRuns *)
Trimmed(rows) == SubSeq(rows, Len(rows) - Least(Limit, Len(rows)) + 1, Len(rows))

(* What of the past is needed to tell what the table should hold. *)
Remembered(outcome) ==
  IF past # <<>> /\ Last(past).quiet /\ outcome.quiet
  THEN [past EXCEPT ![Len(past)].streak = Least(MaxStreak, @ + 1)]
  ELSE LET all == Append(past, outcome) IN SubSeq(all, IF Len(all) > Limit + 1 THEN 2 ELSE 1, Len(all))

(* finishRun, which does nothing to a run whose automation is deleted. *)
Finishes(outcome) ==
  IF open THEN /\ table' = Trimmed(Compacted(Append(table, outcome)))
               /\ open' = FALSE
               /\ past' = Remembered(outcome)
          ELSE UNCHANGED <<table, open, past>>

-----------------------------------------------------------------------------
Began(r) == [pc |-> "executing", once |-> OneShot(r), rules |-> r.rules, try |-> 0, edited |-> FALSE]

(* runAutomation up to the first await, given the row r.  createRun may     *)
(* throw, before or behind its insert: what `running` got, it keeps.        *)
Starts(r, manual) ==
  IF ~r.exists \/ (~manual /\ ~r.enabled) \/ running
  THEN task' = r /\ UNCHANGED <<running, run, open>>
  ELSE /\ task' = r /\ running' = TRUE
       /\ \/ /\ open' = TRUE
             /\ run' = Began(r)
          \/ CreateFails /\ open' \in {open, TRUE} /\ UNCHANGED run

TimePasses ==
  /\ task.exists /\ task.next = "later"
  /\ task' = [task EXCEPT !.next = "due", !.ahead = FALSE]
  /\ UNCHANGED <<saves, up, running, run, table, open, baseline, past>>

(* Mutant: the schedule is left as it is. *)
DueRowKept(r) == [r EXCEPT !.next = "none"]
(* schedulerTick stores the next time before it starts the run. *)
DueRow(r) == [r EXCEPT !.next = NextTime(r)]

Tick ==
  /\ up /\ task.exists /\ task.enabled /\ task.next = "due"
  /\ Starts(DueRow(task), FALSE)
  /\ UNCHANGED <<saves, up, table, baseline, past>>

RunNow ==
  /\ up /\ Starts(task, TRUE)
  /\ UNCHANGED <<saves, up, table, baseline, past>>

(* A change of a watched folder (refreshContinuousWatchers). *)
FolderChanges ==
  /\ up /\ task.exists /\ task.enabled /\ task.shape = "repeat"
  /\ Starts(task, FALSE)
  /\ UNCHANGED <<saves, up, table, baseline, past>>

-----------------------------------------------------------------------------
(* The user, through the routes. *)

Edits ==
  /\ up /\ task.exists
  /\ saves < MaxSaves /\ saves' = saves + 1
  /\ run' = [run EXCEPT !.edited = run.pc # "none"]

(* PUT: saveAutomation.  When the rules are what they were, the baseline    *)
(* gets their fingerprint, whatever fingerprint it had.                     *)
Save ==
  /\ Edits
  /\ \E s \in Shapes, g \in Rules, e \in BOOLEAN, a \in BOOLEAN :
       /\ task' = Scheduled([task EXCEPT !.shape = s, !.ahead = a, !.rules = g, !.enabled = e])
       /\ baseline' = IF g = task.rules /\ baseline # NoBaseline THEN [baseline EXCEPT !.rules = g] ELSE baseline
  /\ table' = Trimmed(table)
  /\ UNCHANGED <<up, running, open, past>>

PauseOrEnable ==
  /\ Edits
  /\ \E e \in BOOLEAN : task' = Scheduled([task EXCEPT !.enabled = e])
  /\ UNCHANGED <<up, running, table, open, baseline, past>>

(* The runs and the baseline go with the row (ON DELETE CASCADE). *)
Delete ==
  /\ up /\ task.exists
  /\ task' = [task EXCEPT !.exists = FALSE, !.enabled = FALSE, !.next = "none"]
  /\ table' = <<>> /\ open' = FALSE /\ past' = <<>> /\ baseline' = NoBaseline
  /\ run' = [run EXCEPT !.edited = run.pc # "none"]
  /\ UNCHANGED <<saves, up, running>>

(* Mutant: every run is cleared. *)
ClearedAll == FALSE
(* clearRuns leaves the row of a run in progress. *)
Cleared == open

ClearRuns ==
  /\ up /\ task.exists /\ table # <<>>
  /\ table' = <<>> /\ past' = <<>> /\ open' = Cleared
  /\ UNCHANGED <<saves, up, task, running, run, baseline>>

-----------------------------------------------------------------------------
(* The run, from await to await. *)

Ends == run' = NoRun /\ running' = FALSE

(* A run that ends by itself disables a one-shot automation. *)
AfterRun == IF run.once /\ task.exists THEN [task EXCEPT !.enabled = FALSE, !.next = "none"] ELSE task

(* executeAutomation returns: clean runs go on to take a baseline, those    *)
(* with failures or conflicts are finished.                                 *)
Executed ==
  /\ run.pc = "executing"
  /\ \/ /\ \E q \in BOOLEAN : run' = [run EXCEPT !.pc = IF q THEN "quiet" ELSE "changed"]
        /\ UNCHANGED <<task, running, table, open, past>>
     \/ /\ Ends /\ Finishes(Event) /\ task' = AfterRun
  /\ UNCHANGED <<saves, up, baseline>>

(* The folders are listed again and the baseline stored under the rules the *)
(* run began with.  Without its row the insert fails, and is retried.       *)
Baselined ==
  /\ run.pc \in {"quiet", "changed"} /\ task.exists
  /\ baseline' = [rules |-> run.rules, of |-> run.rules]
  /\ Ends /\ Finishes(IF run.pc = "quiet" THEN Quiet(1) ELSE Event)
  /\ task' = AfterRun
  /\ UNCHANGED <<saves, up>>

TriesLeft == run.try < Attempts - 1

(* An attempt throws: it sleeps and tries again, or gives up, at once when  *)
(* the baseline cannot be trusted.                                          *)
AttemptThrows ==
  /\ run.pc \in {"executing", "quiet", "changed"}
  /\ \/ TriesLeft /\ run' = [run EXCEPT !.pc = "sleeping"] /\ UNCHANGED <<running, table, open, past>>
     \/ Ends /\ Finishes(Event)
  /\ UNCHANGED <<saves, up, task, baseline>>

Wakes ==
  /\ run.pc = "sleeping"
  /\ run' = [run EXCEPT !.pc = "executing", !.try = @ + 1]
  /\ UNCHANGED <<saves, up, task, running, table, open, baseline, past>>

-----------------------------------------------------------------------------
(* Terma exits, at any moment; as a bound, not with a run in progress and   *)
(* more rows than the limit, which only exits during runs lead to.          *)
ExitScheduler ==
  /\ up /\ (open => Len(table) <= Limit)
  /\ up' = FALSE /\ running' = FALSE /\ run' = NoRun
  /\ UNCHANGED <<saves, task, table, open, baseline, past>>

(* recoverRunningRuns: no compaction and no trimming. *)
Recovers ==
  IF open THEN table' = Append(table, Event) /\ past' = Remembered(Event)
          ELSE UNCHANGED <<table, past>>

(* handleMissedAutomation *)
MissedRow(r) ==
  IF Missed = "skip" /\ OneShot(r) THEN [r EXCEPT !.enabled = FALSE, !.next = "none"]
  ELSE [r EXCEPT !.next = IF OneShot(r) THEN "none" ELSE NextTime(r)]

(* startSftpAutomationScheduler, which may start the run that was missed. *)
StartScheduler ==
  /\ ~up /\ up' = TRUE
  /\ Recovers
  /\ LET due == task.exists /\ task.enabled /\ task.next = "due"
         missed == due /\ Missed = "run_once" IN
     /\ task' = IF due THEN MissedRow(task)
               ELSE IF task.exists /\ task.enabled /\ task.next = "none" THEN Scheduled(task) ELSE task
     /\ running' = missed
     /\ \/ /\ open' = missed
           /\ run' = IF missed THEN Began(task) ELSE NoRun
        \/ missed /\ CreateFails /\ open' \in BOOLEAN /\ run' = NoRun
  /\ UNCHANGED <<saves, baseline>>

RunStep == Executed \/ Baselined \/ AttemptThrows \/ Wakes

ANext ==
  \/ TimePasses \/ Tick \/ RunNow \/ FolderChanges
  \/ Save \/ PauseOrEnable \/ Delete \/ ClearRuns
  \/ RunStep
  \/ ExitScheduler \/ StartScheduler

ASafety == AInit /\ [][ANext]_avars

(* The scheduler's timer is armed again after every tick (scheduleTimer);   *)
(* a transfer ends, after 24 hours at the latest (waitForSftpJob).          *)
AFairness == WF_avars(TimePasses) /\ WF_avars(Tick) /\ WF_avars(RunStep)
ASpec == ASafety /\ AFairness

-----------------------------------------------------------------------------
HistoryRows == {Event} \cup {Quiet(n) : n \in 1..MaxStreak}

ATypeOK ==
  /\ up \in BOOLEAN /\ running \in BOOLEAN /\ open \in BOOLEAN
  /\ task \in [exists : BOOLEAN, enabled : BOOLEAN, shape : Shapes, ahead : BOOLEAN,
              next : {"none", "later", "due"}, rules : Rules]
  /\ run.pc \in {"none", "executing", "quiet", "changed", "sleeping"} /\ run.try \in 0..(Attempts - 1)
  /\ table \in Seq(HistoryRows) /\ past \in Seq(HistoryRows)

(* The table says a run is in progress when one is, and only while the set  *)
(* `running` has it: a restart, a clear and the trimming of the history     *)
(* leave that row right.  (Unless creating a run throws, `running` has no   *)
(* run but the one in progress.)                                            *)
OpenIsRunning == up => (run.pc # "none" /\ task.exists => open) /\ (open => running /\ task.exists)

(* An enabled repeating automation has a next time, whatever the user, the  *)
(* clock, a missed time and a run in progress do to it.                     *)
RepeatIsScheduled ==
  up /\ task.exists /\ task.enabled /\ task.shape = "repeat" => task.next # "none"

(* The history holds the latest outcomes, in their order, each streak of    *)
(* no-change runs as one row that counts them; nothing else is merged or    *)
(* dropped while it is within the limit.                                    *)
HistoryAddsUp ==
  /\ Len(table) <= Len(past) /\ Len(table) >= Least(Limit, Len(past))
  /\ table = SubSeq(past, Len(past) - Len(table) + 1, Len(past))

(* An automation that repeats and stays enabled runs again and again (once  *)
(* the user is done with it: saves are bounded).                            *)
RunsGoOn ==
  <>[](up /\ task.exists /\ task.enabled /\ task.shape = "repeat") => []<>(run.pc = "executing")

(* A baseline that is taken for one of the present rules was taken under    *)
(* them.                                                                    *)
BaselineIsOfItsRules == task.exists /\ baseline.rules = task.rules => baseline.of = task.rules

(* A run does not disable an automation the user has changed since it       *)
(* began.                                                                   *)
EditStays ==
  [][run.pc # "none" /\ run.edited /\ run'.pc = "none" /\ up' => task'.enabled = task.enabled]_avars

(* A paused or deleted automation tries nothing again.                      *)
StoppedTriesNothing == [][run.pc = "sleeping" /\ run'.pc = "executing" => task.enabled]_avars
=============================================================================
