-------------------------- MODULE Background_proofs -------------------------
(***************************************************************************)
(* Proofs about what Terma does in the background: the scheduler of the    *)
(* automations with their history, the two-way sync that a rule runs, and  *)
(* the range cache that fills while a file is dragged out.  The history    *)
(* and the range cache are built from folds, whose lemmas come first.      *)
(***************************************************************************)
EXTENDS Automations, SyncRun, RangeCache, FiniteSetTheorems, TLAPS

-----------------------------------------------------------------------------
(***************************************************************************)
(* What the folds of the community modules compute, for the modules that   *)
(* are built from them.  FoldLeft takes the index set of a sequence apart  *)
(* from its greatest element down; here that recursion is shown to have a  *)
(* solution, and the solution to be what one gets by going through the     *)
(* sequence from its beginning.                                            *)
(*                                                                         *)
(* The provers cannot instantiate an induction theorem with a predicate,   *)
(* so induction is stated here for a set of numbers, from the well-founded *)
(* order of the naturals.                                                  *)
(***************************************************************************)

LEMMA LeastNumber ==
  ASSUME NEW T \in SUBSET Nat, T # {}
  PROVE  \E x \in T : \A y \in T : ~(y < x)
<1>1. PICK x \in T : \A y \in T : ~(<<y, x>> \in OpToRel(<, Nat))
  BY NatLessThanWellFounded, WFMin
<1>2. ASSUME NEW y \in T, y < x PROVE FALSE
  <2>1. <<y, x>> \in Nat \X Nat /\ <<y, x>>[1] < <<y, x>>[2]
    BY <1>2
  <2>2. <<y, x>> \in OpToRel(<, Nat)
    BY <2>1 DEF OpToRel
  <2> QED BY <1>1, <2>2
<1> QED BY <1>2

(* Induction up to n. *)
LEMMA Induction ==
  ASSUME NEW n \in Nat, NEW S, 0 \in S, \A i \in 0..(n - 1) : i \in S => i + 1 \in S
  PROVE  \A i \in 0..n : i \in S
<1> SUFFICES ASSUME NEW i \in 0..n, i \notin S PROVE FALSE
  OBVIOUS
<1> DEFINE T == {k \in Nat : k <= n /\ k \notin S}
<1>1. T \in SUBSET Nat /\ T # {}
  OBVIOUS
<1> HIDE DEF T
<1>2. PICK x \in T : \A y \in T : ~(y < x)
  BY <1>1, LeastNumber
<1>3. x \in Nat /\ x <= n /\ x \notin S
  BY <1>2 DEF T
<1>4. x # 0
  BY <1>3
<1>5. x - 1 \in 0..(n - 1) /\ x - 1 \in Nat /\ x - 1 <= n /\ x - 1 < x
  BY <1>3, <1>4
<1>6. x - 1 \in S
  BY <1>2, <1>5 DEF T
<1>7. x - 1 + 1 \in S
  BY <1>5, <1>6
<1>8. x - 1 + 1 = x
  BY <1>3
<1> QED BY <1>3, <1>7, <1>8

(* A set of indices has a greatest one. *)
LEMMA MaxExists ==
  ASSUME NEW n \in Nat, NEW s \in SUBSET (1..n), s # {}
  PROVE  Max(s) \in s /\ \A y \in s : y <= Max(s)
<1> DEFINE T == {k \in Nat : \E x \in s : k = n - x}
<1>1. T \in SUBSET Nat /\ T # {}
  <2>1. PICK x \in s : TRUE
    OBVIOUS
  <2>2. n - x \in T
    BY <2>1
  <2> QED BY <2>2
<1> HIDE DEF T
<1>2. PICK k \in T : \A y \in T : ~(y < k)
  BY <1>1, LeastNumber
<1>3. PICK m \in s : k = n - m
  BY <1>2 DEF T
<1>4. ASSUME NEW y \in s PROVE m >= y
  <2>1. n - y \in T
    BY DEF T
  <2>2. ~(n - y < n - m)
    BY <1>2, <1>3, <2>1
  <2> QED BY <2>2
<1>5. Max(s) \in s /\ \A y \in s : Max(s) >= y
  BY <1>4 DEF Max
<1>6. \A y \in s : y \in Int
  OBVIOUS
<1> QED BY <1>5, <1>6

LEMMA MaxOfFirst ==
  ASSUME NEW i \in Nat \ {0}
  PROVE  /\ Max(1..i) = i /\ (1..i) \ {i} = 1..(i - 1)
         /\ 1..i # {}
<1>1. i \in 1..i
  OBVIOUS
<1>2. Max(1..i) \in 1..i /\ \A y \in 1..i : y <= Max(1..i)
  <2>1. i \in Nat /\ 1..i \in SUBSET (1..i) /\ 1..i # {}
    BY <1>1
  <2> HIDE DEF Max
  <2> QED BY <2>1, MaxExists
<1>3. Max(1..i) = i
  BY <1>1, <1>2
<1>4. (1..i) \ {i} = 1..(i - 1)
  OBVIOUS
<1> HIDE DEF Max
<1> QED BY <1>1, <1>3, <1>4

-----------------------------------------------------------------------------
(* The recursion by which a fold is defined, step F, index by index.        *)
Recurs(g, start, F, n) ==
  g = [s \in SUBSET (1..n) |-> IF s = {} THEN start ELSE F[<<g[s \ {Max(s)}], Max(s)>>]]

Small(n, k) == {s \in SUBSET (1..n) : Cardinality(s) <= k}
(* A solution for the sets of at most k elements. *)
Solves(g, A, start, F, n, k) ==
  /\ g \in [Small(n, k) -> A]
  /\ \A s \in Small(n, k) : g[s] = IF s = {} THEN start ELSE F[<<g[s \ {Max(s)}], Max(s)>>]

LEMMA SmallSets ==
  ASSUME NEW n \in Nat
  PROVE  /\ {} \in Small(n, 0) /\ \A s \in Small(n, 0) : s = {}
         /\ Small(n, n) = SUBSET (1..n)
         /\ \A k \in Nat : Small(n, k) \subseteq Small(n, k + 1)
         /\ \A k \in Nat : \A s \in Small(n, k + 1) : s # {} => s \ {Max(s)} \in Small(n, k) /\ Max(s) \in 1..n
<1>1. IsFiniteSet(1..n) /\ Cardinality(1..n) = n
  <2>1. n \in Int /\ 1 \in Int
    OBVIOUS
  <2>2. IsFiniteSet(1..n) /\ Cardinality(1..n) = IF 1 > n THEN 0 ELSE n - 1 + 1
    BY <2>1, FS_Interval
  <2>3. (IF 1 > n THEN 0 ELSE n - 1 + 1) = n
    OBVIOUS
  <2> QED BY <2>2, <2>3
<1>2. \A s \in SUBSET (1..n) : IsFiniteSet(s) /\ Cardinality(s) \in Nat /\ Cardinality(s) <= n
  BY <1>1, FS_Subset, FS_CardinalityType
<1>3. {} \in Small(n, 0) /\ \A s \in Small(n, 0) : s = {}
  <2>1. Cardinality({}) = 0 /\ {} \in SUBSET (1..n)
    BY FS_EmptySet
  <2>2. ASSUME NEW s \in Small(n, 0) PROVE s = {}
    <3>1. IsFiniteSet(s) /\ Cardinality(s) = 0
      BY <1>2 DEF Small
    <3> QED BY <3>1, FS_EmptySet
  <2> QED BY <2>1, <2>2 DEF Small
<1>4. Small(n, n) = SUBSET (1..n)
  BY <1>2 DEF Small
<1>5. ASSUME NEW k \in Nat PROVE Small(n, k) \subseteq Small(n, k + 1)
  <2>1. \A c \in Nat : c <= k => c <= k + 1
    OBVIOUS
  <2> QED BY <1>2, <2>1 DEF Small
<1>6. ASSUME NEW k \in Nat, NEW s \in Small(n, k + 1), s # {}
      PROVE  s \ {Max(s)} \in Small(n, k) /\ Max(s) \in 1..n
  <2>1. s \in SUBSET (1..n) /\ Cardinality(s) <= k + 1
    BY DEF Small
  <2>2. Max(s) \in s
    BY <1>6, <2>1, MaxExists
  <2> HIDE DEF Max
  <2>3. Cardinality(s \ {Max(s)}) = Cardinality(s) - 1
    BY <1>2, <2>1, <2>2, FS_RemoveElement
  <2>4. Cardinality(s) - 1 <= k
    BY <1>2, <2>1
  <2>5. s \ {Max(s)} \in SUBSET (1..n) /\ Max(s) \in 1..n
    BY <2>1, <2>2
  <2> QED BY <2>3, <2>4, <2>5 DEF Small
<1> QED BY <1>3, <1>4, <1>5, <1>6

LEMMA FoldExists ==
  ASSUME NEW n \in Nat, NEW A, NEW start \in A, NEW F \in [A \X (1..n) -> A]
  PROVE  \E g \in [SUBSET (1..n) -> A] : Recurs(g, start, F, n)
<1> DEFINE S == {k \in Nat : \E g : Solves(g, A, start, F, n, k)}
<1>1. 0 \in S
  <2> DEFINE g == [s \in Small(n, 0) |-> start]
  <2>1. Solves(g, A, start, F, n, 0)
    BY SmallSets DEF Solves
  <2> QED BY <2>1
<1>2. ASSUME NEW k \in Nat, k \in S PROVE k + 1 \in S
  <2>1. PICK g : Solves(g, A, start, F, n, k)
    BY <1>2
  <2> DEFINE E(s) == IF s = {} THEN start ELSE F[<<g[s \ {Max(s)}], Max(s)>>]
             h == [s \in Small(n, k + 1) |-> E(s)]
  <2>2. ASSUME NEW s \in Small(n, k + 1) PROVE h[s] \in A
    <3>1. s # {} => s \ {Max(s)} \in Small(n, k) /\ Max(s) \in 1..n
      BY SmallSets
    <3>2. s # {} => F[<<g[s \ {Max(s)}], Max(s)>>] \in A
      BY <2>1, <3>1 DEF Solves
    <3> QED BY <3>2
  <2>3. ASSUME NEW s \in Small(n, k) PROVE h[s] = g[s]
    <3>1. s \in Small(n, k + 1)
      BY SmallSets
    <3> QED BY <2>1, <3>1 DEF Solves
  <2>4. ASSUME NEW s \in Small(n, k + 1)
        PROVE  h[s] = IF s = {} THEN start ELSE F[<<h[s \ {Max(s)}], Max(s)>>]
    <3>1. s # {} => s \ {Max(s)} \in Small(n, k)
      BY SmallSets
    <3>2. s # {} => h[s \ {Max(s)}] = g[s \ {Max(s)}]
      BY <2>3, <3>1
    <3>3. h[s] = E(s)
      OBVIOUS
    <3> HIDE DEF h
    <3> QED BY <3>2, <3>3
  <2>5. h \in [Small(n, k + 1) -> A]
    BY <2>2
  <2> HIDE DEF h
  <2>6. Solves(h, A, start, F, n, k + 1)
    BY <2>4, <2>5 DEF Solves
  <2> QED BY <2>6
<1> HIDE DEF S
<1>3. n \in S
  <2>1. \A i \in 0..(n - 1) : i \in S => i + 1 \in S
    BY <1>2
  <2>2. \A i \in 0..n : i \in S
    BY <1>1, <2>1, Induction
  <2> QED BY <2>2
<1>4. PICK g : Solves(g, A, start, F, n, n)
  BY <1>3 DEF S
<1>5. g \in [SUBSET (1..n) -> A]
  BY <1>4, SmallSets DEF Solves
<1>6. \A s \in SUBSET (1..n) : g[s] = IF s = {} THEN start ELSE F[<<g[s \ {Max(s)}], Max(s)>>]
  BY <1>4, SmallSets, ZenonT(40) DEF Solves
<1>7. Recurs(g, start, F, n)
  BY <1>5, <1>6 DEF Recurs
<1> QED BY <1>5, <1>7

-----------------------------------------------------------------------------
(***************************************************************************)
(* Proofs about an automation's scheduler and history, for any rules, any  *)
(* limits and both policies for missed runs, with or without failures to   *)
(* store a run.                                                            *)
(***************************************************************************)

RunPcs == {"none", "executing", "quiet", "changed", "sleeping"}
Times == {"none", "later", "due"}

Rows ==
  /\ task \in [exists : BOOLEAN, enabled : BOOLEAN, shape : Shapes, ahead : BOOLEAN, next : Times, rules : Rules]
  /\ run \in [pc : RunPcs, once : BOOLEAN, rules : Rules \cup {0}, try : Int, edited : BOOLEAN]
  /\ up \in BOOLEAN /\ running \in BOOLEAN /\ open \in BOOLEAN

(* A run is one of the present process, and `running` has it. *)
RunIsKnown == run.pc # "none" => up /\ running

RInv == Rows /\ RunIsKnown /\ OpenIsRunning
TInv == RInv /\ RepeatIsScheduled

-----------------------------------------------------------------------------
(* The rows the actions store. *)

RowType == [exists : BOOLEAN, enabled : BOOLEAN, shape : Shapes, ahead : BOOLEAN, next : Times, rules : Rules]
RunType == [pc : RunPcs, once : BOOLEAN, rules : Rules \cup {0}, try : Int, edited : BOOLEAN]

NeverForgotten(r) == r.exists /\ r.enabled /\ r.shape = "repeat" => r.next # "none"

LEMMA RowsAre ==
  ASSUME NEW r \in RowType
  PROVE  /\ DueRow(r) \in RowType /\ Scheduled(r) \in RowType /\ MissedRow(r) \in RowType
         /\ DueRow(r).exists = r.exists /\ Scheduled(r).exists = r.exists /\ MissedRow(r).exists = r.exists
         /\ DueRow(r).enabled = r.enabled
         /\ NeverForgotten(DueRow(r)) /\ NeverForgotten(Scheduled(r)) /\ NeverForgotten(MissedRow(r))
<1>1. NextTime(r) \in Times /\ (r.shape = "repeat" => NextTime(r) # "none")
  BY DEF NextTime, Times
<1>2. \A t \in Times : /\ [r EXCEPT !.next = t] \in RowType /\ [r EXCEPT !.next = t].exists = r.exists
                       /\ [r EXCEPT !.next = t].enabled = r.enabled /\ [r EXCEPT !.next = t].shape = r.shape
                       /\ [r EXCEPT !.next = t].next = t
  BY DEF RowType
<1>3. DueRow(r) \in RowType /\ DueRow(r).exists = r.exists /\ DueRow(r).enabled = r.enabled /\ NeverForgotten(DueRow(r))
  BY <1>1, <1>2 DEF DueRow, NeverForgotten
<1>4. Scheduled(r) \in RowType /\ Scheduled(r).exists = r.exists /\ NeverForgotten(Scheduled(r))
  <2>1. (IF r.enabled THEN NextTime(r) ELSE "none") \in Times
    BY <1>1 DEF Times
  <2> QED BY <1>1, <1>2, <2>1 DEF Scheduled, NeverForgotten
<1>5. MissedRow(r) \in RowType /\ MissedRow(r).exists = r.exists /\ NeverForgotten(MissedRow(r))
  <2>1. CASE Missed = "skip" /\ OneShot(r)
    <3>1. MissedRow(r) = [r EXCEPT !.enabled = FALSE, !.next = "none"]
      BY <2>1 DEF MissedRow
    <3> QED BY <3>1 DEF RowType, NeverForgotten, Times
  <2>2. CASE ~(Missed = "skip" /\ OneShot(r))
    <3>1. MissedRow(r) = [r EXCEPT !.next = IF OneShot(r) THEN "none" ELSE NextTime(r)]
      BY <2>2 DEF MissedRow
    <3>2. (IF OneShot(r) THEN "none" ELSE NextTime(r)) \in Times
      BY <1>1 DEF Times
    <3>3. r.shape = "repeat" => ~OneShot(r)
      BY DEF OneShot
    <3> QED BY <1>1, <1>2, <3>1, <3>2, <3>3 DEF NeverForgotten
  <2> QED BY <2>1, <2>2
<1> QED BY <1>3, <1>4, <1>5

LEMMA BeganType ==
  ASSUME NEW r \in RowType
  PROVE  Began(r) \in RunType /\ Began(r).pc = "executing"
<1>1. OneShot(r) \in BOOLEAN /\ r.rules \in Rules
  BY DEF RowType, OneShot
<1> QED BY <1>1 DEF Began, RunType, RunPcs

LEMMA NoRunType == NoRun \in RunType /\ NoRun.pc = "none"
BY DEF NoRun, RunType, RunPcs

LEMMA AInitInv == AInit => RInv /\ TInv
<1> SUFFICES ASSUME AInit PROVE RInv /\ TInv
  OBVIOUS
<1>1. /\ up = TRUE /\ running = FALSE /\ run = NoRun /\ open = FALSE
      /\ \E s \in Shapes, r \in Rules, a \in BOOLEAN :
           task = Scheduled([exists |-> TRUE, enabled |-> TRUE, shape |-> s, ahead |-> a, next |-> "none", rules |-> r])
  BY DEF AInit
<1>2. \A s \in Shapes, r \in Rules, a \in BOOLEAN :
        [exists |-> TRUE, enabled |-> TRUE, shape |-> s, ahead |-> a, next |-> "none", rules |-> r] \in RowType
  BY DEF RowType, Times
<1>3. task \in RowType /\ NeverForgotten(task)
  BY <1>1, <1>2, RowsAre
<1> QED BY <1>1, <1>3, NoRunType
        DEF RInv, TInv, Rows, RowType, RunType, RunIsKnown, OpenIsRunning, RepeatIsScheduled, NeverForgotten

-----------------------------------------------------------------------------
(* A run in the table is a run in progress. *)

(* The part of runAutomation before its first await. *)
StartsRun ==
  \/ UNCHANGED <<running, run, open>>
  \/ /\ ~running /\ task.exists /\ running' = TRUE
     /\ \/ open' = TRUE /\ run' \in RunType /\ run'.pc = "executing"
        \/ open' \in {open, TRUE} /\ UNCHANGED run

LEMMA StartsWhat ==
  ASSUME Rows, Starts(DueRow(task), FALSE) \/ Starts(task, FALSE) \/ Starts(task, TRUE)
  PROVE  task' \in RowType /\ task'.exists = task.exists /\ StartsRun
<1>1. task \in RowType
  BY DEF Rows, RowType
<1>2. CASE Starts(DueRow(task), FALSE)
  BY <1>1, <1>2, RowsAre, BeganType DEF Starts, StartsRun
<1>3. CASE Starts(task, FALSE) \/ Starts(task, TRUE)
  BY <1>1, <1>3, BeganType DEF Starts, StartsRun
<1> QED BY <1>2, <1>3

LEMMA StartsInv == RInv /\ (Tick \/ RunNow \/ FolderChanges) => RInv'
<1> SUFFICES ASSUME RInv, Tick \/ RunNow \/ FolderChanges PROVE RInv'
  OBVIOUS
<1>1. up = TRUE /\ up' = up /\ (Starts(DueRow(task), FALSE) \/ Starts(task, FALSE) \/ Starts(task, TRUE))
  BY DEF Tick, RunNow, FolderChanges, RInv, Rows
<1>2. task' \in RowType /\ task'.exists = task.exists /\ StartsRun
  BY <1>1, StartsWhat DEF RInv
<1>3. Rows'
  BY <1>1, <1>2 DEF Rows, RInv, RowType, RunType, StartsRun
<1>4. RunIsKnown' /\ OpenIsRunning'
  <2>1. CASE UNCHANGED <<running, run, open>>
    BY <1>1, <1>2, <2>1 DEF RInv, RunIsKnown, OpenIsRunning
  <2>2. CASE task.exists /\ running' = TRUE /\ open' = TRUE
    BY <1>1, <1>2, <2>2 DEF RunIsKnown, OpenIsRunning
  <2>3. CASE ~running /\ task.exists /\ running' = TRUE /\ open' = open /\ UNCHANGED run
    <3>1. run'.pc = "none"
      BY <2>3 DEF RInv, RunIsKnown
    <3> QED BY <1>1, <1>2, <2>3, <3>1 DEF RInv, RunIsKnown, OpenIsRunning
  <2> QED BY <1>2, <2>1, <2>2, <2>3 DEF StartsRun
<1> QED BY <1>3, <1>4 DEF RInv

LEMMA UserInv == RInv /\ (TimePasses \/ Save \/ PauseOrEnable \/ Delete \/ ClearRuns) => RInv'
<1> SUFFICES ASSUME RInv, TimePasses \/ Save \/ PauseOrEnable \/ Delete \/ ClearRuns PROVE RInv'
  OBVIOUS
<1>1. task \in RowType /\ run \in RunType
  BY DEF RInv, Rows, RowType, RunType
<1>2. run' \in RunType /\ run'.pc = run.pc
  <2>1. CASE UNCHANGED run
    BY <2>1, <1>1
  <2>2. CASE run' = [run EXCEPT !.edited = run.pc # "none"]
    <3>1. (run.pc # "none") \in BOOLEAN
      OBVIOUS
    <3> QED BY <2>2, <3>1, <1>1 DEF RunType
  <2> QED BY <2>1, <2>2 DEF TimePasses, Save, PauseOrEnable, Delete, ClearRuns, Edits
<1>3. up' = up /\ running' = running
  BY DEF TimePasses, Save, PauseOrEnable, Delete, ClearRuns
<1>4. CASE TimePasses
  <2>1. task' \in RowType /\ task'.exists = task.exists /\ open' = open
    BY <1>1, <1>4 DEF TimePasses, RowType, Times
  <2> QED BY <2>1, <1>2, <1>3 DEF RInv, Rows, RowType, RunType, RunIsKnown, OpenIsRunning
<1>5. CASE Save
  <2>1. PICK s \in Shapes, g \in Rules, e \in BOOLEAN, a \in BOOLEAN :
          task' = Scheduled([task EXCEPT !.shape = s, !.ahead = a, !.rules = g, !.enabled = e])
    BY <1>5 DEF Save
  <2> DEFINE r == [task EXCEPT !.shape = s, !.ahead = a, !.rules = g, !.enabled = e]
  <2>2. r \in RowType /\ r.exists = task.exists
    BY <1>1 DEF RowType
  <2> HIDE DEF r
  <2>3. task' \in RowType /\ task'.exists = task.exists
    BY <2>1, <2>2, RowsAre DEF r
  <2>4. open' = open
    BY <1>5 DEF Save
  <2> QED BY <2>3, <2>4, <1>2, <1>3 DEF RInv, Rows, RowType, RunType, RunIsKnown, OpenIsRunning
<1>6. CASE PauseOrEnable
  <2>1. PICK e \in BOOLEAN : task' = Scheduled([task EXCEPT !.enabled = e])
    BY <1>6 DEF PauseOrEnable
  <2>2. [task EXCEPT !.enabled = e] \in RowType /\ [task EXCEPT !.enabled = e].exists = task.exists
    BY <1>1 DEF RowType
  <2>3. task' \in RowType /\ task'.exists = task.exists
    BY <2>1, <2>2, RowsAre
  <2>4. open' = open
    BY <1>6 DEF PauseOrEnable
  <2> QED BY <2>3, <2>4, <1>2, <1>3 DEF RInv, Rows, RowType, RunType, RunIsKnown, OpenIsRunning
<1>7. CASE Delete
  <2>1. task' \in RowType /\ task'.exists = FALSE /\ open' = FALSE
    BY <1>1, <1>7 DEF Delete, RowType, Times
  <2> QED BY <2>1, <1>2, <1>3 DEF RInv, Rows, RowType, RunType, RunIsKnown, OpenIsRunning
<1>8. CASE ClearRuns
  <2>1. task' = task /\ open' = open
    BY <1>8 DEF ClearRuns, Cleared
  <2> QED BY <2>1, <1>1, <1>2, <1>3 DEF RInv, Rows, RowType, RunType, RunIsKnown, OpenIsRunning
<1> QED BY <1>4, <1>5, <1>6, <1>7, <1>8

LEMMA AfterRunType ==
  ASSUME Rows
  PROVE  AfterRun \in RowType /\ AfterRun.exists = task.exists
BY DEF Rows, AfterRun, RowType, Times

LEMMA RunInv == RInv /\ RunStep => RInv'
<1> SUFFICES ASSUME RInv, RunStep PROVE RInv'
  OBVIOUS
<1>1. run.pc # "none" /\ up /\ running /\ up' = up
  BY DEF RunStep, Executed, Baselined, AttemptThrows, Wakes, RInv, RunIsKnown
<1>2. task' \in RowType /\ task'.exists = task.exists
  <2>1. task' = task \/ task' = AfterRun
    BY DEF RunStep, Executed, Baselined, AttemptThrows, Wakes
  <2> QED BY <2>1, AfterRunType DEF RInv, Rows, RowType
<1>3. CASE Ends /\ \E o : Finishes(o)
  <2>1. run' = NoRun /\ running' = FALSE /\ open' = FALSE
    BY <1>3 DEF Ends, Finishes, RInv, Rows
  <2> QED BY <2>1, <1>1, <1>2, NoRunType DEF RInv, Rows, RowType, RunType, RunIsKnown, OpenIsRunning
<1>4. CASE run' \in RunType /\ run'.pc # "none" /\ UNCHANGED <<running, open>>
  BY <1>4, <1>1, <1>2 DEF RInv, Rows, RowType, RunType, RunIsKnown, OpenIsRunning
<1>5. \/ Ends /\ \E o : Finishes(o)
      \/ run' \in RunType /\ run'.pc # "none" /\ UNCHANGED <<running, open>>
  <2>1. run \in RunType
    BY DEF RInv, Rows, RunType
  <2>2. CASE Executed
    <3>1. \A q \in BOOLEAN : (IF q THEN "quiet" ELSE "changed") \in RunPcs \ {"none"}
      BY DEF RunPcs
    <3>2. \A pc \in RunPcs \ {"none"} : [run EXCEPT !.pc = pc] \in RunType /\ [run EXCEPT !.pc = pc].pc # "none"
      BY <2>1 DEF RunType
    <3> QED BY <2>2, <3>1, <3>2 DEF Executed
  <2>3. CASE Baselined
    BY <2>3 DEF Baselined
  <2>4. CASE AttemptThrows
    <3>1. [run EXCEPT !.pc = "sleeping"] \in RunType /\ [run EXCEPT !.pc = "sleeping"].pc # "none"
      BY <2>1 DEF RunType, RunPcs
    <3> QED BY <2>4, <3>1 DEF AttemptThrows
  <2>5. CASE Wakes
    <3>1. run.try + 1 \in Int
      BY <2>1 DEF RunType
    <3>2. \A n \in Int : /\ [run EXCEPT !.pc = "executing", !.try = n] \in RunType
                         /\ [run EXCEPT !.pc = "executing", !.try = n].pc # "none"
      BY <2>1 DEF RunType, RunPcs
    <3>3. run' = [run EXCEPT !.pc = "executing", !.try = run.try + 1] /\ UNCHANGED <<running, open>>
      BY <2>5 DEF Wakes
    <3> QED BY <3>1, <3>2, <3>3
  <2> QED BY <2>2, <2>3, <2>4, <2>5 DEF RunStep
<1> QED BY <1>3, <1>4, <1>5

LEMMA ProcessInv == RInv /\ (ExitScheduler \/ StartScheduler) => RInv'
<1> SUFFICES ASSUME RInv, ExitScheduler \/ StartScheduler PROVE RInv'
  OBVIOUS
<1>1. task \in RowType
  BY DEF RInv, Rows, RowType
<1>2. CASE ExitScheduler
  <2>1. up' = FALSE /\ running' = FALSE /\ run' = NoRun /\ UNCHANGED <<task, open>>
    BY <1>2 DEF ExitScheduler
  <2> QED BY <2>1, NoRunType DEF RInv, Rows, RowType, RunType, RunIsKnown, OpenIsRunning
<1>3. CASE StartScheduler
  <2> DEFINE due == task.exists /\ task.enabled /\ task.next = "due"
  <2> DEFINE missed == due /\ Missed = "run_once"
  <2>1. /\ ~up /\ up' = TRUE /\ running' = missed
        /\ task' \in {MissedRow(task), Scheduled(task), task}
        /\ \/ open' = missed /\ run' = IF missed THEN Began(task) ELSE NoRun
           \/ missed /\ open' \in BOOLEAN /\ run' = NoRun
    BY <1>3 DEF StartScheduler
  <2>2. task' \in RowType /\ task'.exists = task.exists
    BY <1>1, <2>1, RowsAre
  <2>3. missed \in BOOLEAN /\ due \in BOOLEAN /\ (missed => task.exists)
    OBVIOUS
  <2> HIDE DEF missed
  <2>4. /\ run' \in RunType /\ open' \in BOOLEAN /\ running' \in BOOLEAN
        /\ run'.pc # "none" => running' = TRUE /\ open' = TRUE /\ task.exists
        /\ open' => running' /\ task.exists
    <3>1. Began(task) \in RunType /\ Began(task).pc = "executing"
      BY <1>1, BeganType
    <3>2. CASE missed = TRUE
      BY <2>1, <2>3, <3>1, <3>2, NoRunType
    <3>3. CASE missed = FALSE
      BY <2>1, <3>3, NoRunType
    <3> QED BY <2>3, <3>2, <3>3
  <2> QED BY <2>1, <2>2, <2>4 DEF RInv, Rows, RowType, RunType, RunIsKnown, OpenIsRunning
<1> QED BY <1>2, <1>3

LEMMA RStutter == RInv /\ UNCHANGED avars => RInv'
BY DEF avars, RInv, Rows, RunIsKnown, OpenIsRunning

(* A row that shows a run in progress belongs to one, and a run in progress *)
(* has its row, whatever the user, the scheduler and restarts do            *)
(* (finishRun, clearRuns, recoverRunningRuns, ON DELETE CASCADE).           *)
THEOREM HistoryTellsRunning == ASafety => []OpenIsRunning
<1>1. RInv /\ [ANext]_avars => RInv'
  BY StartsInv, UserInv, RunInv, ProcessInv, RStutter DEF ANext
<1>2. RInv => OpenIsRunning
  BY DEF RInv
<1> QED BY <1>1, <1>2, AInitInv, PTL DEF ASafety

-----------------------------------------------------------------------------
(* An automation that repeats has a next time. *)

LEMMA ScheduleKept == TInv /\ [ANext]_avars => TInv'
<1> SUFFICES ASSUME TInv, [ANext]_avars PROVE TInv'
  OBVIOUS
<1>1. task \in RowType /\ RInv' /\ (up => NeverForgotten(task))
  BY StartsInv, UserInv, RunInv, ProcessInv, RStutter
  DEF ANext, TInv, RInv, Rows, RowType, RepeatIsScheduled, NeverForgotten
<1>2. RepeatIsScheduled' <=> (up' => NeverForgotten(task'))
  BY DEF RepeatIsScheduled, NeverForgotten
<1>3. CASE Tick \/ RunNow \/ FolderChanges
  <2>1. up /\ task' \in {DueRow(task), task}
    BY <1>3 DEF Tick, RunNow, FolderChanges, Starts
  <2> QED BY <1>1, <1>2, <2>1, RowsAre DEF TInv
<1>4. CASE TimePasses
  <2>1. task' = [task EXCEPT !.next = "due", !.ahead = FALSE]
    BY <1>4 DEF TimePasses
  <2> QED BY <1>1, <1>2, <2>1 DEF TInv, NeverForgotten, RowType
<1>5. CASE Save
  <2>1. PICK s \in Shapes, g \in Rules, e \in BOOLEAN, a \in BOOLEAN :
          task' = Scheduled([task EXCEPT !.shape = s, !.ahead = a, !.rules = g, !.enabled = e])
    BY <1>5 DEF Save
  <2> DEFINE r == [task EXCEPT !.shape = s, !.ahead = a, !.rules = g, !.enabled = e]
  <2>2. r \in RowType
    BY <1>1 DEF RowType
  <2> HIDE DEF r
  <2> QED BY <1>1, <1>2, <2>1, <2>2, RowsAre DEF TInv, r
<1>6. CASE PauseOrEnable
  <2>1. PICK e \in BOOLEAN : task' = Scheduled([task EXCEPT !.enabled = e])
    BY <1>6 DEF PauseOrEnable
  <2>2. [task EXCEPT !.enabled = e] \in RowType
    BY <1>1 DEF RowType
  <2> QED BY <1>1, <1>2, <2>1, <2>2, RowsAre DEF TInv
<1>7. CASE Delete
  <2>1. task' = [task EXCEPT !.exists = FALSE, !.enabled = FALSE, !.next = "none"]
    BY <1>7 DEF Delete
  <2>2. task'.exists = FALSE
    BY <2>1, <1>1 DEF RowType
  <2> QED BY <1>1, <1>2, <2>2 DEF TInv, NeverForgotten
<1>8. CASE ClearRuns \/ UNCHANGED avars
  <2>1. task' = task /\ up' = up
    BY <1>8 DEF ClearRuns, avars
  <2> QED BY <1>1, <1>2, <2>1 DEF TInv
<1>9. CASE RunStep
  <2>1. up' = up /\ task' \in {task, AfterRun}
    BY <1>9 DEF RunStep, Executed, Baselined, AttemptThrows, Wakes
  <2>2. CASE task' = task
    BY <1>1, <1>2, <2>1, <2>2 DEF TInv
  <2>3. CASE task' = [task EXCEPT !.enabled = FALSE, !.next = "none"]
    <3>1. task'.enabled = FALSE
      BY <2>3, <1>1 DEF RowType
    <3> QED BY <1>1, <1>2, <3>1 DEF TInv, NeverForgotten
  <2> QED BY <2>1, <2>2, <2>3 DEF AfterRun
<1>10. CASE ExitScheduler
  BY <1>10, <1>1, <1>2 DEF ExitScheduler, TInv
<1>11. CASE StartScheduler
  <2>1. \/ task' \in {MissedRow(task), Scheduled(task)}
        \/ task' = task /\ ~(task.exists /\ task.enabled /\ task.next = "none")
    BY <1>11 DEF StartScheduler
  <2>2. CASE task' \in {MissedRow(task), Scheduled(task)}
    BY <1>1, <1>2, <2>2, RowsAre DEF TInv
  <2>3. CASE task' = task /\ ~(task.exists /\ task.enabled /\ task.next = "none")
    BY <1>1, <1>2, <2>3 DEF TInv, NeverForgotten
  <2> QED BY <2>1, <2>2, <2>3
<1> QED BY <1>3, <1>4, <1>5, <1>6, <1>7, <1>8, <1>9, <1>10, <1>11 DEF ANext

(* While Terma runs, an enabled automation that repeats has a next time:    *)
(* neither a tick, an edit, a run that ends nor a missed time over a        *)
(* restart leaves it unscheduled (schedulerTick, syncAutomationSchedule,    *)
(* handleMissedAutomation).                                                 *)
THEOREM RepeatStaysScheduled == ASafety => []RepeatIsScheduled
<1>1. AInit => TInv
  BY AInitInv DEF TInv
<1>2. TInv => RepeatIsScheduled
  BY DEF TInv
<1> QED BY <1>1, <1>2, ScheduleKept, PTL DEF ASafety

-----------------------------------------------------------------------------
(* The history. *)

(* What compactNoChangeRuns does with one row more. *)
Joins(out, r) == out # <<>> /\ Last(out).quiet /\ r.quiet
Counted(out, r) ==
  IF Joins(out, r) THEN Append(Front(out), Quiet(Least(MaxStreak, Last(out).streak + r.streak)))
  ELSE Append(out, r)

LEMMA SameSeq ==
  ASSUME NEW S, NEW s \in Seq(S), NEW t \in Seq(S), Len(s) = Len(t), \A i \in 1..Len(s) : s[i] = t[i]
  PROVE  s = t
OBVIOUS

LEMMA HistoryRowsAre ==
  /\ Event \in HistoryRows /\ Event.quiet = FALSE /\ Event.streak = 0
  /\ Quiet(1) \in HistoryRows
  /\ \A n \in 1..MaxStreak : Quiet(n) \in HistoryRows /\ Quiet(n).quiet = TRUE /\ Quiet(n).streak = n
  /\ \A r \in HistoryRows : /\ r.quiet \in BOOLEAN /\ r.streak \in Nat
                            /\ r.quiet => r.streak \in 1..MaxStreak
<1>1. 1 \in 1..MaxStreak
  BY AutomationAssumption
<1>2. Event \in HistoryRows /\ \A n \in 1..MaxStreak : Quiet(n) \in HistoryRows
  BY DEF HistoryRows
<1>3. Event.quiet = FALSE /\ Event.streak = 0
  BY DEF Event
<1>4. \A n \in 1..MaxStreak : Quiet(n).quiet = TRUE /\ Quiet(n).streak = n
  BY DEF Quiet
<1>5. ASSUME NEW r \in HistoryRows
      PROVE  r.quiet \in BOOLEAN /\ r.streak \in Nat /\ (r.quiet => r.streak \in 1..MaxStreak)
  <2>1. CASE r = Event
    <3>1. r.quiet = FALSE /\ r.streak = 0
      BY <1>3, <2>1
    <3>2. r.streak \in Nat
      BY <3>1
    <3> QED BY <3>1, <3>2, Zenon
  <2>2. CASE r # Event
    <3>1. PICK n \in 1..MaxStreak : r = Quiet(n)
      BY <2>2 DEF HistoryRows
    <3>2. r.quiet = TRUE /\ r.streak = n
      BY <1>4, <3>1
    <3>3. r.streak \in Nat /\ r.streak \in 1..MaxStreak
      BY <3>2
    <3> QED BY <3>2, <3>3, Zenon
  <2> QED BY <2>1, <2>2
<1> QED BY <1>1, <1>2, <1>3, <1>4, <1>5

LEMMA TakenType ==
  ASSUME NEW out \in Seq(HistoryRows), NEW r \in HistoryRows
  PROVE  Counted(out, r) \in Seq(HistoryRows)
<1>1. CASE Joins(out, r)
  <2> DEFINE n == Least(MaxStreak, Last(out).streak + r.streak)
  <2>1. out # <<>> /\ Len(out) \in 1..Len(out) /\ Last(out) = out[Len(out)] /\ Front(out) \in Seq(HistoryRows)
    BY <1>1 DEF Joins, Last, Front
  <2>2. Last(out) \in HistoryRows /\ Last(out).quiet /\ r.quiet
    BY <1>1, <2>1 DEF Joins
  <2>3. Last(out).streak \in 1..MaxStreak /\ r.streak \in 1..MaxStreak
    BY <2>2, HistoryRowsAre
  <2>4. n \in 1..MaxStreak
    BY <2>3, AutomationAssumption DEF Least
  <2> HIDE DEF n
  <2>5. Quiet(n) \in HistoryRows
    BY <2>4, HistoryRowsAre
  <2> QED BY <1>1, <2>1, <2>5 DEF Counted, n
<1>2. CASE ~Joins(out, r)
  BY <1>2 DEF Counted
<1> QED BY <1>1, <1>2

(* Compacting takes the rows one by one. *)
LEMMA CompactedIs ==
  ASSUME NEW rows \in Seq(HistoryRows), NEW h \in [0..Len(rows) -> Seq(HistoryRows)], h[0] = <<>>,
         \A i \in 1..Len(rows) : h[i] = Counted(h[i - 1], rows[i])
  PROVE  Compacted(rows) = h[Len(rows)]
<1> DEFINE n == Len(rows)
           A == Seq(HistoryRows)
           F == [p \in A \X (1..n) |-> Counted(p[1], rows[p[2]])]
           iter == CHOOSE f : f = [s \in SUBSET (1..n) |-> IF s = {} THEN <<>> ELSE Counted(f[s \ {Max(s)}], rows[Max(s)])]
<1>1. n \in Nat /\ DOMAIN rows = 1..n /\ <<>> \in A /\ \A i \in 1..n : rows[i] \in HistoryRows
  OBVIOUS
<1>2. Compacted(rows) = iter[1..n]
  <2>1. Compacted(rows) = LET f[s \in SUBSET DOMAIN rows] == IF s = {} THEN <<>> ELSE Counted(f[s \ {Max(s)}], rows[Max(s)])
                          IN  f[DOMAIN rows]
    BY DEF Compacted, Counted, Joins, FoldLeft, MapThenFoldSet
  <2> QED BY <1>1, <2>1
<1>3. F \in [A \X (1..n) -> A]
  BY <1>1, TakenType
<1> HIDE DEF n, A
<1>4. PICK g \in [SUBSET (1..n) -> A] : Recurs(g, <<>>, F, n)
  <2> HIDE DEF F
  <2> QED BY <1>1, <1>3, FoldExists
<1>5. \A s \in SUBSET (1..n) : s # {} => Max(s) \in 1..n
  BY <1>1, MaxExists
<1>6. g = [s \in SUBSET (1..n) |-> IF s = {} THEN <<>> ELSE Counted(g[s \ {Max(s)}], rows[Max(s)])]
  <2>1. \A a \in A, i \in 1..n : F[<<a, i>>] = Counted(a, rows[i])
    OBVIOUS
  <2>2. \A s \in SUBSET (1..n) : s # {} => g[s \ {Max(s)}] \in A
    OBVIOUS
  <2> HIDE DEF F
  <2>3. \A s \in SUBSET (1..n) : s # {} => F[<<g[s \ {Max(s)}], Max(s)>>] = Counted(g[s \ {Max(s)}], rows[Max(s)])
    BY <1>5, <2>1, <2>2
  <2> QED BY <1>4, <2>3 DEF Recurs
<1>7. iter = [s \in SUBSET (1..n) |-> IF s = {} THEN <<>> ELSE Counted(iter[s \ {Max(s)}], rows[Max(s)])]
  BY <1>6
<1> HIDE DEF iter
<1> DEFINE S == {i \in 0..n : iter[1..i] = h[i]}
<1>8. 0 \in S
  <2>1. 1..0 = {} /\ {} \in SUBSET (1..n)
    OBVIOUS
  <2>2. iter[{}] = <<>>
    BY <1>7, <2>1
  <2> QED BY <1>1, <2>1, <2>2
<1>9. ASSUME NEW i \in 0..(n - 1), i \in S PROVE i + 1 \in S
  <2>1. i + 1 \in Nat \ {0} /\ i + 1 \in 1..n /\ i + 1 - 1 = i /\ i + 1 \in 0..n
    BY <1>1
  <2>2. 1..(i + 1) \in SUBSET (1..n)
    BY <1>1, <2>1
  <2>3. Max(1..(i + 1)) = i + 1 /\ (1..(i + 1)) \ {i + 1} = 1..i /\ 1..(i + 1) # {}
    BY <2>1, MaxOfFirst
  <2>4. iter[1..(i + 1)] = Counted(iter[1..i], rows[i + 1])
    BY <1>7, <2>2, <2>3, ZenonT(40)
  <2>5. iter[1..i] = h[i] /\ h[i + 1] = Counted(h[i], rows[i + 1])
    BY <1>9, <2>1 DEF n
  <2> QED BY <2>1, <2>4, <2>5
<1> HIDE DEF S
<1>10. n \in S
  <2>1. \A i \in 0..n : i \in S
    BY <1>1, <1>8, <1>9, Induction
  <2> QED BY <1>1, <2>1
<1> QED BY <1>2, <1>10 DEF S, n

(* No two neighbouring rows tell of runs that changed nothing. *)
Compact(rows) == \A i \in 1..(Len(rows) - 1) : ~(rows[i].quiet /\ rows[i + 1].quiet)

(* A compact history and one outcome more: only the last row can change.    *)
LEMMA CompactedOneMore ==
  ASSUME NEW rows \in Seq(HistoryRows), Compact(rows), NEW o \in HistoryRows
  PROVE  Compacted(Append(rows, o)) = Counted(rows, o)
<1> DEFINE n == Len(rows)
           all == Append(rows, o)
           h == [i \in 0..(n + 1) |-> IF i = n + 1 THEN Counted(rows, o) ELSE SubSeq(rows, 1, i)]
<1>1. n \in Nat /\ all \in Seq(HistoryRows) /\ Len(all) = n + 1 /\ all[n + 1] = o /\ \A i \in 1..n : all[i] = rows[i]
  OBVIOUS
<1>2. \A i \in 0..n : /\ SubSeq(rows, 1, i) \in Seq(HistoryRows) /\ Len(SubSeq(rows, 1, i)) = i
                      /\ \A k \in 1..i : SubSeq(rows, 1, i)[k] = rows[k]
  OBVIOUS
<1>3. h \in [0..(n + 1) -> Seq(HistoryRows)]
  <2>1. ASSUME NEW i \in 0..(n + 1)
        PROVE  (IF i = n + 1 THEN Counted(rows, o) ELSE SubSeq(rows, 1, i)) \in Seq(HistoryRows)
    <3>1. i # n + 1 => i \in 0..n
      BY <1>1
    <3>2. Counted(rows, o) \in Seq(HistoryRows)
      BY TakenType
    <3> QED BY <1>2, <3>1, <3>2
  <2> QED BY <2>1
<1>4. h[0] = <<>>
  <2>1. 0 # n + 1 /\ 0 \in 0..(n + 1)
    BY <1>1
  <2>2. SubSeq(rows, 1, 0) = <<>>
    BY <1>2
  <2> QED BY <2>1, <2>2
<1>5. SubSeq(rows, 1, n) = rows
  BY <1>1, <1>2, SameSeq
<1>6. ASSUME NEW i \in 1..(n + 1) PROVE h[i] = Counted(h[i - 1], all[i])
  <2>1. i \in 0..(n + 1) /\ i - 1 \in 0..(n + 1) /\ i - 1 # n + 1
    BY <1>1
  <2>2. CASE i = n + 1
    <3>1. h[i - 1] = rows /\ h[i] = Counted(rows, o)
      <4>1. h[i] = Counted(rows, o)
        BY <2>1, <2>2
      <4>2. h[i - 1] = SubSeq(rows, 1, i - 1) /\ i - 1 = n
        BY <1>1, <2>1, <2>2
      <4> QED BY <1>5, <4>1, <4>2
    <3> HIDE DEF h
    <3> QED BY <1>1, <2>2, <3>1
  <2>3. CASE i # n + 1
    <3> DEFINE s == SubSeq(rows, 1, i - 1)
    <3>1. i \in 1..n /\ i - 1 \in 0..n /\ h[i - 1] = s /\ h[i] = SubSeq(rows, 1, i) /\ all[i] = rows[i]
      BY <1>1, <2>1, <2>3
    <3>2. s \in Seq(HistoryRows) /\ Len(s) = i - 1 /\ (\A k \in 1..(i - 1) : s[k] = rows[k]) /\ rows[i] \in HistoryRows
      <4>1. i - 1 \in 0..n /\ rows[i] \in HistoryRows
        BY <3>1
      <4> QED BY <1>2, <4>1
    <3>3. SubSeq(rows, 1, i) = Append(s, rows[i])
      <4>1. SubSeq(rows, 1, i) \in Seq(HistoryRows) /\ Len(SubSeq(rows, 1, i)) = i
            /\ \A k \in 1..i : SubSeq(rows, 1, i)[k] = rows[k]
        BY <1>2, <3>1
      <4>2. /\ Append(s, rows[i]) \in Seq(HistoryRows) /\ Len(Append(s, rows[i])) = i
            /\ \A k \in 1..i : Append(s, rows[i])[k] = rows[k]
        BY <3>2
      <4> QED BY <4>1, <4>2, SameSeq
    <3>4. ~Joins(s, rows[i])
      <4> SUFFICES ASSUME s # <<>> PROVE ~(s[Len(s)].quiet /\ rows[i].quiet)
        BY DEF Joins, Last
      <4>1. i - 1 \in 1..(n - 1) /\ s[Len(s)] = rows[i - 1] /\ i - 1 + 1 = i
        BY <1>1, <3>1, <3>2
      <4> QED BY <4>1 DEF Compact
    <3> HIDE DEF h, s, all
    <3> QED BY <3>1, <3>3, <3>4 DEF Counted
  <2> QED BY <2>2, <2>3
<1> HIDE DEF h, all, n
<1>7. Compacted(all) = h[Len(all)]
  BY <1>1, <1>3, <1>4, <1>6, CompactedIs
<1>8. h[n + 1] = Counted(rows, o)
  BY <1>1 DEF h
<1> QED BY <1>1, <1>7, <1>8 DEF all

(* t is the end of p, and as much of it as the limit allows. *)
EndOf(t, p) ==
  /\ Len(t) <= Len(p) /\ Len(t) >= Least(Limit, Len(p))
  /\ \A i \in 1..Len(t) : t[i] = p[Len(p) - Len(t) + i]

LEMMA HistoryIsEnd ==
  ASSUME table \in Seq(HistoryRows), past \in Seq(HistoryRows)
  PROVE  HistoryAddsUp <=> EndOf(table, past)
<1> DEFINE m == Len(past) - Len(table) + 1
           s == SubSeq(past, m, Len(past))
<1>1. CASE Len(table) <= Len(past)
  <2>1. m \in 1..(Len(past) + 1) /\ Len(past) - m + 1 = Len(table) /\ Len(table) \in Nat /\ Len(past) \in Nat
    BY <1>1
  <2>2. s \in Seq(HistoryRows) /\ Len(s) = Len(table)
    BY <2>1
  <2>3. \A i \in 1..Len(table) : s[i] = past[Len(past) - Len(table) + i]
    BY <2>1, <2>2
  <2> HIDE DEF s
  <2>4. table = s <=> \A i \in 1..Len(table) : table[i] = s[i]
    BY <2>2, SameSeq
  <2>5. table = s <=> \A i \in 1..Len(table) : table[i] = past[Len(past) - Len(table) + i]
    BY <2>3, <2>4
  <2> QED BY <2>5 DEF HistoryAddsUp, EndOf, s
<1>2. CASE ~(Len(table) <= Len(past))
  BY <1>2 DEF HistoryAddsUp, EndOf
<1> QED BY <1>1, <1>2

LEMMA EndIsCompact ==
  ASSUME NEW t \in Seq(HistoryRows), NEW p \in Seq(HistoryRows), EndOf(t, p), Compact(p)
  PROVE  Compact(t)
<1> SUFFICES ASSUME NEW i \in 1..(Len(t) - 1) PROVE ~(t[i].quiet /\ t[i + 1].quiet)
  BY DEF Compact
<1> DEFINE k == Len(p) - Len(t) + i
<1>1. k \in 1..(Len(p) - 1) /\ i \in 1..Len(t) /\ i + 1 \in 1..Len(t) /\ Len(p) - Len(t) + (i + 1) = k + 1
  BY DEF EndOf
<1>2. t[i] = p[k] /\ t[i + 1] = p[k + 1]
  BY <1>1 DEF EndOf
<1> HIDE DEF k
<1> QED BY <1>1, <1>2 DEF Compact

LEMMA TrimmedIs ==
  ASSUME NEW t \in Seq(HistoryRows)
  PROVE  /\ Trimmed(t) \in Seq(HistoryRows)
         /\ Len(Trimmed(t)) = Least(Limit, Len(t))
         /\ \A i \in 1..Len(Trimmed(t)) : Trimmed(t)[i] = t[Len(t) - Len(Trimmed(t)) + i]
<1> DEFINE n == Least(Limit, Len(t))
           m == Len(t) - n + 1
<1>1. n \in Nat /\ n <= Len(t) /\ Len(t) \in Nat
  BY AutomationAssumption DEF Least
<1> HIDE DEF n
<1>2. m \in 1..(Len(t) + 1) /\ Len(t) - m + 1 = n
  BY <1>1
<1>3. Trimmed(t) = SubSeq(t, m, Len(t))
  BY DEF Trimmed, n
<1>4. SubSeq(t, m, Len(t)) \in Seq(HistoryRows) /\ Len(SubSeq(t, m, Len(t))) = n
  BY <1>1, <1>2
<1>5. \A i \in 1..n : SubSeq(t, m, Len(t))[i] = t[Len(t) - n + i]
  BY <1>1, <1>2, <1>4
<1> QED BY <1>3, <1>4, <1>5 DEF n

LEMMA TrimmedIsEnd ==
  ASSUME NEW t \in Seq(HistoryRows), NEW p \in Seq(HistoryRows), EndOf(t, p)
  PROVE  EndOf(Trimmed(t), p) /\ Len(Trimmed(t)) <= Limit
<1> DEFINE u == Trimmed(t)
<1>1. /\ u \in Seq(HistoryRows) /\ Len(u) = Least(Limit, Len(t)) /\ Len(u) \in Nat
      /\ \A i \in 1..Len(u) : u[i] = t[Len(t) - Len(u) + i]
  BY TrimmedIs, SMTT(40)
<1> HIDE DEF u
<1>2. /\ Len(u) <= Len(t) /\ Len(u) <= Limit /\ Len(t) <= Len(p) /\ Len(u) >= Least(Limit, Len(p))
      /\ Len(t) \in Nat /\ Len(p) \in Nat
  BY <1>1, AutomationAssumption DEF Least, EndOf
<1>3. ASSUME NEW i \in 1..Len(u) PROVE u[i] = p[Len(p) - Len(u) + i]
  <2>1. Len(t) - Len(u) + i \in 1..Len(t) /\ Len(p) - Len(t) + (Len(t) - Len(u) + i) = Len(p) - Len(u) + i
    BY <1>1, <1>2
  <2> QED BY <1>1, <2>1 DEF EndOf
<1>4. Len(u) <= Len(p)
  BY <1>1, <1>2
<1> QED BY <1>2, <1>3, <1>4 DEF EndOf, u

LEMMA TakenIs ==
  ASSUME NEW t \in Seq(HistoryRows), NEW o \in HistoryRows
  PROVE  LET u == Counted(t, o) IN
         /\ u \in Seq(HistoryRows)
         /\ Len(u) = IF Joins(t, o) THEN Len(t) ELSE Len(t) + 1
         /\ u[Len(u)] = IF Joins(t, o) THEN Quiet(Least(MaxStreak, Last(t).streak + o.streak)) ELSE o
         /\ \A i \in 1..(Len(u) - 1) : u[i] = t[i]
<1> DEFINE u == Counted(t, o)
           q == Quiet(Least(MaxStreak, Last(t).streak + o.streak))
<1>1. u \in Seq(HistoryRows)
  BY TakenType
<1>2. CASE Joins(t, o)
  <2>1. u = Append(Front(t), q) /\ Len(t) \in Nat \ {0}
    BY <1>2 DEF Counted, Joins
  <2>2. /\ Front(t) \in Seq(HistoryRows) /\ Len(Front(t)) = Len(t) - 1
        /\ \A i \in 1..(Len(t) - 1) : Front(t)[i] = t[i]
    <3> DEFINE k == Len(t) - 1
    <3>1. k \in Nat /\ k <= Len(t)
      BY <2>1
    <3> HIDE DEF k
    <3>2. /\ SubSeq(t, 1, k) \in Seq(HistoryRows) /\ Len(SubSeq(t, 1, k)) = k
          /\ \A i \in 1..k : SubSeq(t, 1, k)[i] = t[i]
      BY <3>1
    <3>3. Front(t) = SubSeq(t, 1, k)
      BY DEF Front, k
    <3> QED BY <3>2, <3>3 DEF k
  <2> HIDE DEF q, u
  <2>3. Len(u) = Len(t) /\ u[Len(u)] = q /\ \A i \in 1..(Len(u) - 1) : u[i] = t[i]
    BY <2>1, <2>2
  <2> QED BY <1>1, <1>2, <2>3 DEF q, u
<1>3. CASE ~Joins(t, o)
  <2>1. u = Append(t, o) /\ Len(t) \in Nat
    BY <1>3 DEF Counted
  <2> HIDE DEF u
  <2>2. Len(u) = Len(t) + 1 /\ u[Len(u)] = o /\ \A i \in 1..(Len(u) - 1) : u[i] = t[i]
    BY <2>1
  <2> QED BY <1>1, <1>3, <2>2 DEF u
<1> QED BY <1>2, <1>3

LEMMA TakenKeepsEnd ==
  ASSUME NEW t \in Seq(HistoryRows), NEW p \in Seq(HistoryRows), EndOf(t, p), NEW o \in HistoryRows
  PROVE  EndOf(Counted(t, o), Counted(p, o))
<1> DEFINE u == Counted(t, o)
           v == Counted(p, o)
<1>1. Len(t) \in Nat /\ Len(p) \in Nat /\ Limit \in Nat \ {0} /\ Len(t) <= Len(p) /\ Len(t) >= Least(Limit, Len(p))
  BY AutomationAssumption DEF EndOf
<1>2. p # <<>> => t # <<>> /\ Last(t) = Last(p)
  <2> SUFFICES ASSUME p # <<>> PROVE t # <<>> /\ Last(t) = Last(p)
    OBVIOUS
  <2>1. Len(p) \in Nat \ {0}
    BY <1>1
  <2>2. Len(t) \in 1..Len(t) /\ Len(p) - Len(t) + Len(t) = Len(p)
    BY <1>1, <2>1 DEF Least
  <2> QED BY <2>2 DEF EndOf, Last
<1>3. t # <<>> => p # <<>>
  BY <1>1
<1>4. Joins(t, o) <=> Joins(p, o)
  BY <1>2, <1>3 DEF Joins
<1>5. /\ u \in Seq(HistoryRows) /\ Len(u) = (IF Joins(p, o) THEN Len(t) ELSE Len(t) + 1)
      /\ \A i \in 1..(Len(u) - 1) : u[i] = t[i]
  BY <1>4, TakenIs
<1>6. /\ v \in Seq(HistoryRows) /\ Len(v) = (IF Joins(p, o) THEN Len(p) ELSE Len(p) + 1)
      /\ \A i \in 1..(Len(v) - 1) : v[i] = p[i]
  BY TakenIs
<1>7. u[Len(u)] = v[Len(v)]
  <2>1. Joins(p, o) => Last(t) = Last(p)
    BY <1>2 DEF Joins
  <2>2. u[Len(u)] = (IF Joins(t, o) THEN Quiet(Least(MaxStreak, Last(t).streak + o.streak)) ELSE o)
    BY TakenIs
  <2>3. v[Len(v)] = (IF Joins(p, o) THEN Quiet(Least(MaxStreak, Last(p).streak + o.streak)) ELSE o)
    BY TakenIs
  <2> HIDE DEF u, v
  <2> QED BY <1>4, <2>1, <2>2, <2>3
<1> HIDE DEF u, v
<1>8. Len(u) <= Len(v) /\ Len(u) >= Least(Limit, Len(v)) /\ Len(v) - Len(u) = Len(p) - Len(t) /\ Len(u) \in Nat
  BY <1>1, <1>5, <1>6 DEF Least
<1>9. ASSUME NEW i \in 1..Len(u) PROVE u[i] = v[Len(v) - Len(u) + i]
  <2>1. CASE i = Len(u)
    <3>1. Len(v) - Len(u) + i = Len(v)
      BY <1>5, <1>6, <2>1
    <3> QED BY <1>7, <2>1, <3>1
  <2>2. CASE i # Len(u)
    <3> DEFINE k == Len(p) - Len(t) + i
    <3>1. i \in 1..(Len(u) - 1) /\ k \in 1..(Len(v) - 1) /\ i \in 1..Len(t) /\ Len(v) - Len(u) + i = k
      <4>1. Len(u) \in Nat /\ Len(v) \in Nat /\ Len(u) <= Len(t) + 1
        BY <1>1, <1>5, <1>6
      <4>2. i \in 1..(Len(u) - 1) /\ i \in 1..Len(t)
        BY <1>1, <2>2, <4>1
      <4>3. Len(v) - Len(u) + i = k
        BY <1>1, <1>8, <4>1
      <4>4. Len(v) - Len(u) + i \in 1..(Len(v) - 1)
        BY <1>8, <4>1, <4>2
      <4> HIDE DEF k
      <4> QED BY <4>2, <4>3, <4>4
    <3>2. u[i] = t[i] /\ t[i] = p[k]
      BY <1>5, <3>1 DEF EndOf
    <3> HIDE DEF k
    <3>3. v[k] = p[k]
      BY <1>6, <3>1
    <3> QED BY <3>1, <3>2, <3>3
  <2> QED BY <2>1, <2>2
<1> QED BY <1>8, <1>9 DEF EndOf, u, v

LEMMA TakenIsCompact ==
  ASSUME NEW p \in Seq(HistoryRows), Compact(p), NEW o \in HistoryRows
  PROVE  Compact(Counted(p, o))
<1> DEFINE v == Counted(p, o)
<1>1. /\ v \in Seq(HistoryRows) /\ Len(v) = (IF Joins(p, o) THEN Len(p) ELSE Len(p) + 1)
      /\ (\A i \in 1..(Len(v) - 1) : v[i] = p[i])
      /\ v[Len(v)] = (IF Joins(p, o) THEN Quiet(Least(MaxStreak, Last(p).streak + o.streak)) ELSE o)
      /\ Len(p) \in Nat
  <2>1. Len(p) \in Nat
    OBVIOUS
  <2> QED BY <2>1, TakenIs
<1> HIDE DEF v
<1> SUFFICES ASSUME NEW i \in 1..(Len(v) - 1), v[i].quiet, v[i + 1].quiet PROVE FALSE
  BY DEF Compact, v
<1>2. v[i] = p[i] /\ i \in 1..Len(p)
  BY <1>1
<1>3. CASE i + 1 \in 1..(Len(v) - 1)
  <2>1. v[i + 1] = p[i + 1] /\ i \in 1..(Len(p) - 1)
    BY <1>1, <1>3
  <2> QED BY <1>2, <2>1 DEF Compact
<1>4. CASE ~(i + 1 \in 1..(Len(v) - 1))
  <2>1. i + 1 = Len(v)
    BY <1>1, <1>4
  <2>2. CASE Joins(p, o)
    <3>1. i \in 1..(Len(p) - 1) /\ i + 1 = Len(p) /\ p[i + 1].quiet
      <4>1. i \in 1..(Len(p) - 1) /\ i + 1 = Len(p)
        BY <1>1, <2>1, <2>2
      <4>2. Last(p).quiet
        BY <2>2 DEF Joins
      <4> QED BY <4>1, <4>2 DEF Last
    <3> QED BY <1>2, <3>1 DEF Compact
  <2>3. CASE ~Joins(p, o)
    <3>1. i = Len(p) /\ p # <<>> /\ v[i + 1] = o
      BY <1>1, <1>2, <2>1, <2>3
    <3> QED BY <1>2, <2>3, <3>1 DEF Joins, Last
  <2> QED BY <2>2, <2>3
<1> QED BY <1>3, <1>4

(* The oldest row is of no use once there are more than the limit asks for. *)
LEMMA OldestIsDropped ==
  ASSUME NEW t \in Seq(HistoryRows), NEW q \in Seq(HistoryRows), EndOf(t, q), Compact(q),
         Len(q) > Limit + 1, Len(t) <= Limit + 1
  PROVE  LET d == SubSeq(q, 2, Len(q)) IN d \in Seq(HistoryRows) /\ EndOf(t, d) /\ Compact(d)
<1> DEFINE d == SubSeq(q, 2, Len(q))
<1>1. Len(q) \in Nat /\ Len(t) \in Nat /\ Limit \in Nat \ {0} /\ 2 \in 1..Len(q)
  BY AutomationAssumption
<1>2. d \in Seq(HistoryRows) /\ Len(d) = Len(q) - 1 /\ \A i \in 1..(Len(q) - 1) : d[i] = q[i + 1]
  BY <1>1
<1> HIDE DEF d
<1>3. Len(t) <= Len(d) /\ Len(t) >= Least(Limit, Len(d))
  BY <1>1, <1>2 DEF EndOf, Least
<1>4. ASSUME NEW i \in 1..Len(t) PROVE t[i] = d[Len(d) - Len(t) + i]
  <2> DEFINE k == Len(d) - Len(t) + i
  <2>1. k \in 1..(Len(q) - 1) /\ Len(q) - Len(t) + i = k + 1
    BY <1>1, <1>2, <1>3
  <2>2. t[i] = q[k + 1]
    BY <2>1 DEF EndOf
  <2> HIDE DEF k
  <2>3. d[k] = q[k + 1]
    BY <1>2, <2>1
  <2> QED BY <2>2, <2>3 DEF k
<1>5. ASSUME NEW i \in 1..(Len(d) - 1) PROVE ~(d[i].quiet /\ d[i + 1].quiet)
  <2>1. i \in 1..(Len(q) - 1) /\ i + 1 \in 1..(Len(q) - 1)
    BY <1>1, <1>2
  <2>2. d[i] = q[i + 1] /\ d[i + 1] = q[i + 1 + 1]
    BY <1>2, <2>1
  <2> QED BY <2>1, <2>2 DEF Compact
<1> QED BY <1>2, <1>3, <1>4, <1>5 DEF EndOf, Compact, d

LEMMA RememberedIs ==
  ASSUME past \in Seq(HistoryRows), Compact(past), NEW o \in {Event, Quiet(1)}
  PROVE  Remembered(o) = IF ~Joins(past, o) /\ Len(Counted(past, o)) > Limit + 1
                         THEN SubSeq(Counted(past, o), 2, Len(Counted(past, o))) ELSE Counted(past, o)
<1> DEFINE n == Len(past)
           v == Counted(past, o)
<1>1. o \in HistoryRows /\ n \in Nat
  BY HistoryRowsAre
<1>2. CASE Joins(past, o)
  <2> DEFINE k == Least(MaxStreak, past[n].streak + 1)
             w == [past EXCEPT ![n].streak = Least(MaxStreak, @ + 1)]
  <2>1. past # <<>> /\ past[n].quiet /\ o.quiet /\ n \in 1..n
    BY <1>1, <1>2 DEF Joins, Last
  <2>2. o = Quiet(1) /\ o.streak = 1
    <3>1. o # Event
      BY <2>1, HistoryRowsAre
    <3>2. o = Quiet(1) /\ 1 \in 1..MaxStreak
      BY <3>1, AutomationAssumption
    <3> QED BY <3>2, HistoryRowsAre
  <2>3. PICK m \in 1..MaxStreak : past[n] = Quiet(m)
    <3>1. past[n] \in HistoryRows
      BY <2>1
    <3>2. past[n] # Event
      BY <2>1, HistoryRowsAre
    <3> QED BY <3>1, <3>2 DEF HistoryRows
  <2>4. k \in 1..MaxStreak
    <3>1. past[n].streak \in 1..MaxStreak
      BY <2>3, HistoryRowsAre
    <3> QED BY <3>1, AutomationAssumption DEF Least
  <2>5. [past[n] EXCEPT !.streak = k] = Quiet(k)
    <3> HIDE DEF k
    <3> USE AutomationAssumption
    <3>1. Quiet(m) \in [quiet : BOOLEAN, streak : Nat] /\ Quiet(k) \in [quiet : BOOLEAN, streak : Nat]
      BY <2>3, <2>4 DEF Quiet
    <3>2. Quiet(m).quiet = TRUE /\ Quiet(k).quiet = TRUE /\ Quiet(k).streak = k
      BY DEF Quiet
    <3>3. k \in Nat
      BY <2>4
    <3>4. [Quiet(m) EXCEPT !.streak = k] = Quiet(k)
      BY <3>1, <3>2, <3>3
    <3> QED BY <2>3, <3>4
  <2>6. Quiet(k) \in HistoryRows
    <3> HIDE DEF k
    <3> QED BY <2>4, HistoryRowsAre
  <2>7. w = [past EXCEPT ![n] = Quiet(k)]
    BY <2>5
  <2>8. Remembered(o) = w
    BY <2>1 DEF Remembered, Last
  <2> HIDE DEF k, w
  <2>9. w \in Seq(HistoryRows) /\ Len(w) = n /\ w[n] = Quiet(k) /\ \A i \in 1..(n - 1) : w[i] = past[i]
    BY <2>1, <2>6, <2>7
  <2>10. v \in Seq(HistoryRows) /\ Len(v) = n /\ v[n] = Quiet(k) /\ \A i \in 1..(n - 1) : v[i] = past[i]
    <3>1. /\ v \in Seq(HistoryRows) /\ Len(v) = (IF Joins(past, o) THEN n ELSE n + 1)
          /\ v[Len(v)] = (IF Joins(past, o) THEN Quiet(Least(MaxStreak, Last(past).streak + o.streak)) ELSE o)
          /\ \A i \in 1..(Len(v) - 1) : v[i] = past[i]
      BY <1>1, TakenIs
    <3> HIDE DEF v
    <3>2. Len(v) = n /\ v[Len(v)] = Quiet(Least(MaxStreak, Last(past).streak + o.streak))
      BY <1>2, <3>1
    <3> QED BY <2>2, <3>1, <3>2 DEF k, Last
  <2> HIDE DEF v
  <2>11. \A i \in 1..Len(w) : w[i] = v[i]
    <3>1. \A i \in 1..Len(w) : i = n \/ i \in 1..(n - 1)
      BY <1>1, <2>9
    <3> QED BY <2>9, <2>10, <3>1
  <2>12. w = v
    BY <2>9, <2>10, <2>11, SameSeq
  <2> QED BY <1>2, <2>8, <2>12 DEF v
<1>3. CASE ~Joins(past, o)
  <2>1. v = Append(past, o) /\ Len(v) = n + 1
    BY <1>1, <1>3 DEF Counted
  <2>2. ~(past # <<>> /\ Last(past).quiet /\ o.quiet)
    BY <1>3 DEF Joins
  <2>3. Remembered(o) = SubSeq(v, IF Len(v) > Limit + 1 THEN 2 ELSE 1, Len(v))
    BY <2>1, <2>2 DEF Remembered
  <2>4. SubSeq(v, 1, Len(v)) = v
    <3>1. v \in Seq(HistoryRows)
      BY <1>1, TakenType
    <3> HIDE DEF v
    <3> QED BY <3>1
  <2> HIDE DEF v
  <2> QED BY <1>3, <2>3, <2>4 DEF v
<1> QED BY <1>2, <1>3

(* Outcome o is remembered, and u is what the table now holds of it.        *)
LEMMA RememberedEnd ==
  ASSUME past \in Seq(HistoryRows), Compact(past), NEW o \in {Event, Quiet(1)},
         NEW u \in Seq(HistoryRows), EndOf(u, Counted(past, o)), Len(u) <= Limit + 1
  PROVE  Remembered(o) \in Seq(HistoryRows) /\ Compact(Remembered(o)) /\ EndOf(u, Remembered(o))
<1> DEFINE v == Counted(past, o)
<1>1. v \in Seq(HistoryRows) /\ Compact(v)
  BY HistoryRowsAre, TakenType, TakenIsCompact
<1> HIDE DEF v
<1>2. CASE ~Joins(past, o) /\ Len(v) > Limit + 1
  <2>1. Remembered(o) = SubSeq(v, 2, Len(v))
    BY <1>2, RememberedIs DEF v
  <2>2. EndOf(u, v)
    BY DEF v
  <2> QED BY <1>1, <1>2, <2>1, <2>2, OldestIsDropped
<1>3. CASE ~(~Joins(past, o) /\ Len(v) > Limit + 1)
  <2>1. Remembered(o) = v
    BY <1>3, RememberedIs DEF v
  <2> QED BY <1>1, <2>1 DEF v
<1> QED BY <1>2, <1>3

-----------------------------------------------------------------------------
(* The invariant of the history. *)

HInv ==
  /\ RInv
  /\ table \in Seq(HistoryRows) /\ past \in Seq(HistoryRows)
  /\ Compact(past) /\ EndOf(table, past)
  /\ ~up /\ open => Len(table) <= Limit

LEMMA EmptyHistory ==
  /\ <<>> \in Seq(HistoryRows) /\ Compact(<<>>) /\ EndOf(<<>>, <<>>) /\ Len(<<>>) <= Limit
<1>1. <<>> \in Seq(HistoryRows) /\ Len(<<>>) = 0 /\ Len(<<>>) <= Limit
  BY AutomationAssumption
<1>2. \A i \in 1..0 : FALSE
  OBVIOUS
<1>3. \A i \in 1..(0 - 1) : FALSE
  OBVIOUS
<1>4. Least(Limit, 0) <= 0
  BY AutomationAssumption DEF Least
<1>5. Compact(<<>>)
  BY <1>1, <1>3 DEF Compact
<1>6. EndOf(<<>>, <<>>)
  BY <1>1, <1>2, <1>4 DEF EndOf
<1> QED BY <1>1, <1>5, <1>6

(* A run finishes. *)
LEMMA FinishKeepsHistory ==
  ASSUME HInv, NEW o \in {Event, Quiet(1)}, Finishes(o)
  PROVE  /\ table' \in Seq(HistoryRows) /\ past' \in Seq(HistoryRows)
         /\ Compact(past') /\ EndOf(table', past')
<1>0. /\ table \in Seq(HistoryRows) /\ past \in Seq(HistoryRows)
      /\ Compact(past) /\ EndOf(table, past) /\ o \in HistoryRows
  BY HistoryRowsAre DEF HInv
<1>1. CASE open
  <2>1. Compacted(Append(table, o)) = Counted(table, o)
    <3>1. Compact(table)
      BY <1>0, EndIsCompact
    <3> QED BY <1>0, <3>1, CompactedOneMore
  <2> DEFINE u == Trimmed(Counted(table, o))
  <2>2. table' = u /\ past' = Remembered(o)
    BY <1>1, <2>1 DEF Finishes
  <2>3. Counted(table, o) \in Seq(HistoryRows) /\ Counted(past, o) \in Seq(HistoryRows) /\ EndOf(Counted(table, o), Counted(past, o))
    BY <1>0, TakenType, TakenKeepsEnd
  <2>4. u \in Seq(HistoryRows) /\ EndOf(u, Counted(past, o)) /\ Len(u) <= Limit
    BY <2>3, TrimmedIs, TrimmedIsEnd
  <2> HIDE DEF u
  <2>5. Len(u) <= Limit + 1
    BY <2>4, AutomationAssumption
  <2> QED BY <1>0, <2>2, <2>4, <2>5, RememberedEnd
<1>2. CASE ~open
  BY <1>0, <1>2 DEF Finishes
<1> QED BY <1>1, <1>2

LEMMA HNextInv == HInv /\ [ANext]_avars => HInv'
<1> SUFFICES ASSUME HInv, [ANext]_avars PROVE HInv'
  OBVIOUS
<1>1. RInv'
  BY StartsInv, UserInv, RunInv, ProcessInv, RStutter DEF HInv, ANext
<1>2. /\ table \in Seq(HistoryRows) /\ past \in Seq(HistoryRows)
      /\ Compact(past) /\ EndOf(table, past) /\ (~up /\ open => Len(table) <= Limit)
  BY DEF HInv
<1>3. CASE TimePasses \/ Tick \/ RunNow \/ FolderChanges \/ PauseOrEnable \/ Wakes \/ UNCHANGED avars
  <2>1. UNCHANGED <<table, past, up>> /\ (up \/ open' = open)
    BY <1>3 DEF TimePasses, Tick, RunNow, FolderChanges, PauseOrEnable, Wakes, avars
  <2> QED BY <1>1, <1>2, <2>1 DEF HInv
<1>4. CASE Save
  <2>1. table' = Trimmed(table) /\ UNCHANGED <<past, up>> /\ up
    BY <1>4 DEF Save, Edits
  <2>2. Trimmed(table) \in Seq(HistoryRows) /\ EndOf(Trimmed(table), past)
    BY <1>2, TrimmedIs, TrimmedIsEnd
  <2> QED BY <1>1, <1>2, <2>1, <2>2 DEF HInv
<1>5. CASE Delete \/ ClearRuns
  <2>1. table' = <<>> /\ past' = <<>>
    BY <1>5 DEF Delete, ClearRuns
  <2> QED BY <1>1, <2>1, EmptyHistory DEF HInv
<1>6. CASE Executed \/ Baselined \/ AttemptThrows
  <2>1. up' = up /\ up
    BY <1>6 DEF Executed, Baselined, AttemptThrows, HInv, RInv, RunIsKnown
  <2>2. UNCHANGED <<table, past>> \/ \E o \in {Event, Quiet(1)} : Finishes(o)
    BY <1>6 DEF Executed, Baselined, AttemptThrows
  <2>3. CASE UNCHANGED <<table, past>>
    BY <1>1, <1>2, <2>1, <2>3 DEF HInv
  <2>4. ASSUME NEW o \in {Event, Quiet(1)}, Finishes(o) PROVE HInv'
    BY <1>1, <2>1, <2>4, FinishKeepsHistory DEF HInv
  <2> QED BY <2>2, <2>3, <2>4
<1>7. CASE ExitScheduler
  <2>1. UNCHANGED <<table, past, open>> /\ (open => Len(table) <= Limit)
    BY <1>7 DEF ExitScheduler
  <2> QED BY <1>1, <1>2, <2>1 DEF HInv
<1>8. CASE StartScheduler
  <2>1. ~up /\ up' = TRUE /\ Recovers
    BY <1>8 DEF StartScheduler
  <2>2. CASE open
    <3>1. table' = Append(table, Event) /\ past' = Remembered(Event) /\ Len(table) <= Limit
      BY <1>2, <2>1, <2>2 DEF Recovers
    <3>2. Event \in HistoryRows /\ ~Joins(table, Event)
      <4>1. ~Event.quiet
        BY HistoryRowsAre
      <4> QED BY <4>1, HistoryRowsAre DEF Joins
    <3>3. table' = Counted(table, Event)
      BY <3>1, <3>2 DEF Counted
    <3>4. table' \in Seq(HistoryRows) /\ EndOf(table', Counted(past, Event))
      BY <1>2, <3>2, <3>3, TakenType, TakenKeepsEnd
    <3>5. Len(table') <= Limit + 1
      <4>1. Len(Append(table, Event)) = Len(table) + 1 /\ Len(table) \in Nat
        BY <1>2, <3>2
      <4> QED BY <3>1, <4>1, AutomationAssumption
    <3>6. past' \in Seq(HistoryRows) /\ Compact(past') /\ EndOf(table', past')
      BY <1>2, <3>1, <3>4, <3>5, RememberedEnd
    <3> QED BY <1>1, <2>1, <3>4, <3>6 DEF HInv
  <2>3. CASE ~open
    BY <1>1, <1>2, <2>1, <2>3 DEF HInv, Recovers
  <2> QED BY <2>2, <2>3
<1> QED BY <1>3, <1>4, <1>5, <1>6, <1>7, <1>8 DEF ANext, RunStep

(* The history holds the latest outcomes, each streak of runs that changed  *)
(* nothing as one row that counts them, for any limit and any bound of the  *)
(* streak: compactNoChangeRuns merges what has to be merged and no more,    *)
(* and trimRuns drops the oldest only, over restarts and edits as well.     *)
THEOREM HistoryIsComplete == ASafety => []HistoryAddsUp
<1>1. AInit => HInv
  <2> SUFFICES ASSUME AInit PROVE HInv
    OBVIOUS
  <2>1. RInv /\ table = <<>> /\ past = <<>>
    BY AInitInv DEF AInit, TInv
  <2> QED BY <2>1, EmptyHistory DEF HInv
<1>2. HInv => HistoryAddsUp
  BY HistoryIsEnd DEF HInv
<1> QED BY <1>1, <1>2, HNextInv, PTL DEF ASafety

-----------------------------------------------------------------------------
(***************************************************************************)
(* Proofs about the two-way sync, for any contents and any number of       *)
(* edits: with propagate_deletes on, the baseline never makes two          *)
(* different files pass for unchanged; on or off, no content is lost as    *)
(* long as nobody edits during a run.                                      *)
(***************************************************************************)

AnyContent == Contents \cup {Absent}
Pcs == {"idle", "listing", "left remote", "left local", "deciding", "checking", "adding", "writing", "conflict",
        "carrying", "deleting", "clean", "again remote", "again local", "hashing", "restat", "storing"}

Files ==
  /\ side \in [Sides -> [c : AnyContent, base : BOOLEAN, list : BOOLEAN]]
  /\ listed \in [Sides -> [c : AnyContent, base : BOOLEAN]]
  /\ sync \in [pc : Pcs, to : Sides, c : AnyContent]

(* Side s has been listed again, after the transfers. *)
Relisted(s) ==
  \/ sync.pc \in {"hashing", "restat", "storing"}
  \/ s = "local" /\ sync.pc = "again remote"
  \/ s = "remote" /\ sync.pc = "again local"

(* A file that still has the stamp of that listing is the file listed. *)
ListingHolds == \A s \in Sides : Relisted(s) /\ side[s].list => listed[s].c = side[s].c /\ side[s].c # Absent

BothStand == side["local"].list /\ side["remote"].list
(* What may become the baseline is the same on both sides. *)
StandingIsSame == sync.pc \in {"restat", "storing"} /\ BothStand => side["local"].c = side["remote"].c

SInv == Files /\ ListingHolds /\ StandingIsSame /\ UnchangedIsSame

LEMMA SidesAre == Sides = {"local", "remote"} /\ "local" # "remote" /\ Absent = 0 /\ Absent \notin Contents
BY SyncAssumption DEF Sides, Absent

LEMMA SInitInv == SInit => SInv
BY SidesAre DEF SInit, SInv, Files, ListingHolds, StandingIsSame, UnchangedIsSame, Relisted, BothStand, NoFile, FileOf, NotListed,
   NoSync, Pcs, AnyContent

FileType == [c : AnyContent, base : BOOLEAN, list : BOOLEAN]

(* Marking a file as listed, or not, changes nothing else of it. *)
LEMMA Marked ==
  ASSUME NEW r \in FileType, NEW b \in BOOLEAN
  PROVE  /\ [r EXCEPT !.list = b] \in FileType
         /\ [r EXCEPT !.list = b].c = r.c /\ [r EXCEPT !.list = b].base = r.base
         /\ [r EXCEPT !.list = b].list = b
BY DEF FileType

(* A file that is written, brought or deleted has a new stamp. *)
LEMMA Replaced ==
  ASSUME Files, NEW t \in Sides, NEW c \in AnyContent, side' = [side EXCEPT ![t] = FileOf(c)]
  PROVE  /\ side' \in [Sides -> FileType]
         /\ side'[t].c = c /\ ~side'[t].base /\ ~side'[t].list
         /\ \A s \in Sides : s # t => side'[s] = side[s]
<1>1. side' = [side EXCEPT ![t] = [c |-> c, base |-> FALSE, list |-> FALSE]]
  BY DEF FileOf
<1>2. side \in [Sides -> FileType] /\ [c |-> c, base |-> FALSE, list |-> FALSE] \in FileType
  BY DEF Files, FileType
<1>3. side' \in [Sides -> FileType]
  BY <1>1, <1>2
<1>4. side'[t] = [c |-> c, base |-> FALSE, list |-> FALSE] /\ \A s \in Sides : s # t => side'[s] = side[s]
  BY <1>1, <1>2
<1> QED BY <1>3, <1>4

LEMMA EditInv ==
  ASSUME SInv, NEW s \in Sides, NEW c \in AnyContent, Edit(s, c)
  PROVE  SInv'
<1> USE SidesAre DEF SInv
<1>1. UNCHANGED <<listed, sync>> /\ side' = [side EXCEPT ![s] = FileOf(c)]
  BY DEF Edit
<1>2. /\ side' \in [Sides -> FileType] /\ ~side'[s].base /\ ~side'[s].list
      /\ \A t \in Sides : t # s => side'[t] = side[t]
  BY <1>1, Replaced
<1>3. Files'
  BY <1>1, <1>2 DEF Files, FileType
<1>4. ListingHolds'
  BY <1>1, <1>2 DEF ListingHolds, Relisted
<1>5. StandingIsSame' /\ UnchangedIsSame'
  BY <1>1, <1>2 DEF StandingIsSame, UnchangedIsSame, BothStand
<1> QED BY <1>3, <1>4, <1>5

(* A listing, the first or the second of a run. *)
LEMMA ListSideEffect ==
  ASSUME Files, NEW s \in Sides, NEW pc, NEW next \in Pcs, ListSide(s, pc, next)
  PROVE  /\ Files' /\ sync.pc = pc /\ sync'.pc = next
         /\ \A t \in Sides : side'[t].c = side[t].c /\ side'[t].base = side[t].base
         /\ \A t \in Sides : t # s => side'[t] = side[t] /\ listed'[t] = listed[t]
         /\ side'[s].list = (side[s].c # Absent)
         /\ listed'[s].c = side[s].c /\ listed'[s].base = side[s].base
<1> USE SidesAre
<1>1. /\ sync.pc = pc /\ sync' = [sync EXCEPT !.pc = next]
      /\ listed' = [listed EXCEPT ![s] = [c |-> side[s].c, base |-> side[s].base]]
      /\ side' = [side EXCEPT ![s].list = side[s].c # Absent]
  BY DEF ListSide, Goes
<1> DEFINE b == side[s].c # Absent
<1>2. b \in BOOLEAN /\ side[s] \in FileType /\ side \in [Sides -> FileType]
  BY DEF Files, FileType
<1>3. side' = [side EXCEPT ![s] = [side[s] EXCEPT !.list = b]]
  BY <1>1
<1>4. [side[s] EXCEPT !.list = b] \in FileType
  BY <1>2, Marked
<1>5. Files'
  <2>1. side' \in [Sides -> FileType]
    BY <1>2, <1>3, <1>4
  <2>2. listed' \in [Sides -> [c : AnyContent, base : BOOLEAN]]
    BY <1>1, <1>2 DEF Files, FileType
  <2>3. sync' \in [pc : Pcs, to : Sides, c : AnyContent]
    BY <1>1 DEF Files
  <2> QED BY <2>1, <2>2, <2>3 DEF Files, FileType
<1>6. sync'.pc = next
  BY <1>1 DEF Files
<1>7. \A t \in Sides : side'[t] = IF t = s THEN [side[s] EXCEPT !.list = b] ELSE side[t]
  BY <1>2, <1>3
<1>8. \A t \in Sides : listed'[t] = IF t = s THEN [c |-> side[s].c, base |-> side[s].base] ELSE listed[t]
  BY <1>1 DEF Files
<1> HIDE DEF b
<1>9. [side[s] EXCEPT !.list = b].c = side[s].c /\ [side[s] EXCEPT !.list = b].base = side[s].base
      /\ [side[s] EXCEPT !.list = b].list = b
  BY <1>2, Marked
<1>10. side'[s].c = side[s].c /\ side'[s].base = side[s].base /\ side'[s].list = b
  BY <1>7, <1>9
<1>11. \A t \in Sides : t # s => side'[t] = side[t]
  BY <1>7, Zenon
<1>12. \A t \in Sides : t # s => listed'[t] = listed[t]
  BY <1>8, Zenon
<1>13. listed'[s].c = side[s].c /\ listed'[s].base = side[s].base
  <2>1. listed'[s] = [c |-> side[s].c, base |-> side[s].base]
    BY <1>8, Zenon
  <2>2. [c |-> side[s].c, base |-> side[s].base].c = side[s].c
        /\ [c |-> side[s].c, base |-> side[s].base].base = side[s].base
    OBVIOUS
  <2> QED BY <2>1, <2>2, Zenon
<1>14. \A t \in Sides : side'[t].c = side[t].c /\ side'[t].base = side[t].base
  BY <1>10, <1>11
<1>15. side'[s].list = (side[s].c # Absent)
  BY <1>10 DEF b
<1> QED BY <1>1, <1>5, <1>6, <1>11, <1>12, <1>13, <1>14, <1>15

LEMMA ListSideInv ==
  ASSUME SInv, NEW s \in Sides, NEW pc, NEW next \in Pcs, ListSide(s, pc, next),
         next \notin {"restat", "storing"},
         next \in {"hashing", "again remote", "again local"} =>
           /\ next = "again remote" => s = "local"
           /\ next = "again local" => s = "remote"
           /\ next = "hashing" => pc = (IF s = "remote" THEN "again remote" ELSE "again local")
  PROVE  SInv'
<1> USE SidesAre DEF SInv
<1>1. /\ Files' /\ sync.pc = pc /\ sync'.pc = next
      /\ \A t \in Sides : side'[t].c = side[t].c /\ side'[t].base = side[t].base
      /\ \A t \in Sides : t # s => side'[t] = side[t] /\ listed'[t] = listed[t]
      /\ side'[s].list = (side[s].c # Absent) /\ listed'[s].c = side[s].c
  BY ListSideEffect
<1>2. ListingHolds'
  <2> SUFFICES ASSUME NEW t \in Sides, Relisted(t)', side'[t].list
               PROVE  listed'[t].c = side'[t].c /\ side'[t].c # Absent
    BY DEF ListingHolds
  <2>1. CASE t = s
    BY <2>1, <1>1
  <2>2. CASE t # s
    <3>1. Relisted(t)
      BY <2>2, <1>1 DEF Relisted
    <3> QED BY <3>1, <2>2, <1>1, ZenonT(40) DEF ListingHolds
  <2> QED BY <2>1, <2>2
<1>3. StandingIsSame' /\ UnchangedIsSame'
  BY <1>1 DEF StandingIsSame, UnchangedIsSame
<1> QED BY <1>1, <1>2, <1>3

(* The steps that leave the files and listings alone, and do not come near  *)
(* the baseline.                                                            *)
LEMMA QuietInv ==
  ASSUME SInv, UNCHANGED <<side, listed>>, sync' \in [pc : Pcs, to : Sides, c : AnyContent],
         sync'.pc \notin {"again remote", "again local", "hashing", "restat", "storing"}
  PROVE  SInv'
BY SidesAre DEF SInv, Files, ListingHolds, Relisted, StandingIsSame, UnchangedIsSame

LEMMA BeginEffect ==
  ASSUME Files, Begin
  PROVE  /\ Files' /\ sync'.pc = "listing"
         /\ \A t \in Sides : side'[t].c = side[t].c /\ side'[t].base = side[t].base /\ ~side'[t].list
<1> USE SidesAre
<1>1. /\ sync' = [sync EXCEPT !.pc = "listing"]
      /\ listed' = [s \in Sides |-> NotListed]
      /\ side' = [s \in Sides |-> [side[s] EXCEPT !.list = FALSE]]
  BY DEF Begin, Goes
<1>2. \A s \in Sides : /\ [side[s] EXCEPT !.list = FALSE] \in FileType
                       /\ [side[s] EXCEPT !.list = FALSE].c = side[s].c
                       /\ [side[s] EXCEPT !.list = FALSE].base = side[s].base
                       /\ ~[side[s] EXCEPT !.list = FALSE].list
  BY Marked DEF Files, FileType
<1>3. side' \in [Sides -> FileType]
  BY <1>1, <1>2
<1>4. listed' \in [Sides -> [c : AnyContent, base : BOOLEAN]]
  BY <1>1 DEF NotListed, AnyContent
<1>5. sync' \in [pc : Pcs, to : Sides, c : AnyContent] /\ sync'.pc = "listing"
  BY <1>1 DEF Files, Pcs
<1>6. \A t \in Sides : side'[t].c = side[t].c /\ side'[t].base = side[t].base /\ ~side'[t].list
  <2>1. \A t \in Sides : side'[t] = [side[t] EXCEPT !.list = FALSE]
    BY <1>1
  <2> QED BY <1>2, <2>1, Zenon
<1> QED BY <1>3, <1>4, <1>5, <1>6 DEF Files, FileType

LEMMA BeginInv == SInv /\ Begin => SInv'
<1> SUFFICES ASSUME SInv, Begin PROVE SInv'
  OBVIOUS
<1> USE SidesAre DEF SInv
<1>1. Files' /\ sync'.pc = "listing" /\ \A t \in Sides : side'[t].c = side[t].c /\ side'[t].base = side[t].base
  BY BeginEffect
<1>2. ListingHolds' /\ StandingIsSame' /\ UnchangedIsSame'
  BY <1>1 DEF ListingHolds, Relisted, StandingIsSame, UnchangedIsSame
<1> QED BY <1>1, <1>2

(* A file is brought, or deleted: its stamp is a new one. *)
Replaces(t, c) ==
  /\ side' = [side EXCEPT ![t] = FileOf(c)]
  /\ UNCHANGED listed
  /\ sync' \in [pc : Pcs, to : Sides, c : AnyContent]
  /\ sync'.pc \notin {"again remote", "again local", "hashing", "restat", "storing"}

LEMMA ReplaceInv ==
  ASSUME SInv, NEW t \in Sides, NEW c \in AnyContent, Replaces(t, c)
  PROVE  SInv'
<1> USE SidesAre DEF SInv
<1>1. /\ side' \in [Sides -> FileType] /\ ~side'[t].base
      /\ \A s \in Sides : s # t => side'[s] = side[s]
  BY Replaced DEF Replaces
<1>2. Files'
  BY <1>1 DEF Files, FileType, Replaces
<1>3. ListingHolds' /\ StandingIsSame'
  BY DEF ListingHolds, Relisted, StandingIsSame, Replaces
<1>4. UnchangedIsSame'
  BY <1>1 DEF UnchangedIsSame
<1> QED BY <1>2, <1>3, <1>4

(* Both files are hashed, and what is hashed is the same. *)
LEMMA HashInv == Deletes /\ SInv /\ Hash => SInv'
<1> SUFFICES ASSUME Deletes, SInv, Hash PROVE SInv'
  OBVIOUS
<1> USE SidesAre DEF SInv
<1>1. sync.pc = "hashing" /\ UNCHANGED <<side, listed>>
  BY DEF Hash
<1>2. CASE ~HashesNeeded /\ sync' = [sync EXCEPT !.pc = "storing"]
  <2>1. Files' /\ sync'.pc = "storing"
    BY <1>1, <1>2 DEF Files, Pcs
  <2>2. listed["local"].c = Absent \/ listed["remote"].c = Absent
    BY <1>2 DEF HashesNeeded, Has
  <2>3. ~BothStand
    BY <2>2, <1>1 DEF ListingHolds, Relisted, BothStand
  <2> QED BY <1>1, <2>1, <2>3 DEF ListingHolds, Relisted, StandingIsSame, BothStand, UnchangedIsSame
<1>3. CASE HashesAgree /\ sync' = [sync EXCEPT !.pc = "restat", !.c = side["local"].c]
  <2>1. side["local"].c \in AnyContent
    BY DEF Files
  <2>2. Files' /\ sync'.pc = "restat"
    BY <1>1, <1>3, <2>1 DEF Files, Pcs
  <2> QED BY <1>1, <1>3, <2>2 DEF ListingHolds, Relisted, StandingIsSame, BothStand, UnchangedIsSame, HashesAgree
<1>4. CASE sync' = NoSync
  BY <1>1, <1>4, QuietInv DEF NoSync, Pcs, AnyContent
<1> QED BY <1>2, <1>3, <1>4 DEF Hash, Goes, GivesUp

(* They still have the stamps listed, so they are what was listed.          *)
LEMMA RestatInv == SInv /\ Restat => SInv'
<1> SUFFICES ASSUME SInv, Restat PROVE SInv'
  OBVIOUS
<1> USE SidesAre DEF SInv
<1>1. sync.pc = "restat" /\ UNCHANGED <<side, listed>>
  BY DEF Restat
<1>2. CASE sync' = [sync EXCEPT !.pc = "storing"]
  <2>1. Files' /\ sync'.pc = "storing"
    BY <1>1, <1>2 DEF Files, Pcs
  <2> QED BY <1>1, <2>1 DEF ListingHolds, Relisted, StandingIsSame, BothStand, UnchangedIsSame
<1>3. CASE sync' = NoSync
  BY <1>1, <1>3, QuietInv DEF NoSync, Pcs, AnyContent
<1> QED BY <1>2, <1>3 DEF Restat, Goes, GivesUp

LEMMA StoreEffect ==
  ASSUME Files, StoreBaseline
  PROVE  /\ Files' /\ sync.pc = "storing" /\ sync'.pc = "idle"
         /\ \A t \in Sides : side'[t].c = side[t].c /\ side'[t].base = side[t].list /\ side'[t].list = side[t].list
<1> USE SidesAre
<1>1. /\ sync.pc = "storing" /\ sync' = NoSync /\ UNCHANGED listed
      /\ side' = [s \in Sides |-> [side[s] EXCEPT !.base = side[s].list]]
  BY DEF StoreBaseline, GivesUp
<1>2. \A s \in Sides : side[s] \in FileType
  BY DEF Files, FileType
<1>3. \A s \in Sides : /\ side'[s] \in FileType /\ side'[s].c = side[s].c
                       /\ side'[s].base = side[s].list /\ side'[s].list = side[s].list
  <2> TAKE s \in Sides
  <2> DEFINE r == side[s]
  <2>1. r \in FileType
    BY <1>2
  <2>2. side'[s] = [r EXCEPT !.base = r.list]
    BY <1>1
  <2>3. r.list \in BOOLEAN
    BY <2>1 DEF FileType
  <2> HIDE DEF r
  <2>4. /\ [r EXCEPT !.base = r.list] \in FileType /\ [r EXCEPT !.base = r.list].c = r.c
        /\ [r EXCEPT !.base = r.list].base = r.list /\ [r EXCEPT !.base = r.list].list = r.list
    BY <2>1, <2>3 DEF FileType
  <2> QED BY <2>2, <2>4 DEF r
<1>4. Files'
  <2>1. side' \in [Sides -> FileType]
    <3>1. \A s \in Sides : [side[s] EXCEPT !.base = side[s].list] \in FileType
      BY <1>1, <1>3
    <3> QED BY <1>1, <3>1
  <2>2. sync' \in [pc : Pcs, to : Sides, c : AnyContent]
    BY <1>1 DEF NoSync, Pcs, AnyContent
  <2> QED BY <1>1, <2>1, <2>2 DEF Files, FileType
<1>5. sync'.pc = "idle"
  BY <1>1 DEF NoSync
<1> QED BY <1>1, <1>3, <1>4, <1>5

LEMMA StoreBaselineInv == SInv /\ StoreBaseline => SInv'
<1> SUFFICES ASSUME SInv, StoreBaseline PROVE SInv'
  OBVIOUS
<1> USE SidesAre DEF SInv
<1>1. /\ Files' /\ sync.pc = "storing" /\ sync'.pc = "idle"
      /\ \A t \in Sides : side'[t].c = side[t].c /\ side'[t].base = side[t].list
  BY StoreEffect
<1>2. ListingHolds' /\ StandingIsSame'
  BY <1>1 DEF ListingHolds, Relisted, StandingIsSame
<1>3. UnchangedIsSame'
  BY <1>1 DEF UnchangedIsSame, StandingIsSame, BothStand
<1> QED BY <1>1, <1>2, <1>3

(* The other steps of a run, none of which touches the baseline. *)
LEMMA QuietEffect ==
  ASSUME Files, Decide \/ Fetch \/ TransferFails \/ CheckDelete \/ KeepBoth
  PROVE  /\ UNCHANGED <<side, listed>> /\ sync' \in [pc : Pcs, to : Sides, c : AnyContent]
         /\ sync'.pc \notin {"again remote", "again local", "hashing", "restat", "storing"}
<1> USE SidesAre
<1> DEFINE Calm == {"idle", "clean", "adding", "writing", "checking", "conflict", "carrying", "deleting"}
<1> DEFINE Next(r) == r \in [pc : Pcs, to : Sides, c : AnyContent] /\ r.pc \in Calm
<1>1. sync \in [pc : Pcs, to : Sides, c : AnyContent] /\ Calm \subseteq Pcs
  BY DEF Files, Pcs
<1>2. Next(NoSync)
  BY DEF NoSync, Pcs, AnyContent
<1>3. \A pc \in Calm : Next([sync EXCEPT !.pc = pc])
  BY <1>1
<1>4. \A s \in Sides, pc \in Calm : Next([sync EXCEPT !.pc = pc, !.to = s])
  BY <1>1
<1>5. \A c \in AnyContent : Next([sync EXCEPT !.pc = "carrying", !.c = c])
  BY <1>1
<1>6. UNCHANGED <<side, listed>>
  BY DEF Decide, Fetch, TransferFails, CheckDelete, KeepBoth
<1> HIDE DEF Next
<1>7. CASE Decide
  <2>1. \/ sync' = NoSync \/ sync' = [sync EXCEPT !.pc = "clean"] \/ sync' = [sync EXCEPT !.pc = "conflict"]
        \/ \E s \in Sides, pc \in {"checking", "adding", "writing"} : sync' = [sync EXCEPT !.pc = pc, !.to = s]
    BY <1>7 DEF Decide, Skip, Goes, GivesUp, To, Other
  <2>2. Next(sync')
    BY <2>1, <1>2, <1>3, <1>4
  <2> QED BY <2>2, <1>6 DEF Next
<1>8. CASE Fetch
  <2>1. side[Source].c \in AnyContent
    BY <1>1 DEF Source, Other, Files
  <2>2. \/ sync' = NoSync \/ sync' = [sync EXCEPT !.pc = "clean"]
        \/ sync' = [sync EXCEPT !.pc = "carrying", !.c = side[Source].c]
    BY <1>8 DEF Fetch, Skip, Goes, GivesUp
  <2>3. Next(sync')
    BY <2>1, <2>2, <1>2, <1>3, <1>5
  <2> QED BY <2>3, <1>6 DEF Next
<1>9. CASE TransferFails \/ CheckDelete \/ KeepBoth
  <2>1. sync' = NoSync \/ sync' = [sync EXCEPT !.pc = "deleting"]
    BY <1>9 DEF TransferFails, CheckDelete, KeepBoth, Goes, GivesUp
  <2>2. Next(sync')
    BY <2>1, <1>2, <1>3
  <2> QED BY <2>2, <1>6 DEF Next
<1> QED BY <1>7, <1>8, <1>9

LEMMA QuietSteps == SInv /\ (Decide \/ Fetch \/ TransferFails \/ CheckDelete \/ KeepBoth) => SInv'
BY QuietEffect, QuietInv DEF SInv

LEMMA DeliverInv == SInv /\ Deliver => SInv'
<1> SUFFICES ASSUME SInv, Deliver PROVE SInv'
  OBVIOUS
<1>1. /\ sync.to \in Sides /\ sync.c \in AnyContent
      /\ sync' \in [pc : Pcs, to : Sides, c : AnyContent] /\ sync'.pc = "clean"
  BY DEF Deliver, SInv, Files, Pcs, AnyContent
<1> QED BY <1>1, ReplaceInv DEF Deliver, Replaces

LEMMA DeleteFileInv == SInv /\ DeleteFile => SInv'
<1> SUFFICES ASSUME SInv, DeleteFile PROVE SInv'
  OBVIOUS
<1>1. UNCHANGED listed /\ sync.to \in Sides /\ Absent \in AnyContent
  BY DEF DeleteFile, SInv, Files, AnyContent
<1>2. CASE sync' = NoSync /\ side' = side
  BY <1>1, <1>2, QuietInv, SidesAre DEF NoSync, Pcs, AnyContent
<1>3. CASE side' = [side EXCEPT ![sync.to] = NoFile] /\ sync' = [sync EXCEPT !.pc = "clean"]
  <2>1. sync' \in [pc : Pcs, to : Sides, c : AnyContent] /\ sync'.pc = "clean"
    BY <1>3 DEF SInv, Files, Pcs
  <2> QED BY <1>1, <1>3, <2>1, ReplaceInv DEF NoFile, Replaces
<1> QED BY <1>2, <1>3 DEF DeleteFile, GivesUp, Skip, Goes

LEMMA ListInv == SInv /\ (List \/ Relist) => SInv'
<1> SUFFICES ASSUME SInv, List \/ Relist PROVE SInv'
  OBVIOUS
<1> USE SidesAre
<1>1. CASE \/ ListSide("local", "listing", "left remote") \/ ListSide("remote", "listing", "left local")
           \/ ListSide("remote", "left remote", "deciding") \/ ListSide("local", "left local", "deciding")
  BY <1>1, ListSideInv DEF Pcs
<1>2. CASE ListSide("local", "clean", "again remote")
  BY <1>2, ListSideInv DEF Pcs
<1>3. CASE ListSide("remote", "clean", "again local")
  BY <1>3, ListSideInv DEF Pcs
<1>4. CASE ListSide("remote", "again remote", "hashing")
  BY <1>4, ListSideInv DEF Pcs
<1>5. CASE ListSide("local", "again local", "hashing")
  BY <1>5, ListSideInv DEF Pcs
<1> QED BY <1>1, <1>2, <1>3, <1>4, <1>5 DEF List, Relist

LEMMA SStutter == SInv /\ UNCHANGED svars => SInv'
BY DEF svars, SInv, Files, ListingHolds, Relisted, StandingIsSame, BothStand, UnchangedIsSame

(* Whatever is written and deleted while a baseline is taken: two files     *)
(* that the next run skips as unchanged have the same content.  This is     *)
(* what the hashes of baselineStateWithDeletionHashes and the second look   *)
(* at the stamps are for, which are made with propagate_deletes on.         *)
THEOREM BaselineIsTrue == Deletes /\ SSafety => []UnchangedIsSame
<1> SUFFICES ASSUME Deletes PROVE SSafety => []UnchangedIsSame
  OBVIOUS
<1>1. SInv /\ [SNext]_svars => SInv'
  <2> SUFFICES ASSUME SInv, [SNext]_svars PROVE SInv'
    OBVIOUS
  <2>1. CASE \E s \in Sides, c \in Contents \cup {Absent} : Edit(s, c)
    BY <2>1, EditInv DEF AnyContent
  <2>2. CASE RunSync
    BY <2>2, BeginInv, ListInv, QuietSteps, DeliverInv, DeleteFileInv, HashInv, RestatInv, StoreBaselineInv DEF RunSync
  <2> QED BY <2>1, <2>2, SStutter DEF SNext
<1>2. SInv => UnchangedIsSame
  BY DEF SInv
<1> QED BY <1>1, <1>2, SInitInv, PTL DEF SSafety

-----------------------------------------------------------------------------
(* What keeps a user's content, as long as nobody edits during a run: it is *)
(* on a side, in a conflict copy, or given up by the user.  A side that     *)
(* still has the stamp of the baseline may be overwritten or deleted,       *)
(* because the other side, or one of those, has its content as well.        *)
Preserved == dropped \cup copies

Compared == {"deciding", "checking", "adding", "writing", "conflict", "carrying", "deleting"}
Merged == {"clean", "again remote", "again local", "hashing", "restat", "storing"}

(* Side s has been listed, and the transfers have not begun. *)
Seen(s) ==
  \/ sync.pc \in Compared
  \/ s = "local" /\ sync.pc = "left remote"
  \/ s = "remote" /\ sync.pc = "left local"

OnSides == {side[s].c : s \in Sides}
WrittenIsKept == \A c \in written : c # Absent /\ (c \in Preserved \/ c \in OnSides)
BaselineIsKept == \A s \in Sides : side[s].base => side[s].c \in Preserved \/ side[s].c = side[Other(s)].c
ListingIsTrue == \A s \in Sides : Seen(s) => listed[s].c = side[s].c /\ listed[s].base = side[s].base
MergedIsSame == sync.pc \in Merged => side["local"].c = side["remote"].c
PlanIsTrue ==
  /\ sync.pc = "adding" => side[sync.to].c = Absent
  /\ sync.pc = "writing" => side[sync.to].base
  /\ sync.pc = "carrying" => (side[sync.to].c = Absent \/ side[sync.to].base) /\ sync.c = side[Source].c
  /\ sync.pc \in {"checking", "deleting"} => side[Source].c = Absent
  /\ sync.pc = "deleting" => side[sync.to].base

(* An absent file has no stamp. *)
StampsArePresent == \A s \in Sides : side[s].list \/ side[s].base => side[s].c # Absent

Undisturbed ==
  WrittenIsKept /\ BaselineIsKept /\ ListingIsTrue /\ MergedIsSame /\ PlanIsTrue /\ UnchangedIsSame
KInv == Files /\ StampsArePresent /\ (~disturbed => Undisturbed)

LEMMA SInitKept == SInit => KInv
<1> SUFFICES ASSUME SInit PROVE KInv
  OBVIOUS
<1> USE SidesAre
<1>1. Files
  BY SInitInv DEF SInv
<1>2. \A s \in Sides : side[s].c = Absent /\ ~side[s].base /\ ~side[s].list
  BY DEF SInit, NoFile, FileOf
<1>3. written = {} /\ sync.pc = "idle"
  BY DEF SInit, NoSync
<1> QED
  BY <1>1, <1>2, <1>3 DEF KInv, Undisturbed, StampsArePresent, WrittenIsKept, BaselineIsKept, ListingIsTrue, Seen, Compared,
     MergedIsSame, Merged, PlanIsTrue, UnchangedIsSame

LEMMA OtherSide == \A s \in Sides : Other(s) \in Sides /\ Other(s) # s /\ Other(Other(s)) = s /\ Sides = {s, Other(s)}
BY SidesAre DEF Other

(* A user writes or deletes the file, and no run is under way. *)
LEMMA EditKept ==
  ASSUME KInv, NEW s \in Sides, NEW c \in AnyContent, Edit(s, c)
  PROVE  KInv'
<1> USE SidesAre, OtherSide
<1>1. /\ UNCHANGED <<listed, sync, copies>> /\ side' = [side EXCEPT ![s] = FileOf(c)]
      /\ written' = written \cup ({c} \ {Absent})
      /\ dropped' = (dropped \cup ({side[s].c} \ {Absent})) \ {c}
      /\ disturbed' = (disturbed \/ sync.pc # "idle")
  BY DEF Edit
<1>2. /\ side' \in [Sides -> FileType] /\ side'[s].c = c /\ ~side'[s].base /\ ~side'[s].list
      /\ \A t \in Sides : t # s => side'[t] = side[t]
  BY <1>1, Replaced DEF KInv
<1>3. Files'
  BY <1>1, <1>2 DEF KInv, Files, FileType
<1>4. StampsArePresent'
  BY <1>2 DEF KInv, StampsArePresent
<1>5. ASSUME ~disturbed' PROVE Undisturbed'
  <2>1. Undisturbed /\ sync.pc = "idle" /\ sync' = sync
    BY <1>1, <1>5 DEF KInv
  <2>2. WrittenIsKept'
    <3> SUFFICES ASSUME NEW w \in written' PROVE w # Absent /\ (w \in Preserved' \/ w \in OnSides')
      BY DEF WrittenIsKept
    <3>1. w # Absent
      BY <1>1, <2>1 DEF Undisturbed, WrittenIsKept
    <3>2. CASE w = c
      BY <3>1, <3>2, <1>2 DEF OnSides
    <3>3. CASE w # c
      <4>1. w \in Preserved \/ w = side[s].c \/ w = side[Other(s)].c
        BY <3>3, <1>1, <2>1 DEF Undisturbed, WrittenIsKept, OnSides
      <4>2. w \in Preserved \/ w = side[s].c => w \in Preserved'
        BY <3>1, <3>3, <1>1 DEF Preserved
      <4>3. w = side[Other(s)].c => w \in OnSides'
        BY <1>2 DEF OnSides
      <4> QED BY <3>1, <4>1, <4>2, <4>3
    <3> QED BY <3>2, <3>3
  <2>3. BaselineIsKept'
    <3> SUFFICES ASSUME NEW t \in Sides, side'[t].base
                 PROVE  side'[t].c \in Preserved' \/ side'[t].c = side'[Other(t)].c
      BY DEF BaselineIsKept, Preserved
    <3> DEFINE w == side[t].c
    <3>1. t # s /\ side'[t] = side[t] /\ Other(t) = s
      BY <1>2
    <3>2. w # Absent /\ (w \in Preserved \/ w = side[s].c)
      BY <3>1, <2>1 DEF KInv, StampsArePresent, Undisturbed, BaselineIsKept
    <3>3. w = c => side'[t].c = side'[Other(t)].c
      BY <3>1, <1>2
    <3>4. w # c => w \in Preserved'
      BY <3>1, <3>2, <1>1 DEF Preserved
    <3> QED BY <3>1, <3>3, <3>4 DEF Preserved
  <2>4. ListingIsTrue' /\ MergedIsSame' /\ PlanIsTrue'
    BY <2>1 DEF ListingIsTrue, Seen, Compared, MergedIsSame, Merged, PlanIsTrue
  <2>5. UnchangedIsSame'
    BY <1>2 DEF UnchangedIsSame
  <2> QED BY <2>2, <2>3, <2>4, <2>5 DEF Undisturbed
<1> QED BY <1>3, <1>4, <1>5 DEF KInv

(* The steps that change no file: what is kept stays kept. *)
Preserves ==
  /\ UNCHANGED <<written, dropped, disturbed>> /\ copies \subseteq copies'
  /\ \A t \in Sides : side'[t].c = side[t].c

LEMMA PreservesKept ==
  ASSUME Preserves, WrittenIsKept
  PROVE  WrittenIsKept'
BY DEF Preserves, WrittenIsKept, Preserved, OnSides

LEMMA PreservesBaseline ==
  ASSUME Preserves, BaselineIsKept, UnchangedIsSame, \A t \in Sides : side'[t].base = side[t].base
  PROVE  BaselineIsKept' /\ UnchangedIsSame'
<1> USE SidesAre, OtherSide
<1>1. UnchangedIsSame'
  BY DEF Preserves, UnchangedIsSame
<1>2. BaselineIsKept'
  <2> SUFFICES ASSUME NEW t \in Sides, side'[t].base
               PROVE  side'[t].c \in Preserved' \/ side'[t].c = side'[Other(t)].c
    BY DEF BaselineIsKept, Preserved
  <2>1. side'[t].c = side[t].c /\ side'[Other(t)].c = side[Other(t)].c
    BY DEF Preserves
  <2>2. side[t].c \in Preserved \/ side[t].c = side[Other(t)].c
    BY DEF BaselineIsKept
  <2>3. side[t].c \in Preserved => side'[t].c \in Preserved'
    BY <2>1 DEF Preserved, Preserves
  <2> QED BY <2>1, <2>2, <2>3
<1> QED BY <1>1, <1>2

LEMMA BeginKept == KInv /\ Begin => KInv'
<1> SUFFICES ASSUME KInv, Begin PROVE KInv'
  OBVIOUS
<1> USE SidesAre
<1>1. /\ Files' /\ sync'.pc = "listing"
      /\ \A t \in Sides : side'[t].c = side[t].c /\ side'[t].base = side[t].base /\ ~side'[t].list
  BY BeginEffect DEF KInv
<1>2. Preserves
  BY <1>1 DEF Preserves, Begin, history
<1>3. StampsArePresent'
  BY <1>1 DEF KInv, StampsArePresent
<1>4. ASSUME ~disturbed' PROVE Undisturbed'
  <2>1. Undisturbed
    BY <1>2, <1>4 DEF KInv, Preserves
  <2>2. WrittenIsKept' /\ BaselineIsKept' /\ UnchangedIsSame'
    BY <1>1, <1>2, <2>1, PreservesKept, PreservesBaseline DEF Undisturbed
  <2>3. ListingIsTrue' /\ MergedIsSame' /\ PlanIsTrue'
    BY <1>1 DEF ListingIsTrue, Seen, Compared, MergedIsSame, Merged, PlanIsTrue
  <2> QED BY <2>2, <2>3 DEF Undisturbed
<1> QED BY <1>1, <1>3, <1>4 DEF KInv

(* A listing, the first or the second of a run. *)
Listings == {<<"local", "listing", "left remote">>, <<"remote", "listing", "left local">>,
             <<"remote", "left remote", "deciding">>, <<"local", "left local", "deciding">>}
Relistings == {<<"local", "clean", "again remote">>, <<"remote", "clean", "again local">>,
               <<"remote", "again remote", "hashing">>, <<"local", "again local", "hashing">>}

LEMMA ListSideKept ==
  ASSUME KInv, NEW s \in Sides, NEW pc, NEW next \in Pcs, ListSide(s, pc, next),
         <<s, pc, next>> \in Listings \cup Relistings
  PROVE  KInv'
<1> USE SidesAre
<1>1. /\ Files' /\ sync.pc = pc /\ sync'.pc = next
      /\ \A t \in Sides : side'[t].c = side[t].c /\ side'[t].base = side[t].base
      /\ \A t \in Sides : t # s => side'[t] = side[t] /\ listed'[t] = listed[t]
      /\ side'[s].list = (side[s].c # Absent)
      /\ listed'[s].c = side[s].c /\ listed'[s].base = side[s].base
  BY ListSideEffect DEF KInv
<1>2. Preserves
  BY <1>1 DEF Preserves, ListSide, history
<1>3. StampsArePresent'
  <2> SUFFICES ASSUME NEW t \in Sides, side'[t].list \/ side'[t].base PROVE side'[t].c # Absent
    BY DEF StampsArePresent
  <2> QED BY <1>1, ZenonT(40) DEF KInv, StampsArePresent
<1>4. ASSUME ~disturbed' PROVE Undisturbed'
  <2>1. Undisturbed
    BY <1>2, <1>4 DEF KInv, Preserves
  <2>2. WrittenIsKept' /\ BaselineIsKept' /\ UnchangedIsSame'
    BY <1>1, <1>2, <2>1, PreservesKept, PreservesBaseline DEF Undisturbed
  <2>3. next \notin {"checking", "adding", "writing", "carrying", "deleting"}
    BY DEF Listings, Relistings
  <2>4. PlanIsTrue'
    BY <1>1, <2>3 DEF PlanIsTrue
  <2>5. MergedIsSame'
    <3>1. next \in Merged => pc \in Merged
      BY DEF Merged, Listings, Relistings
    <3> QED BY <1>1, <2>1, <3>1 DEF Undisturbed, MergedIsSame
  <2>6. ListingIsTrue'
    <3> SUFFICES ASSUME NEW t \in Sides, Seen(t)'
                 PROVE  listed'[t].c = side'[t].c /\ listed'[t].base = side'[t].base
      BY DEF ListingIsTrue
    <3>1. CASE t = s
      BY <3>1, <1>1
    <3>2. CASE t # s
      <4>1. Seen(t)
        <5>1. (t = "local" /\ s = "remote") \/ (t = "remote" /\ s = "local")
          BY <3>2
        <5>2. next = "deciding" => pc = (IF s = "remote" THEN "left remote" ELSE "left local")
          BY DEF Listings, Relistings
        <5>3. next # "deciding" => ~Seen(t)'
          BY <5>1, <1>1 DEF Seen, Compared, Listings, Relistings
        <5>4. next = "deciding"
          BY <5>3
        <5> QED BY <5>1, <5>2, <5>4, <1>1 DEF Seen
      <4> QED BY <4>1, <3>2, <1>1, <2>1 DEF Undisturbed, ListingIsTrue
    <3> QED BY <3>1, <3>2
  <2> QED BY <2>2, <2>4, <2>5, <2>6 DEF Undisturbed
<1> QED BY <1>1, <1>3, <1>4 DEF KInv

LEMMA ListKept == KInv /\ (List \/ Relist) => KInv'
<1> SUFFICES ASSUME KInv, List \/ Relist PROVE KInv'
  OBVIOUS
<1> DEFINE Moves(s, pc, next) == ListSide(s, pc, next) /\ s \in Sides /\ next \in Pcs /\ <<s, pc, next>> \in Listings \cup Relistings
<1>1. \E s, pc, next : Moves(s, pc, next)
  <2> USE SidesAre DEF Pcs, Listings, Relistings
  <2>1. CASE ListSide("local", "listing", "left remote")
    BY <2>1
  <2>2. CASE ListSide("remote", "listing", "left local")
    BY <2>2
  <2>3. CASE ListSide("remote", "left remote", "deciding")
    BY <2>3
  <2>4. CASE ListSide("local", "left local", "deciding")
    BY <2>4
  <2>5. CASE ListSide("local", "clean", "again remote")
    BY <2>5
  <2>6. CASE ListSide("remote", "clean", "again local")
    BY <2>6
  <2>7. CASE ListSide("remote", "again remote", "hashing")
    BY <2>7
  <2>8. CASE ListSide("local", "again local", "hashing")
    BY <2>8
  <2> QED BY <2>1, <2>2, <2>3, <2>4, <2>5, <2>6, <2>7, <2>8 DEF List, Relist
<1> QED BY <1>1, ListSideKept

(* The steps of a run that only decide: no file changes. *)
Settles ==
  /\ UNCHANGED <<side, listed, written, dropped, disturbed>> /\ copies \subseteq copies'
  /\ sync' \in [pc : Pcs, to : Sides, c : AnyContent]
  /\ ~disturbed => (ListingIsTrue /\ MergedIsSame /\ PlanIsTrue)'

LEMMA SettleKept == KInv /\ Settles => KInv'
<1> SUFFICES ASSUME KInv, Settles PROVE KInv'
  OBVIOUS
<1>1. Preserves /\ \A t \in Sides : side'[t].base = side[t].base
  BY DEF Settles, Preserves
<1>2. Files' /\ StampsArePresent'
  BY DEF KInv, Files, StampsArePresent, Settles
<1>3. ASSUME ~disturbed' PROVE Undisturbed'
  <2>1. Undisturbed /\ (ListingIsTrue /\ MergedIsSame /\ PlanIsTrue)'
    BY <1>3 DEF KInv, Settles
  <2>2. WrittenIsKept' /\ BaselineIsKept' /\ UnchangedIsSame'
    BY <1>1, <2>1, PreservesKept, PreservesBaseline DEF Undisturbed
  <2> QED BY <2>1, <2>2 DEF Undisturbed
<1> QED BY <1>2, <1>3 DEF KInv

(* A run that ends, or that waits for a conflict to be copied, claims       *)
(* nothing that the listing does not.                                       *)
LEMMA EndSettles ==
  ASSUME UNCHANGED <<side, listed, written, dropped, disturbed>>, copies \subseteq copies', sync' = NoSync
  PROVE  Settles
<1>1. sync' \in [pc : Pcs, to : Sides, c : AnyContent] /\ sync'.pc = "idle"
  BY SidesAre DEF NoSync, Pcs, AnyContent
<1> QED BY <1>1 DEF Settles, ListingIsTrue, Seen, Compared, MergedIsSame, Merged, PlanIsTrue

LEMMA DecideSettles == KInv /\ Decide => Settles
<1> SUFFICES ASSUME KInv, Decide PROVE Settles
  OBVIOUS
<1> USE SidesAre, OtherSide
<1>1. /\ sync.pc = "deciding" /\ UNCHANGED <<side, listed, written, dropped, disturbed, copies>>
  BY DEF Decide, history
<1>2. sync \in [pc : Pcs, to : Sides, c : AnyContent] /\ sync' \in [pc : Pcs, to : Sides, c : AnyContent]
  BY QuietEffect DEF KInv, Files
<1>3. CASE disturbed
  BY <1>1, <1>2, <1>3 DEF Settles
<1>4. CASE ~disturbed
  <2>1. /\ \A s \in Sides : listed[s].c = side[s].c /\ listed[s].base = side[s].base
        /\ UnchangedIsSame
    BY <1>1, <1>4 DEF KInv, Undisturbed, ListingIsTrue, Seen, Compared
  <2>2. ListingIsTrue'
    BY <1>1, <2>1 DEF ListingIsTrue
  <2>3. \A s \in Sides : Has(s) <=> side[s].c # Absent
    BY <2>1 DEF Has
  <2>4. ASSUME NEW s \in Sides, Has(Other(s)), ~Has(s),
               IF Deletes /\ Tracked THEN To(Other(s), "checking") ELSE To(s, "adding")
        PROVE  (MergedIsSame /\ PlanIsTrue)'
    <3>1. side[s].c = Absent
      BY <2>3, <2>4
    <3>2. CASE sync' = [sync EXCEPT !.pc = "checking", !.to = Other(s)]
      <4>1. sync'.pc = "checking" /\ sync'.to = Other(s)
        BY <1>2, <3>2
      <4>2. Source' = s
        BY <4>1 DEF Source
      <4> QED BY <1>1, <3>1, <4>1, <4>2 DEF MergedIsSame, Merged, PlanIsTrue
    <3>3. CASE sync' = [sync EXCEPT !.pc = "adding", !.to = s]
      <4>1. sync'.pc = "adding" /\ sync'.to = s
        BY <1>2, <3>3
      <4> QED BY <1>1, <3>1, <4>1 DEF MergedIsSame, Merged, PlanIsTrue
    <3> QED BY <2>4, <3>2, <3>3 DEF To
  <2>5. ASSUME side["local"].c = side["remote"].c, Skip
        PROVE  (MergedIsSame /\ PlanIsTrue)'
    <3>1. sync'.pc = "clean"
      BY <1>2, <2>5 DEF Skip, Goes
    <3> QED BY <1>1, <2>5, <3>1 DEF MergedIsSame, Merged, PlanIsTrue
  <2>6. ASSUME sync'.pc \in {"idle", "conflict"}
        PROVE  (MergedIsSame /\ PlanIsTrue)'
    BY <2>6 DEF MergedIsSame, Merged, PlanIsTrue
  <2>7. ASSUME NEW s \in Sides, ~Changed(s), To(s, "writing")
        PROVE  (MergedIsSame /\ PlanIsTrue)'
    <3>1. side[s].base
      BY <2>1, <2>7 DEF Changed
    <3>2. sync'.pc = "writing" /\ sync'.to = s
      BY <1>2, <2>7 DEF To
    <3> QED BY <1>1, <3>1, <3>2 DEF MergedIsSame, Merged, PlanIsTrue
  <2>8. ~Changed("local") /\ ~Changed("remote") => side["local"].c = side["remote"].c
    BY <2>1 DEF Changed, UnchangedIsSame
  <2>9. ~Has("local") /\ ~Has("remote") => side["local"].c = side["remote"].c
    BY <2>3
  <2>10. GivesUp \/ Goes("conflict") => sync'.pc \in {"idle", "conflict"}
    BY <1>2 DEF GivesUp, Goes, NoSync
  <2>11. (MergedIsSame /\ PlanIsTrue)'
    BY <2>4, <2>5, <2>6, <2>7, <2>8, <2>9, <2>10 DEF Decide, Same
  <2> QED BY <1>1, <1>2, <2>2, <2>11 DEF Settles
<1> QED BY <1>3, <1>4

LEMMA FetchSettles == KInv /\ Fetch => Settles
<1> SUFFICES ASSUME KInv, Fetch PROVE Settles
  OBVIOUS
<1> USE SidesAre, OtherSide
<1>1. /\ sync.pc \in {"adding", "writing"} /\ UNCHANGED <<side, listed, written, dropped, disturbed, copies>>
  BY DEF Fetch, history
<1>2. sync \in [pc : Pcs, to : Sides, c : AnyContent] /\ sync' \in [pc : Pcs, to : Sides, c : AnyContent]
  BY QuietEffect DEF KInv, Files
<1>3. CASE disturbed
  BY <1>1, <1>2, <1>3 DEF Settles
<1>4. CASE GivesUp
  BY <1>1, <1>4, EndSettles DEF GivesUp
<1>5. CASE ~disturbed /\ ~GivesUp
  <2>1. ListingIsTrue /\ (sync.pc = "adding" => side[sync.to].c = Absent) /\ (sync.pc = "writing" => side[sync.to].base)
    BY <1>5 DEF KInv, Undisturbed, PlanIsTrue
  <2>2. sync' = [sync EXCEPT !.pc = "carrying", !.c = side[Source].c]
    BY <1>5, <2>1 DEF Fetch
  <2>3. sync'.pc = "carrying" /\ sync'.c = side[Source].c /\ sync'.to = sync.to
    BY <1>2, <2>2
  <2>4. Source' = Source
    BY <2>3 DEF Source
  <2>5. ListingIsTrue'
    BY <1>1, <2>1 DEF ListingIsTrue, Seen, Compared
  <2>6. MergedIsSame' /\ PlanIsTrue'
    BY <1>1, <2>1, <2>3, <2>4 DEF MergedIsSame, Merged, PlanIsTrue
  <2> QED BY <1>1, <1>2, <2>5, <2>6 DEF Settles
<1> QED BY <1>3, <1>4, <1>5

LEMMA CheckDeleteSettles == KInv /\ CheckDelete => Settles
<1> SUFFICES ASSUME KInv, CheckDelete PROVE Settles
  OBVIOUS
<1> USE SidesAre, OtherSide
<1>1. /\ sync.pc = "checking" /\ UNCHANGED <<side, listed, written, dropped, disturbed, copies>>
  BY DEF CheckDelete
<1>2. sync \in [pc : Pcs, to : Sides, c : AnyContent] /\ sync' \in [pc : Pcs, to : Sides, c : AnyContent]
  BY QuietEffect DEF KInv, Files
<1>3. CASE disturbed
  BY <1>1, <1>2, <1>3 DEF Settles
<1>4. CASE GivesUp
  BY <1>1, <1>4, EndSettles DEF GivesUp
<1>5. CASE ~disturbed /\ ~GivesUp
  <2>1. MatchesDeletionSnapshot /\ sync' = [sync EXCEPT !.pc = "deleting"]
    BY <1>5 DEF CheckDelete, Goes
  <2>2. sync'.pc = "deleting" /\ sync'.to = sync.to /\ sync.to \in Sides
    BY <1>2, <2>1
  <2>3. ListingIsTrue /\ side[Source].c = Absent
    BY <1>1, <1>5 DEF KInv, Undisturbed, PlanIsTrue
  <2>4. Source' = Source
    BY <2>2 DEF Source
  <2>5. side[sync.to].base
    BY <1>1, <2>1, <2>2, <2>3 DEF MatchesDeletionSnapshot, ListingIsTrue, Seen, Compared
  <2>6. ListingIsTrue'
    BY <1>1, <2>3 DEF ListingIsTrue, Seen, Compared
  <2>7. MergedIsSame' /\ PlanIsTrue'
    BY <1>1, <2>2, <2>3, <2>4, <2>5 DEF MergedIsSame, Merged, PlanIsTrue
  <2> QED BY <1>1, <1>2, <2>6, <2>7 DEF Settles
<1> QED BY <1>3, <1>4, <1>5

LEMMA HashSettles == KInv /\ (Hash \/ Restat) => Settles
<1> SUFFICES ASSUME KInv, Hash \/ Restat PROVE Settles
  OBVIOUS
<1> USE SidesAre
<1>1. /\ sync.pc \in {"hashing", "restat"} /\ UNCHANGED <<side, listed, written, dropped, disturbed, copies>>
  BY DEF Hash, Restat, history
<1>2. sync \in [pc : Pcs, to : Sides, c : AnyContent] /\ side["local"].c \in AnyContent
  BY DEF KInv, Files
<1>3. CASE sync' = NoSync
  BY <1>1, <1>3, EndSettles
<1>4. CASE \/ sync' = [sync EXCEPT !.pc = "storing"] \/ sync' = [sync EXCEPT !.pc = "restat", !.c = side["local"].c]
  <2>1. sync' \in [pc : Pcs, to : Sides, c : AnyContent] /\ sync'.pc \in {"restat", "storing"}
    BY <1>2, <1>4 DEF Pcs
  <2>2. ~disturbed => side["local"].c = side["remote"].c
    BY <1>1 DEF KInv, Undisturbed, MergedIsSame, Merged
  <2>3. ~disturbed => (ListingIsTrue /\ MergedIsSame /\ PlanIsTrue)'
    BY <1>1, <2>1, <2>2 DEF ListingIsTrue, Seen, Compared, MergedIsSame, PlanIsTrue
  <2> QED BY <1>1, <2>1, <2>3 DEF Settles
<1> QED BY <1>3, <1>4 DEF Hash, Restat, Goes, GivesUp

LEMMA EndKept == KInv /\ (TransferFails \/ KeepBoth) => KInv'
BY EndSettles, SettleKept DEF TransferFails, KeepBoth, GivesUp, history

(* A transfer overwrites a file that is absent or as in the baseline; a     *)
(* deletion deletes one that is as in the baseline.                         *)
Overwrites(t, c) ==
  /\ side' = [side EXCEPT ![t] = FileOf(c)]
  /\ UNCHANGED <<listed, written, dropped, copies, disturbed>>
  /\ sync' \in [pc : Pcs, to : Sides, c : AnyContent] /\ sync'.pc = "clean"
  /\ ~disturbed => c = side[Other(t)].c /\ (side[t].c = Absent \/ side[t].base)

LEMMA OverwriteKept ==
  ASSUME KInv, NEW t \in Sides, NEW c \in AnyContent, Overwrites(t, c)
  PROVE  KInv'
<1> USE SidesAre, OtherSide
<1>1. /\ side' \in [Sides -> FileType] /\ side'[t].c = c /\ ~side'[t].base /\ ~side'[t].list
      /\ \A s \in Sides : s # t => side'[s] = side[s]
  BY Replaced DEF Overwrites, KInv
<1>2. Files'
  BY <1>1 DEF KInv, Files, FileType, Overwrites
<1>3. StampsArePresent'
  BY <1>1 DEF KInv, StampsArePresent
<1>4. ASSUME ~disturbed' PROVE Undisturbed'
  <2>1. /\ Undisturbed /\ c = side[Other(t)].c /\ (side[t].c = Absent \/ side[t].base)
        /\ UNCHANGED <<written, dropped, copies>> /\ sync'.pc = "clean"
    BY <1>4 DEF KInv, Overwrites
  <2>2. side'[t].c = c /\ side'[Other(t)].c = c
    BY <1>1, <2>1
  <2>3. MergedIsSame' /\ UnchangedIsSame' /\ BaselineIsKept'
    BY <2>2 DEF MergedIsSame, UnchangedIsSame, BaselineIsKept
  <2>4. WrittenIsKept'
    <3> SUFFICES ASSUME NEW w \in written PROVE w # Absent /\ (w \in Preserved' \/ w \in OnSides')
      BY <2>1 DEF WrittenIsKept
    <3>1. w # Absent /\ (w \in Preserved \/ w = side[t].c \/ w = side[Other(t)].c)
      BY <2>1 DEF Undisturbed, WrittenIsKept, OnSides
    <3>2. w = side[t].c => w \in Preserved \/ w = side[Other(t)].c
      BY <3>1, <2>1 DEF Undisturbed, BaselineIsKept
    <3>3. w \in Preserved => w \in Preserved'
      BY <2>1 DEF Preserved
    <3>4. w = side[Other(t)].c => w \in OnSides'
      BY <2>1, <2>2 DEF OnSides
    <3> QED BY <3>1, <3>2, <3>3, <3>4
  <2>5. ListingIsTrue' /\ PlanIsTrue'
    BY <2>1 DEF ListingIsTrue, Seen, Compared, PlanIsTrue
  <2> QED BY <2>3, <2>4, <2>5 DEF Undisturbed
<1> QED BY <1>2, <1>3, <1>4 DEF KInv

LEMMA DeliverKept == KInv /\ Deliver => KInv'
<1> SUFFICES ASSUME KInv, Deliver PROVE KInv'
  OBVIOUS
<1>1. /\ sync.to \in Sides /\ sync.c \in AnyContent
      /\ sync' \in [pc : Pcs, to : Sides, c : AnyContent] /\ sync'.pc = "clean"
  BY SidesAre DEF Deliver, KInv, Files, Pcs, AnyContent
<1>2. ~disturbed => sync.c = side[Other(sync.to)].c /\ (side[sync.to].c = Absent \/ side[sync.to].base)
  BY DEF Deliver, KInv, Undisturbed, PlanIsTrue, Source
<1>3. Overwrites(sync.to, sync.c)
  BY <1>1, <1>2 DEF Deliver, Overwrites, history
<1> QED BY <1>1, <1>3, OverwriteKept

LEMMA DeleteKept == KInv /\ DeleteFile => KInv'
<1> SUFFICES ASSUME KInv, DeleteFile PROVE KInv'
  OBVIOUS
<1>1. /\ sync.pc = "deleting" /\ UNCHANGED <<listed, written, dropped, copies, disturbed>>
      /\ sync \in [pc : Pcs, to : Sides, c : AnyContent]
  BY DEF DeleteFile, history, KInv, Files
<1>2. CASE sync' = NoSync /\ side' = side
  BY <1>1, <1>2, EndSettles, SettleKept
<1>3. CASE side' = [side EXCEPT ![sync.to] = NoFile] /\ sync' = [sync EXCEPT !.pc = "clean"]
  <2>1. sync' \in [pc : Pcs, to : Sides, c : AnyContent] /\ sync'.pc = "clean"
    BY <1>1, <1>3 DEF Pcs
  <2>2. ~disturbed => Absent = side[Other(sync.to)].c /\ side[sync.to].base
    BY <1>1 DEF KInv, Undisturbed, PlanIsTrue, Source
  <2>3. Overwrites(sync.to, Absent) /\ sync.to \in Sides /\ Absent \in AnyContent
    BY <1>1, <1>3, <2>1, <2>2 DEF Overwrites, NoFile, AnyContent
  <2> QED BY <2>3, OverwriteKept
<1> QED BY <1>2, <1>3 DEF DeleteFile, GivesUp, Skip, Goes

(* What becomes the baseline is the same on both sides. *)
LEMMA StoreKept == KInv /\ StoreBaseline => KInv'
<1> SUFFICES ASSUME KInv, StoreBaseline PROVE KInv'
  OBVIOUS
<1> USE SidesAre, OtherSide
<1>1. /\ Files' /\ sync.pc = "storing" /\ sync'.pc = "idle"
      /\ \A t \in Sides : side'[t].c = side[t].c /\ side'[t].base = side[t].list /\ side'[t].list = side[t].list
  BY StoreEffect DEF KInv
<1>2. Preserves
  BY <1>1 DEF Preserves, StoreBaseline, history
<1>3. StampsArePresent'
  BY <1>1 DEF KInv, StampsArePresent
<1>4. ASSUME ~disturbed' PROVE Undisturbed'
  <2>1. Undisturbed
    BY <1>2, <1>4 DEF KInv, Preserves
  <2>2. WrittenIsKept'
    BY <1>2, <2>1, PreservesKept DEF Undisturbed
  <2>3. side'["local"].c = side'["remote"].c
    BY <1>1, <2>1 DEF Undisturbed, MergedIsSame, Merged
  <2>4. BaselineIsKept' /\ UnchangedIsSame'
    BY <2>3 DEF BaselineIsKept, UnchangedIsSame
  <2>5. ListingIsTrue' /\ MergedIsSame' /\ PlanIsTrue'
    BY <1>1 DEF ListingIsTrue, Seen, Compared, MergedIsSame, Merged, PlanIsTrue
  <2> QED BY <2>2, <2>4, <2>5 DEF Undisturbed
<1> QED BY <1>1, <1>3, <1>4 DEF KInv

LEMMA KStutter == KInv /\ UNCHANGED svars => KInv'
<1> SUFFICES ASSUME KInv, UNCHANGED svars PROVE KInv'
  OBVIOUS
<1>1. UNCHANGED <<side, listed, sync, written, dropped, copies, disturbed>>
  BY DEF svars
<1>2. sync' \in [pc : Pcs, to : Sides, c : AnyContent]
  BY <1>1 DEF KInv, Files
<1>3. ListingIsTrue => ListingIsTrue'
  BY <1>1 DEF ListingIsTrue, Seen, Compared
<1>4. MergedIsSame => MergedIsSame'
  BY <1>1 DEF MergedIsSame, Merged
<1>5. PlanIsTrue => PlanIsTrue'
  BY <1>1 DEF PlanIsTrue, Source
<1>6. Settles
  BY <1>1, <1>2, <1>3, <1>4, <1>5 DEF KInv, Undisturbed, Settles
<1> QED BY <1>6, SettleKept

(* Propagate_deletes on or off: what a user wrote, and did not himself      *)
(* delete or write over, is still on one side or in a conflict copy after   *)
(* any number of runs and edits, as long as no edit falls into a run.       *)
THEOREM NothingIsLost == SSafety => []NothingLostBetweenRuns
<1>1. KInv /\ [SNext]_svars => KInv'
  <2> SUFFICES ASSUME KInv, [SNext]_svars PROVE KInv'
    OBVIOUS
  <2>1. CASE \E s \in Sides, c \in Contents \cup {Absent} : Edit(s, c)
    BY <2>1, EditKept DEF AnyContent
  <2>2. CASE Begin \/ List \/ Relist
    BY <2>2, BeginKept, ListKept
  <2>3. CASE Decide \/ Fetch \/ CheckDelete \/ Hash \/ Restat
    BY <2>3, DecideSettles, FetchSettles, CheckDeleteSettles, HashSettles, SettleKept
  <2>4. CASE Deliver \/ DeleteFile \/ TransferFails \/ KeepBoth \/ StoreBaseline
    BY <2>4, DeliverKept, DeleteKept, EndKept, StoreKept
  <2> QED BY <2>1, <2>2, <2>3, <2>4, KStutter DEF SNext, RunSync
<1>2. KInv => NothingLostBetweenRuns
  BY DEF KInv, Undisturbed, WrittenIsKept, Preserved, OnSides, NothingLostBetweenRuns, Lost
<1> QED BY <1>1, <1>2, SInitKept, PTL DEF SSafety

-----------------------------------------------------------------------------
(***************************************************************************)
(* Proofs about the range cache, for any readers and any file, however     *)
(* often the source fails, the cache is removed and power is lost: the     *)
(* list of ranges keeps its shape, what is called cached is there, and a   *)
(* stream delivers the file.                                               *)
(***************************************************************************)

Pairwise(rs) == \A i, j \in DOMAIN rs : i < j => rs[i][2] + 1 < rs[j][1]
Wide(r) == (r[1])..(r[2])

LEMMA AppendIs ==
  ASSUME NEW S, NEW s \in Seq(S), NEW x \in S
  PROVE  /\ Append(s, x) \in Seq(S) /\ Len(Append(s, x)) = Len(s) + 1 /\ DOMAIN Append(s, x) = 1..(Len(s) + 1)
         /\ Append(s, x)[Len(s) + 1] = x /\ \A k \in 1..Len(s) : Append(s, x)[k] = s[k]
OBVIOUS

LEMMA SpanIs ==
  /\ \A r \in Span : r[1] \in Blocks /\ r[2] \in Blocks /\ r[1] <= r[2] /\ r[1] \in Nat /\ r[2] \in Nat
  /\ \A a, b \in Blocks : a <= b => <<a, b>> \in Span
  /\ \A b \in Blocks : b \in Nat
  /\ Blocks = 0..(Size - 1)
BY RangeAssumption DEF Span, Blocks

(* The step of addRange's loop, with what the loop has when it is entered   *)
(* for range i + 1.                                                         *)
Adding(m, r) ==
  IF r[2] + 1 < m.first THEN [m EXCEPT !.out = Append(@, r)]
  ELSE IF m.last + 1 < r[1]
  THEN [m EXCEPT !.out = IF m.in THEN Append(@, r) ELSE @ \o <<<<m.first, m.last>>, r>>, !.in = TRUE]
  ELSE [m EXCEPT !.first = IF r[1] < @ THEN r[1] ELSE @, !.last = IF r[2] > @ THEN r[2] ELSE @]
Merges == {m \in [out : Seq(Span), first : Blocks, last : Blocks, in : BOOLEAN] : m.first <= m.last}
(* Nothing in out is more than was there or was added, and out is apart.    *)
Within(m, C) ==
  /\ (m.first)..(m.last) \subseteq C
  /\ \A k \in DOMAIN m.out : Wide(m.out[k]) \subseteq C
Before(m, rs, i) ==
  /\ Pairwise(m.out)
  /\ \A k \in DOMAIN m.out, j \in DOMAIN rs : j > i => m.out[k][2] + 1 < rs[j][1]
  /\ m.in = FALSE => \A k \in DOMAIN m.out : m.out[k][2] + 1 < m.first
  /\ m.in = TRUE => \A j \in DOMAIN rs : j > i => m.last + 1 < rs[j][1]

(* A range joins the end of a list. *)
LEMMA OneMoreApart ==
  ASSUME NEW s \in Seq(Span), Pairwise(s), NEW x \in Span, \A k \in DOMAIN s : s[k][2] + 1 < x[1]
  PROVE  Append(s, x) \in Seq(Span) /\ Pairwise(Append(s, x))
<1> DEFINE t == Append(s, x)
<1>1. /\ t \in Seq(Span) /\ DOMAIN t = 1..(Len(s) + 1) /\ t[Len(s) + 1] = x /\ \A k \in 1..Len(s) : t[k] = s[k]
  BY AppendIs
<1>2. DOMAIN s = 1..Len(s) /\ Len(s) \in Nat
  OBVIOUS
<1> HIDE DEF t
<1>3. ASSUME NEW i \in DOMAIN t, NEW j \in DOMAIN t, i < j PROVE t[i][2] + 1 < t[j][1]
  <2>1. i \in 1..Len(s)
    BY <1>1, <1>2, <1>3
  <2>2. CASE j \in 1..Len(s)
    BY <1>1, <1>2, <1>3, <2>1, <2>2 DEF Pairwise
  <2>3. CASE j = Len(s) + 1
    BY <1>1, <1>2, <2>1, <2>3
  <2> QED BY <1>1, <1>2, <2>2, <2>3
<1> QED BY <1>1, <1>3 DEF Pairwise, t

LEMMA AddingWithin ==
  ASSUME NEW m \in Merges, NEW C, Within(m, C), NEW r \in Span, Wide(r) \subseteq C
  PROVE  Adding(m, r) \in Merges /\ Within(Adding(m, r), C)
<1>1. /\ m.out \in Seq(Span) /\ m.first \in Blocks /\ m.last \in Blocks /\ m.in \in BOOLEAN
      /\ m.first <= m.last /\ (m.first)..(m.last) \subseteq C
  BY DEF Merges, Within
<1>2. /\ r[1] \in Blocks /\ r[2] \in Blocks /\ r[1] <= r[2] /\ r[1] \in Nat /\ r[2] \in Nat
      /\ m.first \in Nat /\ m.last \in Nat
  BY <1>1, SpanIs
<1> DEFINE u == Append(m.out, r)
           z == <<m.first, m.last>>
           w == Append(m.out, z)
           v == Append(w, r)
<1>3. u \in Seq(Span) /\ \A k \in DOMAIN u : Wide(u[k]) \subseteq C
  <2>1. /\ u \in Seq(Span) /\ DOMAIN u = 1..(Len(m.out) + 1)
        /\ u[Len(m.out) + 1] = r /\ \A k \in 1..Len(m.out) : u[k] = m.out[k]
    BY <1>1, AppendIs
  <2> HIDE DEF u
  <2>2. \A k \in DOMAIN u : k = Len(m.out) + 1 \/ k \in 1..Len(m.out)
    BY <1>1, <2>1
  <2>3. DOMAIN m.out = 1..Len(m.out)
    BY <1>1
  <2> QED BY <2>1, <2>2, <2>3 DEF Within
<1>4. z \in Span /\ Wide(z) \subseteq C
  BY <1>1, <1>2, SpanIs DEF Wide
<1>5. w \in Seq(Span) /\ \A k \in DOMAIN w : Wide(w[k]) \subseteq C
  <2> HIDE DEF z
  <2>1. /\ w \in Seq(Span) /\ DOMAIN w = 1..(Len(m.out) + 1)
        /\ w[Len(m.out) + 1] = z /\ \A k \in 1..Len(m.out) : w[k] = m.out[k]
    BY <1>1, <1>4, AppendIs
  <2> HIDE DEF w
  <2>2. \A k \in DOMAIN w : k = Len(m.out) + 1 \/ k \in 1..Len(m.out)
    BY <1>1, <2>1
  <2>3. DOMAIN m.out = 1..Len(m.out)
    BY <1>1
  <2> QED BY <1>4, <2>1, <2>2, <2>3 DEF Within
<1>6. v \in Seq(Span) /\ \A k \in DOMAIN v : Wide(v[k]) \subseteq C
  <2> HIDE DEF w
  <2>1. /\ v \in Seq(Span) /\ DOMAIN v = 1..(Len(w) + 1)
        /\ v[Len(w) + 1] = r /\ \A k \in 1..Len(w) : v[k] = w[k]
    BY <1>5, AppendIs
  <2> HIDE DEF v
  <2>2. \A k \in DOMAIN v : k = Len(w) + 1 \/ k \in 1..Len(w)
    BY <1>5, <2>1
  <2>3. DOMAIN w = 1..Len(w)
    BY <1>5
  <2> QED BY <1>5, <2>1, <2>2, <2>3
<1>7. m.out \o <<z, r>> = v
  <2> HIDE DEF z
  <2> QED BY <1>1, <1>4
<1> HIDE DEF u, v, w, z
<1>8. CASE r[2] + 1 < m.first
  <2>1. Adding(m, r) = [m EXCEPT !.out = u]
    BY <1>8 DEF Adding, u
  <2> QED BY <1>1, <1>3, <2>1 DEF Merges, Within
<1>9. CASE ~(r[2] + 1 < m.first) /\ m.last + 1 < r[1]
  <2>1. Adding(m, r) = [m EXCEPT !.out = IF m.in THEN u ELSE v, !.in = TRUE]
    BY <1>7, <1>9 DEF Adding, u, z
  <2>2. (IF m.in THEN u ELSE v) \in Seq(Span) /\ \A k \in DOMAIN (IF m.in THEN u ELSE v) : Wide((IF m.in THEN u ELSE v)[k]) \subseteq C
    BY <1>3, <1>6
  <2> DEFINE y == IF m.in THEN u ELSE v
  <2> HIDE DEF y
  <2>3. Adding(m, r) = [m EXCEPT !.out = y, !.in = TRUE] /\ y \in Seq(Span) /\ \A k \in DOMAIN y : Wide(y[k]) \subseteq C
    BY <2>1, <2>2 DEF y
  <2>4. Adding(m, r) \in Merges
    BY <1>1, <2>3 DEF Merges
  <2>5. Adding(m, r).out = y /\ Adding(m, r).first = m.first /\ Adding(m, r).last = m.last
    BY <2>3 DEF Merges
  <2> QED BY <1>1, <2>3, <2>4, <2>5 DEF Within
<1>10. CASE ~(r[2] + 1 < m.first) /\ ~(m.last + 1 < r[1])
  <2> DEFINE f == IF r[1] < m.first THEN r[1] ELSE m.first
             l == IF r[2] > m.last THEN r[2] ELSE m.last
  <2>1. Adding(m, r) = [m EXCEPT !.first = f, !.last = l]
    BY <1>10 DEF Adding
  <2>2. f \in Blocks /\ l \in Blocks /\ f <= l
    BY <1>1, <1>2
  <2>3. f..l \subseteq C
    <3>1. ASSUME NEW x \in f..l PROVE x \in (m.first)..(m.last) \/ x \in (r[1])..(r[2])
      BY <1>2, <1>10, <3>1
    <3> QED BY <1>1, <3>1 DEF Wide
  <2> HIDE DEF f, l
  <2> QED BY <1>1, <2>1, <2>2, <2>3 DEF Merges, Within
<1> QED BY <1>8, <1>9, <1>10

LEMMA AddingType ==
  ASSUME NEW m \in Merges, NEW r \in Span
  PROVE  Adding(m, r) \in Merges
<1>1. Wide(r) \subseteq Int
  BY DEF Wide
<1>2. Within(m, Int)
  BY DEF Within, Wide
<1> QED BY <1>1, <1>2, AddingWithin

LEMMA AddingBefore ==
  ASSUME NEW rs \in Seq(Span), Pairwise(rs), NEW i \in DOMAIN rs,
         NEW m \in Merges, Before(m, rs, i - 1)
  PROVE  Before(Adding(m, rs[i]), rs, i)
<1> DEFINE r == rs[i]
           n == Adding(m, r)
<1>1. /\ m.out \in Seq(Span) /\ m.first \in Nat /\ m.last \in Nat /\ m.in \in BOOLEAN
      /\ m.first \in Blocks /\ m.last \in Blocks /\ m.first <= m.last /\ i \in Nat /\ i > i - 1
      /\ DOMAIN m.out = 1..Len(m.out) /\ Len(m.out) \in Nat
  BY SpanIs DEF Merges
<1>2. r \in Span /\ r[1] \in Nat /\ r[2] \in Nat /\ r[1] <= r[2]
  BY SpanIs
<1>3. \A j \in DOMAIN rs : j > i => j > i - 1 /\ r[2] + 1 < rs[j][1] /\ rs[j][1] \in Nat
  <2>1. \A j \in DOMAIN rs : rs[j][1] \in Nat
    BY SpanIs
  <2> QED BY <1>1, <2>1 DEF Pairwise
<1>4. Pairwise(m.out) /\ \A k \in DOMAIN m.out : m.out[k][2] \in Nat /\ m.out[k][2] + 1 < r[1]
  <2>1. \A k \in DOMAIN m.out : m.out[k] \in Span
    BY <1>1
  <2> QED BY <1>1, <2>1, SpanIs DEF Before
<1>5. \A k \in DOMAIN m.out, j \in DOMAIN rs : j > i => m.out[k][2] + 1 < rs[j][1]
  BY <1>3 DEF Before
<1> DEFINE u == Append(m.out, r)
           z == <<m.first, m.last>>
           w == Append(m.out, z)
           v == Append(w, r)
<1>6. /\ u \in Seq(Span) /\ Pairwise(u)
      /\ \A k \in DOMAIN u, j \in DOMAIN rs : j > i => u[k][2] + 1 < rs[j][1]
  <2>1. u \in Seq(Span) /\ Pairwise(u)
    BY <1>1, <1>2, <1>4, OneMoreApart
  <2>2. DOMAIN u = 1..(Len(m.out) + 1) /\ u[Len(m.out) + 1] = r /\ \A k \in 1..Len(m.out) : u[k] = m.out[k]
    BY <1>1, <1>2, AppendIs
  <2>3. \A k \in DOMAIN u : k = Len(m.out) + 1 \/ (k \in 1..Len(m.out) /\ k \in DOMAIN m.out)
    BY <1>1, <2>2
  <2> HIDE DEF u, r
  <2> QED BY <1>3, <1>5, <2>1, <2>2, <2>3
<1> HIDE DEF r, n
<1>7. CASE r[2] + 1 < m.first
  <2>1. n = [m EXCEPT !.out = u]
    BY <1>7 DEF Adding, n
  <2>2. n.out = u /\ n.first = m.first /\ n.last = m.last /\ n.in = m.in
    BY <2>1 DEF Merges
  <2>3. m.in = FALSE => \A k \in DOMAIN u : u[k][2] + 1 < m.first
    <3> SUFFICES ASSUME m.in = FALSE, NEW k \in DOMAIN u PROVE u[k][2] + 1 < m.first
      OBVIOUS
    <3>1. DOMAIN u = 1..(Len(m.out) + 1) /\ u[Len(m.out) + 1] = r /\ \A p \in 1..Len(m.out) : u[p] = m.out[p]
      BY <1>1, <1>2, AppendIs
    <3>2. k = Len(m.out) + 1 \/ (k \in 1..Len(m.out) /\ k \in DOMAIN m.out)
      BY <1>1, <3>1
    <3> HIDE DEF u
    <3> QED BY <1>7, <3>1, <3>2 DEF Before
  <2>4. m.in = TRUE => \A j \in DOMAIN rs : j > i => m.last + 1 < rs[j][1]
    BY <1>3 DEF Before
  <2> HIDE DEF u
  <2> QED BY <1>6, <2>2, <2>3, <2>4 DEF Before, n, r
<1>8. CASE ~(r[2] + 1 < m.first) /\ m.last + 1 < r[1]
  <2>1. CASE m.in = TRUE
    <3>1. n = [m EXCEPT !.out = u, !.in = TRUE]
      BY <1>8, <2>1 DEF Adding, n
    <3>2. n.out = u /\ n.first = m.first /\ n.last = m.last /\ n.in = TRUE
      BY <3>1 DEF Merges
    <3>3. \A j \in DOMAIN rs : j > i => m.last + 1 < rs[j][1]
      BY <1>3, <2>1 DEF Before
    <3> HIDE DEF u
    <3> QED BY <1>6, <3>2, <3>3 DEF Before, n, r
  <2>2. CASE m.in = FALSE
    <3>1. z \in Span /\ z[1] = m.first /\ z[2] = m.last
      BY <1>1, SpanIs
    <3>2. \A k \in DOMAIN m.out : m.out[k][2] + 1 < z[1]
      BY <2>2, <3>1 DEF Before
    <3> HIDE DEF z
    <3>3. w \in Seq(Span) /\ Pairwise(w)
      BY <1>1, <1>4, <3>1, <3>2, OneMoreApart
    <3>4. DOMAIN w = 1..(Len(m.out) + 1) /\ w[Len(m.out) + 1] = z /\ \A k \in 1..Len(m.out) : w[k] = m.out[k]
      BY <1>1, <3>1, AppendIs
    <3>5. m.out \o <<z, r>> = v
      <4>1. m.out \in Seq(Span) /\ z \in Span /\ r \in Span
        BY <1>1, <1>2, <3>1
      <4> QED BY <4>1
    <3> HIDE DEF w
    <3>6. \A k \in DOMAIN w : k = Len(m.out) + 1 \/ (k \in 1..Len(m.out) /\ k \in DOMAIN m.out)
      BY <1>1, <3>4
    <3>7. /\ \A k \in DOMAIN w : w[k][2] + 1 < r[1]
          /\ \A k \in DOMAIN w, j \in DOMAIN rs : j > i => w[k][2] + 1 < rs[j][1]
      <4>1. z[2] + 1 < r[1] /\ \A j \in DOMAIN rs : j > i => z[2] + 1 < rs[j][1]
        BY <1>1, <1>2, <1>3, <1>8, <3>1, SMTT(40)
      <4> QED BY <1>4, <1>5, <3>4, <3>6, <4>1
    <3>8. v \in Seq(Span) /\ Pairwise(v)
      BY <1>2, <3>3, <3>7, OneMoreApart
    <3>9. \A k \in DOMAIN v, j \in DOMAIN rs : j > i => v[k][2] + 1 < rs[j][1]
      <4>1. DOMAIN v = 1..(Len(w) + 1) /\ v[Len(w) + 1] = r /\ \A k \in 1..Len(w) : v[k] = w[k]
        BY <1>2, <3>3, AppendIs
      <4>2. \A k \in DOMAIN v : k = Len(w) + 1 \/ (k \in 1..Len(w) /\ k \in DOMAIN w)
        BY <3>3, <4>1
      <4> HIDE DEF v
      <4> QED BY <1>3, <3>7, <4>1, <4>2
    <3>10. n = [m EXCEPT !.out = v, !.in = TRUE]
      BY <1>8, <2>2, <3>5 DEF Adding, n, z
    <3> HIDE DEF v
    <3>11. n.out = v /\ n.first = m.first /\ n.last = m.last /\ n.in = TRUE
      BY <3>10 DEF Merges
    <3>12. \A j \in DOMAIN rs : j > i => m.last + 1 < rs[j][1]
      BY <1>1, <1>2, <1>3, <1>8, SMTT(40)
    <3> QED BY <3>8, <3>9, <3>11, <3>12 DEF Before, n, r
  <2> QED BY <1>1, <2>1, <2>2
<1>9. CASE ~(r[2] + 1 < m.first) /\ ~(m.last + 1 < r[1])
  <2> DEFINE f == IF r[1] < m.first THEN r[1] ELSE m.first
             l == IF r[2] > m.last THEN r[2] ELSE m.last
  <2>1. n = [m EXCEPT !.first = f, !.last = l]
    BY <1>9 DEF Adding, n
  <2>2. m.in = FALSE
    <3>1. m.in = TRUE => m.last + 1 < r[1]
      BY <1>1 DEF Before, r
    <3> QED BY <1>1, <1>9, <3>1
  <2>3. \A k \in DOMAIN m.out : m.out[k][2] + 1 < f
    BY <1>4, <2>2 DEF Before
  <2> HIDE DEF f, l
  <2>4. n.out = m.out /\ n.first = f /\ n.in = FALSE
    BY <2>1, <2>2 DEF Merges
  <2> QED BY <1>4, <1>5, <2>3, <2>4 DEF Before, n, r
<1> QED BY <1>7, <1>8, <1>9

(* addRange: what it makes of a list of ranges that are apart is apart, and *)
(* covers no more than the list and what is added.                          *)
LEMMA AddRangeIs ==
  ASSUME NEW rs \in Seq(Span), Pairwise(rs), NEW a \in Blocks, NEW b \in Blocks, a <= b
  PROVE  /\ AddRange(rs, a, b) \in Seq(Span) /\ Pairwise(AddRange(rs, a, b))
         /\ Covers(AddRange(rs, a, b)) \subseteq Covers(rs) \cup (a..b)
<1> DEFINE n == Len(rs)
           C == Covers(rs) \cup (a..b)
           start == [out |-> <<>>, first |-> a, last |-> b, in |-> FALSE]
           F == [p \in Merges \X (1..n) |-> Adding(p[1], rs[p[2]])]
           iter == CHOOSE f : f = [s \in SUBSET (1..n) |-> IF s = {} THEN start ELSE Adding(f[s \ {Max(s)}], rs[Max(s)])]
           m == iter[1..n]
<1>1. n \in Nat /\ DOMAIN rs = 1..n /\ \A i \in 1..n : rs[i] \in Span /\ Wide(rs[i]) \subseteq C
  BY DEF Covers, Wide
<1>2. AddRange(rs, a, b) = IF m.in THEN m.out ELSE Append(m.out, <<m.first, m.last>>)
  <2>1. AddRange(rs, a, b) =
          LET g == LET f[s \in SUBSET DOMAIN rs] == IF s = {} THEN start ELSE Adding(f[s \ {Max(s)}], rs[Max(s)])
                   IN  f[DOMAIN rs]
          IN  IF g.in THEN g.out ELSE Append(g.out, <<g.first, g.last>>)
    BY DEF AddRange, Adding, FoldLeft, MapThenFoldSet
  <2> QED BY <1>1, <2>1
<1>3. start \in Merges /\ Within(start, C) /\ Before(start, rs, 0)
  BY DEF Merges, Within, Before, Pairwise
<1> HIDE DEF start, C
<1>4. F \in [Merges \X (1..n) -> Merges]
  <2>1. ASSUME NEW x \in Merges, NEW i \in 1..n PROVE Adding(x, rs[i]) \in Merges
    BY <1>1, AddingType
  <2> QED BY <2>1
<1> HIDE DEF n
<1>5. PICK g \in [SUBSET (1..n) -> Merges] : Recurs(g, start, F, n)
  <2> HIDE DEF F
  <2> QED BY <1>1, <1>3, <1>4, FoldExists
<1>6. \A s \in SUBSET (1..n) : s # {} => Max(s) \in 1..n
  BY <1>1, MaxExists
<1>7. g = [s \in SUBSET (1..n) |-> IF s = {} THEN start ELSE Adding(g[s \ {Max(s)}], rs[Max(s)])]
  <2>1. \A x \in Merges, i \in 1..n : F[<<x, i>>] = Adding(x, rs[i])
    OBVIOUS
  <2>2. \A s \in SUBSET (1..n) : s # {} => g[s \ {Max(s)}] \in Merges
    OBVIOUS
  <2> HIDE DEF F
  <2>3. \A s \in SUBSET (1..n) : s # {} => F[<<g[s \ {Max(s)}], Max(s)>>] = Adding(g[s \ {Max(s)}], rs[Max(s)])
    BY <1>6, <2>1, <2>2
  <2> QED BY <1>5, <2>3 DEF Recurs
<1>8. iter = [s \in SUBSET (1..n) |-> IF s = {} THEN start ELSE Adding(iter[s \ {Max(s)}], rs[Max(s)])]
  BY <1>7
<1> HIDE DEF iter, m
<1> DEFINE S == {i \in 0..n : iter[1..i] \in Merges /\ Within(iter[1..i], C) /\ Before(iter[1..i], rs, i)}
<1>9. 0 \in S
  <2>1. 1..0 = {} /\ {} \in SUBSET (1..n)
    OBVIOUS
  <2>2. iter[{}] = start
    BY <1>8, <2>1
  <2> QED BY <1>1, <1>3, <2>1, <2>2
<1>10. ASSUME NEW i \in 0..(n - 1), i \in S PROVE i + 1 \in S
  <2>1. i + 1 \in Nat \ {0} /\ i + 1 \in 1..n /\ i + 1 - 1 = i /\ i + 1 \in 0..n
    BY <1>1
  <2>2. 1..(i + 1) \in SUBSET (1..n)
    BY <1>1, <2>1
  <2>3. Max(1..(i + 1)) = i + 1 /\ (1..(i + 1)) \ {i + 1} = 1..i /\ 1..(i + 1) # {}
    BY <2>1, MaxOfFirst
  <2>4. iter[1..(i + 1)] = Adding(iter[1..i], rs[i + 1])
    BY <1>8, <2>2, <2>3
  <2>5. iter[1..i] \in Merges /\ Within(iter[1..i], C) /\ Before(iter[1..i], rs, i + 1 - 1)
    BY <1>10, <2>1
  <2>6. rs[i + 1] \in Span /\ Wide(rs[i + 1]) \subseteq C /\ i + 1 \in DOMAIN rs
    BY <1>1, <2>1
  <2>8. Adding(iter[1..i], rs[i + 1]) \in Merges /\ Within(Adding(iter[1..i], rs[i + 1]), C)
    BY <2>5, <2>6, AddingWithin
  <2>9. Before(Adding(iter[1..i], rs[i + 1]), rs, i + 1)
    BY <2>5, <2>6, AddingBefore
  <2> QED BY <2>1, <2>4, <2>8, <2>9
<1> HIDE DEF S
<1>11. m \in Merges /\ Within(m, C) /\ Before(m, rs, n)
  <2>1. \A i \in 0..n : i \in S
    BY <1>1, <1>9, <1>10, Induction
  <2>2. n \in S
    BY <1>1, <2>1
  <2> QED BY <2>2 DEF S, m
<1>12. m.out \in Seq(Span) /\ m.first \in Blocks /\ m.last \in Blocks /\ m.in \in BOOLEAN
  BY <1>11 DEF Merges
<1> DEFINE z == <<m.first, m.last>>
           w == Append(m.out, z)
<1>13. z \in Span /\ z[1] = m.first /\ z[2] = m.last /\ Wide(z) \subseteq C
  BY <1>11, <1>12, SpanIs DEF Merges, Within, Wide
<1> HIDE DEF z
<1>14. CASE m.in = TRUE
  <2>1. AddRange(rs, a, b) = m.out
    BY <1>2, <1>14
  <2>2. Covers(m.out) \subseteq C
    BY <1>11 DEF Covers, Within, Wide
  <2> QED BY <1>11, <1>12, <2>1, <2>2 DEF Before, C
<1>15. CASE m.in = FALSE
  <2>1. AddRange(rs, a, b) = w
    BY <1>2, <1>15 DEF z
  <2>2. w \in Seq(Span) /\ Pairwise(w)
    <3>1. Pairwise(m.out) /\ \A k \in DOMAIN m.out : m.out[k][2] + 1 < z[1]
      BY <1>11, <1>13, <1>15 DEF Before
    <3> QED BY <1>12, <1>13, <3>1, OneMoreApart
  <2>3. DOMAIN w = 1..(Len(m.out) + 1) /\ w[Len(m.out) + 1] = z /\ \A k \in 1..Len(m.out) : w[k] = m.out[k]
    BY <1>12, <1>13, AppendIs
  <2> HIDE DEF w
  <2>4. \A k \in DOMAIN w : k = Len(m.out) + 1 \/ (k \in 1..Len(m.out) /\ k \in DOMAIN m.out)
    BY <1>12, <2>3
  <2>5. \A k \in DOMAIN w : Wide(w[k]) \subseteq C
    BY <1>11, <1>13, <2>3, <2>4 DEF Within
  <2>6. Covers(w) \subseteq C
    BY <2>5 DEF Covers, Wide
  <2> QED BY <2>1, <2>2, <2>6 DEF C
<1> QED BY <1>12, <1>14, <1>15

(* The segments of a request: they follow one another from lo up to next,   *)
(* and what they call cached is covered.                                    *)
Segs == [a : Blocks, b : Blocks, cached : BOOLEAN]
Runs(segs, lo, next) ==
  /\ segs = <<>> => lo = next
  /\ segs # <<>> => segs[1].a = lo /\ segs[Len(segs)].b + 1 = next
  /\ \A k \in DOMAIN segs : segs[k].a <= segs[k].b
  /\ \A k \in 1..(Len(segs) - 1) : segs[k].b + 1 = segs[k + 1].a
Backed(segs, C) == \A k \in DOMAIN segs : segs[k].cached = TRUE => (segs[k].a)..(segs[k].b) \subseteq C

(* The step of segmentsForRange's loop. *)
Cutting(m, r, hi) ==
  IF m.cursor > hi \/ r[2] < m.cursor \/ r[1] > hi THEN m
  ELSE LET to == IF r[2] < hi THEN r[2] ELSE hi IN
       IF r[1] > m.cursor
       THEN [segs |-> m.segs \o <<Piece(m.cursor, r[1] - 1, FALSE), Piece(r[1], to, TRUE)>>, cursor |-> to + 1]
       ELSE [segs |-> Append(m.segs, Piece(m.cursor, to, TRUE)), cursor |-> to + 1]
Cuts(lo, hi) == [segs : Seq(Segs), cursor : lo..(hi + 1)]

LEMMA PieceIs ==
  ASSUME NEW a \in Blocks, NEW b \in Blocks, NEW c \in BOOLEAN
  PROVE  Piece(a, b, c) \in Segs /\ Piece(a, b, c).a = a /\ Piece(a, b, c).b = b /\ Piece(a, b, c).cached = c
BY DEF Piece, Segs

(* A segment joins the end of a list. *)
LEMMA OneMoreRuns ==
  ASSUME NEW s \in Seq(Segs), NEW lo, NEW next, NEW C, Runs(s, lo, next), Backed(s, C),
         NEW x \in Segs, x.a = next, x.a <= x.b, x.cached = TRUE => (x.a)..(x.b) \subseteq C
  PROVE  Append(s, x) \in Seq(Segs) /\ Runs(Append(s, x), lo, x.b + 1) /\ Backed(Append(s, x), C)
<1> DEFINE t == Append(s, x)
<1>1. /\ t \in Seq(Segs) /\ Len(t) = Len(s) + 1 /\ DOMAIN t = 1..(Len(s) + 1)
      /\ t[Len(s) + 1] = x /\ \A k \in 1..Len(s) : t[k] = s[k]
  BY AppendIs
<1>2. DOMAIN s = 1..Len(s) /\ Len(s) \in Nat
  OBVIOUS
<1> HIDE DEF t
<1>3. \A k \in DOMAIN t : k = Len(s) + 1 \/ (k \in 1..Len(s) /\ k \in DOMAIN s)
  BY <1>1, <1>2
<1>4. \A k \in DOMAIN t : t[k].a <= t[k].b
  BY <1>1, <1>3 DEF Runs
<1>5. Backed(t, C)
  BY <1>1, <1>3 DEF Backed
<1>6. t # <<>> /\ t[1].a = lo /\ t[Len(t)].b + 1 = x.b + 1
  <2>1. CASE s = <<>>
    BY <1>1, <1>2, <2>1 DEF Runs
  <2>2. CASE s # <<>>
    <3>1. 1 \in 1..Len(s) /\ s[1].a = lo
      BY <1>2, <2>2 DEF Runs
    <3> QED BY <1>1, <1>2, <3>1
  <2> QED BY <2>1, <2>2
<1>7. ASSUME NEW k \in 1..(Len(t) - 1) PROVE t[k].b + 1 = t[k + 1].a
  <2>1. k \in 1..Len(s) /\ t[k] = s[k]
    BY <1>1, <1>2
  <2>2. CASE k = Len(s)
    <3>1. s # <<>> /\ t[k + 1] = x
      BY <1>1, <1>2, <2>1, <2>2
    <3> QED BY <2>1, <2>2, <3>1 DEF Runs
  <2>3. CASE k # Len(s)
    <3>1. k \in 1..(Len(s) - 1) /\ k + 1 \in 1..Len(s)
      BY <1>2, <2>1, <2>3
    <3>2. t[k + 1] = s[k + 1] /\ s[k].b + 1 = s[k + 1].a
      BY <1>1, <3>1 DEF Runs
    <3> QED BY <2>1, <3>2
  <2> QED BY <2>2, <2>3
<1> QED BY <1>1, <1>4, <1>5, <1>6, <1>7 DEF Runs, t

LEMMA CuttingIs ==
  ASSUME NEW lo \in Blocks, NEW hi \in Blocks, lo <= hi, NEW C, NEW r \in Span, Wide(r) \subseteq C,
         NEW m \in Cuts(lo, hi)
  PROVE  /\ Cutting(m, r, hi) \in Cuts(lo, hi)
         /\ Runs(m.segs, lo, m.cursor) /\ Backed(m.segs, C)
            => Runs(Cutting(m, r, hi).segs, lo, Cutting(m, r, hi).cursor) /\ Backed(Cutting(m, r, hi).segs, C)
<1> DEFINE to == IF r[2] < hi THEN r[2] ELSE hi
<1>1. /\ r[1] \in Blocks /\ r[2] \in Blocks /\ r[1] <= r[2] /\ r[1] \in Nat /\ r[2] \in Nat
      /\ lo \in Nat /\ hi \in Nat /\ m.segs \in Seq(Segs) /\ m.cursor \in lo..(hi + 1)
  BY SpanIs DEF Cuts
<1>2. CASE m.cursor > hi \/ r[2] < m.cursor \/ r[1] > hi
  BY <1>2 DEF Cutting
<1>3. CASE ~(m.cursor > hi \/ r[2] < m.cursor \/ r[1] > hi)
  <2>1. /\ to \in Blocks /\ to <= hi /\ to <= r[2] /\ to >= m.cursor /\ to >= r[1]
        /\ m.cursor \in Blocks /\ to + 1 \in lo..(hi + 1)
    <3>1. Blocks = 0..(Size - 1) /\ Size \in Nat /\ m.cursor \in Nat /\ m.cursor <= hi
      BY <1>1, <1>3, SpanIs, RangeAssumption
    <3> QED BY <1>1, <1>3, <3>1
  <2>2. CASE r[1] > m.cursor
    <3> DEFINE x == Piece(m.cursor, r[1] - 1, FALSE)
               y == Piece(r[1], to, TRUE)
               s == Append(m.segs, x)
               t == Append(s, y)
    <3>1. r[1] - 1 \in Blocks /\ m.cursor <= r[1] - 1 /\ r[1] - 1 + 1 = r[1] /\ (r[1])..to \subseteq C
      <4>1. \A p \in (r[1])..to : p \in (r[1])..(r[2])
        BY <1>1, <2>1, SpanIs
      <4>2. r[1] - 1 \in Blocks /\ m.cursor <= r[1] - 1 /\ r[1] - 1 + 1 = r[1]
        <5>1. Blocks = 0..(Size - 1) /\ Size \in Nat
          BY SpanIs, RangeAssumption
        <5> HIDE DEF to
        <5> QED BY <1>1, <2>1, <2>2, <5>1
      <4> QED BY <4>1, <4>2 DEF Wide
    <3> HIDE DEF to
    <3>2. /\ x \in Segs /\ x.a = m.cursor /\ x.b = r[1] - 1 /\ x.cached = FALSE
          /\ y \in Segs /\ y.a = r[1] /\ y.b = to /\ y.cached = TRUE
      <4>1. m.cursor \in Blocks /\ r[1] - 1 \in Blocks /\ r[1] \in Blocks /\ to \in Blocks
        BY <1>1, <2>1, <3>1
      <4>2. x \in Segs /\ x.a = m.cursor /\ x.b = r[1] - 1 /\ x.cached = FALSE
        BY <4>1, PieceIs
      <4>3. y \in Segs /\ y.a = r[1] /\ y.b = to /\ y.cached = TRUE
        BY <4>1, PieceIs
      <4> QED BY <4>2, <4>3
    <3>3. Cutting(m, r, hi) = [segs |-> m.segs \o <<x, y>>, cursor |-> to + 1]
      BY <1>3, <2>2 DEF Cutting, to
    <3> HIDE DEF x, y
    <3>4. m.segs \o <<x, y>> = t /\ t \in Seq(Segs)
      <4>1. m.segs \in Seq(Segs) /\ x \in Segs /\ y \in Segs
        BY <1>1, <3>2
      <4>2. t \in Seq(Segs)
        BY <4>1
      <4> QED BY <4>1, <4>2
    <3>5. Cutting(m, r, hi) \in Cuts(lo, hi)
      <4> HIDE DEF t
      <4> QED BY <2>1, <3>3, <3>4 DEF Cuts
    <3>6. ASSUME Runs(m.segs, lo, m.cursor), Backed(m.segs, C) PROVE Runs(t, lo, to + 1) /\ Backed(t, C)
      <4>1. s \in Seq(Segs) /\ Runs(s, lo, r[1]) /\ Backed(s, C)
        BY <1>1, <3>1, <3>2, <3>6, OneMoreRuns
      <4> HIDE DEF s
      <4> QED BY <2>1, <3>1, <3>2, <4>1, OneMoreRuns
    <3> HIDE DEF t
    <3>7. Cutting(m, r, hi).segs = t /\ Cutting(m, r, hi).cursor = to + 1
      <4>1. Cutting(m, r, hi) = [segs |-> t, cursor |-> to + 1]
        BY <3>3, <3>4
      <4> QED BY <4>1
    <3> QED BY <3>5, <3>6, <3>7
  <2>3. CASE ~(r[1] > m.cursor)
    <3> DEFINE y == Piece(m.cursor, to, TRUE)
               t == Append(m.segs, y)
    <3>1. (m.cursor)..to \subseteq C
      <4>1. \A p \in (m.cursor)..to : p \in (r[1])..(r[2])
        BY <1>1, <2>1, <2>3, SpanIs
      <4> QED BY <4>1 DEF Wide
    <3> HIDE DEF to
    <3>2. y \in Segs /\ y.a = m.cursor /\ y.b = to /\ y.cached = TRUE
      BY <2>1, PieceIs
    <3>3. Cutting(m, r, hi) = [segs |-> t, cursor |-> to + 1]
      BY <1>3, <2>3 DEF Cutting, to
    <3> HIDE DEF y
    <3>4. t \in Seq(Segs)
      BY <1>1, <3>2
    <3>5. ASSUME Runs(m.segs, lo, m.cursor), Backed(m.segs, C) PROVE Runs(t, lo, to + 1) /\ Backed(t, C)
      BY <1>1, <2>1, <3>1, <3>2, <3>5, OneMoreRuns
    <3> HIDE DEF t
    <3>6. Cutting(m, r, hi).segs = t /\ Cutting(m, r, hi).cursor = to + 1
      BY <3>3
    <3>7. Cutting(m, r, hi) \in Cuts(lo, hi)
      BY <2>1, <3>3, <3>4 DEF Cuts
    <3> QED BY <3>5, <3>6, <3>7
  <2> QED BY <2>2, <2>3
<1> QED BY <1>2, <1>3

(* segmentsForRange: the request, cut; what it calls cached is in a range.  *)
LEMMA SegmentsAre ==
  ASSUME NEW rs \in Seq(Span), NEW lo \in Blocks, NEW hi \in Blocks, lo <= hi
  PROVE  /\ SegmentsForRange(rs, lo, hi) \in Seq(Segs) /\ Runs(SegmentsForRange(rs, lo, hi), lo, hi + 1)
         /\ Backed(SegmentsForRange(rs, lo, hi), Covers(rs))
<1> DEFINE n == Len(rs)
           C == Covers(rs)
           A == Cuts(lo, hi)
           start == [segs |-> <<>>, cursor |-> lo]
           F == [p \in A \X (1..n) |-> Cutting(p[1], rs[p[2]], hi)]
           iter == CHOOSE f : f = [s \in SUBSET (1..n) |-> IF s = {} THEN start ELSE Cutting(f[s \ {Max(s)}], rs[Max(s)], hi)]
           m == iter[1..n]
<1>1. n \in Nat /\ DOMAIN rs = 1..n /\ \A i \in 1..n : rs[i] \in Span /\ Wide(rs[i]) \subseteq C
  BY DEF Covers, Wide
<1>2. SegmentsForRange(rs, lo, hi) = IF m.cursor <= hi THEN Append(m.segs, Piece(m.cursor, hi, FALSE)) ELSE m.segs
  <2>1. SegmentsForRange(rs, lo, hi) =
          LET g == LET f[s \in SUBSET DOMAIN rs] == IF s = {} THEN start ELSE Cutting(f[s \ {Max(s)}], rs[Max(s)], hi)
                   IN  f[DOMAIN rs]
          IN  IF g.cursor <= hi THEN Append(g.segs, Piece(g.cursor, hi, FALSE)) ELSE g.segs
    BY DEF SegmentsForRange, Cutting, FoldLeft, MapThenFoldSet
  <2> QED BY <1>1, <2>1
<1>3. start \in A /\ start.segs = <<>> /\ start.cursor = lo /\ Runs(start.segs, lo, start.cursor) /\ Backed(start.segs, C)
  <2>1. lo \in lo..(hi + 1)
    BY SpanIs
  <2> QED BY <2>1 DEF Cuts, Runs, Backed
<1> HIDE DEF start, C
<1>4. F \in [A \X (1..n) -> A]
  <2>1. ASSUME NEW x \in A, NEW i \in 1..n PROVE Cutting(x, rs[i], hi) \in A
    <3> HIDE DEF n
    <3> QED BY <1>1, CuttingIs
  <2> HIDE DEF A
  <2> QED BY <2>1
<1> HIDE DEF n, A
<1>5. PICK g \in [SUBSET (1..n) -> A] : Recurs(g, start, F, n)
  <2> HIDE DEF F
  <2> QED BY <1>1, <1>3, <1>4, FoldExists
<1>6. \A s \in SUBSET (1..n) : s # {} => Max(s) \in 1..n
  BY <1>1, MaxExists
<1>7. g = [s \in SUBSET (1..n) |-> IF s = {} THEN start ELSE Cutting(g[s \ {Max(s)}], rs[Max(s)], hi)]
  <2>1. \A x \in A, i \in 1..n : F[<<x, i>>] = Cutting(x, rs[i], hi)
    OBVIOUS
  <2>2. \A s \in SUBSET (1..n) : s # {} => g[s \ {Max(s)}] \in A
    OBVIOUS
  <2> HIDE DEF F
  <2>3. \A s \in SUBSET (1..n) : s # {} => F[<<g[s \ {Max(s)}], Max(s)>>] = Cutting(g[s \ {Max(s)}], rs[Max(s)], hi)
    BY <1>6, <2>1, <2>2
  <2> QED BY <1>5, <2>3 DEF Recurs
<1>8. iter = [s \in SUBSET (1..n) |-> IF s = {} THEN start ELSE Cutting(iter[s \ {Max(s)}], rs[Max(s)], hi)]
  BY <1>7
<1> HIDE DEF iter, m
<1> DEFINE Fine(x) == x \in A /\ Runs(x.segs, lo, x.cursor) /\ Backed(x.segs, C)
           S == {i \in 0..n : Fine(iter[1..i])}
<1>9. 0 \in S
  <2>1. 1..0 = {} /\ {} \in SUBSET (1..n)
    OBVIOUS
  <2>2. iter[{}] = start
    BY <1>8, <2>1
  <2> QED BY <1>1, <1>3, <2>1, <2>2
<1>10. ASSUME NEW i \in 0..(n - 1), i \in S PROVE i + 1 \in S
  <2>1. i + 1 \in Nat \ {0} /\ i + 1 \in 1..n /\ i + 1 - 1 = i /\ i + 1 \in 0..n
    BY <1>1
  <2>2. 1..(i + 1) \in SUBSET (1..n)
    BY <1>1, <2>1
  <2>3. Max(1..(i + 1)) = i + 1 /\ (1..(i + 1)) \ {i + 1} = 1..i /\ 1..(i + 1) # {}
    BY <2>1, MaxOfFirst
  <2>4. iter[1..(i + 1)] = Cutting(iter[1..i], rs[i + 1], hi)
    BY <1>8, <2>2, <2>3
  <2>5. Fine(iter[1..i])
    BY <1>10
  <2>6. rs[i + 1] \in Span /\ Wide(rs[i + 1]) \subseteq C
    BY <1>1, <2>1
  <2>7. Fine(Cutting(iter[1..i], rs[i + 1], hi))
    BY <2>5, <2>6, CuttingIs DEF A
  <2> HIDE DEF Fine
  <2> QED BY <2>1, <2>4, <2>7
<1> HIDE DEF S
<1>11. Fine(m)
  <2>1. \A i \in 0..n : i \in S
    BY <1>1, <1>9, <1>10, Induction
  <2>2. n \in S
    BY <1>1, <2>1
  <2> QED BY <2>2 DEF S, m
<1>12. m.segs \in Seq(Segs) /\ m.cursor \in lo..(hi + 1) /\ lo \in Nat /\ hi \in Nat
  BY <1>11, SpanIs DEF A, Cuts
<1>13. CASE m.cursor <= hi
  <2> DEFINE x == Piece(m.cursor, hi, FALSE)
  <2>1. m.cursor \in Blocks
    <3>1. Blocks = 0..(Size - 1) /\ Size \in Nat
      BY SpanIs, RangeAssumption
    <3> QED BY <1>12, <1>13, <3>1
  <2>2. x \in Segs /\ x.a = m.cursor /\ x.b = hi /\ x.cached = FALSE
    BY <2>1, PieceIs
  <2> HIDE DEF x
  <2>3. Append(m.segs, x) \in Seq(Segs) /\ Runs(Append(m.segs, x), lo, hi + 1) /\ Backed(Append(m.segs, x), C)
    BY <1>11, <1>12, <1>13, <2>2, OneMoreRuns
  <2> QED BY <1>2, <1>13, <2>3 DEF x, C
<1>14. CASE ~(m.cursor <= hi)
  <2>1. m.cursor = hi + 1
    BY <1>12, <1>14
  <2> QED BY <1>2, <1>11, <1>12, <1>14, <2>1 DEF C
<1> QED BY <1>13, <1>14

(* What is left of the segments after the first. *)
LEMMA RestRuns ==
  ASSUME NEW s \in Seq(Segs), s # <<>>, NEW lo, NEW next, NEW C, Runs(s, lo, next), Backed(s, C)
  PROVE  /\ Head(s) = s[1] /\ s[1] \in Segs /\ s[1].a = lo /\ s[1].a <= s[1].b
         /\ s[1].cached = TRUE => (s[1].a)..(s[1].b) \subseteq C
         /\ Tail(s) \in Seq(Segs) /\ Runs(Tail(s), s[1].b + 1, next) /\ Backed(Tail(s), C)
<1> DEFINE t == Tail(s)
<1>1. /\ Head(s) = s[1] /\ t \in Seq(Segs) /\ Len(t) = Len(s) - 1 /\ DOMAIN t = 1..(Len(s) - 1)
      /\ \A k \in 1..(Len(s) - 1) : t[k] = s[k + 1]
  OBVIOUS
<1>2. DOMAIN s = 1..Len(s) /\ Len(s) \in Nat /\ Len(s) >= 1 /\ 1 \in DOMAIN s
  OBVIOUS
<1> HIDE DEF t
<1>3. s[1] \in Segs /\ s[1].a = lo /\ s[1].a <= s[1].b /\ (s[1].cached = TRUE => (s[1].a)..(s[1].b) \subseteq C)
  BY <1>2 DEF Runs, Backed
<1>4. \A k \in DOMAIN t : t[k] = s[k + 1] /\ k + 1 \in DOMAIN s
  BY <1>1, <1>2
<1>5. Backed(t, C) /\ \A k \in DOMAIN t : t[k].a <= t[k].b
  BY <1>4 DEF Backed, Runs
<1>6. ASSUME NEW k \in 1..(Len(t) - 1) PROVE t[k].b + 1 = t[k + 1].a
  <2>1. k \in DOMAIN t /\ k + 1 \in DOMAIN t /\ k + 1 \in 1..(Len(s) - 1)
    BY <1>1, <1>2
  <2> QED BY <1>4, <2>1 DEF Runs
<1>7. t = <<>> => s[1].b + 1 = next
  <2> SUFFICES ASSUME t = <<>> PROVE s[1].b + 1 = next
    OBVIOUS
  <2>1. Len(s) = 1
    BY <1>1, <1>2
  <2> QED BY <2>1 DEF Runs
<1>8. t # <<>> => t[1].a = s[1].b + 1 /\ t[Len(t)].b + 1 = next
  <2> SUFFICES ASSUME t # <<>> PROVE t[1].a = s[1].b + 1 /\ t[Len(t)].b + 1 = next
    OBVIOUS
  <2>1. Len(t) \in Nat /\ Len(t) >= 1
    BY <1>1, <1>2
  <2>2. 1 \in 1..(Len(s) - 1) /\ t[1] = s[1 + 1] /\ t[Len(t)] = s[Len(t) + 1] /\ Len(t) + 1 = Len(s)
    BY <1>1, <1>2, <2>1
  <2> QED BY <2>2 DEF Runs
<1> QED BY <1>1, <1>3, <1>5, <1>6, <1>7, <1>8 DEF Runs, t

-----------------------------------------------------------------------------
(* The streams. *)

Idle == {"none", "done", "failed"}
Fresh == {"new", "making", "opening"}
Flushing == {"flush", "persist"}
Going == {"segment", "source", "written"} \cup Flushing
Thens == {"none", "done", "failed", "next", "emit", "retry", "throw"}
Streams ==
  [pc : Idle \cup Fresh \cup Going, lo : Blocks, hi : Blocks, fd : Nat, segs : Seq(Segs),
   at : Nat, from : Nat, tries : Nat, then : Thens, got : Seq([block : Int, right : BOOLEAN])]

(* A stream is in the fetch of its first segment, one chunk written (Wrote) *)
(* that is not delivered, or none.                                          *)
Wrote(d) == d.pc = "written" \/ d.then = "emit"
Waits(d) == d.pc = "source" \/ d.then \in {"retry", "throw"}
Fetches(d) == Wrote(d) \/ Waits(d) \/ d.then = "next"

(* Where a stream is in its segments, whatever failed. *)
Walks(d) ==
  /\ d.lo <= d.hi
  /\ d.pc \in Idle \cup Fresh => d.got = <<>> /\ d.segs = <<>> /\ d.then = "none"
  /\ d.pc \in Going => d.fd # 0
  /\ (d.then = "none") = (d.pc \notin Flushing)
  /\ d.pc = "segment" => d.segs = <<>> \/ Runs(d.segs, d.segs[1].a, d.hi + 1)
  /\ Fetches(d) => d.segs # <<>> /\ Runs(d.segs, d.segs[1].a, d.hi + 1)
  /\ d.pc = "source" => d.from <= d.at /\ d.at <= d.segs[1].b
  /\ d.then \in {"retry", "throw"} => d.at <= d.segs[1].b + 1
  /\ Wrote(d) => d.from <= d.at - 1 /\ d.at - 1 <= d.segs[1].b
  /\ d.then = "next" => d.at = d.segs[1].b + 1

(* What a stream has, or takes for cached, is in the data file f. *)
Holds(d, f, D) ==
  /\ d.pc = "opening" => f # 0
  /\ d.pc \in Going => f # 0 /\ d.fd = f
  /\ Backed(d.segs, D)
  /\ Wrote(d) \/ d.pc = "source" => (d.from)..(d.at - 1) \subseteq D

(* What a stream has delivered is what comes before the place it is at. *)
Place(d) == d.lo + Len(d.got)
Follows(d) ==
  /\ \A i \in DOMAIN d.got : d.got[i] = [block |-> d.lo + i - 1, right |-> TRUE]
  /\ d.pc = "segment" => Runs(d.segs, Place(d), d.hi + 1)
  /\ Waits(d) \/ d.then = "next" => d.at = Place(d)
  /\ Wrote(d) => d.at - 1 = Place(d)
  /\ d.then = "done" => Place(d) = d.hi + 1

-----------------------------------------------------------------------------
(* The cache. *)

Stored ==
  /\ root \in BOOLEAN /\ known \in BOOLEAN /\ dirty \in BOOLEAN /\ undercut \in BOOLEAN /\ shared \in BOOLEAN
  /\ file \in 0..files /\ files \in Nat /\ reads \in Nat /\ restarts \in Nat /\ failures \in Nat
  /\ lease \in {"none", "held", "grace"}
  /\ data \in SUBSET Blocks /\ synced \in SUBSET data
  /\ ranges \in Seq(Span) /\ Pairwise(ranges) /\ meta \in Seq(Span) /\ Pairwise(meta)
  /\ file = 0 => data = {}
  /\ ~known => ranges = <<>>
  /\ known /\ ~undercut => root
  /\ reader \in [Readers -> Streams]
Walking == \A r \in Readers : Walks(reader[r]) /\ (Busy(r) => known)
Alone == ~shared => \A q, r \in Readers : Busy(q) /\ Busy(r) => q = r

Covered ==
  Kept => /\ Covers(ranges) \subseteq data
          /\ ~known => Covers(meta) \subseteq data
          /\ \A r \in Readers : Holds(reader[r], file, data)
(* The ranges in memory are synced before they are written. *)
Durable ==
  ~undercut /\ ~shared => /\ Covers(meta) \subseteq synced
                          /\ \A r \in Readers : reader[r].pc = "persist" => Covers(ranges) \subseteq synced
Delivering == Kept /\ failures = 0 => \A r \in Readers : Follows(reader[r])

CInv == Stored /\ Walking /\ Alone /\ Covered /\ Durable /\ Delivering

LEMMA StreamIs ==
  ASSUME NEW d \in Streams
  PROVE  /\ d.pc \in Idle \cup Fresh \cup Going /\ d.lo \in Blocks /\ d.hi \in Blocks /\ d.fd \in Nat
         /\ d.segs \in Seq(Segs) /\ d.at \in Nat /\ d.from \in Nat /\ d.tries \in Nat /\ d.then \in Thens
         /\ d.got \in Seq([block : Int, right : BOOLEAN])
         /\ d.lo \in Nat /\ d.hi \in Nat
BY SpanIs DEF Streams

LEMMA HeadIs ==
  ASSUME NEW d \in Streams, d.segs # <<>>
  PROVE  Head(d.segs) = d.segs[1] /\ d.segs[1] \in Segs /\ d.segs[1].a \in Nat /\ d.segs[1].b \in Nat
         /\ d.segs[1].a \in Blocks /\ d.segs[1].b \in Blocks /\ d.segs[1].cached \in BOOLEAN
<1>1. d.segs \in Seq(Segs)
  BY StreamIs
<1>2. Head(d.segs) = d.segs[1] /\ d.segs[1] \in Segs
  BY <1>1
<1> QED BY <1>2, SpanIs DEF Segs

(* A stream that is over. *)
LEMMA GoneOK ==
  ASSUME NEW pc \in Idle
  PROVE  LET d == [NoReader EXCEPT !.pc = pc] IN
         /\ d \in Streams /\ d.pc \in Idle /\ Walks(d) /\ Follows(d)
         /\ \A f, D : Holds(d, f, D)
<1> DEFINE d == [NoReader EXCEPT !.pc = pc]
<1>1. /\ d.pc = pc /\ d.lo = 0 /\ d.hi = 0 /\ d.fd = 0 /\ d.segs = <<>> /\ d.at = 0 /\ d.from = 0
      /\ d.tries = 0 /\ d.then = "none" /\ d.got = <<>>
  BY DEF NoReader
<1>2. d \in Streams
  <2>1. 0 \in Blocks /\ pc \in Idle \cup Fresh \cup Going
    BY SpanIs, RangeAssumption
  <2>2. <<>> \in Seq(Segs) /\ <<>> \in Seq([block : Int, right : BOOLEAN])
    OBVIOUS
  <2>3. d = [pc |-> pc, lo |-> 0, hi |-> 0, fd |-> 0, segs |-> <<>>,
             at |-> 0, from |-> 0, tries |-> 0, then |-> "none", got |-> <<>>]
    BY DEF NoReader
  <2> HIDE DEF d
  <2> QED BY <2>1, <2>2, <2>3 DEF Streams, Thens
<1> HIDE DEF d
<1>3. Walks(d)
  BY <1>1 DEF Walks, Fetches, Wrote, Waits, Idle, Going, Flushing
<1>4. Follows(d)
  BY <1>1 DEF Follows, Wrote, Waits, Idle
<1>5. ASSUME NEW f, NEW D PROVE Holds(d, f, D)
  BY <1>1 DEF Holds, Wrote, Idle, Going, Flushing, Backed
<1> QED BY <1>1, <1>2, <1>3, <1>4, <1>5 DEF d

(* What has been written is delivered. *)
LEMMA EmittedOK ==
  ASSUME NEW d \in Streams, Walks(d), Wrote(d)
  PROVE  /\ Emitted(d) \in Streams /\ Walks(Emitted(d)) /\ Emitted(d).pc \in {"source", "flush"}
         /\ \A f, D : Holds(d, f, D) => Holds(Emitted(d), f, D)
         /\ Follows(d) => Follows(Emitted(d))
<1> DEFINE c == Emitted(d)
           b == d.segs[1].b
           e == [block |-> d.at - 1, right |-> TRUE]
           last == d.at > b
<1>1. /\ d.segs # <<>> /\ Runs(d.segs, d.segs[1].a, d.hi + 1) /\ d.from <= d.at - 1 /\ d.at - 1 <= b
      /\ d.pc \in Going /\ d.fd # 0 /\ d.lo <= d.hi
  BY StreamIs DEF Walks, Wrote, Fetches, Going, Flushing, Thens
<1>2. Head(d.segs) = d.segs[1] /\ b \in Nat /\ d.at \in Nat /\ d.lo \in Nat
  BY <1>1, HeadIs, StreamIs
<1>3. e \in [block : Int, right : BOOLEAN]
  BY <1>2
<1>4. c = [d EXCEPT !.got = Append(@, e), !.pc = IF last THEN "flush" ELSE "source", !.then = IF last THEN "next" ELSE "none"]
  BY <1>2 DEF Emitted
<1>5. Append(d.got, e) \in Seq([block : Int, right : BOOLEAN])
  BY <1>3, StreamIs
<1> HIDE DEF last, e
<1>6. /\ c.pc = (IF last THEN "flush" ELSE "source") /\ c.then = (IF last THEN "next" ELSE "none")
      /\ c.got = Append(d.got, e) /\ c.lo = d.lo /\ c.hi = d.hi /\ c.fd = d.fd /\ c.segs = d.segs
      /\ c.at = d.at /\ c.from = d.from
  BY <1>4 DEF Streams
<1>7. c \in Streams
  BY <1>4, <1>5 DEF Streams, Going, Flushing, Thens
<1> HIDE DEF c
<1>8. Walks(c)
  <2>1. CASE last
    <3>1. c.pc = "flush" /\ c.then = "next" /\ d.at = b + 1
      BY <1>1, <1>2, <1>6, <2>1 DEF last
    <3> QED BY <1>1, <1>6, <3>1 DEF Walks, Fetches, Wrote, Waits, Idle, Fresh, Going, Flushing
  <2>2. CASE ~last
    <3>1. c.pc = "source" /\ c.then = "none" /\ d.at <= b /\ d.from <= d.at
      <4>1. d.from \in Nat
        BY StreamIs
      <4> QED BY <1>1, <1>2, <1>6, <2>2, <4>1 DEF last
    <3> QED BY <1>1, <1>6, <3>1 DEF Walks, Fetches, Wrote, Waits, Idle, Fresh, Going, Flushing
  <2> QED BY <2>1, <2>2
<1>9. ASSUME NEW f, NEW D, Holds(d, f, D) PROVE Holds(c, f, D)
  BY <1>1, <1>6, <1>9 DEF Holds, Wrote, Going, Flushing
<1>10. ASSUME Follows(d) PROVE Follows(c)
  <2>1. d.got \in Seq([block : Int, right : BOOLEAN]) /\ Len(d.got) \in Nat
    BY StreamIs
  <2>2. d.at - 1 = d.lo + Len(d.got) /\ \A i \in DOMAIN d.got : d.got[i] = [block |-> d.lo + i - 1, right |-> TRUE]
    BY <1>10 DEF Follows, Place
  <2>3. /\ Len(c.got) = Len(d.got) + 1 /\ DOMAIN c.got = 1..(Len(d.got) + 1)
        /\ c.got[Len(d.got) + 1] = e /\ \A k \in 1..Len(d.got) : c.got[k] = d.got[k]
    BY <1>3, <1>6, <2>1, AppendIs DEF e
  <2>4. ASSUME NEW i \in DOMAIN c.got PROVE c.got[i] = [block |-> c.lo + i - 1, right |-> TRUE]
    <3>1. CASE i = Len(d.got) + 1
      <4>1. d.at - 1 = c.lo + i - 1
        BY <1>2, <1>6, <2>1, <2>2, <3>1
      <4> QED BY <2>3, <3>1, <4>1 DEF e
    <3>2. CASE i # Len(d.got) + 1
      <4>1. i \in 1..Len(d.got) /\ i \in DOMAIN d.got
        BY <2>1, <2>3, <3>2
      <4> QED BY <1>6, <2>2, <2>3, <4>1
    <3> QED BY <3>1, <3>2
  <2>5. Place(c) = c.at
    <3>1. Place(c) = d.lo + (Len(d.got) + 1) /\ c.at = d.at
      BY <1>6, <2>3 DEF Place
    <3>2. d.at = d.lo + (Len(d.got) + 1)
      <4> DEFINE p == Len(d.got)
      <4>1. d.at - 1 = d.lo + p /\ p \in Nat /\ d.at \in Nat /\ d.lo \in Nat
        BY <1>2, <2>1, <2>2
      <4> HIDE DEF p
      <4>2. d.at = d.lo + (p + 1)
        BY <4>1
      <4> QED BY <4>2 DEF p
    <3> QED BY <3>1, <3>2
  <2> QED BY <1>6, <2>4, <2>5 DEF Follows, Wrote, Waits
<1>11. c.pc \in {"source", "flush"}
  BY <1>6
<1> QED BY <1>7, <1>8, <1>9, <1>10, <1>11 DEF c

(* What a stream goes on with after a flush. *)
After(d) ==
  CASE d.then \in {"done", "failed"} -> [NoReader EXCEPT !.pc = d.then]
    [] d.then = "emit" -> Emitted(d)
    [] d.then = "next" \/ (d.then = "retry" /\ d.at > Head(d.segs).b) ->
         [d EXCEPT !.pc = "segment", !.then = "none", !.segs = Tail(@), !.at = 0, !.from = 0, !.tries = 0]
    [] d.then = "throw" -> [d EXCEPT !.pc = "flush", !.then = "failed"]
    [] d.then = "retry" /\ d.at <= Head(d.segs).b ->
         [d EXCEPT !.pc = "source", !.then = "none", !.from = d.at, !.tries = @ + 1]

LEMMA AfterOK ==
  ASSUME NEW d \in Streams, Walks(d), d.pc \in Flushing
  PROVE  /\ After(d) \in Streams /\ Walks(After(d)) /\ After(d).pc # "persist"
         /\ \A f, D : Holds(d, f, D) => Holds(After(d), f, D)
         /\ Follows(d) => Follows(After(d))
<1>1. d.then \in Thens \ {"none"} /\ d.at \in Nat /\ d.fd # 0 /\ d.lo <= d.hi /\ d.pc \in Going
      /\ d.lo \in Nat /\ d.hi \in Nat /\ d.tries \in Nat
  BY StreamIs DEF Walks, Going
<1>2. CASE d.then \in {"done", "failed"}
  <2>1. After(d) = [NoReader EXCEPT !.pc = d.then] /\ d.then \in Idle
    BY <1>2 DEF After, Idle
  <2> QED BY <2>1, GoneOK DEF Idle
<1>3. CASE d.then = "emit"
  <2>1. After(d) = Emitted(d) /\ Wrote(d)
    BY <1>3 DEF After, Wrote
  <2> QED BY <2>1, EmittedOK
<1>4. CASE d.then \in {"next", "retry", "throw"}
  <2>1. d.segs # <<>> /\ Runs(d.segs, d.segs[1].a, d.hi + 1)
    BY <1>4 DEF Walks, Fetches, Waits
  <2>2. /\ Head(d.segs) = d.segs[1] /\ d.segs[1].b \in Nat /\ d.segs[1].a \in Nat
        /\ d.segs \in Seq(Segs)
    BY <2>1, HeadIs, StreamIs
  <2>3. CASE d.then = "next" \/ (d.then = "retry" /\ d.at > d.segs[1].b)
    <3> DEFINE c == [d EXCEPT !.pc = "segment", !.then = "none", !.segs = Tail(@), !.at = 0, !.from = 0, !.tries = 0]
    <3>1. After(d) = c
      <4>1. CASE d.then = "next"
        BY <4>1 DEF After
      <4>2. CASE d.then = "retry" /\ d.at > d.segs[1].b
        <5>1. ~(d.at <= Head(d.segs).b) /\ d.at > Head(d.segs).b
          BY <1>1, <2>2, <4>2
        <5> QED BY <4>2, <5>1 DEF After
      <4> QED BY <2>3, <4>1, <4>2
    <3>2. d.at = d.segs[1].b + 1
      BY <1>1, <2>2, <2>3 DEF Walks
    <3>3. /\ Tail(d.segs) \in Seq(Segs) /\ Runs(Tail(d.segs), d.segs[1].b + 1, d.hi + 1)
          /\ \A D : Backed(d.segs, D) => Backed(Tail(d.segs), D)
      <4> DEFINE s == d.segs
                 lo == s[1].a
                 next == d.hi + 1
      <4>1. s \in Seq(Segs) /\ s # <<>> /\ Runs(s, lo, next) /\ Backed(s, Int)
        BY <2>1, <2>2 DEF Backed, Segs
      <4> HIDE DEF s, lo, next
      <4>2. ASSUME NEW D, Backed(s, D) PROVE Backed(Tail(s), D)
        BY <4>1, <4>2, RestRuns
      <4>3. Tail(s) \in Seq(Segs) /\ Runs(Tail(s), s[1].b + 1, next)
        BY <4>1, RestRuns
      <4> QED BY <4>2, <4>3 DEF s, next
    <3>4. /\ c.pc = "segment" /\ c.then = "none" /\ c.segs = Tail(d.segs) /\ c.lo = d.lo /\ c.hi = d.hi /\ c.fd = d.fd
          /\ c.got = d.got
      BY DEF Streams
    <3>5. c \in Streams
      BY <3>3 DEF Streams, Going, Thens
    <3> HIDE DEF c
    <3>6. c.segs = <<>> \/ Runs(c.segs, c.segs[1].a, c.hi + 1)
      BY <3>3, <3>4 DEF Runs
    <3>7. Walks(c)
      BY <1>1, <3>4, <3>6 DEF Walks, Fetches, Wrote, Waits, Idle, Fresh, Going, Flushing
    <3>8. ASSUME NEW f, NEW D, Holds(d, f, D) PROVE Holds(c, f, D)
      BY <1>1, <3>3, <3>4, <3>8 DEF Holds, Wrote, Going, Flushing
    <3>9. Follows(d) => Follows(c)
      BY <2>3, <3>2, <3>3, <3>4 DEF Follows, Place, Wrote, Waits
    <3> QED BY <3>1, <3>4, <3>5, <3>7, <3>8, <3>9
  <2>4. CASE d.then = "throw"
    <3> DEFINE c == [d EXCEPT !.pc = "flush", !.then = "failed"]
    <3>1. After(d) = c
      BY <2>4 DEF After
    <3>2. /\ c.pc = "flush" /\ c.then = "failed" /\ c.segs = d.segs /\ c.lo = d.lo /\ c.hi = d.hi /\ c.fd = d.fd
          /\ c.got = d.got
      BY DEF Streams
    <3>3. c \in Streams
      BY DEF Streams, Going, Flushing, Thens
    <3> HIDE DEF c
    <3>4. Walks(c)
      BY <1>1, <3>2 DEF Walks, Fetches, Wrote, Waits, Idle, Fresh, Going, Flushing
    <3>5. ASSUME NEW f, NEW D, Holds(d, f, D) PROVE Holds(c, f, D)
      BY <1>1, <3>2, <3>5 DEF Holds, Wrote, Going, Flushing
    <3>6. Follows(d) => Follows(c)
      BY <3>2 DEF Follows, Place, Wrote, Waits
    <3> QED BY <3>1, <3>2, <3>3, <3>4, <3>5, <3>6
  <2>5. CASE d.then = "retry" /\ d.at <= d.segs[1].b
    <3> DEFINE c == [d EXCEPT !.pc = "source", !.then = "none", !.from = d.at, !.tries = @ + 1]
    <3>1. After(d) = c
      BY <1>1, <2>2, <2>5 DEF After
    <3>2. /\ c.pc = "source" /\ c.then = "none" /\ c.segs = d.segs /\ c.lo = d.lo /\ c.hi = d.hi /\ c.fd = d.fd
          /\ c.got = d.got /\ c.at = d.at /\ c.from = d.at
      BY DEF Streams
    <3>3. c \in Streams
      <4>1. d.tries + 1 \in Nat
        BY <1>1
      <4> QED BY <1>1, <4>1 DEF Streams, Going, Thens
    <3> HIDE DEF c
    <3>4. Walks(c)
      BY <1>1, <2>1, <2>2, <2>5, <3>2 DEF Walks, Fetches, Wrote, Waits, Idle, Fresh, Going, Flushing
    <3>5. ASSUME NEW f, NEW D, Holds(d, f, D) PROVE Holds(c, f, D)
      <4>1. (c.from)..(c.at - 1) = {}
        BY <1>1, <3>2
      <4> QED BY <1>1, <3>2, <3>5, <4>1 DEF Holds, Wrote, Going, Flushing
    <3>6. Follows(d) => Follows(c)
      BY <2>5, <3>2 DEF Follows, Place, Wrote, Waits
    <3> QED BY <3>1, <3>2, <3>3, <3>4, <3>5, <3>6
  <2> QED BY <1>1, <1>4, <2>2, <2>3, <2>4, <2>5
<1> QED BY <1>1, <1>2, <1>3, <1>4 DEF Thens

(* Continues(r), as a step of the stream. *)
LEMMA ContinuesIs ==
  ASSUME NEW r \in Readers, reader \in [Readers -> Streams], Walks(reader[r]), reader[r].pc \in Flushing, Continues(r)
  PROVE  /\ reader' = [reader EXCEPT ![r] = After(reader[r])]
         /\ lease' \in {lease, "grace"}
<1> DEFINE d == reader[r]
<1>1. d \in Streams /\ d.then \in Thens /\ d.at \in Nat
  BY StreamIs
<1>2. CASE d.then \in {"done", "failed"}
  <2>1. Leaves(r, d.then)
    BY <1>2 DEF Continues
  <2> QED BY <1>2, <2>1 DEF Leaves, After
<1>3. CASE d.then \notin {"done", "failed"}
  <2>1. d.then \in {"emit", "next", "retry", "throw"}
    BY <1>1, <1>3 DEF Walks, Thens, Flushing
  <2>2. d.then = "retry" => Head(d.segs).b \in Nat
    <3>1. d.then = "retry" => d.segs # <<>>
      BY DEF Walks, Fetches, Waits
    <3> QED BY <1>1, <3>1, HeadIs
  <2>3. d.then = "retry" => (d.at > Head(d.segs).b) = ~(d.at <= Head(d.segs).b)
    BY <1>1, <2>2
  <2>4. CASE d.then = "emit"
    BY <1>3, <2>4 DEF Continues, After
  <2>5. CASE d.then = "next"
    BY <1>3, <2>5 DEF Continues, After, Segment
  <2>6. CASE d.then = "throw"
    BY <1>3, <2>6 DEF Continues, After, Segment
  <2>7. CASE d.then = "retry" /\ d.at > Head(d.segs).b
    BY <1>3, <2>3, <2>7 DEF Continues, After, Segment
  <2>8. CASE d.then = "retry" /\ d.at <= Head(d.segs).b
    BY <1>3, <2>3, <2>8 DEF Continues, After, Segment
  <2> QED BY <2>1, <2>3, <2>4, <2>5, <2>6, <2>7, <2>8
<1> QED BY <1>2, <1>3

-----------------------------------------------------------------------------
(* The cache when a stream moves. *)

Book == <<known, undercut, shared, restarts, reads>>

LEMMA StreamFacts ==
  ASSUME CInv, NEW r \in Readers
  PROVE  /\ reader \in [Readers -> Streams] /\ reader[r] \in Streams /\ Walks(reader[r])
         /\ (Busy(r) => known)
         /\ Busy(r) <=> reader[r].pc \notin Idle
         /\ Kept => Holds(reader[r], file, data) /\ Covers(ranges) \subseteq data
         /\ Kept /\ failures = 0 => Follows(reader[r])
         /\ ranges \in Seq(Span) /\ meta \in Seq(Span) /\ Pairwise(ranges) /\ Pairwise(meta)
         /\ failures \in Nat /\ restarts \in Nat /\ data \in SUBSET Blocks /\ synced \in SUBSET data
BY DEF CInv, Stored, Walking, Covered, Delivering, Busy, Idle

(* Stream r goes on as d; the others are as they were. *)
LEMMA StreamMoves ==
  ASSUME CInv, NEW r \in Readers, NEW d \in Streams, Walks(d), Busy(r),
         reader' = [reader EXCEPT ![r] = d],
         Kept => Holds(d, file, data'),
         Kept /\ failures' = 0 => Follows(d),
         UNCHANGED <<Book, file>>,
         failures' \in Nat, failures' >= failures, data \subseteq data',
         Kept => Covers(ranges') \subseteq data',
         Stored', Durable'
  PROVE  CInv'
<1>1. known /\ UNCHANGED <<known, undercut, shared, restarts, file>>
  BY StreamFacts DEF Book
<1>2. \A q \in Readers : reader'[q] = IF q = r THEN d ELSE reader[q]
  BY StreamFacts
<1>3. Walking'
  <2>1. ASSUME NEW q \in Readers PROVE Walks(reader'[q])
    BY <1>2, StreamFacts
  <2> QED BY <1>1, <2>1 DEF Walking
<1>4. Alone'
  <2>1. \A q \in Readers : Busy(q)' => Busy(q)
    BY <1>2 DEF Busy
  <2> QED BY <1>1, <2>1 DEF Alone, CInv
<1>5. Covered'
  <2>1. Kept' <=> Kept
    BY <1>1 DEF Kept
  <2>2. ASSUME Kept, NEW q \in Readers PROVE Holds(reader'[q], file, data')
    <3>1. CASE q = r
      BY <1>2, <2>2, <3>1
    <3>2. CASE q # r
      <4>1. Holds(reader[q], file, data) /\ reader'[q] = reader[q]
        BY <1>2, <2>2, <3>2, StreamFacts
      <4> QED BY <4>1 DEF Holds, Backed
    <3> QED BY <3>1, <3>2
  <2> QED BY <1>1, <2>1, <2>2 DEF Covered
<1>6. Delivering'
  <2>1. Kept' /\ failures' = 0 => Kept /\ failures = 0
    BY <1>1, StreamFacts DEF Kept
  <2>2. ASSUME Kept', failures' = 0, NEW q \in Readers PROVE Follows(reader'[q])
    <3>1. CASE q = r
      BY <1>2, <2>1, <2>2, <3>1
    <3>2. CASE q # r
      BY <1>2, <2>1, <2>2, <3>2, StreamFacts
    <3> QED BY <3>1, <3>2
  <2> QED BY <2>2 DEF Delivering
<1> QED BY <1>3, <1>4, <1>5, <1>6 DEF CInv

(* Only the stream, its lease and the count of failures change. *)
LEMMA StreamGoesOn ==
  ASSUME CInv, NEW r \in Readers, NEW d \in Streams, Walks(d), Busy(r), d.pc # "persist",
         reader' = [reader EXCEPT ![r] = d],
         Kept => Holds(d, file, data),
         Kept /\ failures' = 0 => Follows(d),
         UNCHANGED <<Book, disk, ranges, dirty>>, lease' \in {lease, "grace"},
         failures' \in Nat, failures' >= failures
  PROVE  CInv'
<1>1. UNCHANGED <<Book, file>> /\ UNCHANGED <<data, ranges>>
  BY DEF disk
<1>2. \A q \in Readers : reader'[q] = IF q = r THEN d ELSE reader[q]
  BY StreamFacts
<1>3. Stored'
  <2>1. reader' \in [Readers -> Streams]
    BY StreamFacts
  <2> QED BY <2>1 DEF CInv, Stored, Book, disk
<1>4. Durable'
  <2>1. \A q \in Readers : reader'[q].pc = "persist" => reader[q].pc = "persist"
    BY <1>2
  <2> QED BY <2>1 DEF CInv, Durable, Book, disk
<1>5. Kept => Holds(d, file, data')
  BY <1>1
<1>6. Kept => Covers(ranges') \subseteq data'
  BY <1>1, StreamFacts
<1>7. data \subseteq data'
  BY <1>1
<1> HIDE DEF Kept
<1> QED BY <1>1, <1>3, <1>4, <1>5, <1>6, <1>7, StreamMoves

LEMMA ProbeOK ==
  ASSUME CInv, NEW r \in Readers, Probe(r)
  PROVE  CInv'
<1> DEFINE d == reader[r]
           p == IF file = 0 THEN "making" ELSE "opening"
           c == [d EXCEPT !.pc = p]
<1>1. /\ d \in Streams /\ Walks(d) /\ Busy(r) /\ d.pc = "new" /\ failures \in Nat
      /\ (Kept => Holds(d, file, data)) /\ (Kept /\ failures = 0 => Follows(d))
  BY StreamFacts DEF Probe, Idle
<1>2. reader' = [reader EXCEPT ![r] = c]
  BY StreamFacts DEF Probe
<1>3. /\ c.pc = p /\ c.then = d.then /\ c.segs = d.segs /\ c.lo = d.lo /\ c.hi = d.hi /\ c.got = d.got
      /\ c.pc \in Fresh /\ c.pc # "persist" /\ (c.pc = "opening" => file # 0)
  BY <1>1 DEF Streams, Fresh
<1>4. c \in Streams
  BY <1>1 DEF Streams, Fresh
<1> HIDE DEF c, p
<1>5. d.got = <<>> /\ d.segs = <<>> /\ d.then = "none" /\ d.lo <= d.hi
  BY <1>1 DEF Walks, Fresh
<1>6. Walks(c)
  BY <1>3, <1>5 DEF Walks, Fetches, Wrote, Waits, Idle, Fresh, Going, Flushing
<1>7. Holds(c, file, data)
  BY <1>3, <1>5 DEF Holds, Backed, Wrote, Fresh, Going, Flushing
<1>8. Follows(c)
  BY <1>3, <1>5 DEF Follows, Wrote, Waits, Fresh
<1>9. UNCHANGED <<Book, disk, ranges, dirty>> /\ lease' \in {lease, "grace"} /\ failures' \in Nat /\ failures' >= failures
  BY <1>1 DEF Probe, Book, counts
<1> QED BY <1>1, <1>2, <1>3, <1>4, <1>6, <1>7, <1>8, <1>9, StreamGoesOn

(* The file is open: the segments of what the list of ranges has now. *)
LEMMA OpenedOK ==
  ASSUME CInv, NEW r \in Readers, NEW f \in Nat \ {0}, reader[r].pc \in Fresh, Opened(r, f)
  PROVE  \E d \in Streams : /\ reader' = [reader EXCEPT ![r] = d] /\ Walks(d) /\ Follows(d) /\ d.pc = "segment"
                            /\ d.fd = f /\ Backed(d.segs, Covers(ranges))
<1> DEFINE d == reader[r]
           s == SegmentsForRange(ranges, d.lo, d.hi)
           c == [d EXCEPT !.pc = "segment", !.fd = f, !.segs = s]
<1>1. d \in Streams /\ d.lo \in Blocks /\ d.hi \in Blocks /\ d.lo <= d.hi /\ d.got = <<>> /\ d.then = "none"
      /\ d.lo \in Nat /\ d.hi \in Nat
  BY StreamFacts, StreamIs DEF Walks
<1>2. s \in Seq(Segs) /\ Runs(s, d.lo, d.hi + 1) /\ Backed(s, Covers(ranges))
  BY <1>1, StreamFacts, SegmentsAre
<1>3. reader' = [reader EXCEPT ![r] = c]
  BY StreamFacts DEF Opened
<1> HIDE DEF s
<1>4. c.pc = "segment" /\ c.fd = f /\ c.segs = s /\ c.then = "none" /\ c.got = <<>> /\ c.lo = d.lo /\ c.hi = d.hi
  BY <1>1 DEF Streams
<1>5. c \in Streams
  BY <1>1, <1>2 DEF Streams, Going
<1> HIDE DEF c
<1>6. Walks(c)
  <2>1. c.segs = <<>> \/ Runs(c.segs, c.segs[1].a, c.hi + 1)
    BY <1>2, <1>4 DEF Runs
  <2> QED BY <1>1, <1>4, <2>1 DEF Walks, Fetches, Wrote, Waits, Idle, Fresh, Going, Flushing
<1>7. Follows(c)
  <2>1. Place(c) = c.lo
    BY <1>1, <1>4 DEF Place
  <2> QED BY <1>2, <1>4, <2>1 DEF Follows, Wrote, Waits
<1> QED BY <1>2, <1>3, <1>4, <1>5, <1>6, <1>7

LEMMA OpenFileOK ==
  ASSUME CInv, NEW r \in Readers, OpenFile(r)
  PROVE  CInv'
<1>1. /\ Busy(r) /\ reader[r].pc = "opening" /\ reader[r].pc \in Fresh /\ failures \in Nat
      /\ UNCHANGED <<Book, disk, ranges, dirty>> /\ failures' \in Nat /\ failures' >= failures /\ file \in Nat
  BY StreamFacts DEF OpenFile, Idle, Fresh, Book, counts, CInv, Stored
<1>2. CASE file = 0
  <2> DEFINE d == [NoReader EXCEPT !.pc = "failed"]
  <2>1. reader' = [reader EXCEPT ![r] = d] /\ lease' \in {lease, "grace"}
    BY <1>2 DEF OpenFile, Leaves
  <2>2. d \in Streams /\ d.pc # "persist" /\ Walks(d) /\ Follows(d) /\ Holds(d, file, data)
    BY GoneOK DEF Idle
  <2> HIDE DEF d
  <2> QED BY <1>1, <2>1, <2>2, StreamGoesOn
<1>3. CASE file # 0
  <2>1. Opened(r, file) /\ lease' \in {lease, "grace"} /\ file \in Nat \ {0}
    BY <1>1, <1>3 DEF OpenFile
  <2>2. PICK d \in Streams : /\ reader' = [reader EXCEPT ![r] = d] /\ Walks(d) /\ Follows(d) /\ d.pc = "segment"
                             /\ d.fd = file /\ Backed(d.segs, Covers(ranges))
    BY <1>1, <2>1, OpenedOK
  <2>3. d.then = "none"
    BY <2>2 DEF Walks, Flushing
  <2>4. Kept => Holds(d, file, data)
    <3>1. Kept => Backed(d.segs, data)
      BY <2>2, StreamFacts DEF Backed
    <3> QED BY <1>3, <2>2, <2>3, <3>1 DEF Holds, Wrote
  <2>5. d.pc # "persist"
    BY <2>2
  <2> QED BY <1>1, <2>1, <2>2, <2>4, <2>5, StreamGoesOn
<1> QED BY <1>2, <1>3

LEMMA BeginFetchOK ==
  ASSUME CInv, NEW r \in Readers, BeginFetch(r)
  PROVE  CInv'
<1> DEFINE d == reader[r]
           a == d.segs[1].a
           c == [d EXCEPT !.pc = "source", !.at = a, !.from = a, !.tries = 0]
<1>1. /\ d \in Streams /\ Walks(d) /\ Busy(r) /\ d.pc = "segment" /\ d.segs # <<>> /\ failures \in Nat
      /\ (Kept => Holds(d, file, data)) /\ (Kept /\ failures = 0 => Follows(d))
  BY StreamFacts DEF BeginFetch, Idle
<1>2. Head(d.segs) = d.segs[1] /\ a \in Nat /\ d.segs[1].b \in Nat /\ d.segs[1].a <= d.segs[1].b
  <2>1. 1 \in DOMAIN d.segs
    BY <1>1, StreamIs
  <2> QED BY <1>1, <2>1, HeadIs DEF Walks, Runs
<1>3. reader' = [reader EXCEPT ![r] = c]
  BY <1>2, StreamFacts DEF BeginFetch, Segment
<1> HIDE DEF a
<1>4. /\ c.pc = "source" /\ c.at = a /\ c.from = a /\ c.then = d.then /\ c.segs = d.segs /\ c.lo = d.lo
      /\ c.hi = d.hi /\ c.got = d.got /\ c.fd = d.fd
  BY DEF Streams
<1>5. c \in Streams
  BY <1>1, <1>2 DEF Streams, Going
<1> HIDE DEF c
<1>6. d.then = "none" /\ d.lo <= d.hi /\ d.fd # 0 /\ Runs(d.segs, d.segs[1].a, d.hi + 1)
  BY <1>1 DEF Walks, Going, Flushing
<1>7. Walks(c)
  BY <1>1, <1>2, <1>4, <1>6 DEF Walks, Fetches, Wrote, Waits, Idle, Fresh, Going, Flushing, a
<1>8. Kept => Holds(c, file, data)
  <2>1. (c.from)..(c.at - 1) = {}
    BY <1>2, <1>4
  <2> QED BY <1>1, <1>4, <2>1 DEF Holds, Wrote, Going
<1>9. Kept /\ failures' = 0 => Follows(c)
  <2> SUFFICES ASSUME Kept, failures' = 0 PROVE Follows(c)
    OBVIOUS
  <2>1. Follows(d)
    BY <1>1 DEF BeginFetch, counts
  <2>2. a = Place(d) /\ Place(c) = Place(d)
    BY <1>1, <1>4, <2>1 DEF Follows, Runs, Place, a
  <2> QED BY <1>4, <1>6, <2>1, <2>2 DEF Follows, Wrote, Waits
<1>10. UNCHANGED <<Book, disk, ranges, dirty>> /\ lease' \in {lease, "grace"} /\ failures' \in Nat /\ failures' >= failures
  BY <1>1 DEF BeginFetch, Book, counts
<1>11. c.pc # "persist"
  BY <1>4
<1> QED BY <1>1, <1>3, <1>5, <1>7, <1>8, <1>9, <1>10, <1>11, StreamGoesOn

(* The rest of a stream that is flushed: what follows it is `then`. *)
LEMMA FlushesOK ==
  ASSUME NEW d \in Streams, Walks(d), d.pc \in Going, NEW then \in Thens \ {"none"},
         then = "done" => d.segs = <<>> /\ d.pc = "segment",
         then \in {"next", "emit"} => d.then = then,
         then \in {"retry", "throw"} => d.pc = "source" \/ d.then \in {"emit", "next", "retry", "throw"}
  PROVE  LET c == [d EXCEPT !.pc = "flush", !.then = then] IN
         /\ c \in Streams /\ Walks(c) /\ c.pc = "flush" /\ c.then = then
         /\ \A f, D : Holds(d, f, D) => Holds(c, f, D)
         /\ then \notin {"retry", "throw"} \/ d.pc = "source" => (Follows(d) => Follows(c))
<1> DEFINE c == [d EXCEPT !.pc = "flush", !.then = then]
<1>1. /\ c.pc = "flush" /\ c.then = then /\ c.at = d.at /\ c.from = d.from /\ c.segs = d.segs /\ c.lo = d.lo
      /\ c.hi = d.hi /\ c.got = d.got /\ c.fd = d.fd
  BY DEF Streams
<1>2. c \in Streams
  BY DEF Streams, Going, Flushing, Thens
<1> HIDE DEF c
<1>3. d.lo <= d.hi /\ d.fd # 0 /\ d.at \in Nat /\ d.from \in Nat
  BY StreamIs DEF Walks
<1>4. Walks(c)
  <2>1. then \in {"next", "emit", "retry", "throw"} => d.segs # <<>> /\ Runs(d.segs, d.segs[1].a, d.hi + 1)
    BY DEF Walks, Fetches, Wrote, Waits
  <2>2. then \in {"next", "emit", "retry", "throw"} => d.segs[1].b \in Nat
    BY <2>1, HeadIs
  <2>3. then \in {"retry", "throw"} => d.at <= d.segs[1].b + 1
    <3> SUFFICES ASSUME then \in {"retry", "throw"} PROVE d.at <= d.segs[1].b + 1
      OBVIOUS
    <3>1. d.segs[1].b \in Nat
      BY <2>2
    <3>2. d.pc = "source" => d.at <= d.segs[1].b
      BY DEF Walks
    <3>3. d.then = "emit" => d.at - 1 <= d.segs[1].b
      BY DEF Walks, Wrote
    <3>4. d.then \in {"next", "retry", "throw"} => d.at = d.segs[1].b + 1 \/ d.at <= d.segs[1].b + 1
      BY DEF Walks
    <3> QED BY <1>3, <3>1, <3>2, <3>3, <3>4
  <2>4. /\ then = "emit" => d.from <= d.at - 1 /\ d.at - 1 <= d.segs[1].b
        /\ then = "next" => d.at = d.segs[1].b + 1
    BY DEF Walks, Wrote
  <2> QED BY <1>1, <1>3, <2>1, <2>3, <2>4 DEF Walks, Fetches, Wrote, Waits, Idle, Fresh, Going, Flushing, Thens
<1>5. ASSUME NEW f, NEW D, Holds(d, f, D) PROVE Holds(c, f, D)
  BY <1>1, <1>5 DEF Holds, Wrote, Going, Flushing
<1>6. ASSUME then \notin {"retry", "throw"} \/ d.pc = "source", Follows(d) PROVE Follows(c)
  <2>1. Place(c) = Place(d)
    BY <1>1 DEF Place
  <2>2. then = "done" => Place(d) = d.hi + 1
    BY <1>6 DEF Follows, Runs
  <2> QED BY <1>1, <1>6, <2>1, <2>2 DEF Follows, Wrote, Waits
<1> QED BY <1>1, <1>2, <1>4, <1>5, <1>6 DEF c

LEMMA EndOfSegmentsOK ==
  ASSUME CInv, NEW r \in Readers, EndOfSegments(r)
  PROVE  CInv'
<1> DEFINE d == reader[r]
           c == [d EXCEPT !.pc = "flush", !.then = "done"]
<1>1. /\ d \in Streams /\ Walks(d) /\ Busy(r) /\ d.pc = "segment" /\ d.pc \in Going /\ d.segs = <<>> /\ failures \in Nat
      /\ (Kept => Holds(d, file, data)) /\ (Kept /\ failures = 0 => Follows(d))
  BY StreamFacts DEF EndOfSegments, Idle, Going
<1>2. reader' = [reader EXCEPT ![r] = c]
  BY StreamFacts DEF EndOfSegments
<1>3. UNCHANGED <<Book, disk, ranges, dirty>> /\ lease' \in {lease, "grace"} /\ failures' \in Nat /\ failures' >= failures
      /\ failures' = failures
  BY <1>1 DEF EndOfSegments, Book, counts
<1>4. "done" \in Thens \ {"none"}
  BY DEF Thens
<1> HIDE DEF d
<1>5. /\ c \in Streams /\ Walks(c) /\ c.pc = "flush"
      /\ (Holds(d, file, data) => Holds(c, file, data)) /\ (Follows(d) => Follows(c))
  BY <1>1, <1>4, FlushesOK
<1> HIDE DEF c
<1> QED BY <1>1, <1>2, <1>3, <1>5, StreamGoesOn

LEMMA AbandonOK ==
  ASSUME CInv, NEW r \in Readers, Abandon(r)
  PROVE  CInv'
<1> DEFINE d == reader[r]
           c == [d EXCEPT !.pc = "flush", !.then = "failed"]
<1>1. /\ d \in Streams /\ Walks(d) /\ failures \in Nat
      /\ (Kept => Holds(d, file, data)) /\ (Kept /\ failures = 0 => Follows(d))
  BY StreamFacts DEF Abandon
<1>2. d.pc \in Going /\ Busy(r)
  <2>1. d.then = "next" => d.pc \in Flushing
    BY <1>1 DEF Walks
  <2>2. d.pc \in Going
    BY <2>1 DEF Abandon, Going
  <2> QED BY <2>2 DEF Busy, Going, Flushing
<1>3. reader' = [reader EXCEPT ![r] = c]
  BY StreamFacts DEF Abandon
<1>4. UNCHANGED <<Book, disk, ranges, dirty>> /\ lease' \in {lease, "grace"} /\ failures' \in Nat /\ failures' >= failures
      /\ failures' = failures
  BY <1>1 DEF Abandon, Book, counts
<1>5. "failed" \in Thens \ {"none"}
  BY DEF Thens
<1> HIDE DEF d
<1>6. /\ c \in Streams /\ Walks(c) /\ c.pc = "flush"
      /\ (Holds(d, file, data) => Holds(c, file, data)) /\ (Follows(d) => Follows(c))
  BY <1>1, <1>2, <1>5, FlushesOK
<1> HIDE DEF c
<1> QED BY <1>1, <1>2, <1>3, <1>4, <1>6, StreamGoesOn

LEMMA ConcatIs ==
  ASSUME NEW S, NEW s \in Seq(S), NEW t \in Seq(S)
  PROVE  /\ s \o t \in Seq(S) /\ Len(s \o t) = Len(s) + Len(t) /\ Len(s) \in Nat /\ Len(t) \in Nat
         /\ DOMAIN (s \o t) = 1..(Len(s) + Len(t))
         /\ \A i \in 1..Len(s) : (s \o t)[i] = s[i]
         /\ \A i \in 1..Len(t) : (s \o t)[Len(s) + i] = t[i]
OBVIOUS

(* A cached segment is delivered as it is in the data file. *)
LEMMA CachedOK ==
  ASSUME CInv, NEW r \in Readers, reader[r].pc = "segment", reader[r].segs # <<>>,
         reader[r].segs[1].cached = TRUE
  PROVE  LET d == reader[r]
             c == Taken(r)
         IN  /\ c \in Streams /\ Walks(c) /\ c.pc = "segment"
             /\ \A f : Holds(d, f, data) => Holds(c, f, data)
             /\ Backed(d.segs, data) /\ Follows(d) => Follows(c)
<1> DEFINE d == reader[r]
           s == d.segs[1]
           n == s.b - s.a + 1
           new == [i \in 1..n |-> [block |-> s.a + i - 1, right |-> s.a + i - 1 \in data]]
           got == d.got \o new
           c == Taken(r)
           Blocked == [block : Int, right : BOOLEAN]
<1>1. /\ d \in Streams /\ Walks(d) /\ d.got \in Seq(Blocked) /\ d.segs \in Seq(Segs) /\ d.lo \in Nat /\ d.hi \in Nat
  BY StreamFacts, StreamIs
<1>2. /\ s.a \in Nat /\ s.b \in Nat /\ Runs(d.segs, s.a, d.hi + 1) /\ d.then = "none"
      /\ d.lo <= d.hi /\ d.fd # 0
  BY <1>1, HeadIs DEF Walks, Flushing, Going
<1>3. s.a <= s.b
  <2>1. 1 \in DOMAIN d.segs
    BY <1>1
  <2> QED BY <1>2, <2>1 DEF Runs
<1>4. n \in Nat
  BY <1>2, <1>3
<1>5. c = [d EXCEPT !.segs = Tail(@), !.got = got]
  <2> DEFINE bs == [i \in 1..n |-> s.a + i - 1]
  <2>1. Len(bs) = n /\ \A i \in 1..n : bs[i] = s.a + i - 1
    BY <1>2, <1>4
  <2> HIDE DEF bs
  <2>2. [i \in 1..Len(bs) |-> [block |-> bs[i], right |-> bs[i] \in data]] = new
    BY <2>1
  <2>3. Gets(r, bs) = got
    BY <2>2 DEF Gets
  <2>4. Segment(r) = s
    BY <1>1, HeadIs DEF Segment
  <2>5. c = [d EXCEPT !.segs = Tail(@), !.got = Gets(r, bs)]
    BY <2>4 DEF Taken, bs
  <2> QED BY <2>3, <2>5
<1>6. new \in Seq(Blocked) /\ Len(new) = n /\ \A i \in 1..n : new[i] = [block |-> s.a + i - 1, right |-> s.a + i - 1 \in data]
  <2> DEFINE E(i) == [block |-> s.a + i - 1, right |-> s.a + i - 1 \in data]
  <2>1. \A i \in 1..n : E(i) \in Blocked
    <3> SUFFICES ASSUME NEW i \in 1..n PROVE E(i) \in Blocked
      OBVIOUS
    <3>1. s.a + i - 1 \in Int
      BY <1>2, <1>4
    <3>2. (s.a + i - 1 \in data) \in BOOLEAN
      OBVIOUS
    <3> QED BY <3>1, <3>2
  <2>2. new = [i \in 1..n |-> E(i)]
    OBVIOUS
  <2> HIDE DEF new, n, Blocked
  <2>3. new \in Seq(Blocked) /\ Len(new) = n /\ \A i \in 1..n : new[i] = E(i)
    <3> HIDE DEF E
    <3> QED BY <1>4, <2>1, <2>2
  <2> QED BY <2>3
<1> HIDE DEF new, n, c
<1> HIDE DEF Blocked
<1> DEFINE p == Len(d.got)
<1>7. /\ got \in Seq(Blocked) /\ Len(got) = p + n /\ p \in Nat /\ DOMAIN got = 1..(p + n)
      /\ \A i \in 1..p : got[i] = d.got[i]
      /\ \A i \in 1..n : got[p + i] = new[i]
  <2>1. d.got \in Seq(Blocked) /\ new \in Seq(Blocked)
    BY <1>1, <1>6
  <2>2. Len(new) = n
    BY <1>6
  <2>3. /\ got \in Seq(Blocked) /\ Len(got) = Len(d.got) + Len(new) /\ Len(d.got) \in Nat
        /\ DOMAIN got = 1..(Len(d.got) + Len(new))
        /\ \A i \in 1..Len(d.got) : got[i] = d.got[i]
        /\ \A i \in 1..Len(new) : got[Len(d.got) + i] = new[i]
    BY <2>1, ConcatIs
  <2> HIDE DEF got
  <2> QED BY <2>2, <2>3
<1> HIDE DEF got
<1>8. /\ c.pc = "segment" /\ c.segs = Tail(d.segs) /\ c.got = got /\ c.then = "none" /\ c.lo = d.lo /\ c.hi = d.hi
      /\ c.fd = d.fd
  BY <1>1, <1>2, <1>5 DEF Streams
<1>9. /\ Tail(d.segs) \in Seq(Segs) /\ Runs(Tail(d.segs), s.b + 1, d.hi + 1)
      /\ \A D : Backed(d.segs, D) => Backed(Tail(d.segs), D)
  <2> DEFINE t == d.segs
             lo == s.a
             next == d.hi + 1
  <2>1. t \in Seq(Segs) /\ t # <<>> /\ Runs(t, lo, next) /\ Backed(t, Int)
    BY <1>1, <1>2 DEF Backed, Segs
  <2> HIDE DEF t, lo, next
  <2>2. ASSUME NEW D, Backed(t, D) PROVE Backed(Tail(t), D)
    BY <2>1, <2>2, RestRuns
  <2>3. Tail(t) \in Seq(Segs) /\ Runs(Tail(t), t[1].b + 1, next)
    BY <2>1, RestRuns
  <2> QED BY <2>2, <2>3 DEF t, next
<1>10. c \in Streams
  BY <1>1, <1>5, <1>7, <1>9 DEF Streams, Blocked
<1>11. Walks(c)
  <2>1. c.segs = <<>> \/ Runs(c.segs, c.segs[1].a, c.hi + 1)
    BY <1>8, <1>9 DEF Runs
  <2> QED BY <1>2, <1>8, <2>1 DEF Walks, Fetches, Wrote, Waits, Idle, Fresh, Going, Flushing
<1>12. ASSUME NEW f, Holds(d, f, data) PROVE Holds(c, f, data)
  BY <1>2, <1>8, <1>9, <1>12 DEF Holds, Wrote, Going
<1>13. ASSUME Backed(d.segs, data), Follows(d) PROVE Follows(c)
  <2>1. s.a = d.lo + p
    BY <1>13 DEF Follows, Place, Runs
  <2>2. \A b \in (s.a)..(s.b) : b \in data
    <3>1. 1 \in DOMAIN d.segs
      BY <1>1
    <3> QED BY <1>13, <3>1 DEF Backed
  <2>3. ASSUME NEW i \in DOMAIN c.got PROVE c.got[i] = [block |-> c.lo + i - 1, right |-> TRUE]
    <3>1. CASE i \in 1..p
      <4>1. d.got[i] = [block |-> d.lo + i - 1, right |-> TRUE]
        BY <1>1, <1>13, <3>1 DEF Follows
      <4> QED BY <1>7, <1>8, <3>1, <4>1
    <3>2. CASE i \notin 1..p
      <4> DEFINE k == i - p
      <4> HIDE DEF p
      <4>1. i \in 1..(p + n) /\ p \in Nat /\ n \in Nat
        BY <1>4, <1>7, <1>8
      <4>2. k \in 1..n /\ p + k = i
        BY <3>2, <4>1
      <4>3. s.a + k - 1 = c.lo + i - 1
        BY <1>1, <1>8, <2>1, <4>1, SMTT(40)
      <4>4. s.a + k - 1 \in (s.a)..(s.b)
        <5>1. n = s.b - s.a + 1
          BY DEF n
        <5>2. k \in Int /\ 1 <= k /\ k <= n /\ n \in Int /\ s.a \in Int /\ s.b \in Int
          BY <1>2, <4>1, <4>2
        <5> HIDE DEF k, s
        <5> QED BY <5>1, <5>2
      <4>5. (s.a + k - 1 \in data) = TRUE
        BY <2>2, <4>4
      <4>6. c.got[i] = [block |-> s.a + k - 1, right |-> s.a + k - 1 \in data]
        <5>1. c.got[i] = new[k]
          BY <1>7, <1>8, <4>2
        <5> HIDE DEF k
        <5> QED BY <1>6, <4>2, <5>1
      <4> QED BY <4>3, <4>5, <4>6
    <3> QED BY <3>1, <3>2
  <2>4. Place(c) = s.b + 1
    <3>1. Place(c) = d.lo + (p + n) /\ p \in Nat
      BY <1>7, <1>8 DEF Place
    <3>2. n = s.b - s.a + 1
      BY DEF n
    <3>3. d.lo \in Int /\ s.a \in Int /\ s.b \in Int /\ n \in Int
      BY <1>1, <1>2, <1>4
    <3> DEFINE x == d.lo
               y == s.a
               z == s.b
    <3>4. x \in Int /\ y \in Int /\ z \in Int /\ n \in Int /\ p \in Int /\ y = x + p /\ n = z - y + 1
      BY <2>1, <3>1, <3>2, <3>3
    <3> HIDE DEF x, y, z, p
    <3>5. x + (p + n) = z + 1
      BY <3>4
    <3> QED BY <3>1, <3>5 DEF x, z
  <2> QED BY <1>8, <1>9, <2>3, <2>4 DEF Follows, Wrote, Waits
<1> QED BY <1>8, <1>10, <1>11, <1>12, <1>13 DEF c

LEMMA ReadCachedOK ==
  ASSUME CInv, NEW r \in Readers, ReadCached(r)
  PROVE  CInv'
<1> DEFINE d == reader[r]
           s == d.segs[1]
<1>1. /\ d \in Streams /\ Walks(d) /\ Busy(r) /\ d.pc = "segment" /\ d.pc \in Going /\ d.segs # <<>> /\ failures \in Nat
      /\ (Kept => Holds(d, file, data)) /\ (Kept /\ failures = 0 => Follows(d))
  BY StreamFacts DEF ReadCached, Idle, Going
<1>2. Head(d.segs) = s /\ s.cached = TRUE
  BY <1>1, HeadIs DEF ReadCached, Segment
<1>3. UNCHANGED <<Book, disk, ranges, dirty>> /\ lease' \in {lease, "grace"} /\ failures' \in Nat /\ failures' >= failures
      /\ failures' = failures
  BY <1>1 DEF ReadCached, Book, counts
<1>4. CASE file = 0
  <2> DEFINE c == [d EXCEPT !.pc = "flush", !.then = "failed"]
  <2>1. reader' = [reader EXCEPT ![r] = c]
    BY <1>4, StreamFacts DEF ReadCached
  <2>2. "failed" \in Thens \ {"none"}
    BY DEF Thens
  <2> HIDE DEF d
  <2>3. /\ c \in Streams /\ Walks(c) /\ c.pc = "flush"
        /\ (Holds(d, file, data) => Holds(c, file, data)) /\ (Follows(d) => Follows(c))
    BY <1>1, <2>2, FlushesOK
  <2> HIDE DEF c
  <2> QED BY <1>1, <1>3, <2>1, <2>3, StreamGoesOn
<1>5. CASE file # 0
  <2> DEFINE c == Taken(r)
  <2>1. reader' = [reader EXCEPT ![r] = c]
    <3> HIDE DEF c
    <3> QED BY <1>5 DEF ReadCached, c
  <2>2. /\ c \in Streams /\ Walks(c) /\ c.pc = "segment"
        /\ (Holds(d, file, data) => Holds(c, file, data)) /\ (Backed(d.segs, data) /\ Follows(d) => Follows(c))
    BY <1>1, <1>2, CachedOK
  <2>3. Kept => Backed(d.segs, data)
    BY <1>1 DEF Holds
  <2> HIDE DEF c, d
  <2> QED BY <1>1, <1>3, <2>1, <2>2, <2>3, StreamGoesOn
<1> QED BY <1>4, <1>5

LEMMA WriteChunkOK ==
  ASSUME CInv, NEW r \in Readers, WriteChunk(r)
  PROVE  CInv'
<1> DEFINE d == reader[r]
           c == [d EXCEPT !.pc = "written", !.at = @ + 1]
<1>1. /\ d \in Streams /\ Walks(d) /\ Busy(r) /\ d.pc = "source" /\ failures \in Nat
      /\ (Kept => Holds(d, file, data)) /\ (Kept /\ failures = 0 => Follows(d))
  BY StreamFacts DEF WriteChunk, Idle
<1>2. /\ d.segs # <<>> /\ Runs(d.segs, d.segs[1].a, d.hi + 1) /\ d.from <= d.at /\ d.at <= d.segs[1].b
      /\ d.then = "none" /\ d.lo <= d.hi /\ d.fd # 0
  BY <1>1 DEF Walks, Fetches, Waits, Flushing, Going
<1>3. d.segs[1].b \in Blocks /\ d.segs[1].b \in Nat /\ d.at \in Nat /\ d.from \in Nat
  BY <1>1, <1>2, HeadIs, StreamIs
<1>4. d.at \in Blocks /\ d.at + 1 \in Nat
  BY <1>2, <1>3, SpanIs, RangeAssumption
<1>5. reader' = [reader EXCEPT ![r] = c]
  BY StreamFacts DEF WriteChunk
<1>6. /\ c.pc = "written" /\ c.at = d.at + 1 /\ c.from = d.from /\ c.then = "none" /\ c.segs = d.segs /\ c.lo = d.lo
      /\ c.hi = d.hi /\ c.got = d.got /\ c.fd = d.fd
  BY <1>1, <1>2 DEF Streams
<1>7. c \in Streams
  BY <1>1, <1>4 DEF Streams, Going
<1> HIDE DEF c
<1>8. c.at - 1 = d.at
  BY <1>3, <1>6
<1>9. Walks(c)
  BY <1>2, <1>6, <1>8 DEF Walks, Fetches, Wrote, Waits, Idle, Fresh, Going, Flushing
<1>10. data \subseteq data' /\ data' \in SUBSET Blocks
  BY <1>4, StreamFacts DEF WriteChunk
<1>11. Kept => Holds(c, file, data')
  <2> SUFFICES ASSUME Kept PROVE Holds(c, file, data')
    OBVIOUS
  <2>1. Holds(d, file, data)
    BY <1>1
  <2>2. d.fd = file /\ file # 0 /\ (d.from)..(d.at - 1) \subseteq data /\ Backed(d.segs, data)
    BY <1>1, <2>1 DEF Holds, Going
  <2>3. d.at \in data'
    BY <2>2 DEF WriteChunk
  <2>4. (c.from)..(c.at - 1) \subseteq data'
    <3>1. (c.from)..(c.at - 1) = (d.from)..(d.at - 1) \cup {d.at}
      <4>1. (d.from)..(d.at) = (d.from)..(d.at - 1) \cup {d.at}
        BY <1>2, <1>3
      <4> QED BY <1>6, <1>8, <4>1
    <3> QED BY <1>10, <2>2, <2>3, <3>1
  <2>5. Backed(c.segs, data')
    BY <1>6, <1>10, <2>2 DEF Backed
  <2> QED BY <1>6, <2>2, <2>4, <2>5 DEF Holds
<1>12. Kept /\ failures' = 0 => Follows(c)
  <2> SUFFICES ASSUME Kept, failures' = 0 PROVE Follows(c)
    OBVIOUS
  <2>1. Follows(d)
    BY <1>1 DEF WriteChunk, counts
  <2>2. d.at = Place(d) /\ Place(c) = Place(d)
    BY <1>1, <1>6, <2>1 DEF Follows, Waits, Place
  <2> QED BY <1>6, <1>8, <2>1, <2>2 DEF Follows, Wrote, Waits
<1>13. UNCHANGED <<Book, file>> /\ failures' \in Nat /\ failures' >= failures /\ failures' = failures
  BY <1>1 DEF WriteChunk, Book, counts
<1>14. Kept => Covers(ranges') \subseteq data'
  <2>1. ranges' = ranges
    BY DEF WriteChunk
  <2> QED BY <1>10, <2>1, StreamFacts
<1>15. Stored'
  <2>1. reader' \in [Readers -> Streams]
    BY <1>5, <1>7, StreamFacts
  <2>2. synced' \in SUBSET data'
    BY <1>10, StreamFacts DEF WriteChunk
  <2>3. file' = 0 => data' = {}
    BY <1>2 DEF WriteChunk, CInv, Stored
  <2> QED BY <1>10, <2>1, <2>2, <2>3 DEF CInv, Stored, WriteChunk, counts
<1>16. Durable'
  <2>1. \A q \in Readers : reader'[q].pc = "persist" => reader[q].pc = "persist"
    BY <1>5, <1>6, StreamFacts
  <2> QED BY <2>1 DEF CInv, Durable, WriteChunk, counts
<1> HIDE DEF Kept
<1> QED BY <1>1, <1>5, <1>7, <1>9, <1>10, <1>11, <1>12, <1>13, <1>14, <1>15, <1>16, StreamMoves

(* What has been written is recorded. *)
LEMMA RecordsOK ==
  ASSUME CInv, NEW r \in Readers, NEW d \in Streams, Walks(d), Busy(r), d.pc # "persist",
         reader' = [reader EXCEPT ![r] = d],
         Kept => Holds(d, file, data),
         Kept /\ failures = 0 => Follows(d),
         UNCHANGED <<Book, disk>>, lease' = lease, failures' = failures,
         ranges' = Recorded(r), dirty' = TRUE,
         reader[r].from \in Blocks, reader[r].at - 1 \in Blocks, reader[r].from <= reader[r].at - 1,
         Kept => (reader[r].from)..(reader[r].at - 1) \subseteq data
  PROVE  CInv'
<1> DEFINE a == reader[r].from
           b == reader[r].at - 1
<1>1. ranges' \in Seq(Span) /\ Pairwise(ranges') /\ Covers(ranges') \subseteq Covers(ranges) \cup (a..b)
  <2>1. ranges \in Seq(Span) /\ Pairwise(ranges) /\ a \in Blocks /\ b \in Blocks /\ a <= b
    BY StreamFacts
  <2>2. ranges' = AddRange(ranges, a, b)
    BY DEF Recorded
  <2> HIDE DEF a, b
  <2> QED BY <2>1, <2>2, AddRangeIs
<1>2. UNCHANGED <<Book, file>> /\ data' = data
  BY DEF disk
<1>3. Kept => Covers(ranges') \subseteq data'
  BY <1>1, <1>2, StreamFacts
<1>4. failures' \in Nat /\ failures' >= failures
  BY StreamFacts
<1>5. Stored'
  <2>1. reader' \in [Readers -> Streams]
    BY StreamFacts
  <2>2. known'
    BY StreamFacts DEF Book
  <2> QED BY <1>1, <2>1, <2>2 DEF CInv, Stored, Book, disk
<1>6. Durable'
  <2> SUFFICES ASSUME ~undercut', ~shared', NEW q \in Readers
               PROVE  Covers(meta') \subseteq synced' /\ reader'[q].pc # "persist"
    BY DEF Durable
  <2>1. UNCHANGED <<undercut, shared, meta, synced>>
    BY DEF Book, disk
  <2>2. reader'[q] = IF q = r THEN d ELSE reader[q]
    BY StreamFacts
  <2>3. reader[q].pc = "persist" => Busy(q)
    BY DEF Busy
  <2>4. Busy(q) => q = r
    BY <2>1 DEF CInv, Alone
  <2> QED BY <2>1, <2>2, <2>3, <2>4 DEF CInv, Durable
<1>7. Kept => Holds(d, file, data')
  BY <1>2
<1>8. Kept /\ failures' = 0 => Follows(d)
  OBVIOUS
<1>9. data \subseteq data'
  BY <1>2
<1> HIDE DEF Kept
<1> QED BY <1>2, <1>3, <1>4, <1>5, <1>6, <1>7, <1>8, <1>9, StreamMoves

LEMMA RecordChunkOK ==
  ASSUME CInv, NEW r \in Readers, RecordChunk(r)
  PROVE  CInv'
<1> DEFINE d == reader[r]
<1>1. /\ d \in Streams /\ Walks(d) /\ Busy(r) /\ d.pc = "written" /\ d.pc \in Going /\ Wrote(d) /\ failures \in Nat
      /\ (Kept => Holds(d, file, data)) /\ (Kept /\ failures = 0 => Follows(d))
  BY StreamFacts DEF RecordChunk, Idle, Going, Wrote
<1>2. /\ d.segs # <<>> /\ d.from <= d.at - 1 /\ d.at - 1 <= d.segs[1].b /\ d.then = "none"
  BY <1>1 DEF Walks, Fetches, Flushing
<1>3. d.segs[1].b \in Blocks /\ d.segs[1].b \in Nat /\ d.at \in Nat /\ d.from \in Nat
  BY <1>1, <1>2, HeadIs, StreamIs
<1>4. d.from \in Blocks /\ d.at - 1 \in Blocks
  <2> DEFINE x == d.from
             y == d.at
             z == d.segs[1].b
  <2>1. x \in Nat /\ y \in Nat /\ z \in 0..(Size - 1) /\ x <= y - 1 /\ y - 1 <= z /\ Size \in Nat
    BY <1>2, <1>3, SpanIs, RangeAssumption
  <2> HIDE DEF x, y, z
  <2>2. x \in 0..(Size - 1) /\ y - 1 \in 0..(Size - 1)
    BY <2>1
  <2> QED BY <2>2, SpanIs DEF x, y
<1>5. Kept => (d.from)..(d.at - 1) \subseteq data
  BY <1>1 DEF Holds
<1>6. /\ UNCHANGED <<Book, disk>> /\ lease' = lease /\ failures' = failures /\ ranges' = Recorded(r) /\ dirty' = TRUE
  BY DEF RecordChunk, Book, counts
<1>7. PICK c \in Streams : /\ Walks(c) /\ c.pc \in {"source", "flush"} /\ reader' = [reader EXCEPT ![r] = c]
                           /\ (Holds(d, file, data) => Holds(c, file, data)) /\ (Follows(d) => Follows(c))
  <2>1. CASE reader' = [reader EXCEPT ![r] = Emitted(@)]
    <3> DEFINE c == Emitted(d)
    <3>1. reader' = [reader EXCEPT ![r] = c]
      BY <2>1, StreamFacts
    <3> HIDE DEF d
    <3>2. /\ c \in Streams /\ Walks(c) /\ c.pc \in {"source", "flush"}
          /\ (Holds(d, file, data) => Holds(c, file, data)) /\ (Follows(d) => Follows(c))
      BY <1>1, EmittedOK
    <3> HIDE DEF c
    <3> QED BY <3>1, <3>2
  <2>2. CASE reader' = [reader EXCEPT ![r] = [@ EXCEPT !.pc = "flush", !.then = "emit"]]
    <3> DEFINE c == [d EXCEPT !.pc = "flush", !.then = "emit"]
    <3>1. reader' = [reader EXCEPT ![r] = c]
      BY <2>2, StreamFacts
    <3>2. /\ c.pc = "flush" /\ c.then = "emit" /\ c.at = d.at /\ c.from = d.from /\ c.segs = d.segs /\ c.lo = d.lo
          /\ c.hi = d.hi /\ c.got = d.got /\ c.fd = d.fd
      BY <1>1 DEF Streams
    <3>3. c \in Streams
      BY <1>1 DEF Streams, Going, Flushing, Thens
    <3> HIDE DEF c
    <3>4. Walks(c)
      BY <1>1, <1>2, <3>2 DEF Walks, Fetches, Wrote, Waits, Idle, Fresh, Going, Flushing
    <3>5. Holds(d, file, data) => Holds(c, file, data)
      BY <1>1, <3>2 DEF Holds, Wrote, Going, Flushing
    <3>6. Follows(d) => Follows(c)
      BY <1>1, <1>2, <3>2 DEF Follows, Place, Wrote, Waits
    <3> QED BY <3>1, <3>2, <3>3, <3>4, <3>5, <3>6
  <2> QED BY <2>1, <2>2 DEF RecordChunk
<1>8. c.pc # "persist"
  BY <1>7
<1> QED BY <1>1, <1>2, <1>4, <1>5, <1>6, <1>7, <1>8, RecordsOK

LEMMA SourceFailsOK ==
  ASSUME CInv, NEW r \in Readers, SourceFails(r)
  PROVE  CInv'
<1> DEFINE d == reader[r]
           then == IF d.at > d.from THEN Again(r) ELSE "failed"
           c == [d EXCEPT !.pc = "flush", !.then = then]
           e == [d EXCEPT !.tries = @ + 1]
<1>1. /\ d \in Streams /\ Walks(d) /\ Busy(r) /\ d.pc = "source" /\ d.pc \in Going /\ failures \in Nat
      /\ (Kept => Holds(d, file, data)) /\ (Kept /\ failures = 0 => Follows(d))
  BY StreamFacts DEF SourceFails, Idle, Going
<1>2. /\ d.segs # <<>> /\ d.from <= d.at /\ d.at <= d.segs[1].b
  BY <1>1 DEF Walks, Fetches, Waits
<1>3. d.segs[1].b \in Blocks /\ d.segs[1].b \in Nat /\ d.at \in Nat /\ d.from \in Nat
  BY <1>1, <1>2, HeadIs, StreamIs
<1>4. /\ failures' = failures /\ lease' = lease /\ UNCHANGED <<Book, disk>>
      /\ IF d.at > d.from THEN ranges' = Recorded(r) /\ dirty' = TRUE ELSE UNCHANGED <<ranges, dirty>>
      /\ \/ reader' = [reader EXCEPT ![r] = c]
         \/ reader' = [reader EXCEPT ![r] = e] /\ d.at = d.from
  <2>1. failures' = failures /\ lease' = lease /\ UNCHANGED <<Book, disk>>
    BY DEF SourceFails, Book, counts
  <2>2. \/ /\ d.at > d.from /\ ranges' = Recorded(r) /\ dirty' = TRUE
           /\ reader' = [reader EXCEPT ![r] = [d EXCEPT !.pc = "flush", !.then = Again(r)]]
        \/ /\ d.at = d.from /\ UNCHANGED <<ranges, dirty>>
           /\ \/ reader' = [reader EXCEPT ![r] = [d EXCEPT !.pc = "flush", !.then = "failed"]]
              \/ d.tries < Retries /\ reader' = [reader EXCEPT ![r] = e]
    BY DEF SourceFails
  <2>3. d.at = d.from => ~(d.at > d.from)
    BY <1>3
  <2> QED BY <2>1, <2>2, <2>3
<1>5. then \in Thens \ {"none"} /\ then \in {"retry", "throw", "failed"}
  BY DEF Again, Thens
<1>6. /\ c \in Streams /\ Walks(c) /\ c.pc # "persist"
      /\ (Holds(d, file, data) => Holds(c, file, data)) /\ (Follows(d) => Follows(c))
  <2>1. ASSUME NEW t \in Thens \ {"none"}, t \in {"retry", "throw", "failed"}
        PROVE  LET x == [d EXCEPT !.pc = "flush", !.then = t] IN
               /\ x \in Streams /\ Walks(x) /\ x.pc = "flush" /\ x.then = t
               /\ \A f, D : Holds(d, f, D) => Holds(x, f, D)
               /\ Follows(d) => Follows(x)
    <3> HIDE DEF d
    <3>1. /\ t = "done" => d.segs = <<>> /\ d.pc = "segment"
          /\ t \in {"next", "emit"} => d.then = t
          /\ t \in {"retry", "throw"} => d.pc = "source" \/ d.then \in {"emit", "next", "retry", "throw"}
      BY <1>1, <2>1
    <3>2. LET x == [d EXCEPT !.pc = "flush", !.then = t] IN
          /\ x \in Streams /\ Walks(x) /\ x.pc = "flush" /\ x.then = t
          /\ \A f, D : Holds(d, f, D) => Holds(x, f, D)
          /\ t \notin {"retry", "throw"} \/ d.pc = "source" => (Follows(d) => Follows(x))
      BY <1>1, <2>1, <3>1, FlushesOK
    <3> QED BY <1>1, <3>2
  <2> HIDE DEF then, d
  <2>2. c.pc # "persist" /\ LET x == [d EXCEPT !.pc = "flush", !.then = then] IN
          /\ x \in Streams /\ Walks(x) /\ x.pc = "flush" /\ x.then = then
          /\ \A f, D : Holds(d, f, D) => Holds(x, f, D)
          /\ Follows(d) => Follows(x)
    BY <1>5, <2>1
  <2> QED BY <2>2
<1> HIDE DEF c, then
<1>7. CASE d.at > d.from /\ reader' = [reader EXCEPT ![r] = c]
  <2>1. d.from \in Blocks /\ d.at - 1 \in Blocks /\ d.from <= d.at - 1
    <3> DEFINE x == d.from
               y == d.at
               z == d.segs[1].b
    <3>1. x \in Nat /\ y \in Nat /\ z \in 0..(Size - 1) /\ x < y /\ y <= z /\ Size \in Nat
      BY <1>2, <1>3, <1>7, SpanIs, RangeAssumption
    <3> HIDE DEF x, y, z
    <3>2. x \in 0..(Size - 1) /\ y - 1 \in 0..(Size - 1) /\ x <= y - 1
      BY <3>1
    <3> QED BY <3>2, SpanIs DEF x, y
  <2>2. Kept => (d.from)..(d.at - 1) \subseteq data
    BY <1>1 DEF Holds
  <2>3. ranges' = Recorded(r) /\ dirty' = TRUE
    BY <1>4, <1>7
  <2> QED BY <1>1, <1>4, <1>6, <1>7, <2>1, <2>2, <2>3, RecordsOK
<1>8. CASE ~(d.at > d.from) /\ reader' = [reader EXCEPT ![r] = c]
  <2>1. UNCHANGED <<Book, disk, ranges, dirty>> /\ lease' \in {lease, "grace"} /\ failures' \in Nat /\ failures' >= failures
    BY <1>1, <1>4, <1>8
  <2>2. Kept => Holds(c, file, data)
    BY <1>1, <1>6
  <2>3. Kept /\ failures' = 0 => Follows(c)
    BY <1>1, <1>4, <1>6
  <2> HIDE DEF Kept
  <2> QED BY <1>1, <1>6, <1>8, <2>1, <2>2, <2>3, StreamGoesOn
<1>9. CASE reader' = [reader EXCEPT ![r] = e] /\ d.at = d.from
  <2>1. d.tries \in Nat
    BY <1>1 DEF Streams
  <2>2. d.tries + 1 \in Nat
    BY <2>1
  <2>3. e \in Streams
    BY <1>1, <2>2 DEF Streams
  <2>4. /\ e.pc = d.pc /\ e.then = d.then /\ e.at = d.at /\ e.from = d.from /\ e.segs = d.segs /\ e.lo = d.lo
        /\ e.hi = d.hi /\ e.got = d.got /\ e.fd = d.fd
    BY <1>1 DEF Streams
  <2> HIDE DEF e
  <2>5. Walks(e) /\ e.pc # "persist"
    BY <1>1, <2>4 DEF Walks, Fetches, Wrote, Waits
  <2>6. Kept => Holds(e, file, data)
    BY <1>1, <2>4 DEF Holds, Wrote
  <2>7. Kept /\ failures' = 0 => Follows(e)
    BY <1>1, <1>4, <2>4 DEF Follows, Place, Wrote, Waits
  <2>8. UNCHANGED <<Book, disk, ranges, dirty>> /\ lease' \in {lease, "grace"} /\ failures' \in Nat /\ failures' >= failures
    BY <1>1, <1>2, <1>3, <1>4, <1>9
  <2> HIDE DEF Kept
  <2> QED BY <1>1, <1>9, <2>3, <2>5, <2>6, <2>7, <2>8, StreamGoesOn
<1> QED BY <1>2, <1>3, <1>4, <1>7, <1>8, <1>9

LEMMA SyncOK ==
  ASSUME CInv, NEW r \in Readers, Sync(r)
  PROVE  CInv'
<1> DEFINE d == reader[r]
           c == [d EXCEPT !.pc = "persist"]
<1>1. /\ d \in Streams /\ Walks(d) /\ Busy(r) /\ d.pc = "flush" /\ failures \in Nat
      /\ (Kept => Holds(d, file, data)) /\ (Kept /\ failures = 0 => Follows(d))
  BY StreamFacts DEF Sync, Idle
<1>2. reader' = [reader EXCEPT ![r] = c]
  BY Zenon, StreamFacts DEF Sync
<1>3. /\ c.pc = "persist" /\ c.then = d.then /\ c.at = d.at /\ c.from = d.from /\ c.segs = d.segs /\ c.lo = d.lo
      /\ c.hi = d.hi /\ c.got = d.got /\ c.fd = d.fd
  BY <1>1 DEF Streams
<1>4. c \in Streams
  BY <1>1 DEF Streams, Going, Flushing
<1> HIDE DEF c
<1>5. Walks(c)
  BY <1>1, <1>3 DEF Walks, Fetches, Wrote, Waits, Idle, Fresh, Going, Flushing
<1>6. UNCHANGED <<Book, file>> /\ failures' \in Nat /\ failures' >= failures /\ failures' = failures
      /\ data' = data /\ ranges' = ranges
  BY <1>1 DEF Sync, Book, counts
<1>7. Kept => Holds(c, file, data')
  BY <1>1, <1>3, <1>6 DEF Holds, Wrote, Going, Flushing
<1>8. Kept /\ failures' = 0 => Follows(c)
  BY <1>1, <1>3, <1>6 DEF Follows, Place, Wrote, Waits
<1>9. Kept => Covers(ranges') \subseteq data'
  BY <1>6, StreamFacts
<1>10. synced \subseteq synced' /\ synced' \in SUBSET data'
  BY <1>6, StreamFacts DEF Sync, Syncs
<1>11. Stored'
  <2>1. reader' \in [Readers -> Streams]
    BY <1>2, <1>4, StreamFacts
  <2> QED BY <1>10, <2>1 DEF CInv, Stored, Sync, counts
<1>12. Durable'
  <2> SUFFICES ASSUME ~undercut', ~shared', NEW q \in Readers
               PROVE  /\ Covers(meta') \subseteq synced'
                      /\ reader'[q].pc = "persist" => Covers(ranges') \subseteq synced'
    BY DEF Durable
  <2>1. ~undercut /\ ~shared /\ meta' = meta
    BY DEF Sync, counts
  <2>2. Covers(meta') \subseteq synced'
    BY <1>10, <2>1 DEF CInv, Durable
  <2>3. Kept
    BY <2>1 DEF Kept
  <2>4. d.fd = file
    BY <1>1, <2>3 DEF Holds, Going, Flushing
  <2>5. synced' = data /\ Covers(ranges') \subseteq data
    BY <1>6, <2>3, <2>4, StreamFacts DEF Sync, Syncs
  <2> QED BY <2>2, <2>5
<1>13. data \subseteq data'
  BY <1>6
<1> HIDE DEF Kept
<1> QED BY <1>1, <1>2, <1>4, <1>5, <1>6, <1>7, <1>8, <1>9, <1>11, <1>12, <1>13, StreamMoves

LEMMA NothingToFlushOK ==
  ASSUME CInv, NEW r \in Readers, NothingToFlush(r)
  PROVE  CInv'
<1> DEFINE d == reader[r]
           c == After(d)
<1>1. /\ d \in Streams /\ Walks(d) /\ Busy(r) /\ d.pc \in Flushing /\ failures \in Nat /\ reader \in [Readers -> Streams]
      /\ (Kept => Holds(d, file, data)) /\ (Kept /\ failures = 0 => Follows(d))
  BY StreamFacts DEF NothingToFlush, Idle, Flushing
<1>2. Continues(r)
  BY DEF NothingToFlush
<1>3. reader' = [reader EXCEPT ![r] = c] /\ lease' \in {lease, "grace"}
  BY <1>1, <1>2, ContinuesIs
<1> HIDE DEF d
<1>4. /\ c \in Streams /\ Walks(c) /\ c.pc # "persist"
      /\ (Holds(d, file, data) => Holds(c, file, data)) /\ (Follows(d) => Follows(c))
  BY <1>1, AfterOK
<1> HIDE DEF c
<1>5. UNCHANGED <<Book, disk, ranges, dirty>> /\ failures' \in Nat /\ failures' >= failures /\ failures' = failures
  BY <1>1 DEF NothingToFlush, Book, counts
<1>6. Kept => Holds(c, file, data)
  BY <1>1, <1>4
<1>7. Kept /\ failures' = 0 => Follows(c)
  BY <1>1, <1>4, <1>5
<1> HIDE DEF Kept
<1> QED BY <1>1, <1>3, <1>4, <1>5, <1>6, <1>7, StreamGoesOn

LEMMA PersistOK ==
  ASSUME CInv, NEW r \in Readers, Persist(r)
  PROVE  CInv'
<1> DEFINE d == reader[r]
           c == After(d)
<1>1. /\ d \in Streams /\ Walks(d) /\ Busy(r) /\ d.pc = "persist" /\ d.pc \in Flushing /\ failures \in Nat
      /\ reader \in [Readers -> Streams] /\ known
      /\ (Kept => Holds(d, file, data)) /\ (Kept /\ failures = 0 => Follows(d))
  BY StreamFacts DEF Persist, Idle, Flushing
<1>2. Continues(r)
  BY DEF Persist
<1>3. reader' = [reader EXCEPT ![r] = c] /\ lease' \in {lease, "grace"}
  BY <1>1, <1>2, ContinuesIs
<1> HIDE DEF d
<1>4. /\ c \in Streams /\ Walks(c) /\ c.pc # "persist"
      /\ (Holds(d, file, data) => Holds(c, file, data)) /\ (Follows(d) => Follows(c))
  BY <1>1, AfterOK
<1> HIDE DEF c
<1>5. /\ UNCHANGED <<Book, file>> /\ failures' \in Nat /\ failures' >= failures /\ failures' = failures /\ dirty' = FALSE
      /\ data' = data /\ synced' = synced /\ ranges' = ranges /\ meta' \in {meta, ranges}
  BY <1>1 DEF Persist, Book, counts
<1>6. Kept => Holds(c, file, data')
  BY <1>1, <1>4, <1>5
<1>7. Kept /\ failures' = 0 => Follows(c)
  BY <1>1, <1>4, <1>5
<1>8. Kept => Covers(ranges') \subseteq data'
  BY <1>5, StreamFacts
<1>9. Stored'
  <2>1. reader' \in [Readers -> Streams]
    BY <1>3, <1>4, StreamFacts
  <2>2. meta' \in Seq(Span) /\ Pairwise(meta')
    BY <1>5, StreamFacts
  <2> QED BY <1>3, <1>5, <2>1, <2>2 DEF CInv, Stored, Persist, counts
<1>10. Durable'
  <2> SUFFICES ASSUME ~undercut', ~shared'
               PROVE  /\ Covers(meta') \subseteq synced'
                      /\ \A q \in Readers : reader'[q].pc = "persist" => Covers(ranges') \subseteq synced'
    BY DEF Durable
  <2>1. Covers(meta) \subseteq synced /\ Covers(ranges) \subseteq synced
    BY <1>1, <1>5 DEF Book, CInv, Durable, d
  <2> QED BY <1>5, <2>1
<1>11. data \subseteq data'
  BY <1>5
<1> HIDE DEF Kept
<1> QED BY <1>1, <1>3, <1>4, <1>5, <1>6, <1>7, <1>8, <1>9, <1>10, <1>11, StreamMoves

LEMMA PersistFailsOK ==
  ASSUME CInv, NEW r \in Readers, PersistFails(r)
  PROVE  CInv'
<1> DEFINE d == reader[r]
<1>1. /\ d \in Streams /\ Walks(d) /\ Busy(r) /\ d.pc = "persist" /\ d.pc \in Going /\ failures \in Nat /\ known
      /\ (Kept => Holds(d, file, data)) /\ reader \in [Readers -> Streams]
  BY StreamFacts DEF PersistFails, Idle, Flushing, Going
<1>2. /\ UNCHANGED <<Book, disk, ranges, dirty>> /\ failures' \in Nat /\ failures' >= failures
      /\ Kept => failures' # 0
  <2>1. failures' = IF root THEN failures + 1 ELSE failures
    BY DEF PersistFails
  <2>2. Kept => root
    BY <1>1 DEF CInv, Stored, Kept
  <2> QED BY <1>1, <2>1, <2>2 DEF PersistFails, Book
<1>3. \E c \in Streams : /\ Walks(c) /\ c.pc # "persist" /\ (Kept => Holds(c, file, data))
                         /\ reader' = [reader EXCEPT ![r] = c] /\ lease' \in {lease, "grace"}
  <2>1. d.then \in Thens \ {"none"}
    BY <1>1, StreamIs DEF Walks, Flushing
  <2>2. CASE d.then \in {"emit", "next", "retry", "throw"}
    <3> DEFINE then == IF d.then \in {"emit", "next"} THEN Again(r) ELSE "failed"
               c == [d EXCEPT !.pc = "flush", !.then = then]
    <3>1. then \in Thens \ {"none"} /\ then \in {"retry", "throw", "failed"}
      BY DEF Again, Thens
    <3>2. reader' = [reader EXCEPT ![r] = c] /\ lease' \in {lease, "grace"}
      <4>1. CASE d.then \in {"emit", "next"}
        <5>1. reader' = [reader EXCEPT ![r] = [@ EXCEPT !.pc = "flush", !.then = Again(r)]] /\ UNCHANGED lease
          BY <4>1, Zenon DEF PersistFails
        <5> QED BY <1>1, <4>1, <5>1
      <4>2. CASE d.then \in {"retry", "throw"}
        <5>1. ~(d.then \in {"emit", "next"})
          BY <4>2
        <5>2. reader' = [reader EXCEPT ![r] = [@ EXCEPT !.pc = "flush", !.then = "failed"]] /\ UNCHANGED lease
          BY <4>2, <5>1 DEF PersistFails
        <5> QED BY <1>1, <5>1, <5>2
      <4> QED BY <2>2, <4>1, <4>2
    <3> HIDE DEF d, then
    <3>3. /\ then = "done" => d.segs = <<>> /\ d.pc = "segment"
          /\ then \in {"next", "emit"} => d.then = then
          /\ then \in {"retry", "throw"} => d.pc = "source" \/ d.then \in {"emit", "next", "retry", "throw"}
      BY <2>2, <3>1
    <3>4. c \in Streams /\ Walks(c) /\ c.pc = "flush" /\ (Holds(d, file, data) => Holds(c, file, data))
      BY <1>1, <3>1, <3>3, FlushesOK
    <3> HIDE DEF c
    <3> QED BY <1>1, <3>2, <3>4
  <2>3. CASE d.then \notin {"emit", "next", "retry", "throw"}
    <3> DEFINE c == [NoReader EXCEPT !.pc = "failed"]
    <3>1. reader' = [reader EXCEPT ![r] = c] /\ lease' \in {lease, "grace"}
      BY <2>3 DEF PersistFails, Leaves
    <3>2. c \in Streams /\ c.pc # "persist" /\ Walks(c) /\ Holds(c, file, data)
      BY GoneOK DEF Idle
    <3> HIDE DEF c
    <3> QED BY <3>1, <3>2
  <2> QED BY <2>2, <2>3
<1>4. PICK c \in Streams : /\ Walks(c) /\ c.pc # "persist" /\ (Kept => Holds(c, file, data))
                           /\ reader' = [reader EXCEPT ![r] = c] /\ lease' \in {lease, "grace"}
  BY <1>3
<1>5. Kept /\ failures' = 0 => Follows(c)
  BY <1>2
<1> HIDE DEF Kept
<1> QED BY <1>1, <1>2, <1>4, <1>5, StreamGoesOn

-----------------------------------------------------------------------------
(* The cache as streams come and go. *)

(* A stream that is not started, or over, has nothing. *)
LEMMA IdleFacts ==
  ASSUME CInv, NEW r \in Readers, ~Busy(r)
  PROVE  /\ reader[r].pc \in Idle /\ reader[r].segs = <<>> /\ reader[r].then = "none"
         /\ \A f, D : Holds(reader[r], f, D)
<1>1. reader[r].pc \in Idle /\ Walks(reader[r])
  BY StreamFacts
<1>2. reader[r].segs = <<>> /\ reader[r].then = "none"
  BY <1>1 DEF Walks
<1>3. ASSUME NEW f, NEW D PROVE Holds(reader[r], f, D)
  BY <1>1, <1>2 DEF Holds, Wrote, Idle, Going, Flushing, Backed
<1> QED BY <1>1, <1>2, <1>3

LEMMA MakeFileOK ==
  ASSUME CInv, NEW r \in Readers, MakeFile(r)
  PROVE  CInv'
<1>1. /\ Busy(r) /\ known /\ reader[r].pc = "making" /\ reader[r].pc \in Fresh /\ failures \in Nat
      /\ UNCHANGED <<known, ranges, dirty, reads, restarts, failures, shared>> /\ file \in Nat /\ files \in Nat
  BY StreamFacts DEF MakeFile, Idle, Fresh, counts, CInv, Stored
<1>2. CASE ~root
  <2> DEFINE d == [NoReader EXCEPT !.pc = "failed"]
  <2>1. reader' = [reader EXCEPT ![r] = d] /\ lease' \in {lease, "grace"} /\ UNCHANGED <<disk, undercut>>
    BY <1>2 DEF MakeFile, Leaves
  <2>2. d \in Streams /\ d.pc # "persist" /\ Walks(d) /\ Follows(d) /\ Holds(d, file, data)
    BY GoneOK DEF Idle
  <2> HIDE DEF d
  <2>3. UNCHANGED <<Book, disk, ranges, dirty>> /\ failures' \in Nat /\ failures' >= failures
    BY <1>1, <2>1 DEF Book
  <2> QED BY <1>1, <2>1, <2>2, <2>3, StreamGoesOn
<1>3. CASE root
  <2>1. /\ data' = {} /\ synced' = {} /\ root' /\ UNCHANGED <<root, meta, lease>> /\ Opened(r, file')
        /\ (undercut' <=> (undercut \/ file # 0))
        /\ file = 0 => files' = files + 1 /\ file' = files + 1
        /\ file # 0 => UNCHANGED <<files, file>>
    BY <1>3 DEF MakeFile
  <2>2. file' \in Nat \ {0} /\ files' \in Nat /\ file' \in 0..files' /\ undercut' \in BOOLEAN
    <3>1. file \in 0..files /\ files \in Nat
      BY DEF CInv, Stored
    <3>2. file = 0 => file' \in Nat \ {0} /\ files' \in Nat /\ file' \in 0..files'
      BY <2>1, <3>1
    <3>3. file # 0 => file' \in Nat \ {0} /\ files' \in Nat /\ file' \in 0..files'
      BY <2>1, <3>1
    <3>4. undercut' \in BOOLEAN
      BY <1>3 DEF MakeFile
    <3> QED BY <3>2, <3>3, <3>4
  <2>3. PICK d \in Streams : /\ reader' = [reader EXCEPT ![r] = d] /\ Walks(d) /\ Follows(d) /\ d.pc = "segment"
                             /\ d.fd = file' /\ Backed(d.segs, Covers(ranges))
    <3> DEFINE f == file'
    <3>1. f \in Nat \ {0} /\ Opened(r, f)
      BY <2>1, <2>2
    <3> HIDE DEF f
    <3>2. \E d \in Streams : /\ reader' = [reader EXCEPT ![r] = d] /\ Walks(d) /\ Follows(d) /\ d.pc = "segment"
                             /\ d.fd = f /\ Backed(d.segs, Covers(ranges))
      BY <1>1, <3>1, OpenedOK
    <3> QED BY <3>2 DEF f
  <2>4. \A q \in Readers : reader'[q] = IF q = r THEN d ELSE reader[q]
    BY <2>3, StreamFacts
  <2>5. Kept' => Kept /\ file = 0 /\ data = {} /\ ~undercut
    BY <1>1, <2>1 DEF Kept, CInv, Stored
  <2>6. Stored'
    <3>1. reader' \in [Readers -> Streams]
      BY <2>3, StreamFacts
    <3> QED BY <1>1, <2>1, <2>2, <3>1 DEF CInv, Stored
  <2>7. Walking'
    <3>1. \A q \in Readers : Walks(reader'[q])
      BY <2>3, <2>4, StreamFacts
    <3> QED BY <1>1, <3>1 DEF Walking
  <2>8. Alone'
    <3>1. \A q \in Readers : Busy(q)' => Busy(q)
      BY <1>1, <2>4 DEF Busy
    <3> QED BY <1>1, <3>1 DEF Alone, CInv
  <2>9. Covered'
    <3> SUFFICES ASSUME Kept' PROVE Covers(ranges') \subseteq data' /\ \A q \in Readers : Holds(reader'[q], file', data')
      BY <1>1 DEF Covered
    <3>1. Covers(ranges) = {}
      BY <2>5, StreamFacts
    <3>2. Holds(d, file', data')
      <4>1. Backed(d.segs, data')
        BY <2>1, <2>3, <3>1
      <4>2. d.then = "none"
        BY <2>3 DEF Walks, Flushing
      <4> QED BY <2>2, <2>3, <4>1, <4>2 DEF Holds, Wrote
    <3>3. ASSUME NEW q \in Readers, q # r PROVE Holds(reader'[q], file', data')
      <4>1. reader'[q] = reader[q] /\ Holds(reader[q], file, data) /\ Walks(reader[q])
        BY <2>4, <2>5, <3>3, StreamFacts
      <4>2. reader[q].pc \notin Going /\ reader[q].pc # "opening" /\ Backed(reader[q].segs, data')
        BY <2>1, <2>5, <4>1 DEF Holds
      <4>3. ~Wrote(reader[q]) /\ reader[q].pc # "source"
        BY <4>1, <4>2 DEF Walks, Wrote, Going, Flushing
      <4> QED BY <4>1, <4>2, <4>3 DEF Holds
    <3> QED BY <1>1, <2>1, <2>4, <3>1, <3>2, <3>3
  <2>10. Durable'
    <3> SUFFICES ASSUME ~undercut', ~shared' PROVE Covers(meta') \subseteq synced' /\ \A q \in Readers : reader'[q].pc # "persist"
      BY DEF Durable
    <3>1. Kept /\ file = 0 /\ data = {} /\ ~undercut /\ ~shared
      BY <1>1, <2>5 DEF Kept
    <3>2. Covers(meta) \subseteq synced /\ synced = {}
      BY <3>1, StreamFacts DEF CInv, Durable
    <3>3. ASSUME NEW q \in Readers PROVE reader'[q].pc # "persist"
      <4>1. CASE q = r
        BY <2>3, <2>4, <4>1
      <4>2. CASE q # r
        <5>1. Holds(reader[q], file, data)
          BY <3>1, StreamFacts
        <5> QED BY <2>4, <3>1, <4>2, <5>1 DEF Holds, Going, Flushing
      <4> QED BY <4>1, <4>2
    <3> QED BY <2>1, <3>2, <3>3
  <2>11. Delivering'
    <3> SUFFICES ASSUME Kept', failures' = 0, NEW q \in Readers PROVE Follows(reader'[q])
      BY DEF Delivering
    <3> QED BY <1>1, <2>3, <2>4, <2>5, StreamFacts
  <2> QED BY <2>6, <2>7, <2>8, <2>9, <2>10, <2>11 DEF CInv
<1> QED BY <1>2, <1>3

LEMMA NoReaderOK ==
  /\ NoReader \in Streams /\ Walks(NoReader) /\ Follows(NoReader) /\ NoReader.pc = "none"
  /\ \A f, D : Holds(NoReader, f, D)
<1>1. [NoReader EXCEPT !.pc = "none"] = NoReader /\ NoReader.pc = "none"
  BY DEF NoReader
<1> QED BY <1>1, GoneOK DEF Idle

LEMMA OpenOK ==
  ASSUME CInv, NEW r \in Readers, Open(r)
  PROVE  CInv'
<1>1. /\ ~Busy(r) /\ known' = TRUE /\ lease' = "held" /\ shared' = (shared \/ \E q \in Readers \ {r} : Busy(q))
      /\ UNCHANGED <<file, files, data, synced, meta, restarts, failures, undercut>>
      /\ reads \in Nat /\ reads' = reads + 1
  BY DEF Open, CInv, Stored
<1>2. PICK s \in Span : reader' = [reader EXCEPT ![r] = [NoReader EXCEPT !.pc = "new", !.lo = s[1], !.hi = s[2]]]
  BY DEF Open
<1> DEFINE c == [NoReader EXCEPT !.pc = "new", !.lo = s[1], !.hi = s[2]]
<1>4. reader' = [reader EXCEPT ![r] = c]
  BY <1>2
<1> HIDE DEF c
<1>5. s[1] \in Blocks /\ s[2] \in Blocks /\ s[1] <= s[2]
  BY DEF Span
<1>6. c \in Streams /\ c.pc = "new" /\ c.lo = s[1] /\ c.hi = s[2] /\ c.segs = <<>> /\ c.then = "none" /\ c.got = <<>>
  <2> DEFINE x == s[1]
             y == s[2]
  <2>1. x \in Blocks /\ y \in Blocks /\ c = [NoReader EXCEPT !.pc = "new", !.lo = x, !.hi = y]
    BY <1>5 DEF c
  <2> HIDE DEF x, y
  <2>2. NoReader \in Streams /\ NoReader.segs = <<>> /\ NoReader.then = "none" /\ NoReader.got = <<>>
    BY NoReaderOK DEF NoReader
  <2>3. c \in Streams
    BY <2>1, <2>2 DEF Streams, Fresh
  <2>4. c.pc = "new" /\ c.lo = x /\ c.hi = y /\ c.segs = <<>> /\ c.then = "none" /\ c.got = <<>>
    BY <2>1, <2>2 DEF Streams
  <2> QED BY <2>3, <2>4 DEF x, y
<1>7. Walks(c)
  BY <1>5, <1>6 DEF Walks, Fetches, Wrote, Waits, Idle, Fresh, Going, Flushing
<1>8. Follows(c) /\ \A f, D : Holds(c, f, D)
  BY <1>6 DEF Follows, Holds, Wrote, Waits, Going, Flushing, Backed
<1>9. \A q \in Readers : reader'[q] = IF q = r THEN c ELSE reader[q]
  BY <1>4, StreamFacts
<1>10. /\ ranges' = IF known THEN ranges ELSE IF file = 0 THEN <<>> ELSE meta
       /\ dirty' \in BOOLEAN /\ root' \in BOOLEAN /\ (~undercut => root')
  <2>1. CASE known
    BY <2>1 DEF Open, CInv, Stored
  <2>2. CASE ~known
    BY <2>2 DEF Open, CInv, Stored
  <2> QED BY <2>1, <2>2
<1>11. ranges' \in Seq(Span) /\ Pairwise(ranges')
  <2>1. <<>> \in Seq(Span) /\ Pairwise(<<>>)
    BY DEF Pairwise
  <2> QED BY <1>10, <2>1, StreamFacts
<1>12. shared' \in BOOLEAN /\ (~shared' => ~shared /\ \A q \in Readers \ {r} : ~Busy(q))
  BY <1>1 DEF CInv, Stored
<1>13. Kept' => Kept
  BY <1>1, <1>12 DEF Kept
<1>14. Stored'
  <2>1. reader' \in [Readers -> Streams]
    BY <1>4, <1>6, StreamFacts
  <2> QED BY <1>1, <1>10, <1>11, <1>12, <2>1 DEF CInv, Stored
<1>15. Walking'
  <2>1. \A q \in Readers : Walks(reader'[q])
    BY <1>7, <1>9, StreamFacts
  <2> QED BY <1>1, <2>1 DEF Walking
<1>16. Alone'
  <2>1. \A q \in Readers : Busy(q)' => q = r \/ Busy(q)
    BY <1>9 DEF Busy
  <2> QED BY <1>12, <2>1 DEF Alone
<1>17. Covered'
  <2> SUFFICES ASSUME Kept' PROVE Covers(ranges') \subseteq data' /\ \A q \in Readers : Holds(reader'[q], file', data')
    BY <1>1 DEF Covered
  <2>1. Kept
    BY <1>13
  <2>2. Covers(ranges') \subseteq data
    <3>1. CASE known
      BY <1>10, <2>1, <3>1, StreamFacts
    <3>2. CASE ~known
      <4>1. Covers(<<>>) = {}
        BY DEF Covers
      <4> QED BY <1>10, <2>1, <3>2, <4>1 DEF CInv, Covered
    <3> QED BY <3>1, <3>2
  <2>3. \A q \in Readers : Holds(reader'[q], file, data)
    BY <1>8, <1>9, <2>1, StreamFacts
  <2> QED BY <1>1, <2>2, <2>3
<1>18. Durable'
  <2> SUFFICES ASSUME ~undercut', ~shared' PROVE Covers(meta') \subseteq synced' /\ \A q \in Readers : reader'[q].pc # "persist"
    BY DEF Durable
  <2>1. ~undercut /\ ~shared
    BY <1>1, <1>12
  <2>2. ASSUME NEW q \in Readers PROVE reader'[q].pc # "persist"
    <3>1. CASE q = r
      BY <1>6, <1>9, <3>1
    <3>2. CASE q # r
      <4>1. ~Busy(q) /\ reader'[q] = reader[q]
        BY <1>9, <1>12, <3>2
      <4> QED BY <4>1 DEF Busy
    <3> QED BY <3>1, <3>2
  <2> QED BY <1>1, <2>1, <2>2 DEF CInv, Durable
<1>19. Delivering'
  <2> SUFFICES ASSUME Kept', failures' = 0, NEW q \in Readers PROVE Follows(reader'[q])
    BY DEF Delivering
  <2> QED BY <1>1, <1>8, <1>9, <1>13, StreamFacts
<1> QED BY <1>14, <1>15, <1>16, <1>17, <1>18, <1>19 DEF CInv

LEMMA OpenOtherOK ==
  ASSUME CInv, OpenOther
  PROVE  CInv'
<1>1. /\ root' = TRUE /\ reads' = reads + 1
      /\ UNCHANGED <<file, files, data, synced, meta, known, ranges, dirty, lease, reader, restarts, failures, undercut, shared>>
  BY DEF OpenOther
<1>2. Stored'
  <2>1. reads' \in Nat
    BY <1>1 DEF CInv, Stored
  <2> QED BY <1>1, <2>1 DEF CInv, Stored
<1>3. Walking' /\ Alone'
  BY <1>1 DEF CInv, Walking, Alone, Busy
<1>4. Covered' /\ Durable' /\ Delivering'
  BY <1>1 DEF CInv, Covered, Durable, Delivering, Kept
<1> QED BY <1>2, <1>3, <1>4 DEF CInv

LEMMA RemoveCacheOK ==
  ASSUME CInv, RemoveCache
  PROVE  CInv'
<1>1. /\ root' = FALSE /\ file' = 0 /\ data' = {} /\ synced' = {} /\ meta' = <<>> /\ lease' = "none"
      /\ undercut' = (undercut \/ known)
      /\ UNCHANGED <<files, known, ranges, dirty, reader, reads, restarts, failures, shared>>
  BY DEF RemoveCache, counts
<1>2. ~undercut' => ~undercut /\ ~known /\ ranges = <<>> /\ \A q \in Readers : ~Busy(q)
  <2> SUFFICES ASSUME ~undercut' PROVE ~undercut /\ ~known /\ ranges = <<>> /\ \A q \in Readers : ~Busy(q)
    OBVIOUS
  <2>1. ~undercut /\ ~known
    BY <1>1
  <2> QED BY <2>1, StreamFacts DEF CInv, Stored
<1>3. Stored'
  <2>1. <<>> \in Seq(Span) /\ Pairwise(<<>>)
    BY DEF Pairwise
  <2>2. undercut' \in BOOLEAN /\ file' \in 0..files'
    BY <1>1 DEF CInv, Stored
  <2> QED BY <1>1, <1>2, <2>1, <2>2 DEF CInv, Stored
<1>4. Walking' /\ Alone'
  BY <1>1 DEF CInv, Walking, Alone, Busy
<1>5. Covers(<<>>) = {}
  BY DEF Covers
<1>6. Covered'
  <2> SUFFICES ASSUME Kept' PROVE Covers(ranges') \subseteq data' /\ Covers(meta') \subseteq data'
                                 /\ \A q \in Readers : Holds(reader'[q], file', data')
    BY DEF Covered
  <2>1. ~undercut'
    BY DEF Kept
  <2>2. \A q \in Readers : Holds(reader[q], file', data')
    BY <1>2, <2>1, IdleFacts
  <2> QED BY <1>1, <1>2, <1>5, <2>1, <2>2
<1>7. Durable'
  <2> SUFFICES ASSUME ~undercut' PROVE Covers(meta') \subseteq synced' /\ \A q \in Readers : reader'[q].pc # "persist"
    BY DEF Durable
  <2> QED BY <1>1, <1>2, <1>5 DEF Busy
<1>8. Delivering'
  <2>1. Kept' => Kept
    BY <1>1, <1>2 DEF Kept
  <2> QED BY <1>1, <2>1 DEF CInv, Delivering
<1> QED BY <1>3, <1>4, <1>6, <1>7, <1>8 DEF CInv

LEMMA RestartReadersOK ==
  ASSUME CInv, RestartReaders
  PROVE  CInv'
<1>1. /\ known' = FALSE /\ ranges' = <<>> /\ dirty' = FALSE /\ lease' = "none"
      /\ reader' = [r \in Readers |-> NoReader] /\ restarts' = restarts + 1
      /\ UNCHANGED <<root, file, files, meta, reads, failures, undercut, shared>>
  BY DEF RestartReaders
<1>2. PICK lost \in SUBSET (data \ synced) : data' = data \ lost /\ synced' = (synced \cap data) \ lost
  BY DEF RestartReaders
<1>3. synced' = synced /\ synced' \in SUBSET data' /\ data' \in SUBSET Blocks /\ (data = {} => data' = {})
  <2>1. synced \in SUBSET data /\ data \in SUBSET Blocks
    BY DEF CInv, Stored
  <2> QED BY <1>2, <2>1
<1>4. restarts \in Nat /\ restarts' \in Nat /\ restarts' # 0
  BY <1>1 DEF CInv, Stored
<1>5. Covers(<<>>) = {} /\ Pairwise(<<>>) /\ <<>> \in Seq(Span)
  BY DEF Covers, Pairwise
<1>6. \A r \in Readers : reader'[r] = NoReader
  BY <1>1
<1>7. Stored'
  <2>1. reader' \in [Readers -> Streams]
    BY <1>1, NoReaderOK
  <2> QED BY <1>1, <1>3, <1>4, <1>5, <2>1 DEF CInv, Stored
<1>8. \A q \in Readers : ~Busy(q)'
  BY <1>6, NoReaderOK DEF Busy
<1>9. Walking' /\ Alone'
  BY <1>6, <1>8, NoReaderOK DEF Walking, Alone
<1>10. ~undercut' /\ ~shared' => Covers(meta') \subseteq synced'
  BY <1>1, <1>3 DEF CInv, Durable
<1>11. Covered'
  <2>1. Kept' => ~undercut' /\ ~shared'
    BY <1>4 DEF Kept
  <2> SUFFICES ASSUME Kept' PROVE Covers(ranges') \subseteq data' /\ Covers(meta') \subseteq data'
                                 /\ \A q \in Readers : Holds(reader'[q], file', data')
    BY DEF Covered
  <2> QED BY <1>1, <1>3, <1>5, <1>6, <1>10, <2>1, NoReaderOK
<1>12. Durable'
  BY <1>6, <1>10, NoReaderOK DEF Durable
<1>13. Delivering'
  BY <1>6, NoReaderOK DEF Delivering
<1> QED BY <1>7, <1>9, <1>11, <1>12, <1>13 DEF CInv

-----------------------------------------------------------------------------
LEMMA CacheStarts == RInit => CInv
<1> SUFFICES ASSUME RInit PROVE CInv
  OBVIOUS
<1> USE DEF RInit
<1>1. Covers(<<>>) = {} /\ Pairwise(<<>>) /\ <<>> \in Seq(Span)
  BY DEF Covers, Pairwise
<1>2. reader \in [Readers -> Streams] /\ \A q \in Readers : reader[q] = NoReader /\ ~Busy(q)
  BY NoReaderOK DEF Busy
<1>3. Stored
  <2>1. 0 \in Nat /\ 0 \in 0..0 /\ {} \in SUBSET Blocks /\ {} \in SUBSET {}
    OBVIOUS
  <2>2. /\ root \in BOOLEAN /\ known \in BOOLEAN /\ dirty \in BOOLEAN /\ undercut \in BOOLEAN /\ shared \in BOOLEAN
        /\ ~known
    OBVIOUS
  <2> QED BY <1>1, <1>2, <2>1, <2>2 DEF Stored
<1>4. Walking /\ Alone
  BY <1>2, NoReaderOK DEF Walking, Alone
<1>5. Covered /\ Durable
  BY <1>1, <1>2, NoReaderOK DEF Covered, Durable
<1>6. Delivering
  BY <1>2, NoReaderOK DEF Delivering
<1> QED BY <1>3, <1>4, <1>5, <1>6 DEF CInv

LEMMA CacheStutters ==
  ASSUME CInv, UNCHANGED rvars
  PROVE  CInv'
<1>1. UNCHANGED <<root, file, files, data, synced, meta, known, ranges, dirty, lease, reader, reads, restarts,
                  failures, undercut, shared>>
  BY DEF rvars
<1>2. Stored'
  BY <1>1 DEF CInv, Stored
<1>3. Walking' /\ Alone'
  BY <1>1 DEF CInv, Walking, Alone, Busy
<1>4. Covered' /\ Durable' /\ Delivering'
  BY <1>1 DEF CInv, Covered, Durable, Delivering, Kept
<1> QED BY <1>2, <1>3, <1>4 DEF CInv

(* Every step of the range cache keeps its invariant: a stream is where its *)
(* segments say, what it takes for cached is in the data file, and what has *)
(* been synced has what the metadata names (sftp-range-cache.ts).           *)
THEOREM CacheInvariant == RSpec => []CInv
<1>1. RInit => CInv
  BY CacheStarts
<1>2. CInv /\ [RNext]_rvars => CInv'
  <2> SUFFICES ASSUME CInv, [RNext]_rvars PROVE CInv'
    OBVIOUS
  <2>1. CASE OpenOther
    BY <2>1, OpenOtherOK
  <2>2. CASE RemoveCache
    BY <2>2, RemoveCacheOK
  <2>3. CASE RestartReaders
    BY <2>3, RestartReadersOK
  <2>4. ASSUME NEW r \in Readers, Open(r) PROVE CInv'
    BY <2>4, OpenOK
  <2>5. ASSUME NEW r \in Readers, Abandon(r) PROVE CInv'
    BY <2>5, AbandonOK
  <2>6. ASSUME NEW r \in Readers, Read(r) PROVE CInv'
    <3>1. CASE Probe(r)
      BY <3>1, ProbeOK
    <3>2. CASE MakeFile(r)
      BY <3>2, MakeFileOK
    <3>3. CASE OpenFile(r)
      BY <3>3, OpenFileOK
    <3>4. CASE ReadCached(r)
      BY <3>4, ReadCachedOK
    <3>5. CASE BeginFetch(r)
      BY <3>5, BeginFetchOK
    <3>6. CASE EndOfSegments(r)
      BY <3>6, EndOfSegmentsOK
    <3>7. CASE WriteChunk(r)
      BY <3>7, WriteChunkOK
    <3>8. CASE RecordChunk(r)
      BY <3>8, RecordChunkOK
    <3>9. CASE SourceFails(r)
      BY <3>9, SourceFailsOK
    <3>10. CASE Sync(r)
      BY <3>10, SyncOK
    <3>11. CASE NothingToFlush(r)
      BY <3>11, NothingToFlushOK
    <3>12. CASE Persist(r)
      BY <3>12, PersistOK
    <3>13. CASE PersistFails(r)
      BY <3>13, PersistFailsOK
    <3> QED BY <2>6, <3>1, <3>2, <3>3, <3>4, <3>5, <3>6, <3>7, <3>8, <3>9, <3>10, <3>11, <3>12, <3>13 DEF Read
  <2>7. CASE UNCHANGED rvars
    BY <2>7, CacheStutters
  <2> QED BY <2>1, <2>2, <2>3, <2>4, <2>5, <2>6, <2>7 DEF RNext
<1> QED BY <1>1, <1>2, PTL DEF RSpec

(* Whatever the metadata calls cached survives a loss of power, however the *)
(* source and the writes of the metadata fail, as long as one stream at a   *)
(* time is open and the file is not removed under the process.              *)
THEOREM MetadataStaysSynced == RSpec => []MetadataIsSynced
<1>1. CInv => MetadataIsSynced
  BY DEF CInv, Durable, MetadataIsSynced
<1> QED BY <1>1, CacheInvariant, PTL

(* What memory calls cached is in the data file, in whatever order streams  *)
(* of the file write, record and flush.                                     *)
THEOREM RangesAreOnDisk == RSpec => []MemoryIsOnDisk
<1>1. CInv => MemoryIsOnDisk
  BY DEF CInv, Covered, MemoryIsOnDisk
<1> QED BY <1>1, CacheInvariant, PTL

(* The list of ranges stays ascending, without overlap, and joined wherever *)
(* two touch, for every order in which chunks of concurrent streams come.   *)
THEOREM RangesStayApart == RSpec => []RangesApart
<1>1. CInv => RangesApart
  <2> SUFFICES ASSUME CInv, NEW i \in 1..(Len(ranges) - 1) PROVE ranges[i][2] + 1 < ranges[i + 1][1]
    BY DEF RangesApart
  <2>1. ranges \in Seq(Span) /\ Pairwise(ranges)
    BY DEF CInv, Stored
  <2>2. i \in DOMAIN ranges /\ i + 1 \in DOMAIN ranges /\ i < i + 1
    BY <2>1
  <2> QED BY <2>1, <2>2 DEF Pairwise
<1> QED BY <1>1, CacheInvariant, PTL

(* A stream delivers the blocks asked for, in order and each once, whatever *)
(* was cached, whoever streams the file with it and however often the       *)
(* source fails, while the metadata can be written: a chunk whose flush     *)
(* fails is recorded but never delivered, for the retry begins behind it.   *)
THEOREM StreamsDeliverTheSource == RSpec => [](failures = 0 => DeliversUntilUndercut)
<1>1. CInv => (failures = 0 => DeliversUntilUndercut)
  <2> SUFFICES ASSUME CInv, failures = 0, Kept, NEW r \in Readers PROVE Delivers(r)
    BY DEF DeliversUntilUndercut, DeliversSource, Kept
  <2> DEFINE d == reader[r]
  <2>1. Follows(d) /\ d \in Streams
    BY StreamFacts
  <2>2. d.lo \in Nat /\ d.hi \in Nat /\ Len(d.got) \in Nat
    BY <2>1, StreamIs
  <2>3. d.then = "done" => d.lo + Len(d.got) = d.hi + 1
    BY <2>1 DEF Follows, Place
  <2>4. d.then = "done" => Len(d.got) = d.hi - d.lo + 1
    <3> DEFINE x == d.lo
               y == d.hi
               z == Len(d.got)
    <3>1. x \in Nat /\ y \in Nat /\ z \in Nat /\ (d.then = "done" => x + z = y + 1)
      BY <2>2, <2>3
    <3> HIDE DEF x, y, z
    <3>2. d.then = "done" => z = y - x + 1
      BY <3>1
    <3> QED BY <3>2 DEF x, y, z
  <2> QED BY <2>1, <2>4 DEF Follows, Delivers
<1> QED BY <1>1, CacheInvariant, PTL
=============================================================================
