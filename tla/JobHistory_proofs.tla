-------------------------- MODULE JobHistory_proofs --------------------------
(***************************************************************************)
(* Proofs about the job history, for any number of jobs of any types and   *)
(* any bound on the history.                                               *)
(***************************************************************************)
EXTENDS JobHistory, FiniteSetTheorems, TLAPS

(* A process whose memory holds a job has read the history. *)
MemoryIsLoaded == ~loaded => \A j \in Jobs : mem[j] = "absent"

(* Jobs to come have neither an entry nor a record. *)
FutureIsBlank ==
  next \in Nat /\ \A j \in Jobs : j >= next => mem[j] = "absent" /\ hist[j] = "absent"

HInv ==
  /\ mem \in [Jobs -> Statuses] /\ hist \in [Jobs -> Statuses]
  /\ MemoryIsLoaded
  /\ FutureIsBlank
  /\ RecordIsCurrent

-----------------------------------------------------------------------------
(* What a write leaves of a record. *)

LEMMA RecordsKeepOrDrop ==
  ASSUME NEW r \in [Jobs -> Statuses]
  PROVE  /\ Records(r) \in [Jobs -> Statuses]
         /\ \A j \in Jobs : Records(r)[j] \in {r[j], "absent"}
BY DEF Records, Statuses

LEMMA MergedType ==
  ASSUME HInv, NEW m \in [Jobs -> Statuses]
  PROVE  /\ Merged(m) \in [Jobs -> Statuses]
         /\ \A j \in Jobs : Merged(m)[j] = IF m[j] # "absent" THEN m[j] ELSE hist[j]
BY DEF HInv, Merged

LEMMA PersistEffect ==
  ASSUME HInv, NEW m \in [Jobs -> Statuses], NEW f, Persist(f, m)
  PROVE  /\ mem' = m
         /\ hist' \in [Jobs -> Statuses]
         /\ \A j \in Jobs :
              hist'[j] \in {IF m[j] # "absent" THEN m[j] ELSE hist[j], "absent"}
<1>1. Merged(m) \in [Jobs -> Statuses]
  BY MergedType
<1>2. mem' = m /\ hist' = Records(Merged(m))
  BY DEF Persist, Store
<1> QED BY <1>1, <1>2, RecordsKeepOrDrop, MergedType

LEMMA JobsAreNumbers == \A j \in Jobs : j \in Nat
BY DEF Jobs

LEMMA BecomesType ==
  ASSUME HInv, NEW j \in Jobs, NEW s \in Statuses
  PROVE  /\ Becomes(j, s) \in [Jobs -> Statuses]
         /\ \A i \in Jobs : Becomes(j, s)[i] = IF i = j THEN s ELSE mem[i]
BY DEF HInv, Becomes

(* The actions that give one job a new status and store it. *)
Moves(j, s) ==
  /\ \E f : Persist(f, Becomes(j, s))
  /\ loaded' = loaded
  /\ loaded \/ mem[j] # "absent"
  /\ next' \in Nat /\ next' >= next /\ j < next'

LEMMA MovesEffect ==
  ASSUME HInv, NEW j \in Jobs, NEW s \in Statuses, Moves(j, s)
  PROVE  /\ loaded /\ loaded'
         /\ mem' \in [Jobs -> Statuses] /\ hist' \in [Jobs -> Statuses]
         /\ \A i \in Jobs : mem'[i] = IF i = j THEN s ELSE mem[i]
         /\ \A i \in Jobs : hist'[i] \in {IF mem'[i] # "absent" THEN mem'[i] ELSE hist[i], "absent"}
<1>1. PICK f : Persist(f, Becomes(j, s))
  BY DEF Moves
<1>2. loaded
  BY DEF Moves, HInv, MemoryIsLoaded
<1> DEFINE m == Becomes(j, s)
<1>3. m \in [Jobs -> Statuses] /\ \A i \in Jobs : m[i] = IF i = j THEN s ELSE mem[i]
  BY BecomesType
<1> HIDE DEF m
<1>4. /\ mem' = m /\ hist' \in [Jobs -> Statuses]
      /\ \A i \in Jobs : hist'[i] \in {IF m[i] # "absent" THEN m[i] ELSE hist[i], "absent"}
  BY <1>1, <1>3, PersistEffect DEF m
<1> QED BY <1>2, <1>3, <1>4 DEF Moves

LEMMA MovesKeepInv ==
  ASSUME HInv, NEW j \in Jobs, NEW s \in Statuses, Moves(j, s)
  PROVE  HInv'
<1>1. FutureIsBlank'
  <2> SUFFICES ASSUME NEW i \in Jobs, i >= next' PROVE mem'[i] = "absent" /\ hist'[i] = "absent"
    BY DEF FutureIsBlank, Moves
  <2>1. i # j /\ i >= next
    BY JobsAreNumbers DEF Moves, HInv, FutureIsBlank
  <2> QED BY <2>1, MovesEffect DEF HInv, FutureIsBlank
<1>2. MemoryIsLoaded' /\ RecordIsCurrent'
  BY MovesEffect DEF MemoryIsLoaded, RecordIsCurrent
<1> QED BY <1>1, <1>2, MovesEffect DEF HInv

LEMMA LifeMoves ==
  ASSUME HInv, NEW j \in Jobs
  PROVE  /\ Submit(j) => Moves(j, "pending")
         /\ Start(j) => Moves(j, "running")
         /\ PauseSftpJob(j) => Moves(j, "paused")
         /\ FinishDone(j) => Moves(j, "done")
         /\ FinishFailed(j) => Moves(j, "failed")
         /\ CancelSftpJob(j) => Moves(j, "cancelled")
         /\ ResumeJob(j) \/ ResumeRecord(j) => Moves(j, "pending")
<1> USE JobsAreNumbers DEF HInv, FutureIsBlank
<1>1. Submit(j) => Moves(j, "pending")
  BY DEF Submit, Moves
<1>2. Start(j) => Moves(j, "running")
  BY DEF Start, Moves
<1>3. PauseSftpJob(j) => Moves(j, "paused")
  BY DEF PauseSftpJob, Moves
<1>4. FinishDone(j) => Moves(j, "done")
  BY DEF FinishDone, Moves
<1>5. FinishFailed(j) => Moves(j, "failed")
  BY DEF FinishFailed, Moves
<1>6. CancelSftpJob(j) => Moves(j, "cancelled")
  BY DEF CancelSftpJob, Active, Moves
<1>7. ResumeJob(j) => Moves(j, "pending")
  BY DEF ResumeJob, MayResume, Moves
<1>8. ASSUME ResumeRecord(j) PROVE Moves(j, "pending")
  <2>1. loaded /\ loaded' = loaded /\ next' = next /\ hist[j] # "absent"
    BY <1>8 DEF ResumeRecord
  <2>2. \E f : Persist(f, Becomes(j, "pending"))
    BY <1>8 DEF ResumeRecord
  <2>3. j < next
    BY <2>1
  <2> QED BY <2>1, <2>2, <2>3 DEF Moves
<1> QED BY <1>1, <1>2, <1>3, <1>4, <1>5, <1>6, <1>7, <1>8

-----------------------------------------------------------------------------
(* The other actions, by what they do to memory and history. *)

(* Nothing in memory changes but some jobs leave it; records keep their     *)
(* status or are dropped.                                                    *)
Forgets ==
  /\ mem' \in [Jobs -> Statuses] /\ hist' \in [Jobs -> Statuses]
  /\ loaded /\ loaded' /\ next' = next
  /\ \A j \in Jobs : mem'[j] \in {mem[j], "absent"}
  /\ \A j \in Jobs : hist'[j] \in {Merged(mem)[j], "absent"}

LEMMA ForgetsKeepsInv ==
  ASSUME HInv, Forgets
  PROVE  HInv'
BY DEF HInv, Forgets, MemoryIsLoaded, FutureIsBlank, RecordIsCurrent, Merged

LEMMA DeleteForgets ==
  ASSUME HInv, NEW j \in Jobs, DeleteSftpJob(j)
  PROVE  Forgets
<1> DEFINE r == [hist EXCEPT ![j] = "absent"]
<1>1. r \in [Jobs -> Statuses] /\ \A i \in Jobs : r[i] \in {hist[i], "absent"}
  BY DEF HInv, Statuses
<1>2. mem' = Becomes(j, "absent") /\ hist' = Records(r)
  BY DEF DeleteSftpJob, Store
<1> HIDE DEF r
<1>3. hist' \in [Jobs -> Statuses] /\ \A i \in Jobs : hist'[i] \in {hist[i], "absent"}
  BY <1>1, <1>2, RecordsKeepOrDrop
<1>4. \A i \in Jobs : hist[i] \in {Merged(mem)[i], "absent"}
  BY DEF HInv, RecordIsCurrent, Merged
<1>5. "absent" \in Statuses
  BY DEF Statuses
<1>6. mem' \in [Jobs -> Statuses] /\ \A i \in Jobs : mem'[i] \in {mem[i], "absent"}
  BY <1>2, <1>5, BecomesType
<1> QED BY <1>3, <1>4, <1>6 DEF Forgets, DeleteSftpJob, MayDelete

LEMMA ClearFinishedForgets ==
  ASSUME HInv, ClearFinishedSftpJobs
  PROVE  Forgets
<1> DEFINE m == [j \in Jobs |-> IF mem[j] \in Finished THEN "absent" ELSE mem[j]]
           h == [j \in Jobs |-> IF hist[j] \in Finished THEN "absent" ELSE hist[j]]
           r == [j \in Jobs |-> IF m[j] # "absent" THEN m[j] ELSE h[j]]
<1>1. m \in [Jobs -> Statuses] /\ \A j \in Jobs : m[j] \in {mem[j], "absent"}
  BY DEF HInv, Statuses
<1>2. \A j \in Jobs : r[j] \in {Merged(mem)[j], "absent"}
  BY DEF HInv, RecordIsCurrent, Merged
<1>3. r \in [Jobs -> Statuses]
  BY DEF HInv, Statuses
<1>4. mem' = m /\ hist' = Records(r) /\ loaded /\ loaded' = loaded /\ next' = next
  BY DEF ClearFinishedSftpJobs, Store
<1> HIDE DEF m, r
<1> QED BY <1>1, <1>2, <1>3, <1>4, RecordsKeepOrDrop DEF Forgets

LEMMA PersistMemoryForgets ==
  ASSUME HInv, loaded, loaded' = loaded, next' = next, mem' = mem, hist' = Records(Merged(mem))
  PROVE  Forgets
<1>1. mem \in [Jobs -> Statuses] /\ Merged(mem) \in [Jobs -> Statuses]
  BY MergedType DEF HInv
<1> QED BY <1>1, RecordsKeepOrDrop DEF Forgets

LEMMA MarkDeliveredForgets ==
  ASSUME HInv, NEW j \in Jobs, MarkDelivered(j)
  PROVE  Forgets
<1>1. CASE mem[j] # "absent"
  BY <1>1, PersistMemoryForgets DEF MarkDelivered, Persist, Store
<1>2. CASE mem[j] = "absent"
  <2>1. mem' = mem /\ hist' = Records(hist) /\ loaded /\ loaded' = loaded /\ next' = next
    BY <1>2 DEF MarkDelivered, Store
  <2>2. \A i \in Jobs : hist[i] \in {Merged(mem)[i], "absent"}
    BY DEF HInv, RecordIsCurrent, Merged
  <2> QED BY <2>1, <2>2, RecordsKeepOrDrop DEF Forgets, HInv
<1> QED BY <1>1, <1>2

LEMMA ClearCacheForgets ==
  ASSUME HInv, ClearSftpCache
  PROVE  Forgets
BY PersistMemoryForgets DEF ClearSftpCache

-----------------------------------------------------------------------------
LEMMA HInitInv == HInit => HInv
BY DEF HInit, HInv, Statuses, Active, MemoryIsLoaded, FutureIsBlank, RecordIsCurrent, Jobs

LEMMA HNextInv ==
  ASSUME HInv, [HNext]_hvars
  PROVE  HInv'
<1> USE DEF Statuses, Active
<1>1. ASSUME NEW j \in Jobs,
             \/ Submit(j) \/ Start(j) \/ PauseSftpJob(j) \/ FinishDone(j) \/ FinishFailed(j)
             \/ CancelSftpJob(j) \/ ResumeJob(j) \/ ResumeRecord(j)
      PROVE  HInv'
  <2>1. PICK s \in Statuses : Moves(j, s)
    BY <1>1, LifeMoves
  <2> QED BY <2>1, MovesKeepInv
<1>2. ASSUME NEW j \in Jobs, DeleteSftpJob(j) \/ MarkDelivered(j) PROVE HInv'
  BY <1>2, DeleteForgets, MarkDeliveredForgets, ForgetsKeepsInv
<1>3. CASE ClearFinishedSftpJobs \/ ClearSftpCache
  BY <1>3, ClearFinishedForgets, ClearCacheForgets, ForgetsKeepsInv
<1>4. CASE HourlyTimer \/ (\E j \in Jobs : Open(j)) \/ UNCHANGED hvars
  BY <1>4 DEF HourlyTimer, Open, hvars, HInv, MemoryIsLoaded, FutureIsBlank, RecordIsCurrent
<1>5. CASE ReadHistory
  BY <1>5 DEF ReadHistory, HInv, MemoryIsLoaded, FutureIsBlank, RecordIsCurrent
<1>6. CASE Restart
  BY <1>6 DEF Restart, HInv, MemoryIsLoaded, FutureIsBlank, RecordIsCurrent
<1> QED BY <1>1, <1>2, <1>3, <1>4, <1>5, <1>6 DEF HNext

(* Every reachable state of the history. *)
THEOREM HistoryInvariant == HSafety => []HInv
<1>1. HInit => HInv
  BY HInitInv
<1>2. HInv /\ [HNext]_hvars => HInv'
  BY HNextInv
<1> QED BY <1>1, <1>2, PTL DEF HSafety

(* The file and the memory of the process never disagree about a status. *)
THEOREM RecordsAreCurrent == HSafety => []RecordIsCurrent
<1>1. HInv => RecordIsCurrent
  BY DEF HInv
<1> QED BY <1>1, HistoryInvariant, PTL

-----------------------------------------------------------------------------
(* What is finished stays finished, but for the records that are resumed.   *)
KeepsFinished ==
  \A j \in Jobs : Shown(j) \in Finished =>
    Shown(j)' \in {Shown(j), "absent"} \/ (mem[j] = "absent" /\ mem'[j] = "pending")

LEMMA MovesKeepFinished ==
  ASSUME HInv, NEW j \in Jobs, NEW s \in Statuses, Moves(j, s),
         Shown(j) \in Finished => s = "pending" /\ mem[j] = "absent"
  PROVE  KeepsFinished
<1> SUFFICES ASSUME NEW i \in Jobs, Shown(i) \in Finished
             PROVE  Shown(i)' \in {Shown(i), "absent"} \/ (mem[i] = "absent" /\ mem'[i] = "pending")
  BY DEF KeepsFinished
<1>1. CASE i = j
  BY <1>1, MovesEffect
<1>2. CASE i # j
  BY <1>2, MovesEffect DEF Shown
<1> QED BY <1>1, <1>2

LEMMA FreshIsBlank ==
  ASSUME HInv, NEW j \in Jobs, j = next
  PROVE  mem[j] = "absent" /\ hist[j] = "absent"
<1>1. next \in Nat
  BY DEF HInv, FutureIsBlank
<1>2. next >= next
  BY <1>1
<1> QED BY <1>2 DEF HInv, FutureIsBlank

LEMMA LifeKeepsFinished ==
  ASSUME HInv, NEW j \in Jobs,
         \/ Submit(j) \/ Start(j) \/ PauseSftpJob(j) \/ FinishDone(j) \/ FinishFailed(j)
         \/ CancelSftpJob(j) \/ ResumeJob(j) \/ ResumeRecord(j)
  PROVE  KeepsFinished
<1>1. ASSUME ~ResumeRecord(j) PROVE Shown(j) \notin Finished
  <2>1. ASSUME Submit(j) PROVE Shown(j) = "absent"
    <3>1. j = next
      BY <2>1 DEF Submit
    <3> QED BY <3>1, FreshIsBlank DEF Shown
  <2>2. \/ Start(j) \/ PauseSftpJob(j) \/ FinishDone(j) \/ FinishFailed(j)
        \/ CancelSftpJob(j) \/ ResumeJob(j)
        => Shown(j) \in Active \cup {"failed"}
    BY DEF Start, PauseSftpJob, FinishDone, FinishFailed, CancelSftpJob, ResumeJob, MayResume,
           Shown, Active
  <2> QED BY <1>1, <2>1, <2>2 DEF Active, Finished
<1>2. CASE ResumeRecord(j)
  <2>1. Moves(j, "pending") /\ mem[j] = "absent"
    BY <1>2, LifeMoves DEF ResumeRecord
  <2> QED BY <2>1, MovesKeepFinished DEF Statuses, Active
<1>3. CASE ~ResumeRecord(j)
  <2>1. PICK s \in Statuses : Moves(j, s)
    BY LifeMoves DEF Statuses, Active
  <2> QED BY <1>1, <1>3, <2>1, MovesKeepFinished
<1> QED BY <1>2, <1>3

LEMMA StepKeepsFinished ==
  ASSUME HInv, [HNext]_hvars
  PROVE  KeepsFinished
<1>1. ASSUME Forgets PROVE KeepsFinished
  BY <1>1 DEF Forgets, KeepsFinished, Shown, Merged, HInv, RecordIsCurrent
<1>2. ASSUME NEW j \in Jobs,
             \/ Submit(j) \/ Start(j) \/ PauseSftpJob(j) \/ FinishDone(j) \/ FinishFailed(j)
             \/ CancelSftpJob(j) \/ ResumeJob(j) \/ ResumeRecord(j)
      PROVE  KeepsFinished
  BY <1>2, LifeKeepsFinished
<1>3. ASSUME NEW j \in Jobs, DeleteSftpJob(j) \/ MarkDelivered(j) PROVE KeepsFinished
  BY <1>1, <1>3, DeleteForgets, MarkDeliveredForgets
<1>4. CASE ClearFinishedSftpJobs \/ ClearSftpCache
  BY <1>1, <1>4, ClearFinishedForgets, ClearCacheForgets
<1>5. CASE HourlyTimer \/ (\E j \in Jobs : Open(j)) \/ UNCHANGED hvars
  BY <1>5 DEF HourlyTimer, Open, hvars, KeepsFinished, Shown
<1>6. CASE ReadHistory
  BY <1>6 DEF ReadHistory, KeepsFinished, Shown, HInv, Finished, Active
<1>7. CASE Restart
  BY <1>7 DEF Restart, KeepsFinished, Shown, HInv, RecordIsCurrent
<1> QED BY <1>2, <1>3, <1>4, <1>5, <1>6, <1>7 DEF HNext

(* What is done or cancelled stays so until it is deleted or, after a       *)
(* restart, its record is resumed; for any number of jobs, types and history *)
(* bound.                                                                    *)
THEOREM FinishedIsFinal == HSafety => FinishedStaysFinished
<1>1. HInv /\ [HNext]_hvars => [KeepsFinished]_hvars
  BY StepKeepsFinished
<1> QED BY <1>1, HistoryInvariant, PTL DEF HSafety, FinishedStaysFinished, KeepsFinished
-----------------------------------------------------------------------------
(* The bound on the history. *)

(* A set of numbers has a least element. *)
LEMMA LeastNumber ==
  ASSUME NEW S, S \subseteq Nat, S # {}
  PROVE  \E x \in S : \A y \in S : x <= y
<1> DEFINE R == OpToRel(<, Nat)
<1>1. IsWellFoundedOn(R, Nat)
  BY NatLessThanWellFounded
<1>2. \A x, y \in Nat : y < x => <<y, x>> \in R
  BY DEF OpToRel
<1> HIDE DEF R
<1>3. \E x \in S : \A y \in S : <<y, x>> \notin R
  BY <1>1, WFMin
<1>4. \A x, y \in Nat : ~(y < x) => x <= y
  OBVIOUS
<1> QED BY <1>2, <1>3, <1>4

(* The records of the jobs after j. *)
Later(r, j) == {i \in Jobs : i > j /\ r[i] # "absent"}

LEMMA JobsAreFinite == \A S : S \subseteq Jobs => IsFiniteSet(S) /\ Cardinality(S) \in Nat
<1>1. IsFiniteSet(Jobs)
  BY HistoryAssumption, FS_Interval DEF Jobs
<1> QED BY <1>1, FS_Subset, FS_CardinalityType

LEMMA NewestIs ==
  ASSUME NEW r
  PROVE  \A j \in Jobs : j \in Newest(r) <=> r[j] # "absent" /\ Cardinality(Later(r, j)) < MaxHistory
BY DEF Newest, Later

LEMMA LastOfSet ==
  ASSUME NEW S, S \subseteq Jobs, S # {}
  PROVE  \E x \in S : \A y \in S : y <= x
<1> DEFINE T == {LastJob - x : x \in S}
<1>1. T \subseteq Nat /\ T # {}
  BY HistoryAssumption DEF Jobs
<1>2. PICK t \in T : \A u \in T : t <= u
  BY <1>1, LeastNumber
<1>3. PICK x \in S : t = LastJob - x
  BY <1>2
<1>4. \A y \in S : t <= LastJob - y
  BY <1>2
<1>5. \A y \in S : y <= x
  BY <1>3, <1>4, HistoryAssumption DEF Jobs
<1> QED BY <1>5

(* slice(0, MAX_HISTORY) leaves at most MAX_HISTORY records ... *)
LEMMA NewestAreFew ==
  ASSUME NEW r
  PROVE  Cardinality(Newest(r)) <= MaxHistory
<1> DEFINE N == Newest(r)
<1>0. N \subseteq Jobs /\ N \subseteq Nat
  BY DEF Newest, Jobs
<1>1. CASE N = {}
  BY <1>1, FS_EmptySet, HistoryAssumption
<1>2. CASE N # {}
  <2>1. PICK d \in N : \A y \in N : d <= y
    BY <1>0, <1>2, LeastNumber
  <2>2. N \subseteq Later(r, d) \cup {d}
    BY <1>0, <2>1 DEF Newest, Later
  <2>3. Later(r, d) \subseteq Jobs
    BY DEF Later
  <2>4. /\ IsFiniteSet(Later(r, d)) /\ Cardinality(Later(r, d)) \in Nat
        /\ Cardinality(Later(r, d)) < MaxHistory
    BY <1>0, <2>1, <2>3, JobsAreFinite, NewestIs
  <2>5. /\ IsFiniteSet(Later(r, d) \cup {d})
        /\ Cardinality(Later(r, d) \cup {d}) <= Cardinality(Later(r, d)) + 1
    <3> DEFINE L == Later(r, d)
    <3>1. IsFiniteSet(L) /\ Cardinality(L) \in Nat
      BY <2>4
    <3> HIDE DEF L
    <3>2. /\ IsFiniteSet(L \cup {d})
          /\ Cardinality(L \cup {d}) = IF d \in L THEN Cardinality(L) ELSE Cardinality(L) + 1
      BY <3>1, FS_AddElement
    <3>3. Cardinality(L \cup {d}) <= Cardinality(L) + 1
      BY <3>1, <3>2
    <3> QED BY <3>2, <3>3 DEF L
  <2>6. Cardinality(N) <= Cardinality(Later(r, d) \cup {d}) /\ Cardinality(N) \in Nat
    BY <2>2, <2>5, FS_Subset, <1>0, JobsAreFinite
  <2>7. Cardinality(Later(r, d) \cup {d}) \in Nat
    BY <2>5, FS_CardinalityType
  <2> QED BY <2>4, <2>5, <2>6, <2>7, HistoryAssumption
<1> QED BY <1>1, <1>2

(* ... and exactly MAX_HISTORY newer ones when one is dropped. *)
LEMMA DroppedBehindNewest ==
  ASSUME NEW r, NEW j \in Jobs, r[j] # "absent", j \notin Newest(r)
  PROVE  Cardinality({i \in Jobs : i > j /\ i \in Newest(r)}) = MaxHistory
<1> DEFINE A == Later(r, j)
           K == {i \in Jobs : i > j /\ i \in Newest(r)}
<1>1. /\ A \subseteq Jobs /\ K \subseteq Jobs /\ K \subseteq Newest(r) /\ K \subseteq A
      /\ Newest(r) \subseteq Jobs
  BY DEF Later, Newest
<1>2. /\ IsFiniteSet(A) /\ IsFiniteSet(K) /\ IsFiniteSet(Newest(r))
      /\ Cardinality(A) \in Nat /\ Cardinality(K) \in Nat /\ Cardinality(Newest(r)) \in Nat
  BY <1>1, JobsAreFinite
<1>3. Cardinality(K) <= MaxHistory
  BY <1>1, <1>2, FS_Subset, NewestAreFew, HistoryAssumption
<1>4. Cardinality(A) >= MaxHistory
  BY <1>2, NewestIs, HistoryAssumption
<1>5. Cardinality(K) >= MaxHistory
  <2>1. CASE A = K
    BY <1>4, <2>1
  <2>2. CASE A # K
    <3>1. PICK d \in A \ K : \A y \in A \ K : y <= d
      BY <1>1, <2>2, LastOfSet
    <3>2. d \in Jobs /\ d > j /\ r[d] # "absent" /\ d \notin Newest(r)
      BY <3>1 DEF Later
    <3>3. Later(r, d) \subseteq K
      <4> SUFFICES ASSUME NEW i \in Later(r, d) PROVE i \in K
        OBVIOUS
      <4>1. i \in Jobs /\ i > d /\ i \in A
        BY <3>2 DEF Later, Jobs
      <4>2. ~(i <= d)
        BY <3>2, <4>1, JobsAreNumbers
      <4> HIDE DEF K, A
      <4> QED BY <3>1, <4>1, <4>2
    <3>4. Cardinality(Later(r, d)) <= Cardinality(K)
      BY <1>2, <3>3, FS_Subset
    <3>5. Cardinality(Later(r, d)) \in Nat /\ ~(Cardinality(Later(r, d)) < MaxHistory)
      BY <3>2, NewestIs, JobsAreFinite DEF Later
    <3> QED BY <1>2, <3>4, <3>5, HistoryAssumption
  <2> QED BY <2>1, <2>2
<1> QED BY <1>2, <1>3, <1>5, HistoryAssumption

LEMMA RecordsAreNewest ==
  ASSUME NEW r \in [Jobs -> Statuses]
  PROVE  \A j \in Jobs : /\ Records(r)[j] # "absent" <=> j \in Newest(r)
                         /\ j \in Newest(r) => Records(r)[j] = r[j]
BY DEF Records, Newest

(* A step that writes the store keeps the newest of some records r, among   *)
(* them those of the jobs in memory that had a record or come to memory.    *)
Stores ==
  \E r \in [Jobs -> Statuses] :
    /\ hist' = Records(r)
    /\ \A j \in Jobs : mem'[j] # "absent" => r[j] # "absent" \/ (mem[j] # "absent" /\ hist[j] = "absent")
(* The other steps. *)
KeepsRecords ==
  \A j \in Jobs : /\ hist'[j] # "absent" <=> hist[j] # "absent"
                  /\ mem'[j] # "absent" => mem[j] # "absent"

LEMMA PersistStores ==
  ASSUME HInv, NEW m \in [Jobs -> Statuses], NEW f, Persist(f, m)
  PROVE  Stores
<1>1. mem' = m /\ hist' = Records(Merged(m))
  BY DEF Persist, Store
<1> QED BY <1>1, MergedType DEF Stores

LEMMA StepStores ==
  ASSUME HInv, [HNext]_hvars
  PROVE  Stores \/ KeepsRecords
<1>1. ASSUME NEW j \in Jobs,
             \/ Submit(j) \/ Start(j) \/ PauseSftpJob(j) \/ FinishDone(j) \/ FinishFailed(j)
             \/ CancelSftpJob(j) \/ ResumeJob(j) \/ ResumeRecord(j)
      PROVE  Stores
  <2>1. PICK s \in Statuses : Moves(j, s)
    BY <1>1, LifeMoves DEF Statuses, Active
  <2> QED BY <2>1, BecomesType, PersistStores DEF Moves
<1>2. ASSUME NEW j \in Jobs, DeleteSftpJob(j) PROVE Stores
  <2> DEFINE r == [hist EXCEPT ![j] = "absent"]
  <2>1. r \in [Jobs -> Statuses] /\ \A i \in Jobs : i # j => r[i] = hist[i]
    BY DEF HInv, Statuses
  <2>2. hist' = Records(r) /\ mem' = Becomes(j, "absent")
    BY <1>2 DEF DeleteSftpJob, Store
  <2> HIDE DEF r
  <2>3. \A i \in Jobs : mem'[i] # "absent" => i # j /\ mem[i] # "absent"
    BY <2>2, BecomesType DEF Statuses
  <2> QED BY <2>1, <2>2, <2>3 DEF Stores
<1>3. ASSUME NEW j \in Jobs, MarkDelivered(j) PROVE Stores
  <2>1. mem \in [Jobs -> Statuses] /\ hist \in [Jobs -> Statuses]
    BY DEF HInv
  <2>2. CASE mem[j] # "absent"
    BY <1>3, <2>1, <2>2, PersistStores DEF MarkDelivered
  <2>3. CASE mem[j] = "absent"
    <3>1. mem' = mem /\ hist' = Records(hist)
      BY <1>3, <2>3 DEF MarkDelivered, Store
    <3> QED BY <2>1, <3>1 DEF Stores
  <2> QED BY <2>2, <2>3
<1>4. CASE ClearFinishedSftpJobs
  <2> DEFINE m == [j \in Jobs |-> IF mem[j] \in Finished THEN "absent" ELSE mem[j]]
             h == [j \in Jobs |-> IF hist[j] \in Finished THEN "absent" ELSE hist[j]]
             r == [j \in Jobs |-> IF m[j] # "absent" THEN m[j] ELSE h[j]]
  <2>1. r \in [Jobs -> Statuses] /\ \A j \in Jobs : m[j] # "absent" => r[j] # "absent"
    BY DEF HInv, Statuses
  <2>2. mem' = m /\ hist' = Records(r)
    BY <1>4 DEF ClearFinishedSftpJobs, Store
  <2> HIDE DEF m, r
  <2> QED BY <2>1, <2>2 DEF Stores
<1>5. CASE ClearSftpCache
  <2>1. mem' = mem /\ hist' = Records(Merged(mem))
    BY <1>5 DEF ClearSftpCache
  <2> QED BY <2>1, MergedType DEF Stores, HInv
<1>6. CASE HourlyTimer \/ (\E j \in Jobs : Open(j)) \/ UNCHANGED hvars
  BY <1>6 DEF HourlyTimer, Open, hvars, KeepsRecords
<1>7. CASE ReadHistory
  BY <1>7 DEF ReadHistory, KeepsRecords, Active
<1>8. CASE Restart
  BY <1>8 DEF Restart, KeepsRecords
<1> QED BY <1>1, <1>2, <1>3, <1>4, <1>5, <1>6, <1>7, <1>8 DEF HNext

LEMMA StepTakesOldest ==
  ASSUME HInv, [HNext]_hvars, NEW j \in Jobs,
         hist[j] # "absent", hist'[j] = "absent", mem'[j] # "absent"
  PROVE  Cardinality({i \in Jobs : i > j /\ hist'[i] # "absent"}) = MaxHistory
<1>1. PICK r \in [Jobs -> Statuses] : hist' = Records(r) /\ r[j] # "absent"
  BY StepStores DEF Stores, KeepsRecords
<1>2. j \notin Newest(r)
  BY <1>1, RecordsAreNewest
<1>3. {i \in Jobs : i > j /\ hist'[i] # "absent"} = {i \in Jobs : i > j /\ i \in Newest(r)}
  BY <1>1, RecordsAreNewest
<1> QED BY <1>1, <1>2, <1>3, DroppedBehindNewest

(* For any number of jobs and any bound: only what has MAX_HISTORY newer    *)
(* records falls off the end of the file under a job still in memory.       *)
THEOREM OnlyOldestIsDropped == HSafety => OverflowTakesOldest
<1> DEFINE Step == \A j \in Jobs :
       hist[j] # "absent" /\ hist'[j] = "absent" /\ mem'[j] # "absent"
         => Cardinality({i \in Jobs : i > j /\ hist'[i] # "absent"}) = MaxHistory
<1>1. HInv /\ [HNext]_hvars => [Step]_hvars
  BY StepTakesOldest
<1> QED BY <1>1, HistoryInvariant, PTL DEF HSafety, OverflowTakesOldest

-----------------------------------------------------------------------------
(* Types. *)

FileStates == {"present", "missing", "nameless"}
RecordTypes ==
  /\ file \in [Jobs -> FileStates] /\ opened \in [Jobs -> BOOLEAN]
  /\ delivery \in [Jobs -> {"pending", "taken", "gone"}] /\ barred \in [Jobs -> BOOLEAN]
  /\ loaded \in BOOLEAN /\ next \in 1..(LastJob + 1)

LEMMA LoseType ==
  ASSUME NEW f \in [Jobs -> FileStates], NEW S
  PROVE  /\ Lose(f, S) \in [Jobs -> FileStates]
         /\ \A j \in Jobs : Lose(f, S)[j] = IF j \in S /\ f[j] = "present" THEN "missing" ELSE f[j]
BY DEF Lose, FileStates

LEMMA RemoveType ==
  ASSUME NEW f \in [Jobs -> FileStates], NEW S
  PROVE  /\ RemoveCacheFiles(f, S) \in [Jobs -> FileStates]
         /\ \A j \in Jobs : RemoveCacheFiles(f, S)[j] = IF j \in S /\ Download(j) THEN "nameless" ELSE f[j]
BY DEF RemoveCacheFiles, FileStates

LEMMA StoreFiles ==
  ASSUME NEW f \in [Jobs -> FileStates], NEW r, Store(f, r)
  PROVE  /\ file' \in [Jobs -> FileStates]
         /\ \A j \in Jobs : file'[j] = IF /\ hist[j] # "absent" /\ j \notin Newest(r)
                                          /\ f[j] = "present" THEN "missing" ELSE f[j]
BY LoseType DEF Store, Cleaned

(* What maintenance leaves of a file. *)
LEMMA SweptFiles ==
  ASSUME NEW f \in [Jobs -> FileStates], NEW r, NEW expired \in SUBSET Jobs
  PROVE  /\ Swept(r, expired, f) \in [Jobs -> FileStates]
         /\ \A j \in Jobs :
              Swept(r, expired, f)[j] = "present" <=>
                f[j] = "present" /\ ~(Download(j) /\ (j \in expired \/ r[j] \in {"cancelled", "absent"}))
<1> DEFINE g == RemoveCacheFiles(f, {j \in Jobs : j \in expired \/ r[j] = "cancelled"})
<1>1. /\ g \in [Jobs -> FileStates]
      /\ \A j \in Jobs : g[j] = IF (j \in expired \/ r[j] = "cancelled") /\ Download(j) THEN "nameless" ELSE f[j]
  BY RemoveType
<1>2. Swept(r, expired, f) = Lose(g, {j \in Jobs : Download(j) /\ r[j] = "absent"})
  BY DEF Swept
<1> HIDE DEF g
<1> QED BY <1>1, <1>2, LoseType
-----------------------------------------------------------------------------
(* What the actions do to files. *)

(* A life action: job j gets status s; f is the files before the store's    *)
(* own cleanup.                                                              *)
LifeStep(j, s, f) ==
  /\ Moves(j, s) /\ s # "absent"
  /\ Store(f, Merged(Becomes(j, s)))
  /\ f \in [Jobs -> FileStates]
  /\ \A i \in Jobs : i # j => f[i] = file[i]
  /\ f[j] = "present" => file[j] = "present"
  /\ s \in {"pending", "running", "paused"} => f = file
  /\ s = "failed" /\ TypeOf[j] # "upload" => f[j] = file[j]
  /\ s \in Finished /\ TypeOf[j] = "desktop" => f[j] # "present"
  /\ s = "done" => mem[j] = "running" /\ (opened[j] \/ file[j] = "present")
  /\ s = "done" /\ TypeOf[j] = "browser" => f = file
  /\ s = "running" => mem[j] = "pending" /\ ~opened'[j]
  /\ s \in Finished \cup {"failed"} => mem[j] \in Active
  /\ Shown(j) = "absent" => j = next
  /\ opened' \in [Jobs -> BOOLEAN] /\ barred' \in [Jobs -> BOOLEAN]
  /\ delivery' \in [Jobs -> {"pending", "taken", "gone"}]
  /\ next' \in 1..(LastJob + 1)
  /\ \A i \in Jobs : /\ opened'[i] => opened[i]
                     /\ barred[i] => barred'[i]
                     /\ delivery'[i] # delivery[i] => i = j /\ s = "done" /\ delivery'[i] = "taken"
  /\ s = "done" /\ TypeOf[j] = "desktop" /\ delivery'[j] = "pending" => file[j] # "present"

LEMMA DownloadTypes == \A j \in Jobs : /\ TypeOf[j] \in {"browser", "desktop"} <=> Download(j)
                                       /\ TypeOf[j] \in Types
BY HistoryAssumption DEF Download

(* The simple ones leave every file alone. *)
LEMMA PlainLife ==
  ASSUME HInv, RecordTypes, NEW j \in Jobs, NEW s \in {"pending", "running", "paused"},
         Moves(j, s), Persist(file, Becomes(j, s)), s = "running" => mem[j] = "pending" /\ ~opened'[j],
         opened' \in [Jobs -> BOOLEAN], \A i \in Jobs : opened'[i] => opened[i],
         barred' = barred, delivery' = delivery, next' \in 1..(LastJob + 1),
         Shown(j) = "absent" => j = next
  PROVE  LifeStep(j, s, file)
BY DEF LifeStep, Persist, RecordTypes, Finished

LEMMA FinishDoneLife ==
  ASSUME HInv, RecordTypes, NEW j \in Jobs, FinishDone(j)
  PROVE  \E f : LifeStep(j, "done", f)
<1> DEFINE f == CASE TypeOf[j] = "browser" -> file
                  [] TypeOf[j] = "desktop" -> IF file[j] = "present" THEN RemoveCacheFiles(file, {j}) ELSE file
                  [] OTHER -> Lose(file, {j})
<1>1. Moves(j, "done") /\ Persist(f, Becomes(j, "done"))
  BY LifeMoves DEF FinishDone
<1>2. f \in [Jobs -> FileStates] /\ \A i \in Jobs : i # j => f[i] = file[i]
  BY LoseType, RemoveType DEF RecordTypes
<1>3. f[j] = "present" => file[j] = "present"
  BY LoseType, RemoveType DEF RecordTypes
<1>4. TypeOf[j] = "desktop" => f[j] # "present"
  <2>1. RemoveCacheFiles(file, {j})[j] = IF Download(j) THEN "nameless" ELSE file[j]
    BY RemoveType DEF RecordTypes
  <2>2. TypeOf[j] = "desktop" /\ file[j] = "present" => f = RemoveCacheFiles(file, {j})
    OBVIOUS
  <2>3. TypeOf[j] = "desktop" /\ file[j] # "present" => f = file
    OBVIOUS
  <2> QED BY <2>1, <2>2, <2>3 DEF Download
<1>5. TypeOf[j] = "browser" => f = file
  OBVIOUS
<1>6. mem[j] = "running" /\ (opened[j] \/ file[j] = "present") /\ Shown(j) # "absent"
  BY DEF FinishDone, Shown
<1>7. /\ delivery' \in [Jobs -> {"pending", "taken", "gone"}]
      /\ \A i \in Jobs : delivery'[i] # delivery[i] => i = j /\ delivery'[i] = "taken"
      /\ TypeOf[j] = "desktop" /\ delivery'[j] = "pending" => file[j] # "present"
  BY DEF FinishDone, RecordTypes
<1>8. opened' = opened /\ barred' = barred /\ next' = next
  BY DEF FinishDone
<1> HIDE DEF f
<1>9. LifeStep(j, "done", f)
  BY <1>1, <1>2, <1>3, <1>4, <1>5, <1>6, <1>7, <1>8 DEF LifeStep, Persist, RecordTypes, Active
<1> QED BY <1>9

LEMMA FinishFailedLife ==
  ASSUME HInv, RecordTypes, NEW j \in Jobs, FinishFailed(j)
  PROVE  \E f : LifeStep(j, "failed", f)
<1>1. PICK received \in IF TypeOf[j] = "upload" THEN BOOLEAN ELSE {TRUE} :
        Persist(IF received THEN file ELSE Lose(file, {j}), Becomes(j, "failed"))
  BY DEF FinishFailed
<1> DEFINE f == IF received THEN file ELSE Lose(file, {j})
<1>2. /\ f \in [Jobs -> FileStates] /\ \A i \in Jobs : i # j => f[i] = file[i]
      /\ f[j] = "present" => file[j] = "present"
  BY LoseType DEF RecordTypes
<1>3. TypeOf[j] # "upload" => f = file
  BY <1>1
<1>4. Moves(j, "failed") /\ mem[j] \in Active /\ Shown(j) # "absent"
  BY LifeMoves DEF FinishFailed, Active, Shown
<1>5. /\ barred' \in [Jobs -> BOOLEAN] /\ \A i \in Jobs : barred[i] => barred'[i]
      /\ opened' = opened /\ delivery' = delivery /\ next' = next
  BY DEF FinishFailed, RecordTypes
<1>6. Persist(f, Becomes(j, "failed"))
  BY <1>1
<1> HIDE DEF f
<1>7. LifeStep(j, "failed", f)
  BY <1>2, <1>3, <1>4, <1>5, <1>6 DEF LifeStep, Persist, RecordTypes, Finished
<1> QED BY <1>7

LEMMA CancelLife ==
  ASSUME HInv, RecordTypes, NEW j \in Jobs, CancelSftpJob(j)
  PROVE  \E f : LifeStep(j, "cancelled", f)
<1> DEFINE f == CASE mem[j] = "pending" \/ TypeOf[j] = "upload" -> Lose(file, {j})
                  [] OTHER -> RemoveCacheFiles(file, {j})
<1>1. f \in {Lose(file, {j}), RemoveCacheFiles(file, {j})}
  OBVIOUS
<1>2. Persist(f, Becomes(j, "cancelled"))
  BY DEF CancelSftpJob
<1>3. Moves(j, "cancelled") /\ mem[j] \in Active /\ Shown(j) # "absent"
  BY LifeMoves DEF CancelSftpJob, Active, Shown
<1>4. opened' = opened /\ barred' = barred /\ delivery' = delivery /\ next' = next
  BY DEF CancelSftpJob
<1> HIDE DEF f
<1>5. /\ f \in [Jobs -> FileStates] /\ \A i \in Jobs : i # j => f[i] = file[i]
      /\ f[j] = "present" => file[j] = "present"
      /\ TypeOf[j] = "desktop" => f[j] # "present"
  BY <1>1, LoseType, RemoveType DEF RecordTypes, Download
<1>6. LifeStep(j, "cancelled", f)
  BY <1>2, <1>3, <1>4, <1>5 DEF LifeStep, Persist, RecordTypes
<1> QED BY <1>6

LEMMA LifeSteps ==
  ASSUME HInv, RecordTypes, NEW j \in Jobs
  PROVE  /\ Submit(j) => LifeStep(j, "pending", file)
         /\ Start(j) => LifeStep(j, "running", file)
         /\ PauseSftpJob(j) => LifeStep(j, "paused", file)
         /\ FinishDone(j) => \E f : LifeStep(j, "done", f)
         /\ FinishFailed(j) => \E f : LifeStep(j, "failed", f)
         /\ CancelSftpJob(j) => \E f : LifeStep(j, "cancelled", f)
         /\ ResumeJob(j) \/ ResumeRecord(j) => LifeStep(j, "pending", file)
<1>1. ASSUME Submit(j) PROVE LifeStep(j, "pending", file)
  <2>1. next' \in 1..(LastJob + 1)
    BY <1>1, HistoryAssumption DEF Submit, Jobs
  <2>2. Persist(file, Becomes(j, "pending")) /\ opened' = opened /\ barred' = barred /\ delivery' = delivery /\ j = next
    BY <1>1 DEF Submit
  <2> QED BY <1>1, <2>1, <2>2, LifeMoves, PlainLife DEF RecordTypes
<1>2. ASSUME Start(j) PROVE LifeStep(j, "running", file)
  <2>1. /\ opened' \in [Jobs -> BOOLEAN] /\ \A i \in Jobs : opened'[i] => opened[i]
        /\ ~opened'[j]
    BY <1>2 DEF Start, RecordTypes
  <2>2. /\ Persist(file, Becomes(j, "running")) /\ mem[j] = "pending"
        /\ barred' = barred /\ delivery' = delivery /\ next' = next /\ Shown(j) # "absent"
    BY <1>2 DEF Start, Shown
  <2> QED BY <1>2, <2>1, <2>2, LifeMoves, PlainLife DEF RecordTypes
<1>3. ASSUME PauseSftpJob(j) PROVE LifeStep(j, "paused", file)
  <2>1. /\ Persist(file, Becomes(j, "paused"))
        /\ opened' = opened /\ barred' = barred /\ delivery' = delivery /\ next' = next
        /\ Shown(j) # "absent"
    BY <1>3 DEF PauseSftpJob, Shown
  <2> QED BY <1>3, <2>1, LifeMoves, PlainLife DEF RecordTypes
<1>4. ASSUME ResumeJob(j) \/ ResumeRecord(j) PROVE LifeStep(j, "pending", file)
  <2>1. /\ Persist(file, Becomes(j, "pending"))
        /\ opened' = opened /\ barred' = barred /\ delivery' = delivery /\ next' = next
        /\ Shown(j) # "absent"
    BY <1>4 DEF ResumeJob, ResumeRecord, MayResume, Shown
  <2> QED BY <1>4, <2>1, LifeMoves, PlainLife DEF RecordTypes
<1> QED BY <1>1, <1>2, <1>3, <1>4, FinishDoneLife, FinishFailedLife, CancelLife

(* A job whose record is among the newest whatever the others do. *)
Kept(j) == LastJob - j < MaxHistory

LEMMA KeptIsNewest ==
  ASSUME NEW r, NEW j \in Jobs, Kept(j), r[j] # "absent"
  PROVE  j \in Newest(r)
<1>1. Later(r, j) \subseteq (j + 1)..LastJob
  BY HistoryAssumption DEF Later, Jobs
<1>2. j \in Nat /\ LastJob \in Nat /\ j <= LastJob
  BY HistoryAssumption DEF Jobs
<1>3. IsFiniteSet((j + 1)..LastJob) /\ Cardinality((j + 1)..LastJob) = LastJob - j
  <2>1. j + 1 \in Int /\ LastJob \in Int
    BY <1>2
  <2>2. IsFiniteSet((j + 1)..LastJob)
    BY <2>1, FS_Interval
  <2>3. Cardinality((j + 1)..LastJob) = IF j + 1 > LastJob THEN 0 ELSE LastJob - (j + 1) + 1
    BY <2>1, FS_Interval
  <2> QED BY <1>2, <2>2, <2>3
<1>4. Cardinality(Later(r, j)) <= LastJob - j
  BY <1>1, <1>3, FS_Subset
<1>5. Cardinality(Later(r, j)) \in Nat
  BY JobsAreFinite DEF Later
<1> QED BY <1>2, <1>4, <1>5, NewestIs, HistoryAssumption DEF Kept

(* What a life action leaves of the other jobs, and of its own. *)
LEMMA LifeEffect ==
  ASSUME HInv, RecordTypes, NEW j \in Jobs, NEW s \in Statuses, NEW f, LifeStep(j, s, f)
  PROVE  /\ loaded /\ loaded'
         /\ mem'[j] = s /\ Shown(j)' = s
         /\ \A i \in Jobs : i # j => mem'[i] = mem[i] /\ Shown(i)' \in {Shown(i), "absent"}
         /\ \A i \in Jobs : file'[i] = "present" =>
              f[i] = "present" /\ (hist[i] # "absent" => hist'[i] # "absent")
         /\ \A i \in Jobs : Kept(i) /\ (i = j \/ Shown(i) # "absent") =>
              file'[i] = f[i] /\ hist'[i] # "absent"
         /\ \A i \in Jobs : Kept(i) /\ i # j => Shown(i)' = Shown(i)
         /\ \A i \in Jobs : ~Dropped(i) => file'[i] = f[i]
         /\ file' \in [Jobs -> FileStates]
<1> DEFINE m == Becomes(j, s)
           r == Merged(m)
<1>1. m \in [Jobs -> Statuses] /\ \A i \in Jobs : m[i] = IF i = j THEN s ELSE mem[i]
  BY BecomesType
<1>2. r \in [Jobs -> Statuses] /\ \A i \in Jobs : r[i] = IF i = j THEN s ELSE Shown(i)
  <2> HIDE DEF m
  <2>1. r \in [Jobs -> Statuses] /\ \A i \in Jobs : r[i] = IF m[i] # "absent" THEN m[i] ELSE hist[i]
    BY <1>1, MergedType
  <2>2. s # "absent"
    BY DEF LifeStep
  <2> HIDE DEF r
  <2> QED BY <1>1, <2>1, <2>2 DEF Shown
<1>3. Moves(j, s) /\ s # "absent" /\ Store(f, r) /\ f \in [Jobs -> FileStates]
  BY DEF LifeStep
<1>4. loaded /\ loaded' /\ \A i \in Jobs : mem'[i] = IF i = j THEN s ELSE mem[i]
  BY <1>3, MovesEffect
<1>5. hist' = Records(r)
  BY <1>3 DEF Store
<1> HIDE DEF m, r
<1>6. \A i \in Jobs : /\ hist'[i] # "absent" <=> i \in Newest(r)
                      /\ hist'[i] \in {r[i], "absent"}
  BY <1>2, <1>5, RecordsAreNewest
<1>7. /\ file' \in [Jobs -> FileStates]
      /\ \A i \in Jobs : file'[i] = IF /\ hist[i] # "absent" /\ i \notin Newest(r)
                                       /\ f[i] = "present" THEN "missing" ELSE f[i]
  BY <1>3, StoreFiles
<1>8. \A i \in Jobs : Kept(i) /\ r[i] # "absent" => i \in Newest(r)
  BY KeptIsNewest
<1>9. \A i \in Jobs : i # j => Shown(i)' \in {Shown(i), "absent"}
  BY <1>2, <1>4, <1>6 DEF Shown
<1>10. Shown(j)' = s
  BY <1>3, <1>4 DEF Shown
<1>11. \A i \in Jobs : file'[i] = "present" => f[i] = "present" /\ (hist[i] # "absent" => hist'[i] # "absent")
  BY <1>6, <1>7
<1>12. \A i \in Jobs : Kept(i) /\ (i = j \/ Shown(i) # "absent") => file'[i] = f[i] /\ hist'[i] # "absent"
  BY <1>2, <1>3, <1>6, <1>7, <1>8
<1>13. \A i \in Jobs : Kept(i) /\ i # j => Shown(i)' = Shown(i)
  BY <1>2, <1>4, <1>6, <1>8 DEF Shown
<1>14. \A i \in Jobs : ~Dropped(i) => file'[i] = f[i]
  BY <1>6, <1>7 DEF Dropped
<1> QED BY <1>4, <1>7, <1>9, <1>10, <1>11, <1>12, <1>13, <1>14
-----------------------------------------------------------------------------
(* Deleting, clearing and marking. *)

Recorded == \A j \in Jobs : Kept(j) /\ mem[j] # "absent" => hist[j] # "absent"
LeftoversHaveStopped == loaded => \A j \in Jobs : mem[j] = "absent" => hist[j] \notin Active

BookInv == HInv /\ RecordTypes /\ Recorded /\ LeftoversHaveStopped

(* Some jobs are forgotten, by a command that names them or all that is     *)
(* finished, and no file comes into being.                                   *)
Tidies ==
  /\ Forgets
  /\ opened' = opened /\ barred' = barred
  /\ file' \in [Jobs -> FileStates] /\ delivery' \in [Jobs -> {"pending", "taken", "gone"}]
  /\ \A j \in Jobs :
       /\ mem'[j] # mem[j] => Shown(j)' = "absent"
       /\ file'[j] = "present" =>
            /\ file[j] = "present"
            /\ hist[j] # "absent" => hist'[j] # "absent"
            /\ mem'[j] # mem[j] => mem[j] \in Finished
       /\ delivery'[j] # delivery[j] => Shown(j) \in Finished /\ delivery'[j] # "pending"
       /\ Kept(j) /\ Shown(j) \in {"pending", "running"} => Shown(j)' # "absent"

LEMMA StoredRecords ==
  ASSUME NEW r \in [Jobs -> Statuses], NEW f \in [Jobs -> FileStates], Store(f, r)
  PROVE  /\ file' \in [Jobs -> FileStates]
         /\ \A j \in Jobs : /\ hist'[j] \in {r[j], "absent"}
                            /\ Kept(j) => hist'[j] = r[j]
                            /\ file'[j] = "present" => f[j] = "present" /\ (hist[j] # "absent" => hist'[j] # "absent")
                            /\ ~Dropped(j) => file'[j] = f[j]
<1>1. hist' = Records(r)
  BY DEF Store
<1>2. \A j \in Jobs : Kept(j) /\ r[j] # "absent" => j \in Newest(r)
  BY KeptIsNewest
<1>3. \A j \in Jobs : j \in Newest(r) => r[j] # "absent"
  BY DEF Newest
<1> QED BY <1>1, <1>2, <1>3, RecordsAreNewest, StoreFiles DEF Dropped

LEMMA DeleteTidies ==
  ASSUME BookInv, NEW j \in Jobs, DeleteSftpJob(j)
  PROVE  /\ Tidies
         /\ \A i \in Jobs : ~Dropped(i) /\ Shown(i)' # "absent" => file'[i] = file[i]
<1> DEFINE r == [hist EXCEPT ![j] = "absent"]
           f == Lose(file, {j})
<1>1. r \in [Jobs -> Statuses] /\ \A i \in Jobs : r[i] = IF i = j THEN "absent" ELSE hist[i]
  BY DEF BookInv, HInv, Statuses
<1>2. f \in [Jobs -> FileStates] /\ \A i \in Jobs : f[i] = IF i = j /\ file[i] = "present" THEN "missing" ELSE file[i]
  BY LoseType DEF BookInv, RecordTypes
<1>3. mem' = Becomes(j, "absent") /\ Store(f, r)
  BY DEF DeleteSftpJob
<1>4. /\ opened' = opened /\ barred' = barred /\ delivery' = delivery
      /\ loaded /\ mem[j] \notin {"pending", "running"}
  BY DEF DeleteSftpJob, MayDelete
<1>5. Forgets
  BY DeleteForgets DEF BookInv
<1>6. \A i \in Jobs : mem'[i] = IF i = j THEN "absent" ELSE mem[i]
  BY <1>3, BecomesType DEF BookInv, Statuses
<1> HIDE DEF r, f
<1>7. /\ file' \in [Jobs -> FileStates]
      /\ \A i \in Jobs : /\ hist'[i] \in {r[i], "absent"}
                         /\ Kept(i) => hist'[i] = r[i]
                         /\ file'[i] = "present" => f[i] = "present" /\ (hist[i] # "absent" => hist'[i] # "absent")
                         /\ ~Dropped(i) => file'[i] = f[i]
  BY <1>1, <1>2, <1>3, StoredRecords
<1>8. \A i \in Jobs : mem'[i] # mem[i] => Shown(i)' = "absent"
  BY <1>1, <1>6, <1>7 DEF Shown
<1>9. \A i \in Jobs : file'[i] = "present" =>
            /\ file[i] = "present"
            /\ hist[i] # "absent" => hist'[i] # "absent"
            /\ mem'[i] # mem[i] => mem[i] \in Finished
  BY <1>2, <1>6, <1>7
<1>10. \A i \in Jobs : Kept(i) /\ Shown(i) \in {"pending", "running"} => Shown(i)' # "absent"
  <2> SUFFICES ASSUME NEW i \in Jobs, Kept(i), Shown(i) \in {"pending", "running"} PROVE Shown(i)' # "absent"
    OBVIOUS
  <2>1. mem[i] # "absent"
    BY <1>4 DEF BookInv, LeftoversHaveStopped, Shown, Active
  <2>2. i # j
    BY <1>4, <2>1 DEF Shown
  <2> QED BY <1>6, <2>1, <2>2 DEF Shown
<1>11. \A i \in Jobs : ~Dropped(i) /\ Shown(i)' # "absent" => file'[i] = file[i]
  <2> SUFFICES ASSUME NEW i \in Jobs, ~Dropped(i), Shown(i)' # "absent" PROVE file'[i] = file[i]
    OBVIOUS
  <2>1. i # j
    BY <1>1, <1>6, <1>7 DEF Shown
  <2> QED BY <1>2, <1>7, <2>1
<1> QED BY <1>4, <1>5, <1>7, <1>8, <1>9, <1>10, <1>11 DEF Tidies, BookInv, RecordTypes

LEMMA ClearFinishedTidies ==
  ASSUME BookInv, ClearFinishedSftpJobs
  PROVE  /\ Tidies
         /\ \A i \in Jobs : ~Dropped(i) /\ Shown(i)' # "absent" => file'[i] = file[i]
<1> DEFINE m == [j \in Jobs |-> IF mem[j] \in Finished THEN "absent" ELSE mem[j]]
           h == [j \in Jobs |-> IF hist[j] \in Finished THEN "absent" ELSE hist[j]]
           r == [j \in Jobs |-> IF m[j] # "absent" THEN m[j] ELSE h[j]]
<1>1. \A j \in Jobs : m[j] = IF mem[j] \in Finished THEN "absent" ELSE mem[j]
  OBVIOUS
<1>2. r \in [Jobs -> Statuses]
  BY DEF BookInv, HInv, Statuses
<1>3. \A j \in Jobs : r[j] = IF Shown(j) \in Finished THEN "absent" ELSE Shown(j)
  BY DEF BookInv, HInv, RecordIsCurrent, Shown, Finished
<1>4. mem' = m /\ Store(file, r)
  BY DEF ClearFinishedSftpJobs
<1>5. /\ opened' = opened /\ barred' = barred /\ delivery' = delivery
      /\ loaded /\ file \in [Jobs -> FileStates]
  BY DEF ClearFinishedSftpJobs, BookInv, RecordTypes
<1>6. Forgets
  BY ClearFinishedForgets DEF BookInv
<1> HIDE DEF m, r
<1>7. /\ file' \in [Jobs -> FileStates]
      /\ \A i \in Jobs : /\ hist'[i] \in {r[i], "absent"}
                         /\ Kept(i) => hist'[i] = r[i]
                         /\ file'[i] = "present" => file[i] = "present" /\ (hist[i] # "absent" => hist'[i] # "absent")
                         /\ ~Dropped(i) => file'[i] = file[i]
  BY <1>2, <1>4, <1>5, StoredRecords
<1>8. \A i \in Jobs : mem'[i] # mem[i] => mem[i] \in Finished /\ mem'[i] = "absent" /\ hist'[i] = "absent"
  BY <1>1, <1>3, <1>4, <1>7 DEF Shown, Finished
<1>9. \A i \in Jobs : Kept(i) /\ Shown(i) \in {"pending", "running"} => Shown(i)' # "absent"
  BY <1>1, <1>3, <1>4, <1>7 DEF Shown, Finished
<1>10. \A i \in Jobs : ~Dropped(i) /\ Shown(i)' # "absent" => file'[i] = file[i]
  BY <1>7
<1> QED BY <1>5, <1>6, <1>7, <1>8, <1>9, <1>10 DEF Tidies, BookInv, RecordTypes, Shown

LEMMA MergedIsShown ==
  ASSUME HInv
  PROVE  Merged(mem) \in [Jobs -> Statuses] /\ \A j \in Jobs : Merged(mem)[j] = Shown(j)
BY DEF HInv, Merged, Shown

LEMMA MarkDeliveredTidies ==
  ASSUME BookInv, NEW j \in Jobs, MarkDelivered(j)
  PROVE  /\ Tidies
         /\ \A i \in Jobs : ~Dropped(i) /\ Shown(i)' # "absent" => file'[i] = file[i]
<1>1. PICK r \in [Jobs -> Statuses] :
        /\ Store(file, r)
        /\ \A i \in Jobs : hist[i] # "absent" => r[i] = Shown(i)
        /\ \A i \in Jobs : r[i] \in {Shown(i), "absent"}
  <2>1. CASE mem[j] # "absent"
    BY <2>1, MergedIsShown DEF MarkDelivered, Persist, BookInv
  <2>2. CASE mem[j] = "absent"
    BY <2>2 DEF MarkDelivered, BookInv, HInv, RecordIsCurrent, Shown
  <2> QED BY <2>1, <2>2
<1>2. mem' = mem /\ opened' = opened /\ barred' = barred /\ loaded
  BY DEF MarkDelivered, Persist
<1>3. /\ delivery' \in [Jobs -> {"pending", "taken", "gone"}]
      /\ \A i \in Jobs : delivery'[i] # delivery[i] => Shown(i) \in Finished /\ delivery'[i] # "pending"
  BY DEF MarkDelivered, BookInv, RecordTypes, Finished
<1>4. Forgets
  BY MarkDeliveredForgets DEF BookInv
<1>5. file \in [Jobs -> FileStates]
  BY DEF BookInv, RecordTypes
<1>6. /\ file' \in [Jobs -> FileStates]
      /\ \A i \in Jobs : /\ hist'[i] \in {r[i], "absent"}
                         /\ Kept(i) => hist'[i] = r[i]
                         /\ file'[i] = "present" => file[i] = "present" /\ (hist[i] # "absent" => hist'[i] # "absent")
                         /\ ~Dropped(i) => file'[i] = file[i]
  BY <1>1, <1>5, StoredRecords
<1>7. \A i \in Jobs : ~Dropped(i) /\ Shown(i)' # "absent" => file'[i] = file[i]
  BY <1>6
<1>8. \A i \in Jobs : Kept(i) /\ Shown(i) \in {"pending", "running"} => Shown(i)' # "absent"
  BY <1>2 DEF Shown, BookInv, LeftoversHaveStopped, Active
<1> QED BY <1>2, <1>3, <1>4, <1>6, <1>7, <1>8 DEF Tidies

LEMMA ClearCacheTidies ==
  ASSUME BookInv, ClearSftpCache
  PROVE  /\ Tidies /\ mem' = mem
         /\ \A i \in Jobs : Kept(i) => Shown(i)' = Shown(i)
         /\ \A i \in Jobs :
              /\ ~Dropped(i) /\ Shown(i) # "absent" /\ file[i] = "present" /\ file'[i] # "present" =>
                   \/ TypeOf[i] # "cross-copy" /\ mem[i] \notin Active \cup {"failed"}
                   \/ Download(i) /\ (Shown(i) \in Finished \/ delivery[i] = "taken")
              /\ Download(i) /\ Shown(i) \in Finished /\ file[i] = "present" => delivery'[i] # "pending"
<1> DEFINE r == Merged(mem)
           ended == {j \in Jobs : Download(j) /\ r[j] \in Finished}
           wiped == {j \in Jobs : TypeOf[j] # "cross-copy"} \ Protected
           f1 == RemoveCacheFiles(file, ended)
           f2 == Lose(f1, wiped)
           f3 == Cleaned(f2, r)
<1>1. r \in [Jobs -> Statuses] /\ \A j \in Jobs : r[j] = Shown(j)
  BY MergedIsShown DEF BookInv
<1>2. PICK expired \in SUBSET Expirable(r) : file' = Swept(r, expired, f3)
  BY DEF ClearSftpCache
<1>3. /\ hist' = Records(r) /\ mem' = mem /\ loaded /\ opened' = opened /\ barred' = barred
      /\ delivery' = GoneIf({j \in ended : file[j] # "nameless"})
  BY DEF ClearSftpCache
<1>4. Forgets
  BY ClearCacheForgets DEF BookInv
<1>5. /\ f1 \in [Jobs -> FileStates]
      /\ \A i \in Jobs : f1[i] = IF i \in ended /\ Download(i) THEN "nameless" ELSE file[i]
  BY RemoveType DEF BookInv, RecordTypes
<1>6. \A i \in Jobs : i \in ended <=> Download(i) /\ Shown(i) \in Finished
  BY <1>1
<1>7. \A i \in Jobs : i \in wiped <=> TypeOf[i] # "cross-copy" /\ mem[i] \notin Active \cup {"failed"}
  BY DEF Protected
<1> HIDE DEF f1, wiped, ended
<1>8. /\ f2 \in [Jobs -> FileStates]
      /\ \A i \in Jobs : f2[i] = IF i \in wiped /\ f1[i] = "present" THEN "missing" ELSE f1[i]
  BY <1>5, LoseType
<1> HIDE DEF f2
<1>9. /\ f3 \in [Jobs -> FileStates]
      /\ \A i \in Jobs : f3[i] = IF hist[i] # "absent" /\ i \notin Newest(r) /\ f2[i] = "present" THEN "missing" ELSE f2[i]
  BY <1>8, LoseType DEF Cleaned
<1> HIDE DEF f3
<1>10. expired \in SUBSET Jobs /\ \A i \in expired : Download(i) /\ (Shown(i) = "done" \/ delivery[i] = "taken")
  BY <1>1, <1>2 DEF Expirable
<1>11. /\ file' \in [Jobs -> FileStates]
       /\ \A i \in Jobs : file'[i] = "present" <=>
             f3[i] = "present" /\ ~(Download(i) /\ (i \in expired \/ r[i] \in {"cancelled", "absent"}))
  BY <1>2, <1>9, <1>10, SweptFiles
<1>12. \A i \in Jobs : Kept(i) /\ r[i] # "absent" => i \in Newest(r)
  BY KeptIsNewest
<1>13. \A i \in Jobs : /\ hist'[i] # "absent" <=> i \in Newest(r)
                       /\ i \in Newest(r) => hist'[i] = r[i]
  BY <1>1, <1>3, RecordsAreNewest
<1>14. /\ delivery' \in [Jobs -> {"pending", "taken", "gone"}]
       /\ \A i \in Jobs : delivery'[i] =
            IF i \in ended /\ file[i] # "nameless" /\ delivery[i] = "pending" THEN "gone" ELSE delivery[i]
  BY <1>3 DEF GoneIf, BookInv, RecordTypes
<1>15. \A i \in Jobs : Kept(i) => Shown(i)' = Shown(i)
  <2> SUFFICES ASSUME NEW i \in Jobs, Kept(i) PROVE Shown(i)' = Shown(i)
    OBVIOUS
  <2> HIDE DEF r
  <2>1. hist'[i] = Shown(i)
    BY <1>1, <1>12, <1>13
  <2> QED BY <1>3, <2>1 DEF Shown
<1>16. \A i \in Jobs : file'[i] = "present" => file[i] = "present" /\ (hist[i] # "absent" => hist'[i] # "absent")
  BY <1>5, <1>8, <1>9, <1>11, <1>13
<1>17. \A i \in Jobs : delivery'[i] # delivery[i] => Shown(i) \in Finished /\ delivery'[i] # "pending"
  BY <1>6, <1>14
<1>18. Tidies
  <2> HIDE DEF r
  <2>1. loaded' = loaded
    BY DEF ClearSftpCache
  <2> QED BY <1>3, <1>4, <1>11, <1>14, <1>15, <1>16, <1>17 DEF Tidies
<1>19. \A i \in Jobs : ~Dropped(i) /\ Shown(i) # "absent" /\ file[i] = "present" /\ file'[i] # "present" =>
                   \/ TypeOf[i] # "cross-copy" /\ mem[i] \notin Active \cup {"failed"}
                   \/ Download(i) /\ (Shown(i) \in Finished \/ delivery[i] = "taken")
  <2> SUFFICES ASSUME NEW i \in Jobs, ~Dropped(i), Shown(i) # "absent", file[i] = "present", file'[i] # "present",
                      i \notin wiped, i \notin ended
               PROVE  Download(i) /\ (Shown(i) \in Finished \/ delivery[i] = "taken")
    BY <1>6, <1>7
  <2>1. f3[i] = "present"
    <3>1. f1[i] = "present"
      BY <1>5
    <3>2. f2[i] = "present"
      BY <1>8, <3>1
    <3> QED BY <1>9, <1>13, <3>2 DEF Dropped
  <2>2. Download(i) /\ (i \in expired \/ r[i] \in {"cancelled", "absent"})
    BY <1>11, <2>1
  <2> QED BY <1>1, <1>10, <2>2 DEF Finished
<1>20. \A i \in Jobs : Download(i) /\ Shown(i) \in Finished /\ file[i] = "present" => delivery'[i] # "pending"
  BY <1>6, <1>14
<1> QED BY <1>3, <1>15, <1>18, <1>19, <1>20

-----------------------------------------------------------------------------
(* Every step is one of few kinds. *)

Lives == \E f : \E j \in Jobs, s \in Statuses : LifeStep(j, s, f)
OpensFile ==
  \E j \in Jobs : /\ mem[j] = "running" /\ file' = [file EXCEPT ![j] = "present"]
                  /\ opened' = [opened EXCEPT ![j] = TRUE]
                  /\ UNCHANGED <<next, mem, hist, loaded, delivery, barred>>

LEMMA StepKinds ==
  ASSUME BookInv, [HNext]_hvars
  PROVE  Lives \/ OpensFile \/ Tidies \/ HourlyTimer \/ ReadHistory \/ Restart \/ UNCHANGED hvars
<1>1. ASSUME NEW j \in Jobs,
             \/ Submit(j) \/ Start(j) \/ PauseSftpJob(j) \/ FinishDone(j) \/ FinishFailed(j)
             \/ CancelSftpJob(j) \/ ResumeJob(j) \/ ResumeRecord(j)
      PROVE  Lives
  <2>1. \E f : \E s \in Statuses : LifeStep(j, s, f)
    BY <1>1, LifeSteps DEF BookInv, Statuses, Active
  <2> QED BY <2>1 DEF Lives
<1>2. ASSUME NEW j \in Jobs, Open(j) PROVE OpensFile
  BY <1>2 DEF Open, OpensFile
<1>3. ASSUME NEW j \in Jobs, DeleteSftpJob(j) \/ MarkDelivered(j) PROVE Tidies
  BY <1>3, DeleteTidies, MarkDeliveredTidies
<1>4. CASE ClearFinishedSftpJobs \/ ClearSftpCache
  BY <1>4, ClearFinishedTidies, ClearCacheTidies
<1> QED BY <1>1, <1>2, <1>3, <1>4 DEF HNext

(* The maintenance of the cache outside of it. *)
LEMMA HourlyEffect ==
  ASSUME BookInv, HourlyTimer
  PROVE  /\ UNCHANGED <<next, mem, hist, loaded, opened, barred>>
         /\ file' \in [Jobs -> FileStates] /\ delivery' \in [Jobs -> {"pending", "taken", "gone"}]
         /\ \A i \in Jobs :
              /\ file'[i] = "present" => file[i] = "present"
              /\ delivery'[i] # delivery[i] => Shown(i) \in Finished /\ delivery'[i] = "gone"
              /\ loaded /\ file[i] = "present" /\ file'[i] # "present" =>
                   /\ Download(i)
                   /\ \/ Shown(i) = "done" /\ delivery'[i] # "pending"
                      \/ Shown(i) \in {"cancelled", "absent"} \/ delivery[i] = "taken"
<1> DEFINE r == IF loaded THEN Merged(mem) ELSE mem
<1>1. UNCHANGED <<next, mem, hist, loaded, opened, barred>>
  BY DEF HourlyTimer
<1>2. PICK expired \in SUBSET Expirable(r) : Maintain(r, expired, file)
  BY DEF HourlyTimer
<1>3. /\ loaded => \A j \in Jobs : r[j] = Shown(j)
      /\ ~loaded => \A j \in Jobs : r[j] = "absent"
  BY MergedIsShown DEF BookInv, HInv, MemoryIsLoaded
<1> HIDE DEF r
<1>4. /\ expired \in SUBSET Jobs
      /\ \A i \in expired : Download(i) /\ (r[i] = "done" \/ (r[i] # "absent" /\ delivery[i] = "taken"))
  BY <1>2 DEF Expirable
<1>5. /\ file' \in [Jobs -> FileStates]
      /\ \A i \in Jobs : file'[i] = "present" <=>
             file[i] = "present" /\ ~(Download(i) /\ (i \in expired \/ r[i] \in {"cancelled", "absent"}))
  BY <1>2, <1>4, SweptFiles DEF Maintain, BookInv, RecordTypes
<1>6. /\ delivery' \in [Jobs -> {"pending", "taken", "gone"}]
      /\ \A i \in Jobs : delivery'[i] = IF i \in expired /\ r[i] = "done" /\ delivery[i] = "pending" THEN "gone" ELSE delivery[i]
  BY <1>2 DEF Maintain, GoneIf, BookInv, RecordTypes
<1>7. \A i \in Jobs : delivery'[i] # delivery[i] => Shown(i) \in Finished /\ delivery'[i] = "gone"
  BY <1>3, <1>4, <1>6 DEF Finished
<1>8. \A i \in Jobs : loaded /\ file[i] = "present" /\ file'[i] # "present" =>
                   /\ Download(i)
                   /\ \/ Shown(i) = "done" /\ delivery'[i] # "pending"
                      \/ Shown(i) \in {"cancelled", "absent"} \/ delivery[i] = "taken"
  BY <1>3, <1>4, <1>5, <1>6
<1> QED BY <1>1, <1>5, <1>6, <1>7, <1>8

LEMMA ReadEffect ==
  ASSUME BookInv, ReadHistory
  PROVE  /\ ~loaded /\ loaded' /\ UNCHANGED <<next, mem, opened, barred>>
         /\ file' \in [Jobs -> FileStates] /\ delivery' \in [Jobs -> {"pending", "taken", "gone"}]
         /\ \A i \in Jobs :
              /\ mem[i] = "absent"
              /\ Shown(i)' = IF Shown(i) \in Active THEN "failed" ELSE Shown(i)
              /\ file'[i] = "present" => file[i] = "present" /\ (Download(i) => Shown(i)' # "absent")
              /\ delivery'[i] # delivery[i] => Shown(i) \in Finished /\ delivery'[i] = "gone"
              /\ file[i] = "present" /\ file'[i] # "present" =>
                   \/ Shown(i) \in Active /\ (TypeOf[i] = "upload" \/ barred[i])
                   \/ /\ Download(i)
                      /\ \/ Shown(i) = "done" /\ delivery'[i] # "pending"
                         \/ Shown(i) \in {"cancelled", "absent"} \/ delivery[i] = "taken"
<1> DEFINE interrupted == {j \in Jobs : hist[j] \in Active}
           r == [j \in Jobs |-> IF j \in interrupted THEN "failed" ELSE hist[j]]
           lost == {j \in interrupted : ~RestartResumable(j)}
           f == Lose(file, lost)
<1>1. ~loaded /\ loaded' /\ hist' = r /\ UNCHANGED <<next, mem, opened, barred>>
  BY DEF ReadHistory
<1>2. PICK expired \in SUBSET Expirable(r) : Maintain(r, expired, f)
  BY DEF ReadHistory
<1>3. \A j \in Jobs : mem[j] = "absent" /\ Shown(j) = hist[j]
  BY <1>1 DEF BookInv, HInv, MemoryIsLoaded, Shown
<1>4. \A j \in Jobs : r[j] = IF Shown(j) \in Active THEN "failed" ELSE Shown(j)
  BY <1>3
<1>5. \A j \in Jobs : Shown(j)' = r[j]
  BY <1>1, <1>3 DEF Shown
<1>6. \A j \in Jobs : j \in lost <=> Shown(j) \in Active /\ (TypeOf[j] = "upload" \/ barred[j])
  BY <1>3 DEF RestartResumable
<1> HIDE DEF r, lost
<1>7. /\ f \in [Jobs -> FileStates]
      /\ \A i \in Jobs : f[i] = IF i \in lost /\ file[i] = "present" THEN "missing" ELSE file[i]
  BY LoseType DEF BookInv, RecordTypes
<1> HIDE DEF f
<1>8. /\ expired \in SUBSET Jobs
      /\ \A i \in expired : Download(i) /\ (r[i] = "done" \/ (r[i] # "absent" /\ delivery[i] = "taken"))
  BY <1>2 DEF Expirable
<1>9. /\ file' \in [Jobs -> FileStates]
      /\ \A i \in Jobs : file'[i] = "present" <=>
             f[i] = "present" /\ ~(Download(i) /\ (i \in expired \/ r[i] \in {"cancelled", "absent"}))
  BY <1>2, <1>7, <1>8, SweptFiles DEF Maintain
<1>10. /\ delivery' \in [Jobs -> {"pending", "taken", "gone"}]
       /\ \A i \in Jobs : delivery'[i] = IF i \in expired /\ r[i] = "done" /\ delivery[i] = "pending" THEN "gone" ELSE delivery[i]
  BY <1>2 DEF Maintain, GoneIf, BookInv, RecordTypes
<1>11. \A i \in Jobs : file'[i] = "present" => file[i] = "present" /\ (Download(i) => r[i] # "absent")
  BY <1>7, <1>9
<1>12. \A i \in Jobs : delivery'[i] # delivery[i] => Shown(i) \in Finished /\ delivery'[i] = "gone"
  BY <1>4, <1>10 DEF Finished
<1>13. \A i \in Jobs : file[i] = "present" /\ file'[i] # "present" =>
                   \/ Shown(i) \in Active /\ (TypeOf[i] = "upload" \/ barred[i])
                   \/ /\ Download(i)
                      /\ \/ Shown(i) = "done" /\ delivery'[i] # "pending"
                         \/ Shown(i) \in {"cancelled", "absent"} \/ delivery[i] = "taken"
  BY <1>4, <1>6, <1>7, <1>8, <1>9, <1>10
<1> QED BY <1>1, <1>3, <1>4, <1>5, <1>9, <1>10, <1>11, <1>12, <1>13
-----------------------------------------------------------------------------
(* The books: types, the size of the history, and which jobs have a record. *)

LEMMA InitBook == HInit => BookInv
<1> SUFFICES ASSUME HInit PROVE BookInv
  OBVIOUS
<1>1. RecordTypes
  <2>1. next \in 1..(LastJob + 1)
    BY HistoryAssumption DEF HInit
  <2>2. opened \in [Jobs -> BOOLEAN] /\ barred \in [Jobs -> BOOLEAN] /\ loaded \in BOOLEAN
    BY DEF HInit
  <2>3. file \in [Jobs -> FileStates] /\ delivery \in [Jobs -> {"pending", "taken", "gone"}]
    BY DEF HInit, FileStates
  <2> QED BY <2>1, <2>2, <2>3 DEF RecordTypes
<1>2. Recorded /\ LeftoversHaveStopped
  BY DEF HInit, Recorded, LeftoversHaveStopped
<1> QED BY <1>1, <1>2, HInitInv DEF BookInv

LEMMA LoadedType ==
  ASSUME BookInv, [HNext]_hvars
  PROVE  loaded' \in BOOLEAN
<1>0. loaded \in BOOLEAN
  BY DEF BookInv, RecordTypes
<1>1. ASSUME NEW j \in Jobs,
             \/ Submit(j) \/ Start(j) \/ Open(j) \/ PauseSftpJob(j) \/ FinishDone(j) \/ FinishFailed(j)
             \/ CancelSftpJob(j) \/ ResumeJob(j) \/ ResumeRecord(j) \/ DeleteSftpJob(j) \/ MarkDelivered(j)
      PROVE  loaded' = loaded
  <2>1. Submit(j) \/ Start(j) \/ Open(j) \/ PauseSftpJob(j) => loaded' = loaded
    BY DEF Submit, Start, Open, PauseSftpJob
  <2>2. FinishDone(j) \/ FinishFailed(j) \/ CancelSftpJob(j) => loaded' = loaded
    BY DEF FinishDone, FinishFailed, CancelSftpJob
  <2>3. ResumeJob(j) \/ ResumeRecord(j) \/ DeleteSftpJob(j) \/ MarkDelivered(j) => loaded' = loaded
    BY DEF ResumeJob, ResumeRecord, DeleteSftpJob, MarkDelivered
  <2> QED BY <1>1, <2>1, <2>2, <2>3
<1>2. CASE ClearFinishedSftpJobs \/ HourlyTimer \/ ClearSftpCache
  BY <1>0, <1>2 DEF ClearFinishedSftpJobs, HourlyTimer, ClearSftpCache
<1>3. CASE ReadHistory \/ Restart \/ UNCHANGED hvars
  BY <1>0, <1>3 DEF ReadHistory, Restart, hvars
<1> QED BY <1>0, <1>1, <1>2, <1>3 DEF HNext

LEMMA StepTypes ==
  ASSUME BookInv, [HNext]_hvars
  PROVE  RecordTypes'
<1>1. CASE Lives
  <2>0. PICK f : \E j \in Jobs, s \in Statuses : LifeStep(j, s, f)
    BY <1>1 DEF Lives
  <2>1. PICK j \in Jobs, s \in Statuses : LifeStep(j, s, f)
    BY <2>0
  <2>2. file' \in [Jobs -> FileStates]
    BY <2>1, LifeEffect DEF BookInv
  <2> QED BY <2>1, <2>2, LoadedType DEF LifeStep, RecordTypes
<1>2. CASE OpensFile
  BY <1>2 DEF OpensFile, BookInv, RecordTypes, FileStates
<1>3. CASE Tidies
  BY <1>3, LoadedType DEF Tidies, Forgets, BookInv, RecordTypes
<1>4. CASE HourlyTimer \/ ReadHistory
  BY <1>4, HourlyEffect, ReadEffect, LoadedType DEF BookInv, RecordTypes
<1>5. CASE Restart \/ UNCHANGED hvars
  BY <1>5 DEF Restart, hvars, BookInv, RecordTypes
<1> QED BY <1>1, <1>2, <1>3, <1>4, <1>5, StepKinds

LEMMA StepRecorded ==
  ASSUME BookInv, [HNext]_hvars
  PROVE  Recorded'
<1> SUFFICES ASSUME NEW j \in Jobs, Kept(j), mem'[j] # "absent" PROVE hist'[j] # "absent"
  BY DEF Recorded, Kept
<1>1. CASE Stores
  <2>1. PICK r \in [Jobs -> Statuses] :
          hist' = Records(r) /\ (r[j] # "absent" \/ (mem[j] # "absent" /\ hist[j] = "absent"))
    BY <1>1 DEF Stores
  <2>2. r[j] # "absent"
    BY <2>1 DEF BookInv, Recorded
  <2> QED BY <2>1, <2>2, KeptIsNewest, RecordsAreNewest
<1>2. CASE KeepsRecords
  BY <1>2 DEF KeepsRecords, BookInv, Recorded
<1> QED BY <1>1, <1>2, StepStores DEF BookInv

LEMMA StepLeftovers ==
  ASSUME BookInv, [HNext]_hvars
  PROVE  LeftoversHaveStopped'
<1> SUFFICES ASSUME loaded', NEW i \in Jobs, mem'[i] = "absent" PROVE hist'[i] \notin Active
  BY DEF LeftoversHaveStopped
<1>0. Shown(i)' = hist'[i]
  BY DEF Shown
<1>1. CASE Lives
  <2>0. PICK f : \E j \in Jobs, s \in Statuses : LifeStep(j, s, f)
    BY <1>1 DEF Lives
  <2>1. PICK j \in Jobs, s \in Statuses : LifeStep(j, s, f)
    BY <2>0
  <2>2. /\ loaded /\ mem'[j] = s
        /\ i # j => mem'[i] = mem[i] /\ Shown(i)' \in {Shown(i), "absent"}
    BY <2>1, LifeEffect DEF BookInv
  <2>3. s # "absent"
    BY <2>1 DEF LifeStep
  <2>4. mem[i] = "absent" /\ Shown(i)' \in {Shown(i), "absent"}
    BY <2>2, <2>3
  <2> QED BY <1>0, <2>2, <2>4 DEF Shown, BookInv, LeftoversHaveStopped, Active
<1>2. CASE OpensFile \/ HourlyTimer \/ UNCHANGED hvars
  BY <1>2 DEF OpensFile, HourlyTimer, hvars, BookInv, LeftoversHaveStopped
<1>3. CASE Tidies
  <2>1. CASE mem'[i] # mem[i]
    BY <1>0, <1>3, <2>1 DEF Tidies, Active
  <2>2. CASE mem'[i] = mem[i]
    BY <1>0, <1>3, <2>2 DEF Tidies, Forgets, Merged, BookInv, LeftoversHaveStopped, Active
  <2> QED BY <2>1, <2>2
<1>4. CASE ReadHistory
  BY <1>0, <1>4, ReadEffect DEF Active
<1>5. CASE Restart
  BY <1>5 DEF Restart
<1> QED BY <1>1, <1>2, <1>3, <1>4, <1>5, StepKinds

LEMMA StepBook == BookInv /\ [HNext]_hvars => BookInv'
<1> SUFFICES ASSUME BookInv, [HNext]_hvars PROVE BookInv'
  OBVIOUS
<1>1. HInv'
  BY HNextInv DEF BookInv
<1> QED BY <1>1, StepTypes, StepRecorded, StepLeftovers DEF BookInv

(* Every reachable state: a job in memory whose record cannot have been     *)
(* pushed out has one, and no leftover of an earlier process is active.      *)
THEOREM BooksAreKept == HSafety => []BookInv
<1> QED BY InitBook, StepBook, PTL DEF HSafety

FewRecords == Cardinality({j \in Jobs : hist[j] # "absent"}) <= MaxHistory

LEMMA StepFew == BookInv /\ FewRecords /\ [HNext]_hvars => FewRecords'
<1> SUFFICES ASSUME BookInv, FewRecords, [HNext]_hvars PROVE FewRecords'
  OBVIOUS
<1>1. CASE Stores
  <2>1. PICK r \in [Jobs -> Statuses] : hist' = Records(r)
    BY <1>1 DEF Stores
  <2>2. {j \in Jobs : hist'[j] # "absent"} = Newest(r)
    BY <2>1, RecordsAreNewest DEF Newest
  <2> QED BY <2>2, NewestAreFew DEF FewRecords
<1>2. CASE KeepsRecords
  <2>1. {j \in Jobs : hist'[j] # "absent"} = {j \in Jobs : hist[j] # "absent"}
    BY <1>2 DEF KeepsRecords
  <2> QED BY <2>1 DEF FewRecords
<1> QED BY <1>1, <1>2, StepStores DEF BookInv

(* The types, and that the file never holds more than MAX_HISTORY records.   *)
THEOREM HistoryTypeCorrect == HSafety => []HTypeOK
<1>1. HInit => FewRecords
  <2> SUFFICES ASSUME HInit PROVE FewRecords
    OBVIOUS
  <2>1. {j \in Jobs : hist[j] # "absent"} = {}
    BY DEF HInit
  <2> QED BY <2>1, FS_EmptySet, HistoryAssumption DEF FewRecords
<1>2. BookInv /\ FewRecords => HTypeOK
  BY DEF BookInv, HInv, RecordTypes, FileStates, FewRecords, HTypeOK
<1> QED BY <1>1, <1>2, StepFew, BooksAreKept, PTL DEF HSafety

-----------------------------------------------------------------------------
(* Work is remembered. *)

NoOverflow == LastJob <= MaxHistory

LEMMA AllAreKept == NoOverflow => \A j \in Jobs : Kept(j)
BY HistoryAssumption DEF NoOverflow, Kept, Jobs

LEMMA StepRemembers ==
  ASSUME NoOverflow, BookInv, [HNext]_hvars, NEW j \in Jobs, Shown(j) \in {"pending", "running"}
  PROVE  Shown(j)' # "absent"
<1>0. Kept(j) /\ Shown(j) # "absent"
  BY AllAreKept
<1>1. CASE Lives
  <2>0. PICK f : \E i \in Jobs, s \in Statuses : LifeStep(i, s, f)
    BY <1>1 DEF Lives
  <2>1. PICK i \in Jobs, s \in Statuses : LifeStep(i, s, f)
    BY <2>0
  <2>2. Shown(i)' = s /\ (i # j => Shown(j)' = Shown(j)) /\ s # "absent"
    BY <1>0, <2>1, LifeEffect DEF BookInv, LifeStep
  <2> QED BY <1>0, <2>2
<1>2. CASE OpensFile \/ HourlyTimer \/ UNCHANGED hvars
  BY <1>0, <1>2 DEF OpensFile, HourlyTimer, hvars, Shown
<1>3. CASE Tidies
  BY <1>0, <1>3 DEF Tidies
<1>4. CASE ReadHistory
  BY <1>0, <1>4, ReadEffect
<1>5. CASE Restart
  BY <1>0, <1>5 DEF Restart, Shown, BookInv, Recorded
<1> QED BY <1>1, <1>2, <1>3, <1>4, <1>5, StepKinds

(* Queued and running jobs never vanish without a trace, for any number of  *)
(* jobs that fit into the history.                                           *)
THEOREM WorkIsNotForgotten ==
  ASSUME NoOverflow
  PROVE  HSafety => WorkIsRemembered
<1> DEFINE Step == \A j \in Jobs : Shown(j) \in {"pending", "running"} => Shown(j)' # "absent"
<1>1. BookInv /\ [HNext]_hvars => [Step]_hvars
  BY StepRemembers
<1> QED BY <1>1, BooksAreKept, PTL DEF HSafety, WorkIsRemembered

-----------------------------------------------------------------------------
(* No orphan. *)

(* Also before the history is read, but for downloads: that sweeps them.    *)
OrphanFree == \A j \in Jobs : file[j] = "present" /\ (loaded \/ ~Download(j)) => Shown(j) # "absent"
(* A desktop download that has ended has no temporary file. *)
DesktopMoved == \A j \in Jobs : TypeOf[j] = "desktop" /\ mem[j] \in Finished => file[j] # "present"

OrphanInv == BookInv /\ OrphanFree /\ DesktopMoved

(* The history may overflow, but only by desktop downloads. *)
OnlyDesktopOverflows == \A j \in Jobs : Kept(j) \/ TypeOf[j] = "desktop"

LEMMA StepDesktopMoved ==
  ASSUME OrphanInv, [HNext]_hvars
  PROVE  DesktopMoved'
<1> USE DEF OrphanInv
<1> SUFFICES ASSUME NEW i \in Jobs, TypeOf[i] = "desktop", mem'[i] \in Finished, file'[i] = "present" PROVE FALSE
  BY DEF DesktopMoved
<1>1. CASE Lives
  <2>0. PICK f : \E j \in Jobs, s \in Statuses : LifeStep(j, s, f)
    BY <1>1 DEF Lives
  <2>1. PICK j \in Jobs, s \in Statuses : LifeStep(j, s, f)
    BY <2>0
  <2>2. f[i] = "present" /\ mem'[j] = s /\ (i # j => mem'[i] = mem[i])
    BY <2>1, LifeEffect DEF BookInv
  <2>3. CASE i = j
    BY <2>1, <2>2, <2>3 DEF LifeStep
  <2>4. CASE i # j
    BY <2>1, <2>2, <2>4 DEF LifeStep, DesktopMoved
  <2> QED BY <2>3, <2>4
<1>2. CASE OpensFile
  BY <1>2 DEF OpensFile, DesktopMoved, Finished, BookInv, RecordTypes
<1>3. CASE Tidies
  BY <1>3 DEF Tidies, Forgets, DesktopMoved, Finished
<1>4. CASE HourlyTimer \/ ReadHistory
  BY <1>4, HourlyEffect, ReadEffect DEF DesktopMoved, Finished
<1>5. CASE Restart \/ UNCHANGED hvars
  BY <1>5 DEF Restart, hvars, DesktopMoved, Finished
<1> QED BY <1>1, <1>2, <1>3, <1>4, <1>5, StepKinds

LEMMA StepOrphanFree ==
  ASSUME OnlyDesktopOverflows, OrphanInv, [HNext]_hvars
  PROVE  OrphanFree'
<1> USE DEF OrphanInv
<1> SUFFICES ASSUME NEW i \in Jobs, file'[i] = "present", loaded' \/ ~Download(i) PROVE Shown(i)' # "absent"
  BY DEF OrphanFree, Download
<1>1. CASE Lives
  <2>0. PICK f : \E j \in Jobs, s \in Statuses : LifeStep(j, s, f)
    BY <1>1 DEF Lives
  <2>1. PICK j \in Jobs, s \in Statuses : LifeStep(j, s, f)
    BY <2>0
  <2>2. /\ f[i] = "present" /\ (hist[i] # "absent" => hist'[i] # "absent")
        /\ loaded /\ Shown(j)' = s /\ (i # j => mem'[i] = mem[i])
    BY <2>1, LifeEffect DEF BookInv
  <2>3. s # "absent" /\ (i # j => f[i] = file[i])
    BY <2>1 DEF LifeStep
  <2>4. CASE i = j
    BY <2>2, <2>3, <2>4
  <2>5. CASE i # j
    BY <2>2, <2>3, <2>5 DEF OrphanFree, Shown
  <2> QED BY <2>4, <2>5
<1>2. CASE OpensFile
  BY <1>2 DEF OpensFile, OrphanFree, Shown, BookInv, RecordTypes
<1>3. CASE Tidies
  <2>1. /\ file[i] = "present" /\ (hist[i] # "absent" => hist'[i] # "absent")
        /\ mem'[i] # mem[i] => mem[i] \in Finished
        /\ loaded
    BY <1>3 DEF Tidies, Forgets
  <2>2. CASE hist[i] # "absent"
    BY <2>1, <2>2 DEF Shown
  <2>3. CASE hist[i] = "absent"
    <3>1. mem[i] # "absent"
      BY <2>1, <2>3 DEF OrphanFree, Shown
    <3>2. TypeOf[i] = "desktop"
      BY <2>3, <3>1 DEF OnlyDesktopOverflows, BookInv, Recorded
    <3>3. mem'[i] = mem[i]
      BY <2>1, <3>2 DEF DesktopMoved
    <3> QED BY <3>1, <3>3 DEF Shown
  <2> QED BY <2>2, <2>3
<1>4. CASE HourlyTimer \/ UNCHANGED hvars
  <2>1. /\ mem' = mem /\ hist' = hist /\ loaded' = loaded
        /\ file[i] = "present"
    BY <1>4, HourlyEffect DEF hvars
  <2> QED BY <2>1 DEF OrphanFree, Shown
<1>5. CASE ReadHistory
  <2>1. CASE Download(i)
    BY <1>5, <2>1, ReadEffect
  <2>2. CASE ~Download(i)
    BY <1>5, <2>2, ReadEffect DEF OrphanFree
  <2> QED BY <2>1, <2>2
<1>6. CASE Restart
  <2>1. ~Download(i) /\ mem'[i] = "absent" /\ hist'[i] = hist[i] /\ file[i] = "present"
    BY <1>6 DEF Restart
  <2>2. TypeOf[i] # "desktop" /\ Shown(i) # "absent"
    BY <2>1 DEF Download, OrphanFree
  <2>3. hist[i] # "absent"
    BY <2>2 DEF OnlyDesktopOverflows, BookInv, Recorded, Shown
  <2> QED BY <2>1, <2>3 DEF Shown
<1> QED BY <1>1, <1>2, <1>3, <1>4, <1>5, <1>6, StepKinds

(* Once the history is read, no artifact is left that no record names, for  *)
(* any number of jobs: only desktop downloads may outnumber the history.     *)
THEOREM ArtifactsAreNamed ==
  ASSUME OnlyDesktopOverflows
  PROVE  HSafety => []NoOrphan
<1>1. HInit => OrphanInv
  BY InitBook DEF HInit, OrphanInv, OrphanFree, DesktopMoved
<1>2. OrphanInv /\ [HNext]_hvars => OrphanInv'
  BY StepBook, StepOrphanFree, StepDesktopMoved DEF OrphanInv
<1>3. OrphanInv => NoOrphan
  BY DEF OrphanInv, OrphanFree, NoOrphan
<1> QED BY <1>1, <1>2, <1>3, PTL DEF HSafety
-----------------------------------------------------------------------------
(* Artifacts that are needed. *)

(* Steps that touch job j's artifact spare it: it waits to be fetched, the  *)
(* running transfer writes it, or the job may still use it after this step.  *)
Needed(j) ==
  \/ Download(j) /\ Shown(j) = "done" /\ delivery'[j] = "pending" /\ Shown(j)' # "absent"
  \/ Download(j) /\ mem[j] = "running" /\ mem'[j] = "running" /\ delivery[j] = "pending"
  \/ Useful(j) /\ Useful(j)' /\ ~Cleared(j) /\ ~Delivered(j)

LEMMA NeededIsShown ==
  ASSUME NEW j \in Jobs, Needed(j)
  PROVE  Shown(j) # "absent" /\ Shown(j)' # "absent"
BY DEF Needed, Useful, Shown, Active

LEMMA LifeKeepsNeeded ==
  ASSUME BookInv, NEW i \in Jobs, NEW s \in Statuses, NEW f, LifeStep(i, s, f),
         NEW j \in Jobs, file[j] = "present", Needed(j), ~Dropped(j)
  PROVE  file'[j] = "present"
<1>1. Shown(j) # "absent"
  BY NeededIsShown
<1>2. /\ file'[j] = f[j] /\ mem'[i] = s /\ Shown(i)' = s
  BY <1>1, LifeEffect DEF BookInv
<1>3. CASE i # j
  BY <1>2, <1>3 DEF LifeStep
<1>4. CASE i = j
  <2>1. CASE s \in {"pending", "running", "paused"}
    BY <1>2, <2>1 DEF LifeStep
  <2>2. CASE s \in Finished \cup {"failed"}
    <3>1. mem[j] \in Active /\ Shown(j) \in Active
      BY <1>4, <2>2 DEF LifeStep, Shown, Active
    <3>2. Useful(j)'
      BY <1>2, <1>4, <2>2, <3>1 DEF Needed, Active, Finished
    <3>3. s = "failed" /\ TypeOf[j] # "upload"
      BY <1>2, <1>4, <2>2, <3>2 DEF Useful, Active, Finished
    <3> QED BY <1>2, <1>4, <3>3 DEF LifeStep
  <2> QED BY <2>1, <2>2 DEF LifeStep, Statuses, Active, Finished
<1> QED BY <1>3, <1>4

LEMMA StepKeepsNeeded ==
  ASSUME BookInv, [HNext]_hvars,
         NEW j \in Jobs, file[j] = "present", Needed(j), ~Dropped(j), ~Unread
  PROVE  file'[j] = "present"
<1>0. /\ Shown(j) # "absent" /\ Shown(j)' # "absent"
      /\ file \in [Jobs -> FileStates]
  BY NeededIsShown DEF BookInv, RecordTypes
<1>1. ASSUME NEW i \in Jobs,
             \/ Submit(i) \/ Start(i) \/ PauseSftpJob(i) \/ FinishDone(i) \/ FinishFailed(i)
             \/ CancelSftpJob(i) \/ ResumeJob(i) \/ ResumeRecord(i)
      PROVE  file'[j] = "present"
  <2>1. \E f : \E s \in Statuses : LifeStep(i, s, f)
    BY <1>1, LifeSteps DEF BookInv, Statuses, Active
  <2> QED BY <2>1, LifeKeepsNeeded
<1>2. ASSUME NEW i \in Jobs, Open(i) PROVE file'[j] = "present"
  BY <1>0, <1>2 DEF Open
<1>3. ASSUME NEW i \in Jobs, DeleteSftpJob(i) \/ MarkDelivered(i) PROVE file'[j] = "present"
  BY <1>0, <1>3, DeleteTidies, MarkDeliveredTidies
<1>4. CASE ClearFinishedSftpJobs
  BY <1>0, <1>4, ClearFinishedTidies
<1>5. CASE ClearSftpCache
  <2> SUFFICES ASSUME file'[j] # "present" PROVE FALSE
    OBVIOUS
  <2>1. /\ mem' = mem
        /\ \/ TypeOf[j] # "cross-copy" /\ mem[j] \notin Active \cup {"failed"}
           \/ Download(j) /\ (Shown(j) \in Finished \/ delivery[j] = "taken")
        /\ Download(j) /\ Shown(j) \in Finished => delivery'[j] # "pending"
    BY <1>0, <1>5, ClearCacheTidies
  <2>2. CASE Download(j) /\ Shown(j) = "done" /\ delivery'[j] = "pending"
    BY <2>1, <2>2 DEF Finished
  <2>3. CASE Download(j) /\ mem[j] = "running" /\ delivery[j] = "pending"
    BY <2>1, <2>3 DEF Shown, Active, Finished
  <2>4. CASE Useful(j) /\ ~Cleared(j) /\ ~Delivered(j)
    <3>1. mem[j] # "absent"
      BY <1>5, <2>4 DEF Cleared
    <3> QED BY <2>1, <2>4, <3>1 DEF Useful, Delivered, Shown, Active, Finished
  <2> QED BY <2>2, <2>3, <2>4 DEF Needed
<1>6. CASE HourlyTimer
  <2>1. /\ loaded /\ mem' = mem
        /\ file'[j] # "present" =>
                   /\ Download(j)
                   /\ \/ Shown(j) = "done" /\ delivery'[j] # "pending"
                      \/ Shown(j) \in {"cancelled", "absent"} \/ delivery[j] = "taken"
        /\ delivery'[j] # delivery[j] => delivery'[j] = "gone"
    BY <1>6, HourlyEffect DEF Unread
  <2>2. CASE Download(j) /\ Shown(j) = "done" /\ delivery'[j] = "pending"
    BY <2>1, <2>2
  <2>3. CASE Download(j) /\ mem[j] = "running" /\ delivery[j] = "pending"
    BY <2>1, <2>3 DEF Shown
  <2>4. CASE Useful(j) /\ ~Delivered(j)
    BY <2>1, <2>4 DEF Delivered, Useful, Active
  <2> QED BY <2>2, <2>3, <2>4 DEF Needed
<1>7. CASE ReadHistory
  <2>1. /\ mem[j] = "absent" /\ barred' = barred
        /\ Shown(j)' = IF Shown(j) \in Active THEN "failed" ELSE Shown(j)
        /\ file'[j] # "present" =>
             \/ Shown(j) \in Active /\ (TypeOf[j] = "upload" \/ barred[j])
             \/ /\ Download(j)
                /\ \/ Shown(j) = "done" /\ delivery'[j] # "pending"
                   \/ Shown(j) \in {"cancelled", "absent"} \/ delivery[j] = "taken"
        /\ delivery'[j] # delivery[j] => delivery'[j] = "gone"
    BY <1>0, <1>7, ReadEffect
  <2>2. CASE Download(j) /\ Shown(j) = "done" /\ delivery'[j] = "pending"
    BY <2>1, <2>2 DEF Active
  <2>3. CASE mem[j] = "running"
    BY <2>1, <2>3
  <2>4. CASE Useful(j) /\ Useful(j)' /\ ~Delivered(j)
    BY <2>1, <2>4 DEF Delivered, Useful, Active
  <2> QED BY <2>2, <2>3, <2>4 DEF Needed
<1>8. CASE Restart \/ UNCHANGED hvars
  BY <1>8 DEF Restart, hvars
<1> QED BY <1>1, <1>2, <1>3, <1>4, <1>5, <1>6, <1>7, <1>8 DEF HNext

-----------------------------------------------------------------------------
(* A download that is done can be fetched. *)

(* The file a running download has opened is there. *)
OpenedIsThere ==
  \A j \in Jobs : Download(j) /\ mem[j] = "running" /\ opened[j] /\ delivery[j] = "pending" => file[j] = "present"

FetchInv == BookInv /\ OpenedIsThere

(* A job in sight keeps its record while the history does not overflow. *)
LEMMA SeenIsNotDropped ==
  ASSUME NoOverflow, BookInv, [HNext]_hvars, NEW j \in Jobs, Shown(j)' # "absent"
  PROVE  ~Dropped(j)
<1>1. Recorded' /\ Kept(j)
  BY StepBook, AllAreKept DEF BookInv
<1> QED BY <1>1 DEF Recorded, Kept, Dropped, Shown

LEMMA StepDelivery ==
  ASSUME BookInv, [HNext]_hvars, NEW j \in Jobs, delivery'[j] = "pending"
  PROVE  delivery[j] = "pending"
<1>1. CASE Lives
  BY <1>1 DEF Lives, LifeStep
<1>2. CASE OpensFile \/ Restart \/ UNCHANGED hvars
  BY <1>2 DEF OpensFile, Restart, hvars
<1>3. CASE Tidies
  BY <1>3 DEF Tidies
<1>4. CASE HourlyTimer \/ ReadHistory
  BY <1>4, HourlyEffect, ReadEffect
<1> QED BY <1>1, <1>2, <1>3, <1>4, StepKinds

LEMMA StepOpenedIsThere ==
  ASSUME NoOverflow, FetchInv, [HNext]_hvars
  PROVE  OpenedIsThere'
<1> USE DEF FetchInv
<1> SUFFICES ASSUME NEW j \in Jobs, Download(j), mem'[j] = "running", opened'[j], delivery'[j] = "pending"
             PROVE  file'[j] = "present"
  BY DEF OpenedIsThere, Download
<1>0. delivery[j] = "pending"
  BY StepDelivery
<1>1. CASE OpensFile
  BY <1>0, <1>1 DEF OpensFile, OpenedIsThere, BookInv, RecordTypes
<1>2. CASE mem[j] = "running" /\ opened[j]
  <2>1. ~Dropped(j)
    BY SeenIsNotDropped DEF Shown
  <2>2. ~Unread
    BY StepBook DEF Unread, BookInv, HInv, MemoryIsLoaded
  <2> QED BY <1>0, <1>2, <2>1, <2>2, StepKeepsNeeded DEF OpenedIsThere, Needed
<1>3. ASSUME ~OpensFile PROVE mem[j] = "running" /\ opened[j]
  <2>1. CASE Lives
    <3>0. PICK f : \E i \in Jobs, s \in Statuses : LifeStep(i, s, f)
      BY <2>1 DEF Lives
    <3>1. PICK i \in Jobs, s \in Statuses : LifeStep(i, s, f)
      BY <3>0
    <3>2. mem'[i] = s /\ (i # j => mem'[j] = mem[j])
      BY <3>1, LifeEffect DEF BookInv
    <3>3. opened[j] /\ (s = "running" => ~opened'[i])
      BY <3>1 DEF LifeStep
    <3> QED BY <3>2, <3>3
  <2>2. CASE Tidies
    BY <2>2 DEF Tidies, Forgets
  <2>3. CASE HourlyTimer \/ ReadHistory
    BY <2>3, HourlyEffect, ReadEffect
  <2>4. CASE Restart \/ UNCHANGED hvars
    BY <2>4 DEF Restart, hvars
  <2> QED BY <1>3, <2>1, <2>2, <2>3, <2>4, StepKinds
<1> QED BY <1>1, <1>2, <1>3

Backed ==
  \A j \in Jobs : Offered(j)' /\ file'[j] # "present" => (Offered(j) /\ file[j] # "present") \/ Unread

LEMMA StepDone ==
  ASSUME NoOverflow, FetchInv, [HNext]_hvars
  PROVE  Backed
<1> USE DEF FetchInv
<1> SUFFICES ASSUME NEW j \in Jobs, Download(j), Shown(j)' = "done", delivery'[j] = "pending",
                    file'[j] # "present", ~Unread
             PROVE  Offered(j) /\ file[j] # "present"
  BY DEF Backed, Offered, Download
<1>0. delivery[j] = "pending"
  BY StepDelivery
<1>1. CASE Shown(j) = "done"
  <2>1. ~Dropped(j)
    BY SeenIsNotDropped
  <2> QED BY <1>0, <1>1, <2>1, StepKeepsNeeded DEF Offered, Needed
<1>2. CASE Shown(j) # "done"
  <2>1. CASE Lives
    <3>0. PICK f : \E i \in Jobs, s \in Statuses : LifeStep(i, s, f)
      BY <2>1 DEF Lives
    <3>1. PICK i \in Jobs, s \in Statuses : LifeStep(i, s, f)
      BY <3>0
    <3>2. Shown(i)' = s /\ (i # j => Shown(j)' \in {Shown(j), "absent"})
      BY <3>1, LifeEffect DEF BookInv
    <3>3. i = j /\ s = "done"
      BY <1>2, <3>2
    <3>4. /\ mem[j] = "running" /\ (opened[j] \/ file[j] = "present")
          /\ TypeOf[j] = "browser" => f = file
          /\ TypeOf[j] = "desktop" => file[j] # "present"
      BY <3>1, <3>3 DEF LifeStep
    <3>5. file[j] = "present"
      BY <1>0, <3>4 DEF OpenedIsThere
    <3>6. f = file
      BY <3>4, <3>5, DownloadTypes
    <3>7. Kept(j) => file'[j] = f[j]
      BY <3>1, <3>3, LifeEffect DEF BookInv
    <3> QED BY <3>5, <3>6, <3>7, AllAreKept
  <2>2. CASE OpensFile \/ UNCHANGED hvars
    BY <1>2, <2>2 DEF OpensFile, hvars, Shown
  <2>3. CASE Tidies
    BY <1>2, <2>3 DEF Tidies, Forgets, Shown, Merged
  <2>4. CASE HourlyTimer
    BY <1>2, <2>4, HourlyEffect DEF Shown
  <2>5. CASE ReadHistory
    BY <1>2, <2>5, ReadEffect
  <2>6. CASE Restart
    BY <1>2, <2>6 DEF Restart, Shown, BookInv, HInv, RecordIsCurrent
  <2> QED BY <2>1, <2>2, <2>3, <2>4, <2>5, <2>6, StepKinds
<1> QED BY <1>1, <1>2

(* The record of a finished download offers only a file that is there, once  *)
(* the history is read; for any number of jobs that fit into the history,    *)
(* whatever is resumed or cleared and whenever the timer fires.              *)
THEOREM DoneIsFetchable ==
  ASSUME NoOverflow
  PROVE  HSafety => DoneCanBeFetched
<1>1. HInit => FetchInv
  BY InitBook DEF HInit, FetchInv, OpenedIsThere
<1>2. FetchInv /\ [HNext]_hvars => FetchInv'
  BY StepBook, StepOpenedIsThere DEF FetchInv
<1>3. FetchInv /\ [HNext]_hvars => [Backed]_hvars
  BY StepDone
<1> QED BY <1>1, <1>2, <1>3, PTL DEF HSafety, DoneCanBeFetched, Backed

-----------------------------------------------------------------------------
(* Artifacts are kept while they are useful. *)

(* Nothing but the four ways named with the property takes an artifact away *)
(* while its job can use it; for any number of jobs, any history bound and   *)
(* any order of requests, timers and restarts.                               *)
THEOREM UsefulIsKept == HSafety => ArtifactKept
<1> DEFINE Step == \A j \in Jobs : LosesUseful(j) => Unread \/ Cleared(j) \/ Dropped(j) \/ Delivered(j)
<1>1. BookInv /\ [HNext]_hvars => [Step]_hvars
  BY StepKeepsNeeded DEF LosesUseful, Needed
<1> QED BY <1>1, BooksAreKept, PTL DEF HSafety, ArtifactKept
=============================================================================
