---------------------- MODULE TransferScheduler_proofs ----------------------
(***************************************************************************)
(* Proofs that the scheduler keeps its accounting straight for any number  *)
(* of jobs, queues and slots, and that it implements FIFO admission; then  *)
(* what the proofs about its engines share.                                *)
(***************************************************************************)
EXTENDS TransferScheduler, RemoteFiles, FiniteSetTheorems, TLAPS

NoDup(s) == \A p, q \in 1..Len(s) : s[p] = s[q] => p = q

Holds(s, j) == \E p \in 1..Len(s) : s[p] = j

DropAt(s, p) == [i \in 1..(Len(s) - 1) |-> IF i < p THEN s[i] ELSE s[i + 1]]

(* NoStrandedJob speaks of turns that are over; inside a turn it holds of   *)
(* every queue whose loop is not still to run.                              *)
NoStrandedOutsideTurn ==
  \A k \in Kinds :
    k \notin turn /\ queue[k] # <<>> /\ Cardinality(active[k]) < limit[k] => due[k]

SInv ==
  /\ STypeOK
  /\ SlotsAgree
  /\ QueueAgrees
  /\ NoForgottenWaiter
  /\ NoStrandedOutsideTurn

-----------------------------------------------------------------------------
(* Removing a job from a queue without repetitions. *)

LEMMA WithoutAbsent ==
  ASSUME NEW S, NEW s \in Seq(S), NEW j, ~Holds(s, j)
  PROVE  Without(s, j) = s
BY DEF Without, Holds

(* A job that is queued once is taken out and nothing else changes. *)
LEMMA WithoutPresent ==
  ASSUME NEW S, NEW s \in Seq(S), NEW j, Holds(s, j), NoDup(s)
  PROVE  \E p \in 1..Len(s) : s[p] = j /\ Without(s, j) = DropAt(s, p)
<1> DEFINE c == CHOOSE q \in 1..Len(s) : s[q] = j
<1>1. c \in 1..Len(s) /\ s[c] = j
  BY DEF Holds
<1>2. Without(s, j) = DropAt(s, c)
  BY DEF Without, Holds, DropAt
<1> QED BY <1>1, <1>2

LEMMA WithoutProperties ==
  ASSUME NEW S, NEW s \in Seq(S), NEW j, NoDup(s)
  PROVE  /\ Without(s, j) \in Seq(S)
         /\ NoDup(Without(s, j))
         /\ \A i : Holds(Without(s, j), i) <=> (Holds(s, i) /\ i # j)
         /\ s = <<>> => Without(s, j) = <<>>
<1>1. CASE ~Holds(s, j)
  <2>1. Without(s, j) = s
    BY <1>1, WithoutAbsent
  <2> QED BY <2>1, <1>1 DEF Holds
<1>2. CASE Holds(s, j)
  <2>1. PICK p \in 1..Len(s) : s[p] = j /\ Without(s, j) = DropAt(s, p)
    BY <1>2, WithoutPresent
  <2> DEFINE t == DropAt(s, p)
  <2>2. Len(s) \in Nat /\ Len(s) - 1 \in Nat /\ DOMAIN s = 1..Len(s)
    BY <2>1
  <2>3. t \in Seq(S) /\ Len(t) = Len(s) - 1
    BY <2>1, <2>2 DEF DropAt
  <2> HIDE DEF t
  <2>4. \A i \in 1..Len(t) : t[i] = IF i < p THEN s[i] ELSE s[i + 1]
    BY <2>3, <2>2 DEF t, DropAt
  <2>5. NoDup(t)
    <3> SUFFICES ASSUME NEW a \in 1..Len(t), NEW b \in 1..Len(t), t[a] = t[b]
                 PROVE  a = b
      BY DEF NoDup
    <3> QED BY <2>1, <2>2, <2>3, <2>4 DEF NoDup
  <2>6. ASSUME NEW i PROVE Holds(t, i) <=> (Holds(s, i) /\ i # j)
    <3>1. ASSUME Holds(t, i) PROVE Holds(s, i) /\ i # j
      <4>1. PICK a \in 1..Len(t) : t[a] = i
        BY <3>1 DEF Holds
      <4>2. CASE a < p
        BY <4>1, <4>2, <2>1, <2>2, <2>3, <2>4 DEF Holds, NoDup
      <4>3. CASE ~(a < p)
        <5>1. a + 1 \in 1..Len(s) /\ a + 1 # p /\ s[a + 1] = i
          BY <4>1, <4>3, <2>1, <2>2, <2>3, <2>4
        <5> QED BY <5>1, <2>1 DEF Holds, NoDup
      <4> QED BY <4>2, <4>3
    <3>2. ASSUME Holds(s, i), i # j PROVE Holds(t, i)
      <4>1. PICK b \in 1..Len(s) : s[b] = i
        BY <3>2 DEF Holds
      <4>2. b # p
        BY <4>1, <3>2, <2>1
      <4>3. CASE b < p
        BY <4>1, <4>3, <2>1, <2>2, <2>3, <2>4 DEF Holds
      <4>4. CASE b > p
        <5>1. b - 1 \in 1..Len(t) /\ t[b - 1] = i
          BY <4>1, <4>4, <2>1, <2>2, <2>3, <2>4
        <5> QED BY <5>1 DEF Holds
      <4> QED BY <4>2, <4>3, <4>4, <2>1
    <3> QED BY <3>1, <3>2
  <2>7. s # <<>>
    BY <2>1
  <2> QED BY <2>1, <2>3, <2>5, <2>6, <2>7 DEF t
<1> QED BY <1>1, <1>2

(* Joining and leaving at the two ends of a queue. *)
LEMMA AppendKeepsOrder ==
  ASSUME NEW S, NEW s \in Seq(S), NEW j \in S, NoDup(s), ~Holds(s, j)
  PROVE  /\ Append(s, j) \in Seq(S)
         /\ NoDup(Append(s, j))
         /\ \A i : Holds(Append(s, j), i) <=> (Holds(s, i) \/ i = j)
<1> DEFINE t == Append(s, j)
<1>1. t \in Seq(S) /\ Len(t) = Len(s) + 1 /\ Len(s) \in Nat
  OBVIOUS
<1>2. t[Len(s) + 1] = j /\ \A i \in 1..Len(s) : t[i] = s[i]
  OBVIOUS
<1> HIDE DEF t
<1>3. NoDup(t)
  BY <1>1, <1>2 DEF NoDup, Holds
<1>4. ASSUME NEW i PROVE Holds(t, i) <=> (Holds(s, i) \/ i = j)
  <2>1. Holds(t, i) => Holds(s, i) \/ i = j
    BY <1>1, <1>2 DEF Holds
  <2>2. i = j => Holds(t, i)
    BY <1>1, <1>2 DEF Holds
  <2>3. Holds(s, i) => Holds(t, i)
    BY <1>1, <1>2 DEF Holds
  <2> QED BY <2>1, <2>2, <2>3
<1> QED BY <1>1, <1>3, <1>4 DEF t

LEMMA TailProperties ==
  ASSUME NEW S, NEW s \in Seq(S), s # <<>>, NoDup(s)
  PROVE  /\ Head(s) \in S
         /\ Tail(s) \in Seq(S)
         /\ NoDup(Tail(s))
         /\ Holds(s, Head(s))
         /\ \A i : Holds(Tail(s), i) <=> (Holds(s, i) /\ i # Head(s))
<1> DEFINE t == Tail(s)
<1>1. Len(s) \in Nat \ {0} /\ Len(t) = Len(s) - 1 /\ t \in Seq(S) /\ Head(s) = s[1] /\ Head(s) \in S
  OBVIOUS
<1>2. \A i \in 1..Len(t) : t[i] = s[i + 1]
  OBVIOUS
<1> HIDE DEF t
<1>3. NoDup(t)
  BY <1>1, <1>2 DEF NoDup
<1>4. ASSUME NEW i PROVE Holds(t, i) <=> (Holds(s, i) /\ i # Head(s))
  <2>1. ASSUME Holds(t, i) PROVE Holds(s, i) /\ i # Head(s)
    <3>1. PICK a \in 1..Len(t) : t[a] = i
      BY <2>1 DEF Holds
    <3>2. a + 1 \in 1..Len(s) /\ s[a + 1] = i /\ 1 \in 1..Len(s)
      BY <3>1, <1>1, <1>2
    <3> QED BY <3>2, <1>1 DEF Holds, NoDup
  <2>2. ASSUME Holds(s, i), i # Head(s) PROVE Holds(t, i)
    <3>1. PICK b \in 1..Len(s) : s[b] = i
      BY <2>2 DEF Holds
    <3>2. b - 1 \in 1..Len(t) /\ t[b - 1] = i
      BY <3>1, <2>2, <1>1, <1>2
    <3> QED BY <3>2 DEF Holds
  <2> QED BY <2>1, <2>2
<1>5. Holds(s, Head(s))
  BY <1>1 DEF Holds
<1> QED BY <1>1, <1>3, <1>4, <1>5 DEF t

-----------------------------------------------------------------------------
(* The inductive invariant. *)

(* Whose id may be in a queue. *)
MayBeQueued(j, s) == s = "pending" \/ (j \in FailInQueue /\ s \in {"failed", "absent"})

(* QueueAgrees in the terms of the lemmas above. *)
LEMMA QueueAgreesAsHolds ==
  QueueAgrees <=>
    /\ \A k \in Kinds : NoDup(queue[k])
    /\ \A j \in Jobs : status[j] = "pending" =>
         Holds(queue[KindOf[j]], j) /\ queued[j] /\ runner[j] # "none"
    /\ \A k \in Kinds, j \in Jobs : Holds(queue[k], j) =>
         KindOf[j] = k /\ MayBeQueued(j, status[j])
BY DEF QueueAgrees, NoDup, Holds, InQueue, MayBeQueued

LEMMA SInitInv == SInit => SInv
<1> SUFFICES ASSUME SInit PROVE SInv
  OBVIOUS
<1>1. STypeOK
  BY KindsAssumption DEF SInit, STypeOK, Statuses, Runners
<1>2. SlotsAgree
  BY DEF SInit, SlotsAgree
<1>3. QueueAgrees
  BY DEF SInit, QueueAgrees, InQueue
<1>4. NoForgottenWaiter /\ NoStrandedOutsideTurn
  BY DEF SInit, NoForgottenWaiter, NoStrandedOutsideTurn
<1> QED BY <1>1, <1>2, <1>3, <1>4 DEF SInv

(* Joining the queue: Submit and ResumeJob. *)
LEMMA QueueTransferJobKeepsInv ==
  ASSUME SInv, Idle, NEW j \in Jobs, NEW r \in Runners \ {"none"},
         status[j] \in {"absent", "paused", "failed"}, QueueTransferJob(j, r)
  PROVE  SInv'
<1> DEFINE k == KindOf[j]
           rest == Without(queue[k], j)
           line == Append(rest, j)
<1>1. k \in Kinds /\ queue[k] \in Seq(Jobs) /\ NoDup(queue[k])
  BY KindsAssumption, QueueAgreesAsHolds DEF SInv, STypeOK
<1>2. /\ rest \in Seq(Jobs) /\ NoDup(rest)
      /\ \A i : Holds(rest, i) <=> (Holds(queue[k], i) /\ i # j)
  BY <1>1, WithoutProperties
<1>3. queue' = [queue EXCEPT ![k] = line]
  BY DEF QueueTransferJob, SInv, STypeOK
<1> HIDE DEF rest
<1>4. /\ line \in Seq(Jobs) /\ NoDup(line)
      /\ \A i : Holds(line, i) <=> (Holds(rest, i) \/ i = j)
  BY <1>2, AppendKeepsOrder
<1> HIDE DEF k, line
<1>5. STypeOK'
  BY <1>1, <1>3, <1>4, ZenonT(40) DEF SInv, STypeOK, QueueTransferJob, Statuses, k
<1>6. SlotsAgree'
  BY DEF SInv, STypeOK, SlotsAgree, QueueTransferJob
<1>7. /\ \A l \in Kinds : NoDup(queue'[l])
      /\ \A i \in Jobs : status'[i] = "pending" => Holds(queue'[KindOf[i]], i)
      /\ \A l \in Kinds, i \in Jobs : Holds(queue'[l], i) =>
           KindOf[i] = l /\ MayBeQueued(i, status'[i])
  <2>1. \A l \in Kinds : queue'[l] = IF l = k THEN line ELSE queue[l]
    BY <1>3 DEF SInv, STypeOK
  <2>2. \A i \in Jobs : status'[i] = IF i = j THEN "pending" ELSE status[i]
    BY DEF SInv, STypeOK, QueueTransferJob
  <2>3. \A i \in Jobs : KindOf[i] \in Kinds
    BY KindsAssumption
  <2> QED BY <2>1, <2>2, <2>3, <1>1, <1>2, <1>4, QueueAgreesAsHolds DEF SInv, k, MayBeQueued
<1>8. \A i \in Jobs : status'[i] = "pending" => queued'[i] /\ runner'[i] # "none"
  BY DEF SInv, STypeOK, QueueAgrees, QueueTransferJob
<1>9. QueueAgrees'
  BY <1>7, <1>8 DEF QueueAgrees, NoDup, Holds, InQueue, MayBeQueued
<1>10. NoForgottenWaiter'
  BY DEF SInv, STypeOK, NoForgottenWaiter, QueueTransferJob
<1>11. NoStrandedOutsideTurn'
  BY <1>3 DEF SInv, STypeOK, NoStrandedOutsideTurn, QueueTransferJob, Idle, k
<1> QED BY <1>5, <1>6, <1>9, <1>10, <1>11 DEF SInv

(* The head of a queue is a job of that queue's kind. *)
LEMMA HeadIsOfKind ==
  ASSUME SInv, NEW k \in Kinds, CanShift(k)
  PROVE  /\ Head(queue[k]) \in Jobs
         /\ KindOf[Head(queue[k])] = k
         /\ MayBeQueued(Head(queue[k]), status[Head(queue[k])])
<1>1. queue[k] \in Seq(Jobs) /\ queue[k] # <<>> /\ NoDup(queue[k])
  BY QueueAgreesAsHolds DEF SInv, STypeOK, CanShift
<1>2. Head(queue[k]) \in Jobs /\ Holds(queue[k], Head(queue[k]))
  BY <1>1, TailProperties
<1> QED BY <1>2, QueueAgreesAsHolds DEF SInv

(* Leaving the queue at its head: AdmitHead, FailHead and SkipHead. *)
LEMMA ShiftKeepsQueue ==
  ASSUME SInv, NEW k \in Kinds, CanShift(k), NEW s \in Statuses \ {"pending"},
         queue' = [queue EXCEPT ![k] = Tail(@)],
         status' = [status EXCEPT ![Head(queue[k])] = s],
         \A i \in Jobs : i # Head(queue[k]) => queued'[i] = queued[i] /\ runner'[i] = runner[i]
  PROVE  /\ queue' \in [Kinds -> Seq(Jobs)]
         /\ QueueAgrees'
<1> DEFINE j == Head(queue[k])
<1>1. queue[k] \in Seq(Jobs) /\ queue[k] # <<>> /\ NoDup(queue[k])
  BY QueueAgreesAsHolds DEF SInv, STypeOK, CanShift
<1>2. /\ j \in Jobs
      /\ Tail(queue[k]) \in Seq(Jobs)
      /\ NoDup(Tail(queue[k]))
      /\ \A i : Holds(Tail(queue[k]), i) <=> (Holds(queue[k], i) /\ i # j)
  BY <1>1, TailProperties
<1>3. KindOf[j] = k
  BY HeadIsOfKind
<1>4. \A i \in Jobs : status'[i] = IF i = j THEN s ELSE status[i]
  BY DEF SInv, STypeOK
<1>5. \A l \in Kinds : queue'[l] = IF l = k THEN Tail(queue[k]) ELSE queue[l]
  BY DEF SInv, STypeOK
<1>6. queue' \in [Kinds -> Seq(Jobs)]
  BY <1>2 DEF SInv, STypeOK
<1>7. \A i \in Jobs : status'[i] = "pending" => queued'[i] /\ runner'[i] # "none"
  BY <1>2, <1>4 DEF SInv, STypeOK, QueueAgrees
<1> HIDE DEF j
<1>8. /\ \A l \in Kinds : NoDup(queue'[l])
      /\ \A i \in Jobs : status'[i] = "pending" => Holds(queue'[KindOf[i]], i)
      /\ \A l \in Kinds, i \in Jobs : Holds(queue'[l], i) =>
           KindOf[i] = l /\ MayBeQueued(i, status'[i])
  <2>1. \A i \in Jobs : KindOf[i] \in Kinds
    BY KindsAssumption
  <2> QED BY <2>1, <1>2, <1>3, <1>4, <1>5, QueueAgreesAsHolds DEF SInv
<1>9. QueueAgrees'
  BY <1>7, <1>8 DEF QueueAgrees, NoDup, Holds, InQueue, MayBeQueued
<1> QED BY <1>6, <1>9

LEMMA AdmitHeadKeepsInv ==
  ASSUME SInv, NEW k \in Kinds, AdmitHead(k)
  PROVE  SInv'
<1> DEFINE j == Head(queue[k])
<1>1. CanShift(k) /\ j \in Jobs /\ KindOf[j] = k /\ status[j] = "pending"
  BY HeadIsOfKind DEF AdmitHead, Startable
<1>2. queue' \in [Kinds -> Seq(Jobs)] /\ QueueAgrees'
  <2>1. \A i \in Jobs : i # j => queued'[i] = queued[i] /\ runner'[i] = runner[i]
    BY DEF AdmitHead, SInv, STypeOK
  <2> QED BY <1>1, <2>1, ShiftKeepsQueue DEF AdmitHead, Statuses
<1> HIDE DEF j
<1>3. STypeOK'
  BY <1>1, <1>2 DEF SInv, STypeOK, AdmitHead, Statuses, Runners, j
<1>4. SlotsAgree'
  BY <1>1 DEF SInv, STypeOK, SlotsAgree, AdmitHead, j
<1>5. NoForgottenWaiter'
  BY <1>1 DEF SInv, STypeOK, NoForgottenWaiter, AdmitHead, j
<1>6. NoStrandedOutsideTurn'
  BY <1>1 DEF SInv, STypeOK, NoStrandedOutsideTurn, AdmitHead, CanShift
<1> QED BY <1>2, <1>3, <1>4, <1>5, <1>6 DEF SInv

LEMMA FailHeadKeepsInv ==
  ASSUME SInv, NEW k \in Kinds, FailHead(k)
  PROVE  SInv'
<1> DEFINE j == Head(queue[k])
<1>1. CanShift(k) /\ j \in Jobs /\ KindOf[j] = k /\ status[j] = "pending"
  BY HeadIsOfKind DEF FailHead, Startable
<1>2. queue' \in [Kinds -> Seq(Jobs)] /\ QueueAgrees'
  <2>1. \A i \in Jobs : i # j => queued'[i] = queued[i] /\ runner'[i] = runner[i]
    BY DEF FailHead, SInv, STypeOK
  <2> QED BY <1>1, <2>1, ShiftKeepsQueue DEF FailHead, Statuses
<1> HIDE DEF j
<1>3. STypeOK'
  BY <1>1, <1>2 DEF SInv, STypeOK, FailHead, Statuses, Runners, j
<1>4. SlotsAgree'
  BY <1>1 DEF SInv, STypeOK, SlotsAgree, FailHead, j
<1>5. NoForgottenWaiter'
  BY <1>1 DEF SInv, STypeOK, NoForgottenWaiter, FailHead, j
<1>6. NoStrandedOutsideTurn'
  BY <1>1 DEF SInv, STypeOK, NoStrandedOutsideTurn, FailHead
<1> QED BY <1>2, <1>3, <1>4, <1>5, <1>6 DEF SInv

LEMMA SkipHeadKeepsInv ==
  ASSUME SInv, NEW k \in Kinds, SkipHead(k)
  PROVE  SInv'
<1> DEFINE j == Head(queue[k])
<1>1. CanShift(k) /\ j \in Jobs /\ KindOf[j] = k /\ status[j] # "pending" /\ status[j] \in Statuses
  <2>1. CanShift(k) /\ ~Startable(j)
    BY DEF SkipHead
  <2>2. j \in Jobs /\ KindOf[j] = k
    BY <2>1, HeadIsOfKind
  <2> QED BY <2>1, <2>2 DEF SInv, STypeOK, QueueAgrees, Startable
<1>2. queue' \in [Kinds -> Seq(Jobs)] /\ QueueAgrees'
  <2>1. status' = [status EXCEPT ![j] = status[j]] /\ queued' = queued /\ runner' = runner
    BY DEF SkipHead, SInv, STypeOK
  <2> QED BY <1>1, <2>1, ShiftKeepsQueue DEF SkipHead
<1> HIDE DEF j
<1>3. STypeOK'
  BY <1>2 DEF SInv, STypeOK, SkipHead
<1>4. SlotsAgree' /\ NoForgottenWaiter'
  BY DEF SInv, SlotsAgree, NoForgottenWaiter, SkipHead
<1>5. NoStrandedOutsideTurn'
  BY DEF SInv, STypeOK, NoStrandedOutsideTurn, SkipHead, CanShift
<1> QED BY <1>2, <1>3, <1>4, <1>5 DEF SInv

(* A job without a slot releases nothing. *)
LEMMA ReleaseWithoutSlot ==
  ASSUME STypeOK, SlotsAgree, NEW j \in Jobs, NEW s, status[j] # "running", Release(j, s)
  PROVE  /\ status' = [status EXCEPT ![j] = s]
         /\ UNCHANGED <<queue, active, slot, queued, runner, waiting, due, turn, limit>>
<1> DEFINE k == KindOf[j]
<1>1. slot[j] = FALSE
  <2>1. ~slot[j] /\ slot[j] \in BOOLEAN
    BY DEF SlotsAgree, STypeOK
  <2> QED BY <2>1
<1>2. slot' = slot
  <2>1. slot' = [slot EXCEPT ![j] = FALSE]
    BY DEF Release, EndWith
  <2>2. slot = [slot EXCEPT ![j] = slot[j]]
    BY DEF STypeOK
  <2> QED BY <1>1, <2>1, <2>2
<1>3. active' = active
  <2>1. active' = [active EXCEPT ![k] = IF slot[j] THEN @ \ {j} ELSE @]
    BY DEF Release, EndWith
  <2>2. active = [active EXCEPT ![k] = active[k]]
    BY DEF STypeOK
  <2> QED BY <1>1, <2>1, <2>2
<1>4. due' = due
  <2>1. due' = [due EXCEPT ![k] = @ \/ slot[j]]
    BY DEF Release, EndWith
  <2>2. due = [due EXCEPT ![k] = due[k]] /\ due[k] \in BOOLEAN
    BY KindsAssumption DEF STypeOK
  <2>3. (due[k] \/ slot[j]) = due[k]
    BY <1>1, <2>2
  <2> QED BY <2>1, <2>2, <2>3
<1>5. status' = [status EXCEPT ![j] = s] /\ UNCHANGED <<queue, queued, runner, waiting, turn, limit>>
  BY DEF Release, EndWith
<1> QED BY <1>2, <1>3, <1>4, <1>5

(* A job that loses its status keeps its place, if it has one it may keep. *)
LEMMA StatusOnlyKeepsQueue ==
  ASSUME SInv, NEW j \in Jobs, NEW s \in {"failed", "absent"},
         status' = [status EXCEPT ![j] = s], UNCHANGED <<queue, queued, runner>>,
         \A k \in Kinds : InQueue(k, j) => j \in FailInQueue
  PROVE  QueueAgrees'
<1>1. \A i \in Jobs : status'[i] = IF i = j THEN s ELSE status[i]
  BY DEF SInv, STypeOK
<1>2. \A k, i : InQueue(k, i)' <=> InQueue(k, i)
  BY DEF InQueue
<1>3. \A k \in Kinds : \A p, q \in 1..Len(queue'[k]) : queue'[k][p] = queue'[k][q] => p = q
  BY DEF SInv, QueueAgrees
<1>4. \A i \in Jobs : status'[i] = "pending" =>
        InQueue(KindOf[i], i)' /\ queued'[i] /\ runner'[i] # "none"
  BY <1>1, <1>2 DEF SInv, QueueAgrees
<1>5. \A k \in Kinds, i \in Jobs : InQueue(k, i)' =>
        KindOf[i] = k /\ (status'[i] = "pending" \/ (i \in FailInQueue /\ status'[i] \in {"failed", "absent"}))
  BY <1>1, <1>2 DEF SInv, QueueAgrees
<1> QED BY <1>3, <1>4, <1>5 DEF QueueAgrees

(* A queued job fails; its id stays in the queue. *)
LEMMA FailQueuedKeepsInv ==
  ASSUME SInv, NEW j \in Jobs, FailQueued(j)
  PROVE  SInv'
<1>1. /\ status[j] = "pending" /\ runner[j] = "plain" /\ j \in FailInQueue
      /\ status' = [status EXCEPT ![j] = "failed"]
      /\ UNCHANGED <<queue, active, slot, queued, runner, waiting, due, turn, limit>>
  BY ReleaseWithoutSlot DEF SInv, FailQueued
<1>2. STypeOK' /\ SlotsAgree' /\ NoForgottenWaiter' /\ NoStrandedOutsideTurn'
  BY <1>1 DEF SInv, STypeOK, SlotsAgree, NoForgottenWaiter, NoStrandedOutsideTurn, Statuses
<1>3. QueueAgrees'
  <2>1. UNCHANGED <<queue, queued, runner>> /\ \A k \in Kinds : InQueue(k, j) => j \in FailInQueue
    BY <1>1
  <2>2. status' = [status EXCEPT ![j] = "failed"]
    BY <1>1
  <2> QED BY <2>1, <2>2, StatusOnlyKeepsQueue
<1> QED BY <1>2, <1>3 DEF SInv

(* Giving the slot back: every way a running job stops running. *)
LEMMA EndJobKeepsInv ==
  ASSUME SInv, NEW j \in Jobs, NEW s \in Settled, EndJob(j, s)
  PROVE  SInv'
<1> DEFINE k == KindOf[j]
<1>1. k \in Kinds /\ status[j] = "running" /\ slot[j]
  BY KindsAssumption DEF SInv, SlotsAgree, EndJob
<1> USE DEF EndJob, Release, EndWith
<1>2. STypeOK'
  BY <1>1 DEF SInv, STypeOK, Settled, Statuses
<1>3. SlotsAgree'
  BY <1>1 DEF SInv, STypeOK, SlotsAgree, Settled
<1>4. QueueAgrees'
  <2>1. \A i \in Jobs : status'[i] = IF i = j THEN s ELSE status[i]
    BY DEF SInv, STypeOK
  <2>2. (\A k1, i : InQueue(k1, i)' <=> InQueue(k1, i)) /\ UNCHANGED <<queue, queued, runner>>
    BY DEF InQueue
  <2>3. s # "pending" /\ \A k1 \in Kinds : ~InQueue(k1, j)
    BY <1>1 DEF SInv, QueueAgrees, Settled
  <2>4. \A k1 \in Kinds : \A p, q \in 1..Len(queue'[k1]) : queue'[k1][p] = queue'[k1][q] => p = q
    BY <2>2 DEF SInv, QueueAgrees
  <2>5. \A i \in Jobs : status'[i] = "pending" =>
          InQueue(KindOf[i], i)' /\ queued'[i] /\ runner'[i] # "none"
    BY <2>1, <2>2, <2>3 DEF SInv, QueueAgrees
  <2>6. \A k1 \in Kinds, i \in Jobs : InQueue(k1, i)' =>
          KindOf[i] = k1 /\ (status'[i] = "pending"
                            \/ (i \in FailInQueue /\ status'[i] \in {"failed", "absent"}))
    BY <2>1, <2>2, <2>3 DEF SInv, QueueAgrees
  <2> QED BY <2>4, <2>5, <2>6 DEF QueueAgrees
<1>5. NoForgottenWaiter'
  BY <1>1 DEF SInv, STypeOK, NoForgottenWaiter
<1>6. NoStrandedOutsideTurn'
  <2>1. \A l \in Kinds : l # k => active'[l] = active[l] /\ due'[l] = due[l]
    BY <1>1 DEF SInv, STypeOK
  <2>2. due'[k] = TRUE
    BY <1>1 DEF SInv, STypeOK
  <2> QED BY <2>1, <2>2, <1>1 DEF SInv, NoStrandedOutsideTurn
<1> QED BY <1>2, <1>3, <1>4, <1>5, <1>6 DEF SInv

(* Leaving the queue from anywhere: pause or cancel before the start. *)
LEMMA WithdrawJobKeepsInv ==
  ASSUME SInv, NEW j \in Jobs, NEW s \in Settled, WithdrawJob(j, s)
  PROVE  SInv'
<1> DEFINE k == KindOf[j]
<1>1. k \in Kinds /\ queue[k] \in Seq(Jobs) /\ NoDup(queue[k])
  BY KindsAssumption, QueueAgreesAsHolds DEF SInv, STypeOK
<1>2. /\ Without(queue[k], j) \in Seq(Jobs)
      /\ NoDup(Without(queue[k], j))
      /\ \A i : Holds(Without(queue[k], j), i) <=> (Holds(queue[k], i) /\ i # j)
      /\ queue[k] = <<>> => Without(queue[k], j) = <<>>
  BY <1>1, WithoutProperties
<1>3. queue' = [queue EXCEPT ![k] = Without(queue[k], j)]
  BY DEF WithdrawJob, Withdraw, SInv, STypeOK
<1>4. status' = [status EXCEPT ![j] = s]
  BY DEF WithdrawJob, Withdraw
<1> HIDE DEF k
<1>5. STypeOK'
  BY <1>1, <1>2, <1>3 DEF SInv, STypeOK, WithdrawJob, Withdraw, Settled, Statuses
<1>6. SlotsAgree'
  BY DEF SInv, STypeOK, SlotsAgree, WithdrawJob, Withdraw, Settled
<1>7. /\ \A l \in Kinds : NoDup(queue'[l])
      /\ \A i \in Jobs : status'[i] = "pending" => Holds(queue'[KindOf[i]], i)
      /\ \A l \in Kinds, i \in Jobs : Holds(queue'[l], i) =>
           KindOf[i] = l /\ MayBeQueued(i, status'[i])
  <2>1. \A l \in Kinds : queue'[l] = IF l = k THEN Without(queue[k], j) ELSE queue[l]
    BY <1>3 DEF SInv, STypeOK
  <2>2. \A i \in Jobs : status'[i] = IF i = j THEN s ELSE status[i]
    BY <1>4 DEF SInv, STypeOK
  <2>3. s # "pending"
    BY DEF Settled
  <2>4. \A i \in Jobs : KindOf[i] \in Kinds
    BY KindsAssumption
  <2> QED BY <2>1, <2>2, <2>3, <2>4, <1>1, <1>2, QueueAgreesAsHolds DEF SInv, k
<1>8. \A i \in Jobs : status'[i] = "pending" => queued'[i] /\ runner'[i] # "none"
  BY DEF SInv, STypeOK, QueueAgrees, WithdrawJob, Withdraw, Settled
<1>9. QueueAgrees'
  BY <1>7, <1>8 DEF QueueAgrees, NoDup, Holds, InQueue, MayBeQueued
<1>10. NoForgottenWaiter'
  BY DEF SInv, STypeOK, NoForgottenWaiter, WithdrawJob, Withdraw
<1>11. NoStrandedOutsideTurn'
  <2>1. \A l \in Kinds : queue'[l] # <<>> => queue[l] # <<>>
    BY <1>1, <1>2, <1>3 DEF SInv, STypeOK
  <2> QED BY <2>1 DEF SInv, NoStrandedOutsideTurn, WithdrawJob, Withdraw
<1> QED BY <1>5, <1>6, <1>9, <1>10, <1>11 DEF SInv

(* The steps that move no job between the queue and the active set. *)
LEMMA OtherStepsKeepInv ==
  ASSUME SInv,
         \/ \E j \in Jobs : AwaitStart(j) \/ DeleteJob(j)
         \/ \E k \in Kinds : DrainDone(k) \/ ReleaseCallback(k)
         \/ \E l \in [Kinds -> Limits] : ChangeSettings(l)
  PROVE  SInv'
<1>1. ASSUME NEW j \in Jobs, AwaitStart(j) PROVE SInv'
  <2>1. STypeOK' /\ SlotsAgree' /\ NoForgottenWaiter' /\ NoStrandedOutsideTurn'
    BY <1>1 DEF SInv, AwaitStart, STypeOK, SlotsAgree, NoForgottenWaiter, NoStrandedOutsideTurn
  <2>2. QueueAgrees'
    BY <1>1 DEF SInv, AwaitStart, QueueAgrees, InQueue
  <2> QED BY <2>1, <2>2 DEF SInv
<1>2. ASSUME NEW j \in Jobs, DeleteJob(j) PROVE SInv'
  <2>1. STypeOK' /\ SlotsAgree' /\ NoForgottenWaiter' /\ NoStrandedOutsideTurn'
    BY <1>2 DEF SInv, DeleteJob, STypeOK, SlotsAgree, NoForgottenWaiter, NoStrandedOutsideTurn,
                Settled, Statuses
  <2>2. QueueAgrees'
    <3>1. /\ status[j] # "pending" /\ status' = [status EXCEPT ![j] = "absent"]
          /\ UNCHANGED <<queue, queued, runner>>
      BY <1>2 DEF DeleteJob, Settled
    <3>2. \A k \in Kinds : InQueue(k, j) => j \in FailInQueue
      BY <3>1 DEF SInv, QueueAgrees
    <3> QED BY <3>1, <3>2, StatusOnlyKeepsQueue
  <2> QED BY <2>1, <2>2 DEF SInv
<1>3. ASSUME NEW k \in Kinds, DrainDone(k) PROVE SInv'
  <2>1. STypeOK' /\ SlotsAgree' /\ NoForgottenWaiter'
    BY <1>3 DEF SInv, DrainDone, STypeOK, SlotsAgree, NoForgottenWaiter
  <2>2. QueueAgrees'
    BY <1>3 DEF SInv, DrainDone, QueueAgrees, InQueue
  <2>3. NoStrandedOutsideTurn'
    BY <1>3 DEF SInv, DrainDone, CanShift, NoStrandedOutsideTurn
  <2> QED BY <2>1, <2>2, <2>3 DEF SInv
<1>4. ASSUME NEW k \in Kinds, ReleaseCallback(k) PROVE SInv'
  <2>1. STypeOK' /\ SlotsAgree' /\ NoForgottenWaiter'
    BY <1>4 DEF SInv, ReleaseCallback, STypeOK, SlotsAgree, NoForgottenWaiter
  <2>2. QueueAgrees'
    BY <1>4 DEF SInv, ReleaseCallback, QueueAgrees, InQueue
  <2>3. NoStrandedOutsideTurn'
    BY <1>4 DEF SInv, STypeOK, ReleaseCallback, Idle, NoStrandedOutsideTurn
  <2> QED BY <2>1, <2>2, <2>3 DEF SInv
<1>5. ASSUME NEW l \in [Kinds -> Limits], ChangeSettings(l) PROVE SInv'
  <2>1. STypeOK' /\ SlotsAgree' /\ NoForgottenWaiter' /\ NoStrandedOutsideTurn'
    BY <1>5 DEF SInv, ChangeSettings, STypeOK, SlotsAgree, NoForgottenWaiter, NoStrandedOutsideTurn
  <2>2. QueueAgrees'
    BY <1>5 DEF SInv, ChangeSettings, QueueAgrees, InQueue
  <2> QED BY <2>1, <2>2 DEF SInv
<1> QED BY <1>1, <1>2, <1>3, <1>4, <1>5

LEMMA SNextInv ==
  ASSUME SInv, [SNext]_svars
  PROVE  SInv'
<1>1. ASSUME NEW j \in Jobs, Submit(j) \/ ResumeJob(j) PROVE SInv'
  BY <1>1, QueueTransferJobKeepsInv DEF Submit, ResumeJob, Runners
<1>2. ASSUME NEW j \in Jobs, NEW s \in Settled, EndJob(j, s) \/ WithdrawJob(j, s) PROVE SInv'
  BY <1>2, EndJobKeepsInv, WithdrawJobKeepsInv
<1>3. ASSUME NEW k \in Kinds, AdmitHead(k) \/ FailHead(k) \/ SkipHead(k) PROVE SInv'
  BY <1>3, AdmitHeadKeepsInv, FailHeadKeepsInv, SkipHeadKeepsInv
<1>6. ASSUME NEW j \in Jobs, FailQueued(j) PROVE SInv'
  BY <1>6, FailQueuedKeepsInv
<1>4. ASSUME \/ \E j \in Jobs : AwaitStart(j) \/ DeleteJob(j)
             \/ \E k \in Kinds : DrainDone(k) \/ ReleaseCallback(k)
             \/ \E l \in [Kinds -> Limits] : ChangeSettings(l)
      PROVE SInv'
  BY <1>4, OtherStepsKeepInv
<1>5. CASE UNCHANGED svars
  BY <1>5 DEF SInv, svars, STypeOK, SlotsAgree, QueueAgrees, InQueue, NoForgottenWaiter,
              NoStrandedOutsideTurn
<1> QED BY <1>1, <1>2, <1>3, <1>4, <1>5, <1>6 DEF SNext, DrainStep

(* Every reachable state of the scheduler, for any jobs, queues and limits. *)
THEOREM SchedulerInvariant == SSafety => []SInv
<1>1. SInit => SInv
  BY SInitInv
<1>2. SInv /\ [SNext]_svars => SInv'
  BY SNextInv
<1> QED BY <1>1, <1>2, PTL DEF SSafety

THEOREM TypeCorrect == SSafety => []STypeOK
<1>1. SInv => STypeOK
  BY DEF SInv
<1> QED BY <1>1, SchedulerInvariant, PTL

(* No slot leaks and no transfer runs outside the accounting. *)
THEOREM SlotAccounting == SSafety => []SlotsAgree
<1>1. SInv => SlotsAgree
  BY DEF SInv
<1> QED BY <1>1, SchedulerInvariant, PTL

(* Queues hold the pending jobs, once each and ready to start, and else     *)
(* only jobs that a late event failed there.                                *)
THEOREM QueueAccounting == SSafety => []QueueAgrees
<1>1. SInv => QueueAgrees
  BY DEF SInv
<1> QED BY <1>1, SchedulerInvariant, PTL

(* Every waiter's promise is still going to be settled. *)
THEOREM WaitersAreSettled == SSafety => []NoForgottenWaiter
<1>1. SInv => NoForgottenWaiter
  BY DEF SInv
<1> QED BY <1>1, SchedulerInvariant, PTL

(* No job is left queued beside a free slot with nothing scheduled. *)
THEOREM NothingStranded == SSafety => []NoStrandedJob
<1>1. SInv => NoStrandedJob
  BY DEF SInv, NoStrandedOutsideTurn, NoStrandedJob, Idle
<1> QED BY <1>1, SchedulerInvariant, PTL

-----------------------------------------------------------------------------
(* The scheduler implements FIFO admission. *)

LEMMA QueueTransferJobIsArrival ==
  ASSUME SInv, NEW j \in Jobs, NEW r,
         status[j] \in {"absent", "paused", "failed"}, QueueTransferJob(j, r)
  PROVE  \/ Admission!Arrive(j)
         \/ \E p \in 1..Len(queue[KindOf[j]]) : Admission!Rejoin(KindOf[j], p)
<1> DEFINE k == KindOf[j]
<1>1. k \in Kinds /\ queue[k] \in Seq(Jobs) /\ NoDup(queue[k])
  BY KindsAssumption, QueueAgreesAsHolds DEF SInv, STypeOK
<1>2. /\ queue' = [queue EXCEPT ![k] = Append(Without(queue[k], j), j)]
      /\ UNCHANGED <<active, limit>>
  BY DEF QueueTransferJob, SInv, STypeOK
<1>3. CASE ~Holds(queue[k], j)
  <2>1. Without(queue[k], j) = queue[k]
    BY <1>1, <1>3, WithoutAbsent
  <2>2. j \notin active[k]
    BY <1>1 DEF SInv, SlotsAgree
  <2> QED BY <1>1, <1>2, <1>3, <2>1, <2>2 DEF Admission!Arrive, Admission!InLine, Holds
<1> HIDE DEF k
<1>4. CASE Holds(queue[k], j)
  <2>1. PICK p \in 1..Len(queue[k]) : queue[k][p] = j /\ Without(queue[k], j) = DropAt(queue[k], p)
    BY <1>1, <1>4, WithoutPresent
  <2>2. Admission!DropAt(queue[k], p) = DropAt(queue[k], p)
    BY DEF Admission!DropAt, DropAt
  <2>3. Admission!Rejoin(k, p)
    BY <1>2, <2>1, <2>2 DEF Admission!Rejoin
  <2> QED BY <2>3 DEF k
<1> QED BY <1>3, <1>4 DEF k

LEMMA AdmitHeadIsAdmission ==
  ASSUME SInv, NEW k \in Kinds, AdmitHead(k)
  PROVE  Admission!Admit(k)
<1>1. Admission!Cardinality(active[k]) = Cardinality(active[k])
  BY DEF Cardinality, Admission!Cardinality
<1> QED BY <1>1 DEF AdmitHead, CanShift, Admission!Admit, Admission!HasRoom

LEMMA HeadGivesUp ==
  ASSUME SInv, NEW k \in Kinds, FailHead(k) \/ SkipHead(k)
  PROVE  Admission!GiveUp(k, 1)
<1>1. queue[k] \in Seq(Jobs) /\ queue[k] # <<>>
  BY DEF SInv, STypeOK, FailHead, SkipHead, CanShift
<1>2. 1 \in 1..Len(queue[k])
  BY <1>1
<1>3. Tail(queue[k]) = [i \in 1..(Len(queue[k]) - 1) |->
                          IF i < 1 THEN queue[k][i] ELSE queue[k][i + 1]]
  BY <1>1
<1> QED BY <1>2, <1>3 DEF FailHead, SkipHead, Admission!GiveUp, Admission!DropAt, SInv, STypeOK

LEMMA WithdrawIsGivingUp ==
  ASSUME SInv, NEW j \in Jobs, NEW s \in Settled, WithdrawJob(j, s)
  PROVE  (\E p \in 1..Len(queue[KindOf[j]]) : Admission!GiveUp(KindOf[j], p))
         \/ UNCHANGED Admission!avars
<1> DEFINE k == KindOf[j]
<1>1. k \in Kinds /\ queue[k] \in Seq(Jobs) /\ NoDup(queue[k])
  BY KindsAssumption, QueueAgreesAsHolds DEF SInv, STypeOK
<1>2. queue' = [queue EXCEPT ![k] = Without(queue[k], j)] /\ UNCHANGED <<active, limit>>
  BY DEF WithdrawJob, Withdraw, SInv, STypeOK
<1> HIDE DEF k
<1>3. CASE ~Holds(queue[k], j)
  <2>1. Without(queue[k], j) = queue[k]
    BY <1>1, <1>3, WithoutAbsent
  <2>2. queue' = queue
    BY <1>1, <1>2, <2>1 DEF SInv, STypeOK
  <2> QED BY <1>2, <2>2 DEF Admission!avars
<1>4. CASE Holds(queue[k], j)
  <2>1. PICK p \in 1..Len(queue[k]) : Without(queue[k], j) = DropAt(queue[k], p)
    BY <1>1, <1>4, WithoutPresent
  <2>2. Admission!GiveUp(k, p)
    BY <1>2, <2>1 DEF Admission!GiveUp, Admission!DropAt, DropAt
  <2> QED BY <2>2 DEF k
<1> QED BY <1>3, <1>4

LEMMA EndJobIsQuitting ==
  ASSUME SInv, NEW j \in Jobs, NEW s \in Settled, EndJob(j, s)
  PROVE  Admission!Quit(j)
<1>1. slot[j] /\ KindOf[j] \in Kinds /\ j \in active[KindOf[j]]
  BY KindsAssumption DEF SInv, SlotsAgree, EndJob
<1> QED BY <1>1 DEF EndJob, Release, EndWith, Admission!Quit, SInv, STypeOK

LEMMA StepRefines ==
  ASSUME SInv, [SNext]_svars
  PROVE  [Admission!ANext]_(Admission!avars)
<1> USE DEF Admission!avars
<1>1. ASSUME NEW j \in Jobs, Submit(j) \/ ResumeJob(j) PROVE Admission!ANext
  BY <1>1, QueueTransferJobIsArrival, KindsAssumption DEF Submit, ResumeJob, Admission!ANext
<1>2. ASSUME NEW j \in Jobs, NEW s \in Settled, EndJob(j, s) PROVE Admission!ANext
  BY <1>2, EndJobIsQuitting DEF Admission!ANext
<1>3. ASSUME NEW j \in Jobs, NEW s \in Settled, WithdrawJob(j, s)
      PROVE  Admission!ANext \/ UNCHANGED Admission!avars
  BY <1>3, WithdrawIsGivingUp, KindsAssumption DEF Admission!ANext
<1>4. ASSUME NEW k \in Kinds, AdmitHead(k) PROVE Admission!ANext
  BY <1>4, AdmitHeadIsAdmission DEF Admission!ANext
<1>5. ASSUME NEW k \in Kinds, FailHead(k) \/ SkipHead(k) PROVE Admission!ANext
  <2>1. Admission!GiveUp(k, 1) /\ 1 \in 1..Len(queue[k])
    BY <1>5, HeadGivesUp DEF Admission!GiveUp
  <2> QED BY <2>1 DEF Admission!ANext
<1>6. ASSUME NEW l \in [Kinds -> Limits], ChangeSettings(l) PROVE Admission!ANext
  BY <1>6 DEF ChangeSettings, Admission!ANext, Admission!ChangeLimits, Limits, Admission!Limits
<1>7. ASSUME NEW j \in Jobs, AwaitStart(j) \/ DeleteJob(j) PROVE UNCHANGED Admission!avars
  BY <1>7 DEF AwaitStart, DeleteJob
<1>8. ASSUME NEW k \in Kinds, DrainDone(k) \/ ReleaseCallback(k) PROVE UNCHANGED Admission!avars
  BY <1>8 DEF DrainDone, ReleaseCallback
<1>9. CASE UNCHANGED svars
  BY <1>9 DEF svars
<1>10. ASSUME NEW j \in Jobs, FailQueued(j) PROVE UNCHANGED Admission!avars
  BY <1>10, ReleaseWithoutSlot DEF FailQueued, SInv
<1> QED BY <1>1, <1>2, <1>3, <1>4, <1>5, <1>6, <1>7, <1>8, <1>9, <1>10 DEF SNext, DrainStep

(* The safety part of ImplementsAdmission: jobs are admitted in the order   *)
(* they queued and only while there is room.                                *)
THEOREM SchedulerRefinesAdmission == SSafety => Admission!ASafety
<1>1. SInit => Admission!AInit
  BY DEF SInit, Admission!AInit, Limits, Admission!Limits
<1>2. SInv /\ [SNext]_svars => [Admission!ANext]_(Admission!avars)
  BY StepRefines
<1> QED BY <1>1, <1>2, SchedulerInvariant, PTL DEF SSafety, Admission!ASafety

-----------------------------------------------------------------------------
(* Which of an engine's steps the scheduler knows. *)

(* A handler that ends a running job ends it as the scheduler knows it. *)
LEMMA ReleaseIsEnding ==
  ASSUME Idle, NEW j \in Jobs, NEW s \in Settled, status[j] = "running", Release(j, s)
  PROVE  SNext
BY DEF EndJob, SNext

LEMMA CancelPausedIsWithdrawal ==
  ASSUME SInv, Idle, NEW j \in Jobs, status[j] = "paused", ~queued[j], Release(j, "cancelled")
  PROVE  SNext
<1> DEFINE k == KindOf[j]
<1>1. STypeOK /\ SlotsAgree /\ NoForgottenWaiter /\ k \in Kinds
  BY KindsAssumption DEF SInv
<1>2. /\ status' = [status EXCEPT ![j] = "cancelled"]
      /\ UNCHANGED <<queue, active, slot, queued, runner, waiting, due, turn, limit>>
  BY <1>1, ReleaseWithoutSlot
<1>3. queued[j] = FALSE
  <2>1. ~queued[j] /\ queued[j] \in BOOLEAN
    BY <1>1 DEF STypeOK
  <2> QED BY <2>1
<1>4. waiting[j] = FALSE
  <2>1. ~waiting[j] /\ waiting[j] \in BOOLEAN
    BY <1>1 DEF NoForgottenWaiter, STypeOK
  <2> QED BY <2>1
<1>5. Without(queue[k], j) = queue[k]
  <2>1. queue[k] \in Seq(Jobs) /\ ~Holds(queue[k], j)
    BY <1>1, QueueAgreesAsHolds DEF SInv, STypeOK, MayBeQueued
  <2> QED BY <2>1, WithoutAbsent
<1>6. queue' = [queue EXCEPT ![k] = Without(@, j)]
  <2>1. queue = [queue EXCEPT ![k] = queue[k]]
    BY <1>1 DEF STypeOK
  <2> QED BY <1>2, <1>5, <2>1
<1>7. queued' = [queued EXCEPT ![j] = FALSE] /\ waiting' = [waiting EXCEPT ![j] = FALSE]
  <2>1. queued = [queued EXCEPT ![j] = queued[j]] /\ waiting = [waiting EXCEPT ![j] = waiting[j]]
    BY <1>1 DEF STypeOK
  <2> QED BY <1>2, <1>3, <1>4, <2>1
<1>8. WithdrawJob(j, "cancelled")
  BY <1>2, <1>6, <1>7 DEF Withdraw, WithdrawJob
<1> QED BY <1>8 DEF SNext, Settled

(* Where no job fails in the queue, a job is marked as queued only while it *)
(* is pending.                                                              *)
MarksAgree == \A j \in Jobs : queued[j] => status[j] = "pending"

LEMMA MarksStayRight ==
  ASSUME SInv, MarksAgree, [SNext]_svars, FailInQueue = {}
  PROVE  MarksAgree'
<1> SUFFICES ASSUME NEW i \in Jobs, queued'[i] PROVE status'[i] = "pending"
  BY DEF MarksAgree
<1>0. /\ status \in [Jobs -> Statuses] /\ queued \in [Jobs -> BOOLEAN]
      /\ queued[i] => status[i] = "pending"
  BY DEF SInv, STypeOK, MarksAgree
<1>1. ASSUME NEW j \in Jobs, Submit(j) \/ ResumeJob(j) PROVE status'[i] = "pending"
  BY <1>0, <1>1 DEF Submit, ResumeJob, QueueTransferJob
<1>2. ASSUME NEW j \in Jobs, NEW s \in Settled, EndJob(j, s) PROVE status'[i] = "pending"
  <2>1. status[j] = "running" /\ status' = [status EXCEPT ![j] = s] /\ queued' = queued
    BY <1>2 DEF EndJob, Release, EndWith
  <2> QED BY <1>0, <2>1
<1>3. ASSUME NEW j \in Jobs, NEW s \in Settled, WithdrawJob(j, s) PROVE status'[i] = "pending"
  <2>1. status' = [status EXCEPT ![j] = s] /\ queued' = [queued EXCEPT ![j] = FALSE]
    BY <1>3 DEF WithdrawJob, Withdraw
  <2> QED BY <1>0, <2>1
<1>4. ASSUME NEW j \in Jobs, DeleteJob(j) PROVE status'[i] = "pending"
  BY <1>0, <1>4 DEF DeleteJob, Settled
<1>5. ASSUME NEW k \in Kinds, AdmitHead(k) \/ FailHead(k) PROVE status'[i] = "pending"
  <2> DEFINE j == Head(queue[k])
  <2>1. /\ queued' = [queued EXCEPT ![j] = FALSE]
        /\ \E s : status' = [status EXCEPT ![j] = s]
    BY <1>5 DEF AdmitHead, FailHead
  <2> HIDE DEF j
  <2> QED BY <1>0, <2>1
<1>6. ASSUME UNCHANGED <<status, queued>> PROVE status'[i] = "pending"
  BY <1>0, <1>6
<1> QED BY <1>1, <1>2, <1>3, <1>4, <1>5, <1>6
        DEF SNext, DrainStep, AwaitStart, FailQueued, SkipHead, DrainDone, ReleaseCallback,
            ChangeSettings, svars

-----------------------------------------------------------------------------
(* A stopped job goes on, or goes away, only by what the user does. *)

MayBecome(s, t) ==
  /\ s = "cancelled" => t \in {"cancelled", "absent"}
  /\ s = "done" => t \in {"done", "absent"}
  /\ s = "paused" => t \in {"paused", "pending", "cancelled", "absent"}

LEMMA OneStatusChanges ==
  ASSUME SInv, NEW i \in Jobs, NEW t, status' = [status EXCEPT ![i] = t],
         MayBecome(status[i], t)
  PROVE  \A j \in Jobs : MayBecome(status[j], status'[j])
<1> SUFFICES ASSUME NEW j \in Jobs PROVE MayBecome(status[j], status'[j])
  OBVIOUS
<1>1. status \in [Jobs -> Statuses]
  BY DEF SInv, STypeOK
<1>2. CASE j = i
  BY <1>1, <1>2
<1>3. CASE j # i
  BY <1>1, <1>3 DEF MayBecome
<1> QED BY <1>2, <1>3

LEMMA StatusKept ==
  ASSUME UNCHANGED status
  PROVE  \A j \in Jobs : MayBecome(status[j], status'[j])
BY DEF MayBecome

LEMMA StoppedStayStopped ==
  ASSUME SInv, [SNext]_svars
  PROVE  \A j \in Jobs : MayBecome(status[j], status'[j])
<1>1. ASSUME NEW i \in Jobs, Submit(i) PROVE \A j \in Jobs : MayBecome(status[j], status'[j])
  <2>1. status[i] = "absent" /\ status' = [status EXCEPT ![i] = "pending"]
    BY <1>1 DEF Submit, QueueTransferJob
  <2> QED BY <2>1, OneStatusChanges DEF MayBecome
<1>2. ASSUME NEW i \in Jobs, ResumeJob(i) PROVE \A j \in Jobs : MayBecome(status[j], status'[j])
  <2>1. status[i] \in {"paused", "failed"} /\ status' = [status EXCEPT ![i] = "pending"]
    BY <1>2 DEF ResumeJob, QueueTransferJob
  <2> QED BY <2>1, OneStatusChanges DEF MayBecome
<1>3. ASSUME NEW i \in Jobs, DeleteJob(i) PROVE \A j \in Jobs : MayBecome(status[j], status'[j])
  <2>1. status' = [status EXCEPT ![i] = "absent"]
    BY <1>3 DEF DeleteJob
  <2> QED BY <2>1, OneStatusChanges DEF MayBecome
<1>4. ASSUME NEW i \in Jobs, NEW s \in Settled, EndJob(i, s)
      PROVE  \A j \in Jobs : MayBecome(status[j], status'[j])
  <2>1. status[i] = "running" /\ status' = [status EXCEPT ![i] = s]
    BY <1>4 DEF EndJob, Release, EndWith
  <2> QED BY <2>1, OneStatusChanges DEF MayBecome
<1>5. ASSUME NEW i \in Jobs, NEW s \in Settled, WithdrawJob(i, s)
      PROVE  \A j \in Jobs : MayBecome(status[j], status'[j])
  <2>1. /\ status[i] = "pending" \/ (status[i] = "paused" /\ s = "cancelled")
        /\ status' = [status EXCEPT ![i] = s]
    BY <1>5 DEF WithdrawJob, Withdraw
  <2> QED BY <2>1, OneStatusChanges DEF MayBecome
<1>6. ASSUME NEW k \in Kinds, AdmitHead(k) \/ FailHead(k)
      PROVE  \A j \in Jobs : MayBecome(status[j], status'[j])
  <2> DEFINE i == Head(queue[k])
  <2>1. CanShift(k) /\ status[i] = "pending" /\ \E t : status' = [status EXCEPT ![i] = t]
    BY <1>6 DEF AdmitHead, FailHead, Startable
  <2> HIDE DEF i
  <2>2. i \in Jobs /\ status[i] = "pending"
    BY <2>1, HeadIsOfKind DEF i
  <2> QED BY <2>1, <2>2, OneStatusChanges DEF MayBecome
<1>7. ASSUME NEW k \in Kinds, SkipHead(k) \/ DrainDone(k) \/ ReleaseCallback(k)
      PROVE  \A j \in Jobs : MayBecome(status[j], status'[j])
  BY <1>7, StatusKept DEF SkipHead, DrainDone, ReleaseCallback
<1>11. ASSUME NEW i \in Jobs, FailQueued(i)
       PROVE  \A j \in Jobs : MayBecome(status[j], status'[j])
  <2>1. status[i] = "pending" /\ status' = [status EXCEPT ![i] = "failed"]
    BY <1>11 DEF FailQueued, Release, EndWith
  <2> QED BY <2>1, OneStatusChanges DEF MayBecome
<1>8. ASSUME NEW l \in [Kinds -> Limits], ChangeSettings(l)
      PROVE  \A j \in Jobs : MayBecome(status[j], status'[j])
  BY <1>8, StatusKept DEF ChangeSettings
<1>9. ASSUME NEW i \in Jobs, AwaitStart(i) PROVE \A j \in Jobs : MayBecome(status[j], status'[j])
  BY <1>9, StatusKept DEF AwaitStart
<1>10. ASSUME UNCHANGED svars PROVE \A j \in Jobs : MayBecome(status[j], status'[j])
  BY <1>10, StatusKept DEF svars
<1> QED BY <1>1, <1>2, <1>3, <1>4, <1>5, <1>6, <1>7, <1>8, <1>9, <1>10, <1>11
        DEF SNext, DrainStep

(* A cancelled or finished job is never run again, and a paused one only    *)
(* after the user resumed it, whatever the engines do.                      *)
THEOREM StoppedJobsStayStopped ==
  SSafety => [][\A j \in Jobs : MayBecome(status[j], status'[j])]_svars
<1>1. SInv /\ [SNext]_svars => [\A j \in Jobs : MayBecome(status[j], status'[j])]_svars
  BY StoppedStayStopped
<1> QED BY <1>1, SchedulerInvariant, PTL DEF SSafety

-----------------------------------------------------------------------------
(* The engines bound the resumes of all their jobs together. *)

LEMMA FirstNumbers ==
  ASSUME NEW n \in Nat
  PROVE  IsFiniteSet(1..n) /\ Cardinality(1..n) = n
<1>1. n \in Int /\ 1 \in Int
  OBVIOUS
<1>2. IsFiniteSet(1..n) /\ Cardinality(1..n) = IF 1 > n THEN 0 ELSE n - 1 + 1
  BY <1>1, FS_Interval
<1>3. Cardinality(1..n) = n
  BY <1>1, <1>2
<1> QED BY <1>2, <1>3

(* A job's resumes are among those that are counted. *)
LEMMA ResumesAreCounted ==
  ASSUME NEW objects, \A i \in Jobs : objects[i].resumes \in Nat, NEW j \in Jobs
  PROVE  LET total == Cardinality(UNION {{i} \X (1..objects[i].resumes) : i \in Jobs})
         IN  total \in Nat /\ objects[j].resumes <= total
<1> DEFINE own == [i \in Jobs |-> {i} \X (1..objects[i].resumes)]
           sets == {own[i] : i \in Jobs}
<1>1. ASSUME NEW i \in Jobs
      PROVE  IsFiniteSet(own[i]) /\ Cardinality(own[i]) = objects[i].resumes
  <2>1. IsFiniteSet(1..objects[i].resumes) /\ Cardinality(1..objects[i].resumes) = objects[i].resumes
    BY FirstNumbers
  <2>2. IsFiniteSet({i}) /\ Cardinality({i}) = 1
    BY FS_Singleton
  <2>3. /\ IsFiniteSet({i} \X (1..objects[i].resumes))
        /\ Cardinality({i} \X (1..objects[i].resumes))
             = Cardinality({i}) * Cardinality(1..objects[i].resumes)
    BY <2>1, <2>2, FS_Product
  <2> QED BY <2>1, <2>2, <2>3
<1>2. {{i} \X (1..objects[i].resumes) : i \in Jobs} = sets
  OBVIOUS
<1>3. own \in [Jobs -> sets] /\ \A T \in sets : \E i \in Jobs : own[i] = T
  OBVIOUS
<1> HIDE DEF own
<1>4. IsFiniteSet(sets)
  <2>1. own \in Surjection(Jobs, sets)
    BY <1>3 DEF Surjection
  <2> QED BY <2>1, JobsAssumption, FS_Surjection
<1>5. \A T \in sets : IsFiniteSet(T)
  BY <1>1
<1>6. IsFiniteSet(UNION sets)
  BY <1>4, <1>5, FS_UNION
<1>7. own[j] \in SUBSET UNION sets
  OBVIOUS
<1> HIDE DEF sets
<1>8. Cardinality(UNION sets) \in Nat
  BY <1>6, FS_CardinalityType
<1>9. Cardinality(own[j]) <= Cardinality(UNION sets)
  BY <1>6, <1>7, FS_Subset
<1> QED BY <1>1, <1>2, <1>8, <1>9

-----------------------------------------------------------------------------
(* The files that the engines of the scheduler write. *)

LEMMA FunctionIsSeq ==
  ASSUME NEW n \in Nat, NEW f, f \in [1..n -> Int]
  PROVE  f \in Seq(Int) /\ Len(f) = n
OBVIOUS

LEMMA SourceProperties ==
  ASSUME NEW n \in Nat
  PROVE  /\ Source(n) \in Seq(Int)
         /\ Len(Source(n)) = n
         /\ \A b \in 1..n : Source(n)[b] = b
         /\ Source(n) # NoFile
<1>1. Source(n) \in [1..n -> Int] /\ \A b \in 1..n : Source(n)[b] = b
  BY DEF Source
<1>2. Source(n) \in Seq(Int) /\ Len(Source(n)) = n
  BY <1>1, FunctionIsSeq
<1>3. Source(n) # NoFile
  <2>1. Len(NoFile) = 1 /\ NoFile[1] = -1
    BY DEF NoFile
  <2>2. CASE n = 0
    <3>1. Len(Source(n)) # Len(NoFile)
      BY <1>2, <2>1, <2>2
    <3> QED BY <3>1, Zenon
  <2>3. CASE n # 0
    <3>1. 1 \in 1..n
      BY <2>3
    <3>2. Source(n)[1] = 1
      BY <1>1, <3>1
    <3> QED BY <2>1, <3>2
  <2> QED BY <2>2, <2>3
<1> QED BY <1>1, <1>2, <1>3

(* A file that holds block b at b, and nothing else, is the source. *)
LEMMA SourceIsUnique ==
  ASSUME NEW f \in Seq(Int), NEW n \in Nat, Len(f) = n, \A b \in 1..n : f[b] = b
  PROVE  f = Source(n)
<1>1. f = [b \in 1..n |-> f[b]]
  OBVIOUS
<1> QED BY <1>1 DEF Source

LEMMA WriteAtProperties ==
  ASSUME NEW f \in Seq(Int), NEW i \in Nat \ {0}, NEW b \in Int
  PROVE  /\ WriteAt(f, i, b) \in Seq(Int)
         /\ Len(WriteAt(f, i, b)) = IF i > Len(f) THEN i ELSE Len(f)
         /\ \A k \in 1..Len(WriteAt(f, i, b)) :
              WriteAt(f, i, b)[k] = IF k = i THEN b ELSE IF k <= Len(f) THEN f[k] ELSE 0
<1> DEFINE n == IF i > Len(f) THEN i ELSE Len(f)
<1>1. n \in Nat /\ Len(f) \in Nat
  OBVIOUS
<1>2. WriteAt(f, i, b) = [k \in 1..n |-> IF k = i THEN b ELSE IF k <= Len(f) THEN f[k] ELSE 0]
  BY DEF WriteAt
<1>3. \A k \in 1..n : (IF k = i THEN b ELSE IF k <= Len(f) THEN f[k] ELSE 0) \in Int
  OBVIOUS
<1> HIDE DEF n
<1>4. WriteAt(f, i, b) \in [1..n -> Int]
  BY <1>2, <1>3
<1>5. WriteAt(f, i, b) \in Seq(Int) /\ Len(WriteAt(f, i, b)) = n
  BY <1>1, <1>4, FunctionIsSeq
<1> QED BY <1>2, <1>5 DEF n

(* A block written in its place extends the source or changes nothing. *)
LEMMA SourceWritten ==
  ASSUME NEW n \in Nat, NEW i \in 1..(n + 1)
  PROVE  WriteAt(Source(n), i, i) = Source(IF i > n THEN i ELSE n)
<1> DEFINE f == WriteAt(Source(n), i, i)
           m == IF i > n THEN i ELSE n
<1>1. Source(n) \in Seq(Int) /\ Len(Source(n)) = n /\ \A b \in 1..n : Source(n)[b] = b
  BY SourceProperties
<1>2. i \in Nat \ {0} /\ i \in Int /\ m \in Nat
  OBVIOUS
<1>3. /\ f \in Seq(Int) /\ Len(f) = m
      /\ \A k \in 1..m : f[k] = IF k = i THEN i ELSE IF k <= n THEN Source(n)[k] ELSE 0
  BY <1>1, <1>2, WriteAtProperties
<1>4. \A k \in 1..m : f[k] = k
  BY <1>1, <1>2, <1>3
<1> HIDE DEF f, m
<1>5. f = Source(m)
  BY <1>2, <1>3, <1>4, SourceIsUnique
<1> QED BY <1>5 DEF f, m

LEMMA SourceAppended ==
  ASSUME NEW n \in Nat
  PROVE  Append(Source(n), n + 1) = Source(n + 1)
<1> DEFINE f == Append(Source(n), n + 1)
<1>1. Source(n) \in Seq(Int) /\ Len(Source(n)) = n /\ \A b \in 1..n : Source(n)[b] = b
  BY SourceProperties
<1>2. f \in Seq(Int) /\ Len(f) = n + 1 /\ f[n + 1] = n + 1 /\ \A b \in 1..n : f[b] = Source(n)[b]
  BY <1>1
<1>3. \A b \in 1..(n + 1) : f[b] = b
  BY <1>1, <1>2
<1> HIDE DEF f
<1>4. f = Source(n + 1)
  BY <1>2, <1>3, SourceIsUnique
<1> QED BY <1>4 DEF f

LEMMA WrittenProperties ==
  ASSUME NEW f \in Seq(Int), NEW w, w.lo \in Nat \ {0}, w.app \in BOOLEAN
  PROVE  /\ Written(f, w) \in Seq(Int)
         /\ Len(Written(f, w)) >= Len(f)
         /\ w.app => Len(Written(f, w)) = Len(f) + 1
         /\ ~w.app => Len(Written(f, w)) >= w.lo
         /\ \A k \in DOMAIN Written(f, w) :
              \/ Written(f, w)[k] \in {w.lo, 0}
              \/ k \in DOMAIN f /\ Written(f, w)[k] = f[k]
<1>0. w.lo \in Int /\ Len(f) \in Nat /\ DOMAIN f = 1..Len(f)
  OBVIOUS
<1>1. CASE w.app
  <2>1. Written(f, w) = Append(f, w.lo)
    BY <1>1 DEF Written
  <2> QED BY <1>0, <1>1, <2>1
<1>2. CASE ~w.app
  <2> DEFINE g == WriteAt(f, w.lo, w.lo)
  <2>1. Written(f, w) = g
    BY <1>2 DEF Written
  <2>2. /\ g \in Seq(Int)
        /\ Len(g) = IF w.lo > Len(f) THEN w.lo ELSE Len(f)
        /\ \A k \in 1..Len(g) : g[k] = IF k = w.lo THEN w.lo ELSE IF k <= Len(f) THEN f[k] ELSE 0
    BY <1>0, WriteAtProperties
  <2> HIDE DEF g
  <2>3. DOMAIN g = 1..Len(g)
    BY <2>2
  <2>4. \A k \in DOMAIN g : g[k] \in {w.lo, 0} \/ (k \in DOMAIN f /\ g[k] = f[k])
    BY <1>0, <2>2, <2>3
  <2> QED BY <1>0, <1>2, <2>1, <2>2, <2>4
<1> QED BY <1>1, <1>2

LEMMA EmptyIsSource == Source(0) = <<>>
<1>1. Source(0) \in Seq(Int) /\ Len(Source(0)) = 0
  BY SourceProperties
<1> QED BY <1>1
=============================================================================
