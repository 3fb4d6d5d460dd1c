--------------------------- MODULE FifoAdmission ---------------------------
(***************************************************************************)
(* What the transfer scheduler promises its callers, without its loop, its *)
(* setImmediate callbacks or its flags: every kind of transfer has a line  *)
(* of waiting jobs and a bounded set of admitted ones.  A job is admitted  *)
(* only from the head of the line and only while there is room; it may     *)
(* give up anywhere in the line, or go back to its end; it leaves the      *)
(* admitted set when its transfer ends or is paused.  The limit is a user  *)
(* setting that may change at any time, also to below the number admitted. *)
(***************************************************************************)
EXTENDS Integers, Sequences, FiniteSets

CONSTANTS
  Jobs,       \* transfer job identifiers
  Kinds,      \* the two independent lines, "upload" and "download"
  KindOf,     \* the line a job uses
  MaxLimit    \* largest configurable number of concurrent transfers

VARIABLES
  line,       \* line[k]: the jobs that wait for a slot, oldest first
  admitted,   \* admitted[k]: the jobs that hold a slot
  limit       \* limit[k]: the configured number of slots

avars == <<line, admitted, limit>>

Limits == 1..MaxLimit

InLine(k, j) == \E p \in 1..Len(line[k]) : line[k][p] = j

AInit ==
  /\ line = [k \in Kinds |-> <<>>]
  /\ admitted = [k \in Kinds |-> {}]
  /\ limit \in [Kinds -> Limits]

Arrive(j) ==
  LET k == KindOf[j] IN
  /\ ~InLine(k, j)
  /\ j \notin admitted[k]
  /\ line' = [line EXCEPT ![k] = Append(@, j)]
  /\ UNCHANGED <<admitted, limit>>

HasRoom(k) == line[k] # <<>> /\ Cardinality(admitted[k]) < limit[k]

Admit(k) ==
  /\ HasRoom(k)
  /\ line' = [line EXCEPT ![k] = Tail(@)]
  /\ admitted' = [admitted EXCEPT ![k] = @ \cup {Head(line[k])}]
  /\ UNCHANGED limit

(* A line without the job at position p. *)
DropAt(s, p) == [i \in 1..(Len(s) - 1) |-> IF i < p THEN s[i] ELSE s[i + 1]]

(* The job at position p of the line gives up. *)
GiveUp(k, p) ==
  /\ p \in 1..Len(line[k])
  /\ line' = [line EXCEPT ![k] = DropAt(@, p)]
  /\ UNCHANGED <<admitted, limit>>

(* A job that gave up without leaving the line comes again: it waits anew,  *)
(* at the end.                                                              *)
Rejoin(k, p) ==
  /\ p \in 1..Len(line[k])
  /\ line' = [line EXCEPT ![k] = Append(DropAt(@, p), @[p])]
  /\ UNCHANGED <<admitted, limit>>

Quit(j) ==
  LET k == KindOf[j] IN
  /\ j \in admitted[k]
  /\ admitted' = [admitted EXCEPT ![k] = @ \ {j}]
  /\ UNCHANGED <<line, limit>>

ChangeLimits(l) ==
  /\ l \in [Kinds -> Limits]
  /\ limit' = l
  /\ UNCHANGED <<line, admitted>>

ANext ==
  \/ \E j \in Jobs : Arrive(j) \/ Quit(j)
  \/ \E k \in Kinds : Admit(k) \/ \E p \in 1..Len(line[k]) : GiveUp(k, p) \/ Rejoin(k, p)
  \/ \E l \in [Kinds -> Limits] : ChangeLimits(l)

AProgress(k) == Admit(k) \/ (line[k] # <<>> /\ GiveUp(k, 1))

ASafety == AInit /\ [][ANext]_avars

(* Room is not left unused: the head of a line with room moves on. *)
ASpec == ASafety /\ \A k \in Kinds : WF_avars(AProgress(k))
=============================================================================
