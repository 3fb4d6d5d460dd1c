---------------------------- MODULE CrossCopy_proofs ----------------------------
(***************************************************************************)
(* Proofs about cross-host copies, for any number of jobs, files, blocks,  *)
(* slots and resumes, when a job is resumed only after its paused run has  *)
(* ended: the engine implements the scheduler, a job that runs has a run   *)
(* that will settle it, one run at a time writes, and the target of a job  *)
(* resumed at most once is untouched or the whole copy.                    *)
(*                                                                         *)
(* All runs of a job share its job object.  The invariant first says that  *)
(* only the run that belongs to the last resume can be live; the rest is a *)
(* predicate of one job's values: the original target o, the status s, the *)
(* job object x, its current run w and the target host t.                  *)
(***************************************************************************)
EXTENDS CrossCopy, TransferScheduler_proofs

Phases == {"", "queued", "scanning", "transferring", "committing", "deleted"}
Dead == {"none", "ended"}
Places == {"none", "scan", "mkdir", "open", "look", "pipe", "broken", "check", "dirs", "commit",
           "moved", "refused", "killed", "ended"}
CopyObjects ==
  [phase : Phases, known : BOOLEAN, canPause : BOOLEAN, resumable : BOOLEAN,
   pipe : 0..(MaxResumes + 1), child : 0..(MaxResumes + 1), resumes : Nat]
RunRecords == [pc : Places, i : Nat, lo : Nat, app : BOOLEAN, at : {"stage", "target", "gone"}]
Leftovers == [i : 1..Files, lo : 1..Blocks, app : BOOLEAN, at : {"stage", "target", "gone"}]
Trees == [1..Files -> Seq(Int)]
Sites == [stage : Trees, target : Trees, late : SUBSET Leftovers, rm : BOOLEAN]

XTypes ==
  /\ copy \in [Jobs -> CopyObjects]
  /\ run \in [Jobs -> [Runs -> RunRecords]]
  /\ site \in [Jobs -> Sites]

(* The run that counts; of the others, earlier ones are over and later ones *)
(* have not begun.                                                          *)
Current(x) == x.resumes + 1

OthersRest(x, u) ==
  \A r \in Runs : /\ r < Current(x) => u[r].pc \in Dead
                  /\ r > Current(x) => u[r].pc = "none"

-----------------------------------------------------------------------------
(* What is true of a job with status s, job object x, current run w and     *)
(* target host t.                                                          *)

Fresh(o, x, w, t) ==
  /\ x.resumes = 0 /\ w.pc = "none" /\ ~t.rm
  /\ t.stage = Nothing /\ t.target = o /\ t.late = {}

(* The status and the run fit. *)
Pairs(o, s, x, w, t) ==
  /\ s = "pending" => w.pc = "none"
  /\ s = "running" => w.pc \notin Dead
  /\ s \in {"failed", "done"} => w.pc \in Dead
  /\ s = "absent" /\ x.phase = "" => Fresh(o, x, w, t)
  /\ t.rm => s \in {"cancelled", "absent"}

Steady(w) ==
  /\ w.pc \in {"look", "pipe", "check"} => w.i \in 1..Files
  /\ w.pc = "pipe" => w.lo \in 1..(Blocks + 1) /\ w.at # "target"
  /\ w.pc = "check" => w.lo = Blocks + 1

(* Who writes to the staging directory writes to a file that is there. *)
WritersHaveFile(w, t) ==
  /\ w.pc = "pipe" /\ w.at = "stage" => t.stage[w.i] # NoFile
  /\ \A v \in t.late : v.at = "stage" => t.stage[v.i] # NoFile
  /\ \A f \in 1..Files :
       t.stage[f] = NoFile \/ \A b \in DOMAIN t.stage[f] : t.stage[f][b] \in 0..Blocks

Control(o, s, x, w, t) == Pairs(o, s, x, w, t) /\ Steady(w) /\ WritersHaveFile(w, t)

-----------------------------------------------------------------------------
(* The content, for a job resumed at most once. *)

LateAt(t, f) == {v \in t.late : v.at = "stage" /\ v.i = f}

Complete(t, f) == t.stage[f] = Source(Blocks) /\ \A v \in LateAt(t, f) : ~v.app

(* A beginning of the source, which late writes leave one. *)
Tidy(t, f) ==
  \/ t.stage[f] = NoFile /\ LateAt(t, f) = {}
  \/ \E n \in 0..Blocks : /\ t.stage[f] = Source(n)
                          /\ \A v \in LateAt(t, f) : ~v.app /\ v.lo <= n + 1

(* The file that run w writes: exact, or too long for good. *)
Growing(w, t, f) ==
  /\ \A v \in LateAt(t, f) : ~v.app /\ v.lo <= Len(t.stage[f]) + 1
  /\ \/ \E n \in 0..Blocks : /\ t.stage[f] = Source(n)
                             /\ n >= w.lo - 1
                             /\ w.app => n = w.lo - 1
     \/ w.app /\ Len(t.stage[f]) >= w.lo

Behind(w, f) == (w.pc \in {"look", "pipe", "check"} /\ f < w.i) \/ w.pc \in {"dirs", "commit"}
At(w, f) == w.pc \in {"pipe", "check"} /\ f = w.i
Before(w, f) ==
  \/ w.pc \in {"none", "scan", "mkdir", "open"}
  \/ w.pc = "look" /\ f >= w.i
  \/ w.pc \in {"pipe", "check"} /\ f > w.i

Progress(x, w, t) ==
  \A f \in 1..Files :
    /\ Behind(w, f) => Complete(t, f)
    /\ At(w, f) => /\ Growing(w, t, f)
                   /\ x.resumes = 0 => ~w.app
                   /\ w.pc = "pipe" => w.at = "stage"
    /\ Before(w, f) => Tidy(t, f) /\ (x.resumes = 0 => t.stage[f] = NoFile)
    /\ x.resumes = 0 => Tidy(t, f)

TargetGood(o, s, w, t) ==
  /\ t.target \in {o, Whole}
  /\ s = "done" \/ w.pc = "moved" => t.target = Whole
  /\ \A v \in t.late : v.at = "target" => ~v.app /\ t.target = Whole

(* What a commit would move: everything, or nothing at all. *)
Committable(t) ==
  \/ t.stage = Whole /\ \A v \in t.late : v.at = "stage" => ~v.app
  \/ t.stage = Nothing /\ \A v \in t.late : v.at # "stage"

Alive(s) == s \in {"pending", "running", "paused", "failed"}

StageGood(s, x, w, t) ==
  /\ w.pc \in {"dirs", "commit"} => Committable(t)
  /\ Alive(s) => Progress(x, w, t)

Content(o, s, x, w, t) == x.resumes <= 1 => TargetGood(o, s, w, t) /\ StageGood(s, x, w, t)

JobInv(o, s, x, w, t) == Control(o, s, x, w, t) /\ Content(o, s, x, w, t)

XInv ==
  /\ SInv
  /\ MarksAgree
  /\ XTypes
  /\ \A j \in Jobs :
       /\ copy[j].resumes <= MaxResumes
       /\ OthersRest(copy[j], run[j])
       /\ JobInv(Original(j), status[j], copy[j], run[j][Current(copy[j])], site[j])

-----------------------------------------------------------------------------
(* Trees of files, and what a write does to them. *)

Sorts(x, w, t) == x \in CopyObjects /\ w \in RunRecords /\ t \in Sites

LEMMA TreesTyped ==
  /\ Whole \in Trees /\ Nothing \in Trees
  /\ \A f \in 1..Files : Whole[f] = Source(Blocks) /\ Nothing[f] = NoFile
  /\ \A j : Original(j) \in Trees
  /\ Whole # Nothing
<1>1. Source(Blocks) \in Seq(Int) /\ NoFile \in Seq(Int) /\ <<0>> \in Seq(Int) /\ Source(Blocks) # NoFile
  BY SourceProperties, CopyAssumption DEF NoFile
<1>2. Whole \in Trees /\ Nothing \in Trees
  BY <1>1 DEF Whole, Nothing, Trees
<1>3. \A f \in 1..Files : Whole[f] = Source(Blocks) /\ Nothing[f] = NoFile
  BY DEF Whole, Nothing
<1>4. \A j : Original(j) \in Trees
  BY <1>1 DEF Original, Trees
<1>5. Whole # Nothing
  <2>1. 1 \in 1..Files
    BY CopyAssumption
  <2> QED BY <1>1, <1>3, <2>1
<1> QED BY <1>2, <1>3, <1>4, <1>5

LEMMA TreeIsWhole ==
  ASSUME NEW g \in Trees, \A f \in 1..Files : g[f] = Source(Blocks)
  PROVE  g = Whole
<1>1. g = [f \in 1..Files |-> g[f]]
  BY DEF Trees
<1> QED BY <1>1 DEF Whole

(* What the landing of a block changes. *)
LEMMA LandsProperties ==
  ASSUME NEW t \in Sites, NEW q, q.i \in 1..Files, q.lo \in 1..Blocks, q.app \in BOOLEAN,
         q.at \in {"stage", "target", "gone"}
  PROVE  /\ Lands(t, q) \in Sites
         /\ Lands(t, q).late = t.late /\ Lands(t, q).rm = t.rm
         /\ q.at = "gone" => Lands(t, q) = t
         /\ q.at # "target" => Lands(t, q).target = t.target
         /\ q.at # "stage" => Lands(t, q).stage = t.stage
         /\ q.at = "target" =>
              Lands(t, q).target = [t.target EXCEPT ![q.i] = Written(t.target[q.i], q)]
         /\ q.at = "stage" =>
              Lands(t, q).stage = [t.stage EXCEPT ![q.i] = Written(t.stage[q.i], q)]
<1>1. t.stage \in Trees /\ t.target \in Trees
  BY DEF Sites
<1>2. t.stage[q.i] \in Seq(Int) /\ t.target[q.i] \in Seq(Int)
  BY <1>1 DEF Trees
<1>3. q.lo \in Nat \ {0}
  BY CopyAssumption
<1>4. Written(t.stage[q.i], q) \in Seq(Int) /\ Written(t.target[q.i], q) \in Seq(Int)
  BY <1>2, <1>3, WrittenProperties
<1> DEFINE g == Written(t.stage[q.i], q)
           h == Written(t.target[q.i], q)
           G == [t.stage EXCEPT ![q.i] = g]
           H == [t.target EXCEPT ![q.i] = h]
<1>5. Lands(t, q) = IF q.at = "stage" THEN [t EXCEPT !.stage = G]
                    ELSE IF q.at = "target" THEN [t EXCEPT !.target = H] ELSE t
  BY DEF Lands
<1> HIDE DEF g, h
<1>6. G \in Trees /\ H \in Trees
  BY <1>1, <1>4 DEF Trees, g, h
<1> HIDE DEF G, H
<1>7. /\ [t EXCEPT !.stage = G] \in Sites /\ [t EXCEPT !.target = H] \in Sites
      /\ [t EXCEPT !.stage = G].stage = G /\ [t EXCEPT !.target = H].target = H
      /\ [t EXCEPT !.stage = G].target = t.target /\ [t EXCEPT !.target = H].stage = t.stage
      /\ [t EXCEPT !.stage = G].late = t.late /\ [t EXCEPT !.target = H].late = t.late
      /\ [t EXCEPT !.stage = G].rm = t.rm /\ [t EXCEPT !.target = H].rm = t.rm
  BY <1>6 DEF Sites
<1> QED BY <1>5, <1>7 DEF G, H, g, h

(* A block written in place to the beginning of a source. *)
LEMMA InPlace ==
  ASSUME NEW n \in 0..Blocks, NEW q, q.lo \in 1..Blocks, q.app = FALSE, q.lo <= n + 1
  PROVE  \E m \in 0..Blocks :
           /\ Written(Source(n), q) = Source(m)
           /\ m = IF q.lo > n THEN n + 1 ELSE n
<1>1. n \in Nat /\ q.lo \in 1..(n + 1)
  BY CopyAssumption
<1>2. Written(Source(n), q) = Source(IF q.lo > n THEN q.lo ELSE n)
  BY <1>1, SourceWritten DEF Written
<1>3. (IF q.lo > n THEN q.lo ELSE n) \in 0..Blocks
  BY CopyAssumption
<1>4. q.lo > n => q.lo = n + 1
  BY <1>1, CopyAssumption
<1> QED BY <1>2, <1>3, <1>4

LEMMA StartLength ==
  ASSUME NEW n \in 0..Blocks
  PROVE  n \in Nat /\ Len(Source(n)) = n /\ Source(n) \in Seq(Int) /\ Source(n) # NoFile
<1>1. n \in Nat
  BY CopyAssumption
<1> QED BY <1>1, SourceProperties

(* A file with known blocks keeps having them, and exists. *)
LEMMA BlocksStayKnown ==
  ASSUME NEW g \in Seq(Int), g # NoFile, \A b \in DOMAIN g : g[b] \in 0..Blocks,
         NEW q, q.lo \in 1..Blocks, q.app \in BOOLEAN
  PROVE  /\ Written(g, q) # NoFile
         /\ \A b \in DOMAIN Written(g, q) : Written(g, q)[b] \in 0..Blocks
<1>1. q.lo \in Nat \ {0} /\ q.lo \in 0..Blocks /\ 0 \in 0..Blocks
  BY CopyAssumption
<1>2. \A b \in DOMAIN Written(g, q) :
        \/ Written(g, q)[b] \in {q.lo, 0}
        \/ b \in DOMAIN g /\ Written(g, q)[b] = g[b]
  BY <1>1, WrittenProperties
<1>3. \A b \in DOMAIN Written(g, q) : Written(g, q)[b] \in 0..Blocks
  BY <1>1, <1>2
<1>4. Written(g, q) # NoFile
  <2>1. 1 \in DOMAIN NoFile /\ NoFile[1] \notin 0..Blocks
    BY DEF NoFile
  <2> QED BY <1>3, <2>1
<1> QED BY <1>3, <1>4

-----------------------------------------------------------------------------
(* What happens to a job, in terms of its own values: y, v and t2 are its   *)
(* job object, current run and target host afterwards.                      *)

(* Nothing was done to the files, and the run goes on from where it was. *)
LEMMA FilesKept ==
  ASSUME NEW x, NEW w, NEW t, Progress(x, w, t),
         NEW y, y.resumes = x.resumes, NEW v, NEW t2,
         t2.stage = t.stage, t2.late = t.late,
         \/ v.pc = w.pc /\ v.i = w.i /\ v.lo = w.lo /\ v.app = w.app /\ v.at = w.at
         \/ w.pc \in {"none", "scan", "mkdir", "open"} /\ v.pc \in {"none", "scan", "mkdir", "open"}
         \/ v.pc \in {"broken", "killed", "ended", "moved", "refused"}
         \/ w.pc = "dirs" /\ v.pc = "commit"
         \/ w.pc = "pipe" /\ v.pc = "check" /\ v.i = w.i /\ v.lo = w.lo /\ v.app = w.app
  PROVE  Progress(y, v, t2)
<1> SUFFICES ASSUME NEW f \in 1..Files
             PROVE  /\ Behind(v, f) => Complete(t2, f)
                    /\ At(v, f) => /\ Growing(v, t2, f)
                                   /\ y.resumes = 0 => ~v.app
                                   /\ v.pc = "pipe" => v.at = "stage"
                    /\ Before(v, f) => Tidy(t2, f) /\ (y.resumes = 0 => t2.stage[f] = NoFile)
                    /\ y.resumes = 0 => Tidy(t2, f)
  BY DEF Progress
<1>1. LateAt(t2, f) = LateAt(t, f)
  BY DEF LateAt
<1>2. /\ Complete(t2, f) <=> Complete(t, f)
      /\ Tidy(t2, f) <=> Tidy(t, f)
  BY <1>1 DEF Complete, Tidy
<1>3. v.lo = w.lo /\ v.app = w.app => (Growing(v, t2, f) <=> Growing(w, t, f))
  BY <1>1 DEF Growing
<1>4. /\ Behind(w, f) => Complete(t, f)
      /\ At(w, f) => /\ Growing(w, t, f)
                     /\ x.resumes = 0 => ~w.app
                     /\ w.pc = "pipe" => w.at = "stage"
      /\ Before(w, f) => Tidy(t, f) /\ (x.resumes = 0 => t.stage[f] = NoFile)
      /\ x.resumes = 0 => Tidy(t, f)
  BY DEF Progress
<1>5. CASE v.pc = w.pc /\ v.i = w.i /\ v.lo = w.lo /\ v.app = w.app /\ v.at = w.at
  <2>1. /\ Behind(v, f) <=> Behind(w, f)
        /\ At(v, f) <=> At(w, f)
        /\ Before(v, f) <=> Before(w, f)
    BY <1>5 DEF Behind, At, Before
  <2> QED BY <1>2, <1>3, <1>4, <1>5, <2>1
<1>6. CASE w.pc \in {"none", "scan", "mkdir", "open"} /\ v.pc \in {"none", "scan", "mkdir", "open"}
  <2>1. ~Behind(v, f) /\ ~At(v, f) /\ Before(w, f)
    BY <1>6 DEF Behind, At, Before
  <2> QED BY <1>2, <1>4, <2>1
<1>7. CASE v.pc \in {"broken", "killed", "ended", "moved", "refused"}
  <2>1. ~Behind(v, f) /\ ~At(v, f) /\ ~Before(v, f)
    BY <1>7 DEF Behind, At, Before
  <2> QED BY <1>2, <1>4, <2>1
<1>8. CASE w.pc = "dirs" /\ v.pc = "commit"
  <2>1. Behind(w, f) /\ ~At(v, f) /\ ~Before(v, f)
    BY <1>8 DEF Behind, At, Before
  <2> QED BY <1>2, <1>4, <2>1
<1>9. CASE w.pc = "pipe" /\ v.pc = "check" /\ v.i = w.i /\ v.lo = w.lo /\ v.app = w.app
  <2>1. /\ Behind(v, f) <=> Behind(w, f)
        /\ At(v, f) <=> At(w, f)
        /\ Before(v, f) <=> Before(w, f)
    BY <1>9 DEF Behind, At, Before
  <2> QED BY <1>2, <1>3, <1>4, <1>9, <2>1
<1> QED BY <1>5, <1>6, <1>7, <1>8, <1>9

(* What stops a run leaves in the way of a job that was never resumed. *)
LEMMA StoppedTidy ==
  ASSUME NEW x, NEW w, NEW t, Sorts(x, w, t), Progress(x, w, t), Steady(w), x.resumes = 0,
         NEW t2, t2.stage = t.stage,
         \A q \in t2.late :
           \/ q \in t.late
           \/ w.pc = "pipe" /\ q.i = w.i /\ q.lo = w.lo /\ q.app = w.app /\ q.at = w.at,
         NEW f \in 1..Files
  PROVE  Tidy(t2, f)
<1>1. Tidy(t, f)
  BY DEF Progress
<1>2. CASE w.pc = "pipe" /\ w.i = f
  <2>1. Growing(w, t, f) /\ ~w.app
    BY <1>2 DEF Progress, At
  <2>2. PICK n \in 0..Blocks : t.stage[f] = Source(n) /\ n >= w.lo - 1
    BY <2>1 DEF Growing
  <2>3. Len(t.stage[f]) = n /\ n \in Int /\ w.lo \in Int
    BY <2>2, StartLength DEF Sorts, RunRecords
  <2>4. \A q \in LateAt(t2, f) : ~q.app /\ q.lo <= n + 1
    <3> SUFFICES ASSUME NEW q \in LateAt(t2, f) PROVE ~q.app /\ q.lo <= n + 1
      OBVIOUS
    <3>1. q \in t2.late /\ q.at = "stage" /\ q.i = f
      BY DEF LateAt
    <3>2. CASE q \in t.late
      <4>1. q \in LateAt(t, f)
        BY <3>1, <3>2 DEF LateAt
      <4> QED BY <2>1, <2>3, <4>1 DEF Growing
    <3>3. CASE q.lo = w.lo /\ q.app = w.app
      BY <2>1, <2>2, <2>3, <3>3
    <3> QED BY <3>1, <3>2, <3>3
  <2> QED BY <2>2, <2>4 DEF Tidy
<1>3. CASE ~(w.pc = "pipe" /\ w.i = f)
  <2>1. LateAt(t2, f) \subseteq LateAt(t, f)
    BY <1>3 DEF LateAt
  <2> QED BY <1>1, <2>1 DEF Tidy
<1> QED BY <1>2, <1>3

(* The files stay, and of run w a write may be left on its way. *)
Leaves(w, t, t2) ==
  /\ t2.stage = t.stage /\ t2.target = t.target /\ t2.rm = t.rm
  /\ \A q \in t2.late :
       \/ q \in t.late
       \/ w.pc = "pipe" /\ q.i = w.i /\ q.lo = w.lo /\ q.app = w.app /\ q.at = w.at

(* The run is interrupted or ends without success: nothing changes but      *)
(* what it leaves on its way, and the status with it.                      *)
Stops(s, x, w, t, s2, y, v, t2) ==
  /\ w.pc \notin Dead /\ v.pc \in {"broken", "refused", "killed", "ended"}
  /\ y.resumes = x.resumes
  /\ s2 \in {s, "failed", "paused", "cancelled"}
  /\ Alive(s2) => Alive(s)
  /\ s2 = "running" => v.pc # "ended"
  /\ s2 = "failed" => v.pc = "ended"
  /\ s2 = "absent" => y.phase # ""
  /\ Leaves(w, t, t2)

LEMMA StopOK ==
  ASSUME NEW o, NEW s, NEW x, NEW w, NEW t, Sorts(x, w, t), JobInv(o, s, x, w, t),
         NEW s2, NEW y, NEW v, NEW t2, Stops(s, x, w, t, s2, y, v, t2)
  PROVE  JobInv(o, s2, y, v, t2)
<1> USE DEF Stops, Leaves
<1>1. Pairs(o, s, x, w, t) /\ Steady(w) /\ WritersHaveFile(w, t)
  BY DEF JobInv, Control
<1>2. s \notin {"pending", "failed", "done"}
  BY <1>1 DEF Pairs, Dead
<1>3. Pairs(o, s2, y, v, t2)
  <2>1. t2.rm => s2 \in {"cancelled", "absent"}
    BY <1>1, <1>2 DEF Pairs, Alive
  <2> QED BY <1>2, <2>1 DEF Pairs, Dead
<1>4. Steady(v)
  BY DEF Steady
<1>5. WritersHaveFile(v, t2)
  <2>1. \A q \in t2.late : q.at = "stage" => t2.stage[q.i] # NoFile
    <3> SUFFICES ASSUME NEW q \in t2.late, q.at = "stage" PROVE t.stage[q.i] # NoFile
      OBVIOUS
    <3>1. CASE q \in t.late
      BY <1>1, <3>1 DEF WritersHaveFile
    <3>2. CASE w.pc = "pipe" /\ q.i = w.i /\ q.lo = w.lo /\ q.app = w.app /\ q.at = w.at
      <4>1. w.at = "stage" /\ t.stage[w.i] # NoFile
        BY <1>1, <3>2 DEF WritersHaveFile
      <4> QED BY <3>2, <4>1
    <3> QED BY <3>1, <3>2
  <2>2. v.pc # "pipe"
    OBVIOUS
  <2>3. \A f \in 1..Files :
          t2.stage[f] = NoFile \/ \A b \in DOMAIN t2.stage[f] : t2.stage[f][b] \in 0..Blocks
    BY <1>1 DEF WritersHaveFile
  <2> QED BY <2>1, <2>2, <2>3 DEF WritersHaveFile
<1>6. ASSUME y.resumes <= 1 PROVE TargetGood(o, s2, v, t2) /\ StageGood(s2, y, v, t2)
  <2>1. TargetGood(o, s, w, t) /\ StageGood(s, x, w, t)
    BY <1>6 DEF JobInv, Content
  <2>2. TargetGood(o, s2, v, t2)
    <3>1. \A q \in t2.late : q.at = "target" => q \in t.late
      BY <1>1 DEF Steady
    <3> QED BY <1>2, <2>1, <3>1 DEF TargetGood
  <2>3. StageGood(s2, y, v, t2)
    <3> SUFFICES ASSUME Alive(s2) PROVE Progress(y, v, t2)
      BY DEF StageGood
    <3>1. Progress(x, w, t)
      BY <2>1 DEF StageGood
    <3>2. \A f \in 1..Files : ~Behind(v, f) /\ ~At(v, f) /\ ~Before(v, f)
      BY DEF Behind, At, Before
    <3>3. \A f \in 1..Files : y.resumes = 0 => Tidy(t2, f)
      <4> SUFFICES ASSUME NEW f \in 1..Files, y.resumes = 0 PROVE Tidy(t2, f)
        OBVIOUS
      <4>1. x.resumes = 0 /\ Steady(w)
        BY <1>1
      <4> HIDE DEF Tidy
      <4> QED BY <3>1, <4>1, StoppedTidy
    <3> QED BY <3>2, <3>3 DEF Progress
  <2> QED BY <2>2, <2>3
<1> QED BY <1>3, <1>4, <1>5, <1>6 DEF JobInv, Control, Content

(* The user changes the status, and the run goes on. *)
LEMMA KeptOK ==
  ASSUME NEW o, NEW s, NEW x, NEW w, NEW t, JobInv(o, s, x, w, t),
         NEW s2 \in {"paused", "cancelled", "absent"}, Alive(s2) => Alive(s),
         NEW y, y.resumes = x.resumes, s2 = "absent" => y.phase # "",
         NEW t2, t2.stage = t.stage, t2.target = t.target, t2.late = t.late,
         t2.rm => s2 \in {"cancelled", "absent"}
  PROVE  JobInv(o, s2, y, w, t2)
<1>1. Pairs(o, s2, y, w, t2)
  BY DEF Pairs
<1>2. Steady(w) /\ WritersHaveFile(w, t2)
  BY DEF JobInv, Control, WritersHaveFile
<1>3. ASSUME y.resumes <= 1 PROVE TargetGood(o, s2, w, t2) /\ StageGood(s2, y, w, t2)
  <2>1. TargetGood(o, s, w, t) /\ StageGood(s, x, w, t)
    BY <1>3 DEF JobInv, Content
  <2>2. TargetGood(o, s2, w, t2)
    BY <2>1 DEF TargetGood
  <2>3. w.pc \in {"dirs", "commit"} => Committable(t2)
    BY <2>1 DEF StageGood, Committable
  <2>4. Alive(s2) => Progress(y, w, t2)
    BY <2>1, FilesKept DEF StageGood
  <2> QED BY <2>2, <2>3, <2>4 DEF StageGood
<1> QED BY <1>1, <1>2, <1>3 DEF JobInv, Control, Content

(* A job that has just been made, or is queued for the first time. *)
LEMMA FreshOK ==
  ASSUME NEW o, NEW x, NEW w, NEW t, Fresh(o, x, w, t), NEW s \in {"absent", "pending"},
         NEW y, y.resumes = 0
  PROVE  JobInv(o, s, y, w, t)
<1>1. Fresh(o, y, w, t)
  BY DEF Fresh
<1>2. Pairs(o, s, y, w, t) /\ Steady(w)
  BY <1>1 DEF Pairs, Steady, Fresh
<1>3. WritersHaveFile(w, t)
  BY <1>1, TreesTyped DEF WritersHaveFile, Fresh
<1>4. TargetGood(o, s, w, t)
  BY <1>1 DEF TargetGood, Fresh
<1>5. \A f \in 1..Files : t.stage[f] = NoFile /\ LateAt(t, f) = {}
  BY <1>1, TreesTyped DEF Fresh, LateAt
<1>6. \A f \in 1..Files : Tidy(t, f) /\ ~Behind(w, f) /\ ~At(w, f)
  BY <1>1, <1>5 DEF Tidy, Behind, At, Fresh
<1>7. StageGood(s, y, w, t)
  BY <1>1, <1>5, <1>6 DEF StageGood, Progress, Fresh
<1> QED BY <1>2, <1>3, <1>4, <1>7 DEF JobInv, Control, Content

(* A paused or failed job is queued again. *)
LEMMA ResumeOK ==
  ASSUME NEW o, NEW s \in {"paused", "failed"}, NEW x, NEW w, NEW t,
         Sorts(x, w, t), JobInv(o, s, x, w, t),
         w.pc \in Dead, NEW y, y.resumes = x.resumes + 1, NEW v, v.pc = "none"
  PROVE  JobInv(o, "pending", y, v, t)
<1>1. Pairs(o, s, x, w, t) /\ WritersHaveFile(w, t)
  BY DEF JobInv, Control
<1>2. Pairs(o, "pending", y, v, t) /\ Steady(v) /\ WritersHaveFile(v, t)
  BY <1>1 DEF Pairs, Steady, WritersHaveFile
<1>3. ASSUME y.resumes <= 1 PROVE TargetGood(o, "pending", v, t) /\ StageGood("pending", y, v, t)
  <2>1. x.resumes = 0 /\ y.resumes = 1
    BY <1>3 DEF Sorts, CopyObjects
  <2>2. TargetGood(o, s, w, t) /\ StageGood(s, x, w, t)
    BY <2>1 DEF JobInv, Content
  <2>3. \A f \in 1..Files : Tidy(t, f)
    BY <2>1, <2>2 DEF StageGood, Alive, Progress
  <2>4. \A f \in 1..Files : ~Behind(v, f) /\ ~At(v, f)
    BY DEF Behind, At
  <2>5. StageGood("pending", y, v, t)
    BY <2>1, <2>3, <2>4 DEF StageGood, Progress
  <2>6. TargetGood(o, "pending", v, t)
    BY <2>2 DEF TargetGood
  <2> QED BY <2>5, <2>6
<1> QED BY <1>2, <1>3 DEF JobInv, Control, Content

(* A run starts, or goes on to its next await before the first file. *)
Advances(s, x, w, s2, y, v) ==
  /\ \/ s2 = s /\ w.pc \notin Dead
     \/ s = "pending" /\ s2 = "running"
  /\ w.pc \in {"none", "scan", "mkdir", "open"} /\ v.pc \in {"scan", "mkdir", "open"}
  /\ y.resumes = x.resumes
  /\ s2 = "absent" => y.phase # ""

LEMMA AdvanceOK ==
  ASSUME NEW o, NEW s, NEW x, NEW w, NEW t, JobInv(o, s, x, w, t),
         NEW s2, NEW y, NEW v, Advances(s, x, w, s2, y, v)
  PROVE  JobInv(o, s2, y, v, t)
<1> USE DEF Advances
<1>1. Pairs(o, s, x, w, t) /\ WritersHaveFile(w, t)
  BY DEF JobInv, Control
<1>2. s2 \notin {"pending", "failed", "done"} /\ (s2 = "running" \/ s2 = s)
  <2>1. CASE s2 = s
    BY <1>1, <2>1 DEF Pairs, Dead
  <2>2. CASE s = "pending" /\ s2 = "running"
    BY <2>2
  <2> QED BY <2>1, <2>2
<1>3. Pairs(o, s2, y, v, t) /\ Steady(v) /\ WritersHaveFile(v, t)
  BY <1>1, <1>2 DEF Pairs, Steady, WritersHaveFile, Dead
<1>4. ASSUME y.resumes <= 1 PROVE TargetGood(o, s2, v, t) /\ StageGood(s2, y, v, t)
  <2>1. TargetGood(o, s, w, t) /\ StageGood(s, x, w, t)
    BY <1>4 DEF JobInv, Content
  <2>2. TargetGood(o, s2, v, t)
    BY <1>2, <2>1 DEF TargetGood
  <2>3. Alive(s2) => Alive(s)
    BY DEF Alive
  <2>4. Alive(s2) => Progress(y, v, t)
    BY <2>1, <2>3, FilesKept DEF StageGood
  <2> QED BY <2>2, <2>4 DEF StageGood
<1> QED BY <1>3, <1>4 DEF JobInv, Control, Content

(* The loop goes on to file i, or to the directories. *)
LEMMA LoopOK ==
  ASSUME NEW o, NEW x, NEW w, NEW t, Sorts(x, w, t), JobInv(o, "running", x, w, t),
         NEW i \in 1..(Files + 1),
         x.resumes <= 1 =>
           \A f \in 1..Files : /\ f < i => Complete(t, f)
                               /\ f >= i => Tidy(t, f) /\ (x.resumes = 0 => t.stage[f] = NoFile)
                               /\ x.resumes = 0 => Tidy(t, f),
         NEW y, y.resumes = x.resumes,
         NEW v, v.i = i, v.pc = IF i > Files THEN "dirs" ELSE "look"
  PROVE  JobInv(o, "running", y, v, t)
<1>1. Pairs(o, "running", x, w, t) /\ WritersHaveFile(w, t)
  BY DEF JobInv, Control
<1>2. v.pc = "look" => i \in 1..Files
  BY CopyAssumption
<1>3. Pairs(o, "running", y, v, t) /\ Steady(v) /\ WritersHaveFile(v, t)
  BY <1>1, <1>2 DEF Pairs, Steady, WritersHaveFile, Dead
<1>4. ASSUME y.resumes <= 1 PROVE TargetGood(o, "running", v, t) /\ StageGood("running", y, v, t)
  <2>1. TargetGood(o, "running", v, t)
    BY <1>4 DEF JobInv, Content, TargetGood
  <2>2. \A f \in 1..Files :
          /\ ~At(v, f)
          /\ Behind(v, f) => f < i
          /\ Before(v, f) => f >= i
    BY CopyAssumption DEF At, Behind, Before
  <2>3. Progress(y, v, t)
    BY <1>4, <2>2 DEF Progress
  <2>4. v.pc \in {"dirs", "commit"} => Committable(t)
    <3> SUFFICES ASSUME v.pc = "dirs" PROVE Committable(t)
      OBVIOUS
    <3>1. \A f \in 1..Files : Complete(t, f)
      BY <1>4, CopyAssumption
    <3>2. t.stage = Whole
      BY <3>1, TreeIsWhole DEF Complete, Sorts, Sites
    <3>3. \A q \in t.late : q.at = "stage" => ~q.app
      <4> SUFFICES ASSUME NEW q \in t.late, q.at = "stage" PROVE ~q.app
        OBVIOUS
      <4>1. q.i \in 1..Files /\ q \in LateAt(t, q.i)
        BY DEF LateAt, Sorts, Sites, Leftovers
      <4> QED BY <3>1, <4>1 DEF Complete
    <3> QED BY <3>2, <3>3 DEF Committable
  <2> QED BY <2>1, <2>3, <2>4 DEF StageGood
<1> QED BY <1>3, <1>4 DEF JobInv, Control, Content

(* A live run belongs to a job that runs, or was paused, cancelled or       *)
(* deleted under it.                                                       *)
LEMMA LivePairs ==
  ASSUME NEW o, NEW s, NEW x, NEW w, NEW t, JobInv(o, s, x, w, t), w.pc \notin Dead
  PROVE  /\ s \notin {"pending", "failed", "done"}
         /\ s = "absent" => x.phase # ""
         /\ \A y, v, t2 : (s = "absent" => y.phase # "") /\ v.pc \notin Dead /\ (t2.rm => t.rm)
                            => Pairs(o, s, y, v, t2)
<1>1. Pairs(o, s, x, w, t)
  BY DEF JobInv, Control
<1>2. s \notin {"pending", "failed", "done"}
  BY <1>1 DEF Pairs, Dead
<1>3. s = "absent" => x.phase # ""
  BY <1>1 DEF Pairs, Fresh, Dead
<1>4. ASSUME NEW y, NEW v, NEW t2, s = "absent" => y.phase # "", v.pc \notin Dead, t2.rm => t.rm
      PROVE  Pairs(o, s, y, v, t2)
  BY <1>1, <1>2, <1>4 DEF Pairs
<1> QED BY <1>2, <1>3, <1>4

(* The file at which the run is has its size: the loop goes on to the next. *)
LEMMA NextFileOK ==
  ASSUME NEW o, NEW x, NEW w, NEW t, Sorts(x, w, t), JobInv(o, "running", x, w, t),
         w.pc \in {"look", "check"}, t.stage[w.i] # NoFile, Len(t.stage[w.i]) = Blocks,
         NEW y, y.resumes = x.resumes,
         NEW v, v.i = w.i + 1, v.pc = IF w.i + 1 > Files THEN "dirs" ELSE "look"
  PROVE  JobInv(o, "running", y, v, t)
<1>1. w.i \in 1..Files /\ Steady(w)
  BY DEF JobInv, Control, Steady
<1>2. w.i + 1 \in 1..(Files + 1) /\ w.i \in Int /\ Files \in Nat
  BY <1>1, CopyAssumption
<1>3. ASSUME x.resumes <= 1
      PROVE  \A f \in 1..Files :
               /\ f < w.i + 1 => Complete(t, f)
               /\ f >= w.i + 1 => Tidy(t, f) /\ (x.resumes = 0 => t.stage[f] = NoFile)
               /\ x.resumes = 0 => Tidy(t, f)
  <2>1. Progress(x, w, t)
    BY <1>3 DEF JobInv, Content, StageGood, Alive
  <2>2. Complete(t, w.i)
    <3>1. CASE w.pc = "look"
      <4>1. Tidy(t, w.i)
        BY <1>1, <1>2, <2>1, <3>1 DEF Progress, Before
      <4>2. PICK n \in 0..Blocks : /\ t.stage[w.i] = Source(n)
                                   /\ \A q \in LateAt(t, w.i) : ~q.app /\ q.lo <= n + 1
        BY <4>1 DEF Tidy
      <4>3. n = Blocks
        BY <4>2, StartLength
      <4> QED BY <4>2, <4>3 DEF Complete
    <3>2. CASE w.pc = "check"
      <4>1. Growing(w, t, w.i) /\ w.lo = Blocks + 1
        BY <1>1, <2>1, <3>2 DEF Progress, At, Steady
      <4>2. ~(Len(t.stage[w.i]) >= w.lo)
        BY <4>1, CopyAssumption
      <4>3. PICK n \in 0..Blocks : t.stage[w.i] = Source(n)
        BY <4>1, <4>2 DEF Growing
      <4>4. n = Blocks
        BY <4>3, StartLength
      <4> QED BY <4>1, <4>3, <4>4 DEF Growing, Complete
    <3> QED BY <3>1, <3>2
  <2> SUFFICES ASSUME NEW f \in 1..Files
               PROVE  /\ f < w.i + 1 => Complete(t, f)
                      /\ f >= w.i + 1 => Tidy(t, f) /\ (x.resumes = 0 => t.stage[f] = NoFile)
                      /\ x.resumes = 0 => Tidy(t, f)
    OBVIOUS
  <2>3. f < w.i => Behind(w, f)
    BY DEF Behind
  <2>4. f > w.i => Before(w, f)
    BY <1>2 DEF Before
  <2>5. (f < w.i + 1 => f < w.i \/ f = w.i) /\ (f >= w.i + 1 => f > w.i)
    BY <1>2
  <2> QED BY <2>1, <2>2, <2>3, <2>4, <2>5 DEF Progress
<1> QED BY <1>2, <1>3, LoopOK

(* The file is opened behind what is there of it, or emptied. *)
Opens(w, t, size, offset, v, t2) ==
  /\ w.pc = "look"
  /\ size = IF t.stage[w.i] = NoFile THEN 0 ELSE Len(t.stage[w.i])
  /\ offset = IF size > Blocks THEN 0 ELSE size
  /\ offset < Blocks
  /\ v.pc = "pipe" /\ v.i = w.i /\ v.lo = offset + 1 /\ v.app = (offset > 0) /\ v.at = "stage"
  /\ t2.stage = [t.stage EXCEPT ![w.i] = IF offset > 0 THEN @ ELSE <<>>]
  /\ t2.target = t.target /\ t2.rm = t.rm
  /\ t2.late = {IF size > Blocks /\ q.i = w.i THEN Forgets(q) ELSE q : q \in t.late}

LEMMA OpenOK ==
  ASSUME NEW o, NEW s, NEW x, NEW w, NEW t, Sorts(x, w, t), JobInv(o, s, x, w, t),
         NEW y, y.resumes = x.resumes, y.phase = x.phase,
         NEW v, NEW t2, NEW size, NEW offset, Opens(w, t, size, offset, v, t2)
  PROVE  JobInv(o, s, y, v, t2)
<1> USE DEF Opens
<1>1. w.i \in 1..Files /\ Steady(w) /\ WritersHaveFile(w, t)
  BY DEF JobInv, Control, Steady
<1>2. t.stage \in Trees /\ t.stage[w.i] \in Seq(Int) /\ t.late \in SUBSET Leftovers
  BY <1>1 DEF Sorts, Sites, Trees
<1>3. size \in Nat /\ offset \in 0..Blocks /\ Blocks \in Nat
  BY <1>2, CopyAssumption
<1>4. /\ \A f \in 1..Files : f # w.i => t2.stage[f] = t.stage[f]
      /\ t2.stage[w.i] = IF offset > 0 THEN t.stage[w.i] ELSE <<>>
  BY <1>1, <1>2 DEF Trees
<1>5. \A q \in t2.late : q.at # "gone" => q \in t.late
  <2> SUFFICES ASSUME NEW q \in t2.late, q.at # "gone" PROVE q \in t.late
    OBVIOUS
  <2>1. PICK p \in t.late : q = IF size > Blocks /\ p.i = w.i THEN Forgets(p) ELSE p
    OBVIOUS
  <2>2. Forgets(p) = p \/ Forgets(p).at = "gone"
    BY <1>2 DEF Forgets, Leftovers
  <2> QED BY <2>1, <2>2
<1>6. t2.stage[w.i] # NoFile
  <2>1. NoFile # <<>>
    BY DEF NoFile
  <2> QED BY <1>3, <1>4, <2>1
<1>7. Pairs(o, s, y, v, t2)
  <2>1. v.pc \notin Dead /\ w.pc \notin Dead
    BY DEF Dead
  <2> QED BY <2>1, LivePairs
<1>8. Steady(v)
  BY <1>1, <1>3 DEF Steady
<1>9. WritersHaveFile(v, t2)
  <2>1. \A q \in t2.late : q.at = "stage" => t2.stage[q.i] # NoFile
    <3> SUFFICES ASSUME NEW q \in t2.late, q.at = "stage" PROVE t2.stage[q.i] # NoFile
      OBVIOUS
    <3>1. q \in t.late /\ q.i \in 1..Files
      BY <1>2, <1>5 DEF Leftovers
    <3>2. t.stage[q.i] # NoFile
      BY <1>1, <3>1 DEF WritersHaveFile
    <3> QED BY <1>4, <1>6, <3>1, <3>2
  <2>2. \A f \in 1..Files :
          t2.stage[f] = NoFile \/ \A b \in DOMAIN t2.stage[f] : t2.stage[f][b] \in 0..Blocks
    <3> SUFFICES ASSUME NEW f \in 1..Files
                 PROVE  t2.stage[f] = NoFile \/ \A b \in DOMAIN t2.stage[f] : t2.stage[f][b] \in 0..Blocks
      OBVIOUS
    <3>1. t.stage[f] = NoFile \/ \A b \in DOMAIN t.stage[f] : t.stage[f][b] \in 0..Blocks
      BY <1>1 DEF WritersHaveFile
    <3>2. CASE t2.stage[f] = t.stage[f]
      BY <3>1, <3>2
    <3>3. CASE t2.stage[f] = <<>>
      BY <3>3
    <3> QED BY <1>4, <3>2, <3>3
  <2> QED BY <1>6, <2>1, <2>2 DEF WritersHaveFile
<1>10. ASSUME y.resumes <= 1 PROVE TargetGood(o, s, v, t2) /\ StageGood(s, y, v, t2)
  <2>1. TargetGood(o, s, w, t) /\ StageGood(s, x, w, t)
    BY <1>10 DEF JobInv, Content
  <2>2. TargetGood(o, s, v, t2)
    BY <1>5, <2>1 DEF TargetGood
  <2>3. ASSUME Alive(s) PROVE Progress(y, v, t2)
    <3>1. Progress(x, w, t)
      BY <2>1, <2>3 DEF StageGood
    <3> SUFFICES ASSUME NEW f \in 1..Files
                 PROVE  /\ Behind(v, f) => Complete(t2, f)
                        /\ At(v, f) => /\ Growing(v, t2, f)
                                       /\ y.resumes = 0 => ~v.app
                                       /\ v.pc = "pipe" => v.at = "stage"
                        /\ Before(v, f) => Tidy(t2, f) /\ (y.resumes = 0 => t2.stage[f] = NoFile)
                        /\ y.resumes = 0 => Tidy(t2, f)
      BY DEF Progress
    <3>2. LateAt(t2, f) \subseteq LateAt(t, f)
      BY <1>5 DEF LateAt
    <3>3. CASE f # w.i
      <4>1. t2.stage[f] = t.stage[f]
        BY <1>4, <3>3
      <4>2. (Complete(t, f) => Complete(t2, f)) /\ (Tidy(t, f) => Tidy(t2, f))
        BY <3>2, <4>1 DEF Complete, Tidy
      <4>3. ~At(v, f) /\ (Behind(v, f) => Behind(w, f)) /\ (Before(v, f) => Before(w, f))
        <5>1. f \in Int /\ w.i \in Int
          BY <1>1
        <5> QED BY <3>3, <5>1 DEF At, Behind, Before
      <4> QED BY <3>1, <4>1, <4>2, <4>3 DEF Progress
    <3>4. CASE f = w.i
      <4>1. Tidy(t, f) /\ (x.resumes = 0 => t.stage[f] = NoFile)
        BY <1>1, <3>1, <3>4 DEF Progress, Before
      <4>2. ~Behind(v, f) /\ ~Before(v, f)
        <5>1. f \in Int
          OBVIOUS
        <5> QED BY <3>4, <5>1 DEF Behind, Before
      <4>3. CASE t.stage[f] = NoFile /\ LateAt(t, f) = {}
        <5>1. offset = 0 /\ size = 0
          BY <1>3, <3>4, <4>3
        <5>2. t2.stage[f] = Source(0) /\ v.lo = 1 /\ ~v.app
          <6>1. ~(offset > 0)
            BY <5>1
          <6>2. ~v.app
            BY <6>1, Zenon
          <6>3. t2.stage[f] = Source(0) /\ v.lo = 1
            BY <1>4, <3>4, <5>1, <6>1, EmptyIsSource
          <6> QED BY <6>2, <6>3
        <5>3. LateAt(t2, f) = {} /\ 0 \in 0..Blocks
          BY <1>3, <3>2, <4>3
        <5>4. Growing(v, t2, f)
          BY <5>2, <5>3 DEF Growing
        <5>5. Tidy(t2, f)
          BY <5>2, <5>3 DEF Tidy
        <5> QED BY <4>2, <5>2, <5>4, <5>5
      <4>4. CASE t.stage[f] # NoFile
        <5>1. PICK n \in 0..Blocks : /\ t.stage[f] = Source(n)
                                     /\ \A q \in LateAt(t, f) : ~q.app /\ q.lo <= n + 1
          BY <4>1, <4>4 DEF Tidy
        <5>2. size = n /\ offset = n
          <6>1. Len(t.stage[f]) = n /\ ~(n > Blocks)
            BY <1>3, <5>1, StartLength
          <6> QED BY <3>4, <4>4, <6>1
        <5>3. t2.stage[f] = Source(n)
          <6>1. CASE n > 0
            BY <1>4, <3>4, <5>1, <5>2, <6>1
          <6>2. CASE n = 0
            BY <1>4, <3>4, <5>2, <6>2, EmptyIsSource
          <6> QED BY <6>1, <6>2
        <5>4. v.lo = n + 1 /\ Len(t2.stage[f]) = n /\ n \in Int
          BY <5>2, <5>3, StartLength
        <5>5. Growing(v, t2, f)
          <6>1. \A q \in LateAt(t2, f) : ~q.app /\ q.lo <= Len(t2.stage[f]) + 1
            BY <3>2, <5>1, <5>4
          <6>2. n >= v.lo - 1 /\ n = v.lo - 1
            BY <5>4
          <6> HIDE DEF Opens
          <6> QED BY <5>3, <6>1, <6>2 DEF Growing
        <5>6. y.resumes # 0
          BY <4>1, <4>4
        <5>7. At(v, f) => /\ Growing(v, t2, f)
                          /\ y.resumes = 0 => ~v.app
                          /\ v.pc = "pipe" => v.at = "stage"
          BY <5>5, <5>6
        <5>8. y.resumes = 0 => Tidy(t2, f)
          BY <5>6
        <5> QED BY <4>2, <5>7, <5>8
      <4>5. t.stage[f] = NoFile => LateAt(t, f) = {}
        BY <4>1, StartLength DEF Tidy
      <4> QED BY <4>3, <4>4, <4>5
    <3> QED BY <3>3, <3>4
  <2> QED BY <2>2, <2>3 DEF StageGood
<1> QED BY <1>7, <1>8, <1>9, <1>10 DEF JobInv, Control, Content

(* A block of the run lands. *)
LEMMA WriteOK ==
  ASSUME NEW o, NEW s, NEW x, NEW w, NEW t, Sorts(x, w, t), JobInv(o, s, x, w, t),
         w.pc = "pipe", w.lo <= Blocks,
         NEW v, v = [w EXCEPT !.lo = @ + 1]
  PROVE  JobInv(o, s, x, v, Lands(t, w))
<1> DEFINE t2 == Lands(t, w)
<1>1. w.i \in 1..Files /\ w.lo \in 1..Blocks /\ w.at \in {"stage", "gone"} /\ w.app \in BOOLEAN
  BY CopyAssumption DEF JobInv, Control, Steady, Sorts, RunRecords
<1>2. v.pc = "pipe" /\ v.i = w.i /\ v.lo = w.lo + 1 /\ v.app = w.app /\ v.at = w.at
  BY DEF Sorts, RunRecords
<1>3. /\ t2 \in Sites /\ t2.late = t.late /\ t2.rm = t.rm /\ t2.target = t.target
      /\ w.at = "gone" => t2 = t
      /\ w.at = "stage" => t2.stage = [t.stage EXCEPT ![w.i] = Written(t.stage[w.i], w)]
  BY <1>1, LandsProperties DEF Sorts
<1>4. t.stage \in Trees /\ t.stage[w.i] \in Seq(Int) /\ WritersHaveFile(w, t) /\ w.lo \in Nat \ {0}
  BY <1>1, CopyAssumption DEF JobInv, Control, Sorts, Sites, Trees
<1> HIDE DEF t2
<1>5. \A f \in 1..Files : f # w.i => t2.stage[f] = t.stage[f]
  BY <1>1, <1>3, <1>4 DEF Trees
<1>6. w.at = "stage" => /\ t2.stage[w.i] = Written(t.stage[w.i], w)
                        /\ t.stage[w.i] # NoFile
                        /\ t2.stage[w.i] # NoFile
                        /\ \A b \in DOMAIN t2.stage[w.i] : t2.stage[w.i][b] \in 0..Blocks
  <2> SUFFICES ASSUME w.at = "stage"
               PROVE  /\ t2.stage[w.i] = Written(t.stage[w.i], w)
                      /\ t.stage[w.i] # NoFile
                      /\ t2.stage[w.i] # NoFile
                      /\ \A b \in DOMAIN t2.stage[w.i] : t2.stage[w.i][b] \in 0..Blocks
    OBVIOUS
  <2>1. t2.stage[w.i] = Written(t.stage[w.i], w)
    BY <1>1, <1>3, <1>4 DEF Trees
  <2>2. t.stage[w.i] # NoFile /\ \A b \in DOMAIN t.stage[w.i] : t.stage[w.i][b] \in 0..Blocks
    BY <1>1, <1>4 DEF WritersHaveFile
  <2>3. /\ Written(t.stage[w.i], w) # NoFile
        /\ \A b \in DOMAIN Written(t.stage[w.i], w) : Written(t.stage[w.i], w)[b] \in 0..Blocks
    BY <1>1, <1>4, <2>2, BlocksStayKnown
  <2> QED BY <2>1, <2>2, <2>3
<1>7. Pairs(o, s, x, v, t2)
  <2>1. v.pc \notin Dead /\ w.pc \notin Dead
    BY <1>2 DEF Dead
  <2> QED BY <1>3, <2>1, LivePairs
<1>8. Steady(v)
  BY <1>1, <1>2, CopyAssumption DEF Steady
<1>9. WritersHaveFile(v, t2)
  <2>1. CASE w.at = "gone"
    BY <1>2, <1>3, <1>4, <2>1 DEF WritersHaveFile
  <2>2. CASE w.at = "stage"
    <3>1. \A q \in t2.late : q.at = "stage" => t2.stage[q.i] # NoFile
      <4> SUFFICES ASSUME NEW q \in t2.late, q.at = "stage" PROVE t2.stage[q.i] # NoFile
        OBVIOUS
      <4>1. q \in t.late /\ q.i \in 1..Files
        BY <1>3 DEF Sorts, Sites, Leftovers
      <4>2. t.stage[q.i] # NoFile
        BY <1>4, <4>1 DEF WritersHaveFile
      <4> QED BY <1>5, <1>6, <2>2, <4>1, <4>2
    <3>2. \A f \in 1..Files :
            t2.stage[f] = NoFile \/ \A b \in DOMAIN t2.stage[f] : t2.stage[f][b] \in 0..Blocks
      <4> SUFFICES ASSUME NEW f \in 1..Files
                   PROVE  t2.stage[f] = NoFile \/ \A b \in DOMAIN t2.stage[f] : t2.stage[f][b] \in 0..Blocks
        OBVIOUS
      <4>1. t.stage[f] = NoFile \/ \A b \in DOMAIN t.stage[f] : t.stage[f][b] \in 0..Blocks
        BY <1>4 DEF WritersHaveFile
      <4>2. CASE f = w.i
        BY <1>6, <2>2, <4>2
      <4>3. CASE f # w.i
        <5>1. t2.stage[f] = t.stage[f]
          BY <1>5, <4>3
        <5> QED BY <4>1, <5>1
      <4> QED BY <4>2, <4>3
    <3>3. t2.stage[v.i] # NoFile
      BY <1>2, <1>6, <2>2
    <3> QED BY <3>1, <3>2, <3>3 DEF WritersHaveFile
  <2> QED BY <1>1, <2>1, <2>2
<1>10. ASSUME x.resumes <= 1 PROVE TargetGood(o, s, v, t2) /\ StageGood(s, x, v, t2)
  <2>1. TargetGood(o, s, w, t) /\ StageGood(s, x, w, t)
    BY <1>10 DEF JobInv, Content
  <2>2. TargetGood(o, s, v, t2)
    BY <1>2, <1>3, <2>1 DEF TargetGood
  <2>3. ASSUME Alive(s) PROVE Progress(x, v, t2)
    <3>1. Progress(x, w, t)
      BY <2>1, <2>3 DEF StageGood
    <3> SUFFICES ASSUME NEW f \in 1..Files
                 PROVE  /\ Behind(v, f) => Complete(t2, f)
                        /\ At(v, f) => /\ Growing(v, t2, f)
                                       /\ x.resumes = 0 => ~v.app
                                       /\ v.pc = "pipe" => v.at = "stage"
                        /\ Before(v, f) => Tidy(t2, f) /\ (x.resumes = 0 => t2.stage[f] = NoFile)
                        /\ x.resumes = 0 => Tidy(t2, f)
      BY DEF Progress
    <3>2. LateAt(t2, f) = LateAt(t, f)
      BY <1>3 DEF LateAt
    <3>3. /\ Behind(v, f) <=> Behind(w, f)
          /\ At(v, f) <=> At(w, f)
          /\ Before(v, f) <=> Before(w, f)
      BY <1>2 DEF Behind, At, Before
    <3>4. CASE f # w.i
      <4>1. t2.stage[f] = t.stage[f]
        BY <1>5, <3>4
      <4>2. (Complete(t, f) => Complete(t2, f)) /\ (Tidy(t, f) => Tidy(t2, f))
        BY <3>2, <4>1 DEF Complete, Tidy
      <4>3. ~At(v, f)
        BY <1>2, <3>4 DEF At
      <4> QED BY <3>1, <3>3, <4>1, <4>2, <4>3 DEF Progress
    <3>5. CASE f = w.i
      <4>1. At(w, f) /\ ~Behind(v, f) /\ ~Before(v, f)
        <5>1. f \in Int
          OBVIOUS
        <5> QED BY <1>2, <3>5, <5>1 DEF At, Behind, Before
      <4>2. Growing(w, t, f) /\ (x.resumes = 0 => ~w.app) /\ w.at = "stage"
        BY <3>1, <4>1 DEF Progress
      <4>3. t2.stage[f] = Written(t.stage[f], w)
        BY <1>6, <3>5, <4>2
      <4>4. \A n \in 0..Blocks : t.stage[f] = Source(n) /\ n >= w.lo - 1 /\ (w.app => n = w.lo - 1) =>
              \E m \in 0..Blocks : /\ t2.stage[f] = Source(m)
                                   /\ m >= n /\ m >= w.lo
                                   /\ w.app => m = w.lo
        <5> SUFFICES ASSUME NEW n \in 0..Blocks, t.stage[f] = Source(n), n >= w.lo - 1,
                            w.app => n = w.lo - 1
                     PROVE  \E m \in 0..Blocks : /\ t2.stage[f] = Source(m)
                                                 /\ m >= n /\ m >= w.lo
                                                 /\ w.app => m = w.lo
          OBVIOUS
        <5>1. CASE w.app
          <6>1. n \in Nat /\ n + 1 = w.lo /\ w.lo \in 0..Blocks
            BY <1>1, <5>1, CopyAssumption
          <6>2. t2.stage[f] = Source(w.lo)
            BY <4>3, <5>1, <6>1, SourceAppended DEF Written
          <6> QED BY <6>1, <6>2
        <5>2. CASE ~w.app
          <6>1. w.app = FALSE /\ w.lo <= n + 1
            BY <1>1, <5>2, CopyAssumption
          <6>2. PICK m \in 0..Blocks : /\ Written(Source(n), w) = Source(m)
                                       /\ m = IF w.lo > n THEN n + 1 ELSE n
            BY <1>1, <6>1, InPlace
          <6>3. m >= n /\ m >= w.lo
            BY <1>1, <6>1, <6>2, CopyAssumption
          <6> QED BY <4>3, <5>2, <6>2, <6>3
        <5> QED BY <5>1, <5>2
      <4>5. Len(t2.stage[f]) \in Nat /\ Len(t.stage[f]) \in Nat /\ Len(t2.stage[f]) >= Len(t.stage[f])
            /\ (w.app => Len(t2.stage[f]) = Len(t.stage[f]) + 1)
        <5>1. Written(t.stage[f], w) \in Seq(Int) /\ t.stage[f] \in Seq(Int)
          BY <1>1, <1>4, <3>5, WrittenProperties
        <5>2. /\ Len(Written(t.stage[f], w)) >= Len(t.stage[f])
              /\ w.app => Len(Written(t.stage[f], w)) = Len(t.stage[f]) + 1
          BY <1>1, <1>4, <3>5, WrittenProperties
        <5> QED BY <4>3, <5>1, <5>2
      <4>6. \A q \in LateAt(t2, f) : ~q.app /\ q.lo <= Len(t2.stage[f]) + 1
        <5> SUFFICES ASSUME NEW q \in LateAt(t2, f) PROVE ~q.app /\ q.lo <= Len(t2.stage[f]) + 1
          OBVIOUS
        <5>1. ~q.app /\ q.lo <= Len(t.stage[f]) + 1 /\ q \in t.late
          BY <3>2, <4>2 DEF Growing, LateAt
        <5>2. q.lo \in Int
          BY <5>1 DEF Sorts, Sites, Leftovers
        <5> QED BY <4>5, <5>1, <5>2
      <4>7. Growing(v, t2, f)
        <5>1. CASE \E n \in 0..Blocks : t.stage[f] = Source(n) /\ n >= w.lo - 1 /\ (w.app => n = w.lo - 1)
          <6>1. PICK m \in 0..Blocks : t2.stage[f] = Source(m) /\ m >= w.lo /\ (w.app => m = w.lo)
            BY <4>4, <5>1
          <6>2. m >= v.lo - 1 /\ (v.app => m = v.lo - 1)
            BY <1>1, <1>2, <6>1
          <6> QED BY <4>6, <6>1, <6>2 DEF Growing
        <5>2. CASE w.app /\ Len(t.stage[f]) >= w.lo
          <6>1. v.app /\ Len(t2.stage[f]) >= v.lo
            BY <1>1, <1>2, <4>5, <5>2
          <6> QED BY <4>6, <6>1 DEF Growing
        <5> QED BY <4>2, <5>1, <5>2 DEF Growing
      <4>8. x.resumes = 0 => Tidy(t2, f)
        <5> SUFFICES ASSUME x.resumes = 0 PROVE Tidy(t2, f)
          OBVIOUS
        <5>1. PICK n \in 0..Blocks : t.stage[f] = Source(n) /\ n >= w.lo - 1
          BY <4>2 DEF Growing
        <5>2. PICK m \in 0..Blocks : t2.stage[f] = Source(m)
          BY <4>2, <4>4, <5>1
        <5>3. Len(t2.stage[f]) = m
          BY <5>2, StartLength
        <5> QED BY <4>6, <5>2, <5>3 DEF Tidy
      <4>9. (x.resumes = 0 => ~v.app) /\ v.at = "stage"
        BY <1>2, <4>2
      <4> QED BY <4>1, <4>7, <4>8, <4>9
    <3> QED BY <3>4, <3>5
  <2> QED BY <1>2, <2>2, <2>3 DEF StageGood
<1> QED BY <1>7, <1>8, <1>9, <1>10 DEF JobInv, Control, Content, t2

(* A block of a destroyed stream lands. *)
LEMMA LateOK ==
  ASSUME NEW o, NEW s, NEW x, NEW w, NEW t, Sorts(x, w, t), JobInv(o, s, x, w, t),
         NEW q \in t.late
  PROVE  Lands(Arrived(t, q), q) \in Sites /\ JobInv(o, s, x, w, Lands(Arrived(t, q), q))
<1> DEFINE c == Arrived(t, q)
           t2 == Lands(c, q)
<1>1. q.i \in 1..Files /\ q.lo \in 1..Blocks /\ q.at \in {"stage", "target", "gone"} /\ q.app \in BOOLEAN
  BY DEF Sorts, Sites, Leftovers
<1>2. c \in Sites /\ c.stage = t.stage /\ c.target = t.target /\ c.rm = t.rm /\ c.late = t.late \ {q}
  BY DEF Sorts, Sites, Arrived
<1>3. /\ t2 \in Sites /\ t2.late = t.late \ {q} /\ t2.rm = t.rm
      /\ q.at # "target" => t2.target = t.target
      /\ q.at # "stage" => t2.stage = t.stage
      /\ q.at = "target" => t2.target = [t.target EXCEPT ![q.i] = Written(t.target[q.i], q)]
      /\ q.at = "stage" => t2.stage = [t.stage EXCEPT ![q.i] = Written(t.stage[q.i], q)]
  <2>1. /\ t2 \in Sites /\ t2.late = c.late /\ t2.rm = c.rm
        /\ q.at = "gone" => t2 = c
        /\ q.at # "target" => t2.target = c.target
        /\ q.at # "stage" => t2.stage = c.stage
        /\ q.at = "target" => t2.target = [c.target EXCEPT ![q.i] = Written(c.target[q.i], q)]
        /\ q.at = "stage" => t2.stage = [c.stage EXCEPT ![q.i] = Written(c.stage[q.i], q)]
    <3> HIDE DEF t2
    <3>1. c \in Sites
      BY <1>2
    <3> QED BY <1>1, <3>1, LandsProperties DEF t2
  <2> HIDE DEF t2
  <2> QED BY <1>2, <2>1
<1>4. /\ t.stage \in Trees /\ t.target \in Trees /\ t.late \in SUBSET Leftovers
      /\ WritersHaveFile(w, t) /\ Steady(w) /\ q.lo \in Nat \ {0}
  BY <1>1, CopyAssumption DEF JobInv, Control, Sorts, Sites
<1> HIDE DEF t2, c
<1>5. \A f \in 1..Files : f # q.i \/ q.at # "stage" => t2.stage[f] = t.stage[f]
  BY <1>1, <1>3, <1>4 DEF Trees
<1>6. q.at = "stage" => /\ t2.stage[q.i] = Written(t.stage[q.i], q)
                        /\ t.stage[q.i] # NoFile
                        /\ t2.stage[q.i] # NoFile
                        /\ \A b \in DOMAIN t2.stage[q.i] : t2.stage[q.i][b] \in 0..Blocks
  <2> SUFFICES ASSUME q.at = "stage"
               PROVE  /\ t2.stage[q.i] = Written(t.stage[q.i], q)
                      /\ t.stage[q.i] # NoFile
                      /\ t2.stage[q.i] # NoFile
                      /\ \A b \in DOMAIN t2.stage[q.i] : t2.stage[q.i][b] \in 0..Blocks
    OBVIOUS
  <2>1. t2.stage[q.i] = Written(t.stage[q.i], q) /\ t.stage[q.i] \in Seq(Int)
    BY <1>1, <1>3, <1>4 DEF Trees
  <2>2. t.stage[q.i] # NoFile /\ \A b \in DOMAIN t.stage[q.i] : t.stage[q.i][b] \in 0..Blocks
    BY <1>1, <1>4 DEF WritersHaveFile
  <2>3. /\ Written(t.stage[q.i], q) # NoFile
        /\ \A b \in DOMAIN Written(t.stage[q.i], q) : Written(t.stage[q.i], q)[b] \in 0..Blocks
    BY <1>1, <2>1, <2>2, BlocksStayKnown
  <2> QED BY <2>1, <2>2, <2>3
<1>7. \A f \in 1..Files : t.stage[f] # NoFile => t2.stage[f] # NoFile
  BY <1>5, <1>6
<1>8. Pairs(o, s, x, w, t2)
  <2>1. ~Fresh(o, x, w, t)
    BY DEF Fresh
  <2> QED BY <1>3, <2>1 DEF JobInv, Control, Pairs
<1>9. WritersHaveFile(w, t2)
  <2>1. \A p \in t2.late : p.at = "stage" => t2.stage[p.i] # NoFile
    <3> SUFFICES ASSUME NEW p \in t2.late, p.at = "stage" PROVE t2.stage[p.i] # NoFile
      OBVIOUS
    <3>1. p \in t.late /\ p.i \in 1..Files
      BY <1>3, <1>4 DEF Leftovers
    <3>2. t.stage[p.i] # NoFile
      BY <1>4, <3>1 DEF WritersHaveFile
    <3> QED BY <1>7, <3>1, <3>2
  <2>2. \A f \in 1..Files :
          t2.stage[f] = NoFile \/ \A b \in DOMAIN t2.stage[f] : t2.stage[f][b] \in 0..Blocks
    <3> SUFFICES ASSUME NEW f \in 1..Files
                 PROVE  t2.stage[f] = NoFile \/ \A b \in DOMAIN t2.stage[f] : t2.stage[f][b] \in 0..Blocks
      OBVIOUS
    <3>1. t.stage[f] = NoFile \/ \A b \in DOMAIN t.stage[f] : t.stage[f][b] \in 0..Blocks
      BY <1>4 DEF WritersHaveFile
    <3>2. CASE f = q.i /\ q.at = "stage"
      BY <1>6, <3>2
    <3>3. CASE f # q.i \/ q.at # "stage"
      <4>1. t2.stage[f] = t.stage[f]
        BY <1>5, <3>3
      <4> QED BY <3>1, <4>1
    <3> QED BY <3>2, <3>3
  <2>3. w.pc = "pipe" /\ w.at = "stage" => t2.stage[w.i] # NoFile
    <3> SUFFICES ASSUME w.pc = "pipe", w.at = "stage" PROVE t2.stage[w.i] # NoFile
      OBVIOUS
    <3>1. w.i \in 1..Files
      BY <1>4 DEF Steady
    <3>2. t.stage[w.i] # NoFile
      BY <1>4 DEF WritersHaveFile
    <3> QED BY <1>7, <3>1, <3>2
  <2> QED BY <2>1, <2>2, <2>3 DEF WritersHaveFile
<1>10. ASSUME x.resumes <= 1 PROVE TargetGood(o, s, w, t2) /\ StageGood(s, x, w, t2)
  <2>1. TargetGood(o, s, w, t) /\ StageGood(s, x, w, t)
    BY <1>10 DEF JobInv, Content
  <2>2. TargetGood(o, s, w, t2)
    <3>1. CASE q.at # "target"
      BY <1>3, <2>1, <3>1 DEF TargetGood
    <3>2. CASE q.at = "target"
      <4>1. q.app = FALSE /\ t.target = Whole
        BY <1>1, <2>1, <3>2 DEF TargetGood
      <4>2. Written(Source(Blocks), q) = Source(Blocks)
        <5>1. Blocks \in 0..Blocks /\ q.lo <= Blocks + 1 /\ ~(q.lo > Blocks)
          BY <1>1, CopyAssumption
        <5> QED BY <1>1, <4>1, <5>1, InPlace
      <4>3. \A f \in 1..Files : t2.target[f] = Source(Blocks)
        <5>1. \A f \in 1..Files : t.target[f] = Source(Blocks)
          BY <4>1, TreesTyped
        <5>2. t2.target = [t.target EXCEPT ![q.i] = Written(t.target[q.i], q)] /\ q.i \in 1..Files
          BY <1>1, <1>3, <3>2
        <5>3. Written(t.target[q.i], q) = Source(Blocks)
          BY <4>2, <5>1, <5>2
        <5> QED BY <1>4, <5>1, <5>2, <5>3 DEF Trees
      <4>4. t2.target = Whole
        BY <1>3, <4>3, TreeIsWhole DEF Sites
      <4> QED BY <1>3, <2>1, <4>4 DEF TargetGood
    <3> QED BY <3>1, <3>2
  <2>3. w.pc \in {"dirs", "commit"} => Committable(t2)
    <3> SUFFICES ASSUME w.pc \in {"dirs", "commit"} PROVE Committable(t2)
      OBVIOUS
    <3>1. Committable(t)
      BY <2>1 DEF StageGood
    <3>2. CASE q.at # "stage"
      BY <1>3, <3>1, <3>2 DEF Committable
    <3>3. CASE q.at = "stage"
      <4>1. t.stage = Whole /\ \A p \in t.late : p.at = "stage" => ~p.app
        BY <3>1, <3>3 DEF Committable
      <4>2. q.app = FALSE
        BY <1>1, <3>3, <4>1
      <4>3. Written(Source(Blocks), q) = Source(Blocks)
        <5>1. Blocks \in 0..Blocks /\ q.lo <= Blocks + 1 /\ ~(q.lo > Blocks)
          BY <1>1, CopyAssumption
        <5> QED BY <1>1, <4>2, <5>1, InPlace
      <4>4. \A f \in 1..Files : t2.stage[f] = Source(Blocks)
        <5>1. \A f \in 1..Files : t.stage[f] = Source(Blocks)
          BY <4>1, TreesTyped
        <5>2. t2.stage = [t.stage EXCEPT ![q.i] = Written(t.stage[q.i], q)] /\ q.i \in 1..Files
          BY <1>1, <1>3, <3>3
        <5>3. Written(t.stage[q.i], q) = Source(Blocks)
          BY <4>3, <5>1, <5>2
        <5> QED BY <1>4, <5>1, <5>2, <5>3 DEF Trees
      <4>5. t2.stage = Whole
        BY <1>3, <4>4, TreeIsWhole DEF Sites
      <4> QED BY <1>3, <4>1, <4>5 DEF Committable
    <3> QED BY <3>2, <3>3
  <2>4. ASSUME Alive(s) PROVE Progress(x, w, t2)
    <3>1. Progress(x, w, t)
      BY <2>1, <2>4 DEF StageGood
    <3> SUFFICES ASSUME NEW f \in 1..Files
                 PROVE  /\ Behind(w, f) => Complete(t2, f)
                        /\ At(w, f) => Growing(w, t2, f)
                        /\ Before(w, f) => Tidy(t2, f) /\ (x.resumes = 0 => t2.stage[f] = NoFile)
                        /\ x.resumes = 0 => Tidy(t2, f)
      BY <3>1 DEF Progress
    <3>2. LateAt(t2, f) \subseteq LateAt(t, f)
      BY <1>3 DEF LateAt
    <3>3. CASE ~(f = q.i /\ q.at = "stage")
      <4>1. t2.stage[f] = t.stage[f]
        BY <1>5, <3>3
      <4>2. /\ Complete(t, f) => Complete(t2, f)
            /\ Tidy(t, f) => Tidy(t2, f)
            /\ Growing(w, t, f) => Growing(w, t2, f)
        BY <3>2, <4>1 DEF Complete, Tidy, Growing
      <4> QED BY <3>1, <4>1, <4>2 DEF Progress
    <3>4. CASE f = q.i /\ q.at = "stage"
      <4>1. q \in LateAt(t, f) /\ t.stage[f] # NoFile /\ t2.stage[f] = Written(t.stage[f], q)
        BY <1>6, <3>4 DEF LateAt
      <4>2. ASSUME NEW n \in 0..Blocks, t.stage[f] = Source(n), ~q.app, q.lo <= n + 1
            PROVE  \E m \in 0..Blocks : /\ t2.stage[f] = Source(m)
                                        /\ m = IF q.lo > n THEN n + 1 ELSE n
        <5>1. q.app = FALSE
          BY <1>1, <4>2
        <5> QED BY <1>1, <4>1, <4>2, <5>1, InPlace
      <4>3. Complete(t, f) => Complete(t2, f)
        <5> SUFFICES ASSUME Complete(t, f) PROVE Complete(t2, f)
          OBVIOUS
        <5>1. t.stage[f] = Source(Blocks) /\ \A p \in LateAt(t, f) : ~p.app
          BY DEF Complete
        <5>2. Blocks \in 0..Blocks /\ q.lo <= Blocks + 1 /\ ~(q.lo > Blocks)
          BY <1>1, CopyAssumption
        <5>3. t2.stage[f] = Source(Blocks)
          BY <4>1, <4>2, <5>1, <5>2
        <5> QED BY <3>2, <5>1, <5>3 DEF Complete
      <4>4. Tidy(t, f) => Tidy(t2, f)
        <5> SUFFICES ASSUME Tidy(t, f) PROVE Tidy(t2, f)
          OBVIOUS
        <5>1. PICK n \in 0..Blocks : /\ t.stage[f] = Source(n)
                                     /\ \A p \in LateAt(t, f) : ~p.app /\ p.lo <= n + 1
          BY <4>1 DEF Tidy
        <5>2. PICK m \in 0..Blocks : t2.stage[f] = Source(m) /\ m = IF q.lo > n THEN n + 1 ELSE n
          BY <4>1, <4>2, <5>1
        <5>3. m \in Int /\ n \in Int /\ n <= m
          BY <5>2
        <5>4. \A p \in LateAt(t2, f) : ~p.app /\ p.lo <= m + 1
          <6> SUFFICES ASSUME NEW p \in LateAt(t2, f) PROVE ~p.app /\ p.lo <= m + 1
            OBVIOUS
          <6>1. ~p.app /\ p.lo <= n + 1 /\ p \in t.late
            BY <3>2, <5>1 DEF LateAt
          <6>2. p.lo \in Int
            BY <1>4, <6>1 DEF Leftovers
          <6> QED BY <5>3, <6>1, <6>2
        <5> QED BY <5>2, <5>4 DEF Tidy
      <4>5. At(w, f) => Growing(w, t2, f)
        <5> SUFFICES ASSUME At(w, f) PROVE Growing(w, t2, f)
          OBVIOUS
        <5>1. Growing(w, t, f) /\ w.lo \in 1..(Blocks + 1)
          BY <1>4, <3>1, CopyAssumption DEF Progress, Steady, At
        <5>2. ~q.app /\ q.lo <= Len(t.stage[f]) + 1
          BY <4>1, <5>1 DEF Growing
        <5>3. /\ t.stage[f] \in Seq(Int) /\ t2.stage[f] \in Seq(Int)
              /\ Len(t2.stage[f]) >= Len(t.stage[f])
          <6>1. t.stage[f] \in Seq(Int)
            BY <1>4 DEF Trees
          <6>2. /\ Written(t.stage[f], q) \in Seq(Int)
                /\ Len(Written(t.stage[f], q)) >= Len(t.stage[f])
            BY <1>1, <1>4, <6>1, WrittenProperties
          <6> QED BY <4>1, <6>1, <6>2
        <5>4. \A p \in LateAt(t2, f) : ~p.app /\ p.lo <= Len(t2.stage[f]) + 1
          <6> SUFFICES ASSUME NEW p \in LateAt(t2, f) PROVE ~p.app /\ p.lo <= Len(t2.stage[f]) + 1
            OBVIOUS
          <6>1. ~p.app /\ p.lo <= Len(t.stage[f]) + 1 /\ p \in t.late
            BY <3>2, <5>1 DEF Growing, LateAt
          <6>2. p.lo \in Int
            BY <1>4, <6>1 DEF Leftovers
          <6> QED BY <5>3, <6>1, <6>2
        <5>5. CASE \E n \in 0..Blocks : t.stage[f] = Source(n) /\ n >= w.lo - 1 /\ (w.app => n = w.lo - 1)
          <6>1. PICK n \in 0..Blocks : t.stage[f] = Source(n) /\ n >= w.lo - 1 /\ (w.app => n = w.lo - 1)
            BY <5>5
          <6>2. Len(t.stage[f]) = n /\ n \in Nat
            BY <6>1, StartLength
          <6>3. PICK m \in 0..Blocks : t2.stage[f] = Source(m) /\ m = IF q.lo > n THEN n + 1 ELSE n
            BY <4>2, <5>2, <6>1, <6>2
          <6>4. Len(t2.stage[f]) = m
            BY <6>3, StartLength
          <6>5. CASE w.app /\ m = n + 1
            <7>1. Len(t2.stage[f]) >= w.lo
              BY <5>1, <6>1, <6>2, <6>4, <6>5
            <7> QED BY <5>4, <6>5, <7>1 DEF Growing
          <6>6. CASE ~w.app \/ m = n
            <7>1. m >= w.lo - 1 /\ (w.app => m = w.lo - 1)
              BY <5>1, <6>1, <6>2, <6>3, <6>6
            <7> QED BY <5>4, <6>3, <7>1 DEF Growing
          <6> QED BY <6>3, <6>5, <6>6
        <5>6. CASE w.app /\ Len(t.stage[f]) >= w.lo
          <6>1. Len(t2.stage[f]) >= w.lo
            BY <5>1, <5>3, <5>6
          <6> QED BY <5>4, <5>6, <6>1 DEF Growing
        <5> QED BY <5>1, <5>5, <5>6 DEF Growing
      <4> QED BY <3>1, <4>1, <4>3, <4>4, <4>5 DEF Progress
    <3> QED BY <3>3, <3>4
  <2> QED BY <2>2, <2>3, <2>4 DEF StageGood
<1> QED BY <1>3, <1>4, <1>8, <1>9, <1>10 DEF JobInv, Control, Content, t2, c

(* The source has ended; the size is checked next. *)
LEMMA PipeEndOK ==
  ASSUME NEW o, NEW x, NEW w, NEW t, Sorts(x, w, t), JobInv(o, "running", x, w, t),
         w.pc = "pipe", w.lo > Blocks, NEW y, y.resumes = x.resumes,
         NEW v, v.pc = "check", v.i = w.i, v.lo = w.lo, v.app = w.app
  PROVE  JobInv(o, "running", y, v, t)
<1>1. Steady(w) /\ WritersHaveFile(w, t) /\ w.pc \notin Dead
  BY DEF JobInv, Control, Dead
<1>2. Pairs(o, "running", y, v, t)
  <2>1. v.pc \notin Dead
    BY DEF Dead
  <2> QED BY <1>1, <2>1, LivePairs
<1>3. Steady(v) /\ WritersHaveFile(v, t)
  <2>1. v.i \in 1..Files /\ v.lo = Blocks + 1
    BY <1>1, CopyAssumption DEF Steady
  <2> QED BY <1>1, <2>1 DEF Steady, WritersHaveFile
<1>4. ASSUME y.resumes <= 1 PROVE TargetGood(o, "running", v, t) /\ StageGood("running", y, v, t)
  <2>1. TargetGood(o, "running", w, t) /\ Progress(x, w, t)
    BY <1>4 DEF JobInv, Content, StageGood, Alive
  <2>2. Progress(y, v, t)
    BY <2>1, FilesKept
  <2> QED BY <2>1, <2>2 DEF StageGood, TargetGood
<1> QED BY <1>2, <1>3, <1>4 DEF JobInv, Control, Content

(* The directories are done; the commit script starts. *)
LEMMA DirsOK ==
  ASSUME NEW o, NEW s, NEW x, NEW w, NEW t, JobInv(o, s, x, w, t), w.pc = "dirs",
         NEW y, y.resumes = x.resumes, s = "absent" => y.phase # "", NEW v, v.pc = "commit"
  PROVE  JobInv(o, s, y, v, t)
<1>1. Pairs(o, s, y, v, t)
  <2>1. v.pc \notin Dead /\ w.pc \notin Dead
    BY DEF Dead
  <2> QED BY <2>1, LivePairs
<1>2. Steady(v) /\ WritersHaveFile(v, t)
  BY DEF JobInv, Control, Steady, WritersHaveFile
<1>3. ASSUME y.resumes <= 1 PROVE TargetGood(o, s, v, t) /\ StageGood(s, y, v, t)
  <2>1. TargetGood(o, s, w, t) /\ StageGood(s, x, w, t)
    BY <1>3 DEF JobInv, Content
  <2>2. Committable(t) /\ (Alive(s) => Progress(y, v, t))
    BY <2>1, FilesKept DEF StageGood
  <2> QED BY <2>1, <2>2 DEF StageGood, TargetGood
<1> QED BY <1>1, <1>2, <1>3 DEF JobInv, Control, Content

(* The script moves the staged entries in place. *)
LEMMA MovedOK ==
  ASSUME NEW o, NEW s, NEW x, NEW w, NEW t, Sorts(x, w, t), JobInv(o, s, x, w, t), w.pc = "commit",
         t.stage # Nothing, NEW v, v.pc = "moved"
  PROVE  Moved(t) \in Sites /\ JobInv(o, s, x, v, Moved(t))
<1> DEFINE t2 == Moved(t)
<1>1. /\ t2.target = t.stage /\ t2.stage = Nothing /\ t2.rm = t.rm
      /\ t2.late = {Follows(q) : q \in t.late}
  BY DEF Moved, Sorts, Sites
<1>2. \A q \in t.late : /\ Follows(q) \in Leftovers /\ Follows(q).app = q.app
                        /\ Follows(q).at # "stage"
                        /\ Follows(q).at = "target" => q.at \in {"stage", "target"}
  <2> SUFFICES ASSUME NEW q \in t.late
               PROVE  /\ Follows(q) \in Leftovers /\ Follows(q).app = q.app
                      /\ Follows(q).at # "stage"
                      /\ Follows(q).at = "target" => q.at \in {"stage", "target"}
    OBVIOUS
  <2>1. q \in Leftovers
    BY DEF Sorts, Sites
  <2> QED BY <2>1 DEF Follows, Leftovers
<1>3. t2 \in Sites
  <2>1. t.stage \in Trees /\ Nothing \in Trees /\ {Follows(q) : q \in t.late} \in SUBSET Leftovers
    BY <1>2, TreesTyped DEF Sorts, Sites
  <2> QED BY <2>1 DEF Moved, Sorts, Sites
<1> HIDE DEF t2
<1>4. Pairs(o, s, x, v, t2)
  <2>1. v.pc \notin Dead /\ w.pc \notin Dead
    BY DEF Dead
  <2>2. s = "absent" => x.phase # ""
    BY <2>1, LivePairs
  <2> QED BY <1>1, <2>1, <2>2, LivePairs
<1>5. \A q \in t2.late : q.at # "stage"
  BY <1>1, <1>2
<1>6. Steady(v) /\ WritersHaveFile(v, t2)
  BY <1>1, <1>5, TreesTyped DEF Steady, WritersHaveFile
<1>7. ASSUME x.resumes <= 1 PROVE TargetGood(o, s, v, t2) /\ StageGood(s, x, v, t2)
  <2>1. TargetGood(o, s, w, t) /\ Committable(t)
    BY <1>7 DEF JobInv, Content, StageGood
  <2>2. t.stage = Whole /\ \A q \in t.late : q.at = "stage" => ~q.app
    BY <2>1 DEF Committable
  <2>3. TargetGood(o, s, v, t2)
    <3>1. \A q \in t2.late : q.at = "target" => ~q.app
      BY <1>1, <1>2, <2>1, <2>2 DEF TargetGood
    <3> QED BY <1>1, <2>2, <3>1 DEF TargetGood
  <2>4. Progress(x, v, t2)
    <3>1. \A f \in 1..Files : LateAt(t2, f) = {} /\ t2.stage[f] = NoFile
      BY <1>1, <1>5, TreesTyped DEF LateAt
    <3>2. \A f \in 1..Files : Tidy(t2, f) /\ ~Behind(v, f) /\ ~At(v, f) /\ ~Before(v, f)
      BY <3>1 DEF Tidy, Behind, At, Before
    <3> QED BY <3>2 DEF Progress
  <2> QED BY <2>3, <2>4 DEF StageGood
<1> QED BY <1>3, <1>4, <1>6, <1>7 DEF JobInv, Control, Content, t2

(* The script's success reaches a job that still runs. *)
LEMMA DoneOK ==
  ASSUME NEW o, NEW x, NEW w, NEW t, JobInv(o, "running", x, w, t), w.pc = "moved",
         NEW y, y.resumes = x.resumes, NEW v, v.pc = "ended"
  PROVE  JobInv(o, "done", y, v, t)
<1>1. Pairs(o, "done", y, v, t)
  BY DEF JobInv, Control, Pairs, Dead
<1>2. Steady(v) /\ WritersHaveFile(v, t)
  BY DEF JobInv, Control, Steady, WritersHaveFile
<1>3. ASSUME y.resumes <= 1 PROVE TargetGood(o, "done", v, t) /\ StageGood("done", y, v, t)
  BY <1>3 DEF JobInv, Content, TargetGood, StageGood, Alive
<1> QED BY <1>1, <1>2, <1>3 DEF JobInv, Control, Content

(* The staging directory of a cancelled or deleted job is removed. *)
Forgetting(w) == IF Writing(w) THEN Forgets(w) ELSE w
Removed(t) == [t EXCEPT !.rm = FALSE, !.stage = Nothing, !.late = {Forgets(q) : q \in @}]

LEMMA RemovedOK ==
  ASSUME NEW o, NEW s, NEW x, NEW w, NEW t, Sorts(x, w, t), JobInv(o, s, x, w, t), t.rm
  PROVE  Removed(t) \in Sites /\ Forgetting(w) \in RunRecords /\ JobInv(o, s, x, Forgetting(w), Removed(t))
<1> DEFINE t2 == Removed(t)
           v == Forgetting(w)
<1>1. /\ t2.stage = Nothing /\ t2.target = t.target /\ t2.rm = FALSE
      /\ t2.late = {Forgets(q) : q \in t.late}
  BY DEF Sorts, Sites, Removed
<1>2. \A q \in t.late : /\ Forgets(q) \in Leftovers /\ Forgets(q).at # "stage"
                        /\ Forgets(q).at = "target" => Forgets(q) = q
  <2> SUFFICES ASSUME NEW q \in t.late
               PROVE  /\ Forgets(q) \in Leftovers /\ Forgets(q).at # "stage"
                      /\ Forgets(q).at = "target" => Forgets(q) = q
    OBVIOUS
  <2>1. q \in Leftovers
    BY DEF Sorts, Sites
  <2> QED BY <2>1 DEF Forgets, Leftovers
<1>3. t2 \in Sites
  <2>1. Nothing \in Trees /\ {Forgets(q) : q \in t.late} \in SUBSET Leftovers
    BY <1>2, TreesTyped
  <2> QED BY <2>1 DEF Sorts, Sites, Removed
<1>4. /\ v \in RunRecords /\ v.pc = w.pc /\ v.i = w.i /\ v.lo = w.lo
      /\ Writing(w) => v.at # "stage"
      /\ v.at = "target" => w.at = "target"
  BY DEF Sorts, RunRecords, Forgets, Forgetting
<1> HIDE DEF t2, v
<1>5. \A q \in t2.late : q.at # "stage"
  BY <1>1, <1>2
<1>6. s \in {"cancelled", "absent"} /\ (s = "absent" => x.phase # "")
  BY DEF JobInv, Control, Pairs, Fresh
<1>7. Pairs(o, s, x, v, t2)
  BY <1>1, <1>6 DEF Pairs
<1>8. Steady(v) /\ WritersHaveFile(v, t2)
  <2>1. Steady(v)
    BY <1>4 DEF JobInv, Control, Steady
  <2>2. WritersHaveFile(v, t2)
    BY <1>1, <1>4, <1>5, TreesTyped DEF WritersHaveFile, Writing
  <2> QED BY <2>1, <2>2
<1>9. ASSUME x.resumes <= 1 PROVE TargetGood(o, s, v, t2) /\ StageGood(s, x, v, t2)
  <2>1. TargetGood(o, s, w, t)
    BY <1>9 DEF JobInv, Content
  <2>2. TargetGood(o, s, v, t2)
    <3>1. \A q \in t2.late : q.at = "target" => q \in t.late
      BY <1>1, <1>2
    <3> QED BY <1>1, <1>4, <2>1, <3>1 DEF TargetGood
  <2>3. Committable(t2) /\ ~Alive(s)
    BY <1>1, <1>5, <1>6 DEF Committable, Alive
  <2> QED BY <2>2, <2>3 DEF StageGood
<1> QED BY <1>3, <1>4, <1>7, <1>8, <1>9 DEF JobInv, Control, Content, t2, v

-----------------------------------------------------------------------------
(* The invariant is preserved. *)

LEMMA JobFacts ==
  ASSUME XInv, NEW j \in Jobs
  PROVE  /\ copy[j] \in CopyObjects /\ run[j] \in [Runs -> RunRecords] /\ site[j] \in Sites
         /\ copy[j].resumes \in Nat /\ copy[j].resumes <= MaxResumes /\ Current(copy[j]) \in Runs
         /\ OthersRest(copy[j], run[j])
         /\ Sorts(copy[j], run[j][Current(copy[j])], site[j])
         /\ JobInv(Original(j), status[j], copy[j], run[j][Current(copy[j])], site[j])
         /\ status[j] \in Statuses
<1>1. /\ copy[j] \in CopyObjects /\ run[j] \in [Runs -> RunRecords] /\ site[j] \in Sites
      /\ status[j] \in Statuses
  BY DEF XInv, XTypes, SInv, STypeOK
<1>2. copy[j].resumes \in Nat /\ copy[j].resumes <= MaxResumes
  BY <1>1 DEF XInv, CopyObjects
<1>3. Current(copy[j]) \in Runs
  BY <1>2, CopyAssumption DEF Current, Runs
<1> QED BY <1>1, <1>2, <1>3 DEF XInv, Sorts

(* The live run of a job is the one that its last resume queued, and the    *)
(* job runs or was stopped under it.                                        *)
LEMMA LiveRun ==
  ASSUME XInv, NEW j \in Jobs, NEW r \in Runs, run[j][r].pc \notin Dead
  PROVE  /\ r = Current(copy[j])
         /\ run[j][r] \in RunRecords /\ Sorts(copy[j], run[j][r], site[j])
         /\ JobInv(Original(j), status[j], copy[j], run[j][r], site[j])
         /\ status[j] \in {"running", "paused", "cancelled", "absent"}
         /\ ~Stopped(j) <=> status[j] = "running"
         /\ status[j] = "absent" => copy[j].phase # ""
<1>1. r = Current(copy[j])
  <2>1. r \in Int /\ Current(copy[j]) \in Int
    BY JobFacts DEF Runs
  <2>2. ~(r < Current(copy[j])) /\ ~(r > Current(copy[j]))
    BY JobFacts DEF OthersRest, Dead
  <2> QED BY <2>1, <2>2
<1>2. /\ run[j][r] \in RunRecords /\ Sorts(copy[j], run[j][r], site[j])
      /\ JobInv(Original(j), status[j], copy[j], run[j][r], site[j])
  BY <1>1, JobFacts
<1>3. status[j] \notin {"pending", "failed", "done"} /\ (status[j] = "absent" => copy[j].phase # "")
  BY <1>2, LivePairs
<1>4. status[j] \in {"running", "paused", "cancelled", "absent"}
  BY <1>3, JobFacts DEF Statuses
<1>5. ~Stopped(j) <=> status[j] = "running"
  BY <1>4 DEF Stopped
<1> QED BY <1>1, <1>2, <1>3, <1>4, <1>5

LEMMA JobChanges ==
  ASSUME XInv, SInv', MarksAgree', NEW j \in Jobs, NEW s,
         NEW x \in CopyObjects, NEW u \in [Runs -> RunRecords], NEW t \in Sites,
         status' = [status EXCEPT ![j] = s], copy' = [copy EXCEPT ![j] = x],
         run' = [run EXCEPT ![j] = u], site' = [site EXCEPT ![j] = t],
         x.resumes <= MaxResumes, OthersRest(x, u),
         JobInv(Original(j), s, x, u[Current(x)], t)
  PROVE  XInv'
<1>1. /\ status \in [Jobs -> Statuses] /\ copy \in [Jobs -> CopyObjects]
      /\ run \in [Jobs -> [Runs -> RunRecords]] /\ site \in [Jobs -> Sites]
  BY DEF XInv, SInv, STypeOK, XTypes
<1>2. XTypes'
  BY <1>1 DEF XTypes
<1>3. ASSUME NEW i \in Jobs
      PROVE  /\ copy'[i].resumes <= MaxResumes
             /\ OthersRest(copy'[i], run'[i])
             /\ JobInv(Original(i), status'[i], copy'[i], run'[i][Current(copy'[i])], site'[i])
  <2>1. CASE i = j
    <3>1. status'[i] = s /\ copy'[i] = x /\ run'[i] = u /\ site'[i] = t
      BY <1>1, <2>1
    <3> QED BY <2>1, <3>1
  <2>2. CASE i # j
    <3>1. status'[i] = status[i] /\ copy'[i] = copy[i] /\ run'[i] = run[i] /\ site'[i] = site[i]
      BY <1>1, <2>2
    <3> QED BY <3>1, JobFacts
  <2> QED BY <2>1, <2>2
<1> QED BY <1>2, <1>3 DEF XInv

LEMMA RunsKept ==
  ASSUME XInv, NEW j \in Jobs, NEW x, x.resumes = copy[j].resumes, NEW u,
         \A p \in Runs : p # Current(copy[j]) => u[p] = run[j][p]
  PROVE  x.resumes <= MaxResumes /\ OthersRest(x, u) /\ Current(x) = Current(copy[j])
<1>1. Current(x) = Current(copy[j])
  BY DEF Current
<1>2. OthersRest(x, u)
  <2> SUFFICES ASSUME NEW r \in Runs
               PROVE  /\ r < Current(x) => u[r].pc \in Dead
                      /\ r > Current(x) => u[r].pc = "none"
    BY DEF OthersRest
  <2>1. r \in Int /\ Current(copy[j]) \in Int
    BY JobFacts DEF Runs
  <2>2. /\ r < Current(copy[j]) => run[j][r].pc \in Dead
        /\ r > Current(copy[j]) => run[j][r].pc = "none"
    BY JobFacts DEF OthersRest
  <2>3. r # Current(copy[j]) => u[r] = run[j][r]
    OBVIOUS
  <2>4. r < Current(copy[j]) \/ r > Current(copy[j]) => r # Current(copy[j])
    BY <2>1
  <2> QED BY <1>1, <2>2, <2>3, <2>4
<1> QED BY <1>1, <1>2, JobFacts

(* The same when the runs that rest are as before. *)
LEMMA CurrentChanges ==
  ASSUME XInv, SInv', MarksAgree', NEW j \in Jobs, NEW s,
         NEW x \in CopyObjects, x.resumes = copy[j].resumes,
         NEW u \in [Runs -> RunRecords], \A p \in Runs : p # Current(copy[j]) => u[p] = run[j][p],
         NEW t \in Sites,
         status' = [status EXCEPT ![j] = s], copy' = [copy EXCEPT ![j] = x],
         run' = [run EXCEPT ![j] = u], site' = [site EXCEPT ![j] = t],
         JobInv(Original(j), s, x, u[Current(copy[j])], t)
  PROVE  XInv'
<1>1. x.resumes <= MaxResumes /\ OthersRest(x, u) /\ Current(x) = Current(copy[j])
  BY RunsKept
<1> QED BY <1>1, JobChanges

(* The same when the live run is all that changes of the runs. *)
LEMMA RunChanges ==
  ASSUME XInv, SInv', MarksAgree', NEW j \in Jobs, NEW s, NEW r \in Runs, run[j][r].pc \notin Dead,
         NEW x \in CopyObjects, x.resumes = copy[j].resumes, NEW v \in RunRecords, NEW t \in Sites,
         status' = [status EXCEPT ![j] = s], copy' = [copy EXCEPT ![j] = x],
         run' = [run EXCEPT ![j][r] = v], site' = [site EXCEPT ![j] = t],
         JobInv(Original(j), s, x, v, t)
  PROVE  XInv'
<1> DEFINE u == [run[j] EXCEPT ![r] = v]
<1>1. run \in [Jobs -> [Runs -> RunRecords]] /\ run[j] \in [Runs -> RunRecords]
  BY DEF XInv, XTypes
<1>2. r = Current(copy[j])
  BY LiveRun
<1>3. u \in [Runs -> RunRecords] /\ u[r] = v /\ \A p \in Runs : p # r => u[p] = run[j][p]
  BY <1>1
<1>4. run' = [run EXCEPT ![j] = u]
  BY <1>1
<1> HIDE DEF u
<1>5. JobInv(Original(j), s, x, u[Current(copy[j])], t)
  BY <1>2, <1>3
<1> QED BY <1>2, <1>3, <1>4, <1>5, CurrentChanges

LEMMA Same ==
  ASSUME XInv, NEW j \in Jobs
  PROVE  /\ status = [status EXCEPT ![j] = status[j]]
         /\ copy = [copy EXCEPT ![j] = copy[j]]
         /\ run = [run EXCEPT ![j] = run[j]]
         /\ site = [site EXCEPT ![j] = site[j]]
BY DEF XInv, SInv, STypeOK, XTypes

LEMMA NothingChanges ==
  ASSUME XInv, SInv', MarksAgree', UNCHANGED <<status, copy, run, site>>
  PROVE  XInv'
BY DEF XInv, XTypes, OthersRest, Current

(* A run at another place. *)
LEMMA Placed ==
  ASSUME NEW w \in RunRecords, NEW p \in Places
  PROVE  /\ [w EXCEPT !.pc = p] \in RunRecords /\ [w EXCEPT !.pc = p].pc = p
         /\ [w EXCEPT !.pc = p].i = w.i /\ [w EXCEPT !.pc = p].lo = w.lo
         /\ [w EXCEPT !.pc = p].app = w.app /\ [w EXCEPT !.pc = p].at = w.at
BY DEF RunRecords

LEMMA RunNumbers ==
  0 \in 0..(MaxResumes + 1) /\ \A r \in Runs : r \in 0..(MaxResumes + 1)
BY CopyAssumption DEF Runs

LEMMA FileNumbers ==
  /\ \A i \in 1..(Files + 1) : i \in Nat
  /\ \A i \in 1..Files : i \in Nat /\ i + 1 \in 1..(Files + 1)
BY CopyAssumption

(* A run whose work is refused or interrupted. *)
LEMMA CatchKeepsInv ==
  ASSUME XInv, SInv', MarksAgree', NEW j \in Jobs, NEW r \in Runs, run[j][r].pc \notin Dead,
         NEW final \in BOOLEAN, Catch(j, r, final),
         NEW t \in Sites, site' = [site EXCEPT ![j] = t],
         Leaves(run[j][r], site[j], t)
  PROVE  XInv'
<1> DEFINE v == [run[j][r] EXCEPT !.pc = "ended"]
<1>1. v \in RunRecords /\ v.pc = "ended"
  BY LiveRun, Placed DEF Places
<1>2. run' = [run EXCEPT ![j][r] = v]
  BY DEF Catch, Ends, XInv, XTypes
<1> HIDE DEF v
<1> DEFINE w == run[j][r]
<1>5. /\ Sorts(copy[j], w, site[j]) /\ JobInv(Original(j), status[j], copy[j], w, site[j])
      /\ w.pc \notin Dead /\ Leaves(w, site[j], t)
  BY LiveRun
<1> HIDE DEF w
<1>3. CASE Stopped(j)
  <2> DEFINE y == [copy[j] EXCEPT !.pipe = 0]
  <2>1. y \in CopyObjects /\ y.resumes = copy[j].resumes /\ y.phase = copy[j].phase
    BY JobFacts, RunNumbers DEF CopyObjects
  <2>2. copy' = [copy EXCEPT ![j] = y] /\ status' = [status EXCEPT ![j] = status[j]]
    BY <1>3, Same DEF Catch, XInv, XTypes, svars
  <2> HIDE DEF y
  <2>3. status[j] \in {"paused", "cancelled", "absent"} /\ (status[j] = "absent" => y.phase # "")
    BY <1>3, <2>1, LiveRun DEF Stopped
  <2>4. JobInv(Original(j), status[j], y, v, t)
    <3>1. Stops(status[j], copy[j], w, site[j], status[j], y, v, t)
      BY <1>1, <1>5, <2>1, <2>3 DEF Stops
    <3> QED BY <1>5, <3>1, StopOK
  <2> QED BY <1>1, <1>2, <2>1, <2>2, <2>4, RunChanges
<1>4. CASE ~Stopped(j)
  <2> DEFINE y == [copy[j] EXCEPT !.pipe = 0, !.phase = "", !.canPause = FALSE,
                                  !.resumable = @ /\ ~final]
  <2>1. y \in CopyObjects /\ y.resumes = copy[j].resumes
    BY JobFacts, RunNumbers DEF CopyObjects, Phases
  <2>2. copy' = [copy EXCEPT ![j] = y] /\ status' = [status EXCEPT ![j] = "failed"]
    BY <1>4 DEF Catch, XInv, XTypes, Release, EndWith
  <2> HIDE DEF y
  <2>3. status[j] = "running"
    BY <1>4, LiveRun
  <2>4. Alive("running") /\ Alive("failed")
    BY DEF Alive
  <2>5. JobInv(Original(j), "failed", y, v, t)
    <3>1. Stops(status[j], copy[j], w, site[j], "failed", y, v, t)
      BY <1>1, <1>5, <2>1, <2>3, <2>4 DEF Stops
    <3> QED BY <1>5, <3>1, StopOK
  <2> QED BY <1>1, <1>2, <2>1, <2>2, <2>5, RunChanges
<1> QED BY <1>3, <1>4

(* A run that finds its job stopped leaves. *)
LEMMA LeavingKeepsInv ==
  ASSUME XInv, SInv', MarksAgree', NEW j \in Jobs, NEW r \in Runs, run[j][r].pc \notin Dead,
         status[j] # "running", Ends(j, r), UNCHANGED <<status, site>>,
         NEW y \in CopyObjects, y.resumes = copy[j].resumes, status[j] = "absent" => y.phase # "",
         copy' = [copy EXCEPT ![j] = y]
  PROVE  XInv'
<1> DEFINE v == [run[j][r] EXCEPT !.pc = "ended"]
<1>1. v \in RunRecords /\ v.pc = "ended"
  BY LiveRun, Placed DEF Places
<1>2. run' = [run EXCEPT ![j][r] = v]
  BY DEF Ends, XInv, XTypes
<1> HIDE DEF v
<1>3. status' = [status EXCEPT ![j] = status[j]] /\ site' = [site EXCEPT ![j] = site[j]]
  BY Same
<1>4. status[j] \in {"paused", "cancelled", "absent"} /\ site[j] \in Sites
  BY LiveRun, JobFacts
<1>5. JobInv(Original(j), status[j], y, v, site[j])
  <2> DEFINE w == run[j][r]
  <2>1. /\ Sorts(copy[j], w, site[j]) /\ JobInv(Original(j), status[j], copy[j], w, site[j])
        /\ w.pc \notin Dead
    BY LiveRun
  <2> HIDE DEF w
  <2>2. Stops(status[j], copy[j], w, site[j], status[j], y, v, site[j])
    BY <1>1, <1>4, <2>1 DEF Stops, Leaves
  <2> QED BY <2>1, <2>2, StopOK
<1> QED BY <1>1, <1>2, <1>3, <1>4, <1>5, RunChanges

(* The head of the loop; a job that runs may go on to file i. *)
MayGoOn(j, i, y) ==
  \A v : v.i = i /\ v.pc = (IF i > Files THEN "dirs" ELSE "look")
          => JobInv(Original(j), "running", y, v, site[j])

LEMMA LoopKeepsInv ==
  ASSUME XInv, SInv', MarksAgree', NEW j \in Jobs, NEW r \in Runs, run[j][r].pc \notin Dead,
         NEW i \in 1..(Files + 1), NEW y \in CopyObjects, y.resumes = copy[j].resumes,
         status[j] = "absent" => y.phase # "",
         Loop(j, r, i, [copy EXCEPT ![j] = y]), UNCHANGED site,
         status[j] = "running" => MayGoOn(j, i, y)
  PROVE  XInv'
<1>0. i \in Nat
  BY FileNumbers
<1>1. copy \in [Jobs -> CopyObjects] /\ UNCHANGED <<status, site>>
  BY DEF XInv, XTypes, Loop, svars
<1>2. CASE status[j] # "running"
  <2> DEFINE z == [y EXCEPT !.pipe = 0]
  <2>1. z \in CopyObjects /\ z.resumes = y.resumes /\ z.phase = y.phase
    BY RunNumbers DEF CopyObjects
  <2>2. Ends(j, r) /\ copy' = [copy EXCEPT ![j] = z]
    BY <1>1, <1>2 DEF Loop
  <2> HIDE DEF z
  <2> QED BY <1>1, <1>2, <2>1, <2>2, LeavingKeepsInv
<1>3. CASE status[j] = "running"
  <2> DEFINE v == [NoRun EXCEPT !.pc = IF i > Files THEN "dirs" ELSE "look", !.i = i]
  <2>1. v \in RunRecords /\ v.i = i /\ v.pc = (IF i > Files THEN "dirs" ELSE "look")
    BY <1>0 DEF NoRun, RunRecords, Places
  <2>2. run' = [run EXCEPT ![j][r] = v] /\ copy' = [copy EXCEPT ![j] = y]
    BY <1>3 DEF Loop
  <2> HIDE DEF v
  <2>3. /\ status' = [status EXCEPT ![j] = "running"] /\ site' = [site EXCEPT ![j] = site[j]]
        /\ site[j] \in Sites
    BY <1>1, <1>3, Same, JobFacts
  <2>4. JobInv(Original(j), "running", y, v, site[j])
    BY <1>3, <2>1 DEF MayGoOn
  <2> QED BY <2>1, <2>2, <2>3, <2>4, RunChanges
<1> QED BY <1>2, <1>3

LEMMA PrepareKeepsInv ==
  ASSUME XInv, SInv', MarksAgree', NEW j \in Jobs, NEW r \in Runs, ScanEnds(j, r) \/ Prepared(j, r)
  PROVE  XInv'
<1> DEFINE w == run[j][r]
           v == [w EXCEPT !.pc = IF w.pc = "scan" THEN "mkdir" ELSE "open"]
<1>1. w.pc \in {"scan", "mkdir"} /\ w.pc \notin Dead
  BY DEF ScanEnds, Prepared, Dead
<1>2. /\ w \in RunRecords /\ Sorts(copy[j], w, site[j])
      /\ JobInv(Original(j), status[j], copy[j], w, site[j])
      /\ status[j] = "absent" => copy[j].phase # ""
  BY <1>1, LiveRun
<1>3. copy[j] \in CopyObjects /\ site[j] \in Sites
  BY JobFacts
<1>4. UNCHANGED <<status, site>>
  BY DEF ScanEnds, Prepared, svars
<1>5. status' = [status EXCEPT ![j] = status[j]] /\ site' = [site EXCEPT ![j] = site[j]]
  BY <1>4, Same
<1>6. v \in RunRecords /\ v.pc \in {"mkdir", "open"}
  <2> DEFINE p == IF w.pc = "scan" THEN "mkdir" ELSE "open"
  <2>1. p \in Places /\ p \in {"mkdir", "open"}
    BY DEF Places
  <2> HIDE DEF p
  <2>2. [w EXCEPT !.pc = p] \in RunRecords /\ [w EXCEPT !.pc = p].pc = p
    BY <1>2, <2>1, Placed
  <2> QED BY <2>1, <2>2 DEF p
<1>7. ASSUME run' = [run EXCEPT ![j][r] = v], NEW y \in CopyObjects, y.resumes = copy[j].resumes,
             y.phase = copy[j].phase, copy' = [copy EXCEPT ![j] = y]
      PROVE  XInv'
  <2>1. Advances(status[j], copy[j], w, status[j], y, v)
    BY <1>1, <1>2, <1>6, <1>7 DEF Advances
  <2>2. JobInv(Original(j), status[j], y, v, site[j])
    BY <1>2, <2>1, AdvanceOK
  <2> QED BY <1>1, <1>3, <1>5, <1>6, <1>7, <2>2, RunChanges
<1>8. CASE ScanEnds(j, r)
  <2> DEFINE y == [copy[j] EXCEPT !.known = TRUE]
  <2>1. y \in CopyObjects /\ y.resumes = copy[j].resumes /\ y.phase = copy[j].phase
    BY <1>3 DEF CopyObjects
  <2>2. copy' = [copy EXCEPT ![j] = y]
    BY <1>8 DEF ScanEnds, XInv, XTypes
  <2>3. run' = [run EXCEPT ![j][r] = v]
    BY <1>8 DEF ScanEnds, XInv, XTypes
  <2> HIDE DEF y
  <2> QED BY <1>7, <2>1, <2>2, <2>3
<1>9. CASE Prepared(j, r) /\ status[j] = "running"
  <2>1. run' = [run EXCEPT ![j][r] = v]
    BY <1>9 DEF Prepared, XInv, XTypes
  <2>2. copy' = [copy EXCEPT ![j] = copy[j]]
    BY <1>9, Same DEF Prepared
  <2> QED BY <1>3, <1>7, <2>1, <2>2
<1>10. CASE Prepared(j, r) /\ status[j] # "running"
  <2> DEFINE y == [copy[j] EXCEPT !.pipe = 0]
  <2>1. y \in CopyObjects /\ y.resumes = copy[j].resumes /\ y.phase = copy[j].phase
    BY <1>3, RunNumbers DEF CopyObjects
  <2>2. copy' = [copy EXCEPT ![j] = y] /\ Ends(j, r)
    BY <1>10 DEF Prepared, XInv, XTypes
  <2> HIDE DEF y
  <2> QED BY <1>1, <1>2, <1>4, <1>10, <2>1, <2>2, LeavingKeepsInv
<1> QED BY <1>8, <1>9, <1>10

LEMMA ChannelsOpenKeepsInv ==
  ASSUME XInv, SInv', MarksAgree', NEW j \in Jobs, NEW r \in Runs, ChannelsOpen(j, r)
  PROVE  XInv'
<1> DEFINE w == run[j][r]
           y == [copy[j] EXCEPT !.phase = "transferring", !.canPause = TRUE]
<1>1. w.pc = "open" /\ w.pc \notin Dead
  BY DEF ChannelsOpen, Dead
<1>2. /\ Sorts(copy[j], w, site[j])
      /\ JobInv(Original(j), status[j], copy[j], w, site[j])
  BY <1>1, LiveRun
<1>3. y \in CopyObjects /\ y.resumes = copy[j].resumes /\ y.phase # ""
  BY JobFacts DEF CopyObjects, Phases
<1>4. Loop(j, r, 1, [copy EXCEPT ![j] = y]) /\ UNCHANGED site
  <2>1. [copy EXCEPT ![j].phase = "transferring", ![j].canPause = TRUE] = [copy EXCEPT ![j] = y]
    BY DEF XInv, XTypes
  <2> QED BY <2>1 DEF ChannelsOpen
<1> HIDE DEF y
<1>5. 1 \in 1..(Files + 1)
  BY CopyAssumption
<1>6. ASSUME status[j] = "running" PROVE MayGoOn(j, 1, y)
  <2> SUFFICES ASSUME NEW v, v.i = 1, v.pc = (IF 1 > Files THEN "dirs" ELSE "look")
               PROVE  JobInv(Original(j), "running", y, v, site[j])
    BY DEF MayGoOn
  <2>1. copy[j].resumes <= 1 =>
           \A f \in 1..Files : /\ f < 1 => Complete(site[j], f)
                               /\ f >= 1 => /\ Tidy(site[j], f)
                                            /\ copy[j].resumes = 0 => site[j].stage[f] = NoFile
                               /\ copy[j].resumes = 0 => Tidy(site[j], f)
    <3> SUFFICES ASSUME copy[j].resumes <= 1, NEW f \in 1..Files
                 PROVE  /\ f < 1 => Complete(site[j], f)
                        /\ Tidy(site[j], f)
                        /\ copy[j].resumes = 0 => site[j].stage[f] = NoFile
      OBVIOUS
    <3>1. Progress(copy[j], w, site[j]) /\ Before(w, f)
      BY <1>1, <1>2, <1>6 DEF JobInv, Content, StageGood, Alive, Before
    <3>2. ~(f < 1)
      BY CopyAssumption
    <3> QED BY <3>1, <3>2 DEF Progress
  <2>2. Sorts(copy[j], w, site[j]) /\ JobInv(Original(j), "running", copy[j], w, site[j])
    BY <1>2, <1>6
  <2> HIDE DEF w
  <2> QED BY <1>3, <1>5, <1>6, <2>1, <2>2, LoopOK
<1> QED BY <1>1, <1>3, <1>4, <1>5, <1>6, LoopKeepsInv

LEMMA LookKeepsInv ==
  ASSUME XInv, SInv', MarksAgree', NEW j \in Jobs, NEW r \in Runs, Look(j, r)
  PROVE  XInv'
<1> DEFINE w == run[j][r]
           x == copy[j]
           t == site[j]
           i == w.i
           file == t.stage[i]
           size == IF file = NoFile THEN 0 ELSE Len(file)
           offset == IF size > Blocks THEN 0 ELSE size
<1>1. w.pc = "look" /\ w.pc \notin Dead
  BY DEF Look, Dead
<1>2. /\ w \in RunRecords /\ Sorts(x, w, t) /\ JobInv(Original(j), status[j], x, w, t)
      /\ r = Current(x)
      /\ status[j] = "absent" => x.phase # ""
  BY <1>1, LiveRun
<1>3. x \in CopyObjects /\ t \in Sites /\ run[j] \in [Runs -> RunRecords]
  BY JobFacts
<1>4. i \in 1..Files
  BY <1>1, <1>2 DEF JobInv, Control, Steady
<1>5. t.stage \in Trees /\ file \in Seq(Int) /\ t.late \in SUBSET Leftovers
  BY <1>3, <1>4 DEF Sites, Trees
<1>6. size \in Nat /\ offset \in Nat /\ i \in Nat /\ i + 1 \in 1..(Files + 1)
  <2>1. i \in Nat /\ i + 1 \in 1..(Files + 1)
    BY <1>4, FileNumbers
  <2>2. size \in Nat
    <3> HIDE DEF file
    <3>1. Len(file) \in Nat
      BY <1>5
    <3> QED BY <3>1
  <2>3. offset \in Nat
    BY <2>2
  <2> QED BY <2>1, <2>2, <2>3
<1>7. CASE offset = Blocks /\ Loop(j, r, i + 1, copy) /\ UNCHANGED site
  <2>1. file # NoFile /\ Len(file) = Blocks
    BY <1>5, <1>7, CopyAssumption
  <2>2. Loop(j, r, i + 1, [copy EXCEPT ![j] = x])
    BY <1>7, Same
  <2>3. status[j] = "running" => MayGoOn(j, i + 1, x)
    <3> SUFFICES ASSUME status[j] = "running", NEW v, v.i = i + 1,
                        v.pc = (IF i + 1 > Files THEN "dirs" ELSE "look")
                 PROVE  JobInv(Original(j), "running", x, v, t)
      BY DEF MayGoOn
    <3>1. JobInv(Original(j), "running", x, w, t)
      BY <1>2
    <3>2. w.pc \in {"look", "check"} /\ t.stage[w.i] # NoFile /\ Len(t.stage[w.i]) = Blocks
      BY <1>1, <2>1
    <3> HIDE DEF w, x, t
    <3> QED BY <1>2, <3>1, <3>2, NextFileOK DEF i
  <2> HIDE DEF w, x, t, i, file, size, offset
  <2> QED BY <1>1, <1>2, <1>3, <1>6, <1>7, <2>2, <2>3, LoopKeepsInv DEF w, x
<1>8. CASE ~(offset = Blocks /\ Loop(j, r, i + 1, copy) /\ UNCHANGED site)
  <2> DEFINE v == [pc |-> "pipe", i |-> i, lo |-> offset + 1, app |-> offset > 0, at |-> "stage"]
             y == [x EXCEPT !.pipe = r]
             G == [t.stage EXCEPT ![i] = IF offset > 0 THEN @ ELSE <<>>]
             L == {IF size > Blocks /\ q.i = i THEN Forgets(q) ELSE q : q \in t.late}
             t2 == [t EXCEPT !.stage = G, !.late = L]
             u == [p \in Runs |-> IF p = r THEN v
                                  ELSE IF size > Blocks /\ Writing(run[j][p]) /\ run[j][p].i = i
                                       THEN Forgets(run[j][p]) ELSE run[j][p]]
  <2>1. /\ offset < Blocks
        /\ run' = [run EXCEPT ![j] = u]
        /\ copy' = [copy EXCEPT ![j] = y]
        /\ site' = [site EXCEPT ![j] = t2]
        /\ status' = [status EXCEPT ![j] = status[j]]
    <3>1. offset < Blocks /\ run' = [run EXCEPT ![j] = u] /\ UNCHANGED svars
      BY <1>8 DEF Look
    <3>2. copy' = [copy EXCEPT ![j] = y]
      BY <1>8 DEF Look, XInv, XTypes
    <3>3. site' = [site EXCEPT ![j] = t2]
      BY <1>8 DEF Look, XInv, XTypes
    <3>4. status' = [status EXCEPT ![j] = status[j]]
      BY <3>1, Same DEF svars
    <3> QED BY <3>1, <3>2, <3>3, <3>4
  <2>2. y \in CopyObjects /\ y.resumes = x.resumes /\ y.phase = x.phase
    BY <1>3, RunNumbers DEF CopyObjects
  <2>3. v \in RunRecords
    <3> HIDE DEF i, offset
    <3> QED BY <1>6 DEF RunRecords, Places
  <2>4. t2 \in Sites /\ t2.stage = G /\ t2.late = L /\ t2.target = t.target /\ t2.rm = t.rm
    <3>1. G \in Trees
      <4>1. <<>> \in Seq(Int)
        OBVIOUS
      <4> QED BY <1>4, <1>5, <4>1 DEF Trees
    <3>2. L \in SUBSET Leftovers
      <4> SUFFICES ASSUME NEW q \in t.late PROVE Forgets(q) \in Leftovers /\ q \in Leftovers
        OBVIOUS
      <4>1. q \in Leftovers
        BY <1>5
      <4> QED BY <4>1 DEF Forgets, Leftovers
    <3> HIDE DEF G, L
    <3> QED BY <1>3, <3>1, <3>2 DEF Sites
  <2>5. Opens(w, t, size, offset, v, t2)
    BY <1>1, <2>1, <2>4 DEF Opens
  <2>6. u \in [Runs -> RunRecords] /\ u[r] = v /\ \A p \in Runs : p # r => u[p] = run[j][p]
    <3>1. \A p \in Runs : p # r => ~Writing(run[j][p])
      BY <1>2, LiveRun DEF Writing, Dead
    <3> HIDE DEF v
    <3> QED BY <1>3, <2>3, <3>1
  <2> HIDE DEF u, v, y, t2, w, x, t, i, file, size, offset
  <2>7. JobInv(Original(j), status[j], y, v, t2)
    BY <1>2, <2>2, <2>5, OpenOK
  <2>8. JobInv(Original(j), status[j], y, u[Current(x)], t2)
    BY <1>2, <2>6, <2>7
  <2> QED BY <1>2, <2>1, <2>2, <2>4, <2>6, <2>8, CurrentChanges DEF x
<1> QED BY <1>7, <1>8

LEMMA PipeWritesKeepsInv ==
  ASSUME XInv, SInv', MarksAgree', NEW j \in Jobs, NEW r \in Runs, PipeWrites(j, r)
  PROVE  XInv'
<1> DEFINE w == run[j][r]
           v == [w EXCEPT !.lo = @ + 1]
           t2 == Lands(site[j], w)
<1>1. w.pc = "pipe" /\ w.lo <= Blocks /\ w.pc \notin Dead
  BY DEF PipeWrites, Dead
<1>2. w \in RunRecords /\ Sorts(copy[j], w, site[j]) /\ JobInv(Original(j), status[j], copy[j], w, site[j])
  BY <1>1, LiveRun
<1>3. v \in RunRecords
  BY <1>2 DEF RunRecords
<1>4. t2 \in Sites
  <2>1. w.i \in 1..Files /\ w.lo \in 1..Blocks /\ w.app \in BOOLEAN /\ w.at \in {"stage", "target", "gone"}
    BY <1>1, <1>2, CopyAssumption DEF JobInv, Control, Steady, RunRecords
  <2> HIDE DEF w
  <2> QED BY <1>2, <2>1, LandsProperties DEF Sorts
<1>5. JobInv(Original(j), status[j], copy[j], v, t2)
  <2> HIDE DEF w
  <2> QED BY <1>1, <1>2, WriteOK
<1>6. /\ run' = [run EXCEPT ![j][r] = v] /\ site' = [site EXCEPT ![j] = t2]
      /\ status' = [status EXCEPT ![j] = status[j]] /\ copy' = [copy EXCEPT ![j] = copy[j]]
  <2>1. run' = [run EXCEPT ![j][r] = v]
    BY DEF PipeWrites, XInv, XTypes
  <2>2. site' = [site EXCEPT ![j] = t2] /\ UNCHANGED <<status, copy>>
    BY DEF PipeWrites, svars
  <2> QED BY <2>1, <2>2, Same
<1>7. copy[j] \in CopyObjects
  BY JobFacts
<1> HIDE DEF v, t2
<1> QED BY <1>1, <1>3, <1>4, <1>5, <1>6, <1>7, RunChanges

LEMMA PipeEndsKeepsInv ==
  ASSUME XInv, SInv', MarksAgree', NEW j \in Jobs, NEW r \in Runs, PipeEnds(j, r)
  PROVE  XInv'
<1> DEFINE w == run[j][r]
           y == [copy[j] EXCEPT !.pipe = 0]
           v == [w EXCEPT !.pc = "check"]
<1>1. w.pc = "pipe" /\ w.lo > Blocks /\ w.pc \notin Dead /\ UNCHANGED site
  BY DEF PipeEnds, Dead
<1>2. /\ w \in RunRecords /\ Sorts(copy[j], w, site[j])
      /\ JobInv(Original(j), status[j], copy[j], w, site[j])
      /\ status[j] = "absent" => copy[j].phase # ""
      /\ ~Stopped(j) <=> status[j] = "running"
  BY <1>1, LiveRun
<1>3. y \in CopyObjects /\ y.resumes = copy[j].resumes /\ y.phase = copy[j].phase
  BY JobFacts, RunNumbers DEF CopyObjects
<1>4. [copy EXCEPT ![j].pipe = 0] = [copy EXCEPT ![j] = y]
  BY DEF XInv, XTypes
<1>5. w.i \in 1..Files /\ w.i + 1 \in 1..(Files + 1)
  <2>1. w.i \in 1..Files
    BY <1>1, <1>2 DEF JobInv, Control, Steady
  <2> QED BY <2>1, CopyAssumption
<1>6. CASE Stopped(j)
  <2>1. Loop(j, r, w.i + 1, [copy EXCEPT ![j] = y])
    BY <1>4, <1>6 DEF PipeEnds
  <2>2. status[j] # "running"
    BY <1>2, <1>6
  <2> HIDE DEF y
  <2> QED BY <1>1, <1>2, <1>3, <1>5, <2>1, <2>2, LoopKeepsInv
<1>7. CASE ~Stopped(j)
  <2>1. /\ run' = [run EXCEPT ![j][r] = v] /\ copy' = [copy EXCEPT ![j] = y]
        /\ status' = [status EXCEPT ![j] = "running"] /\ site' = [site EXCEPT ![j] = site[j]]
    <3>1. run' = [run EXCEPT ![j][r] = v]
      BY <1>7 DEF PipeEnds, XInv, XTypes
    <3>2. copy' = [copy EXCEPT ![j] = y] /\ UNCHANGED <<status, site>>
      BY <1>4, <1>7 DEF PipeEnds, svars
    <3> QED BY <1>2, <1>7, <3>1, <3>2, Same
  <2>2. v \in RunRecords /\ v.pc = "check" /\ v.i = w.i /\ v.lo = w.lo /\ v.app = w.app
    BY <1>2, Placed DEF Places
  <2>3. site[j] \in Sites /\ JobInv(Original(j), "running", copy[j], w, site[j])
    BY <1>2, <1>7, JobFacts
  <2> HIDE DEF v, y, w
  <2>4. JobInv(Original(j), "running", y, v, site[j])
    BY <1>1, <1>2, <1>3, <2>2, <2>3, PipeEndOK
  <2> QED BY <1>1, <1>3, <2>1, <2>2, <2>3, <2>4, RunChanges DEF w
<1> QED BY <1>6, <1>7

(* The writes on their way when a pipeline fails. *)
LEMMA InFlightTyped ==
  ASSUME XInv, NEW j \in Jobs, NEW r \in Runs, run[j][r].pc \notin Dead,
         NEW lost \in SUBSET InFlight(j, r), NEW t, t = [site[j] EXCEPT !.late = @ \cup lost]
  PROVE  t \in Sites /\ Leaves(run[j][r], site[j], t)
<1> DEFINE w == run[j][r]
<1>1. w \in RunRecords /\ Steady(w) /\ site[j] \in Sites
  BY LiveRun, JobFacts DEF JobInv, Control
<1>2. \A q \in lost : /\ w.pc = "pipe" /\ w.lo <= Blocks
                      /\ q = [i |-> w.i, lo |-> w.lo, app |-> w.app, at |-> w.at]
  BY DEF InFlight
<1> HIDE DEF w
<1>3. \A q \in lost : /\ q \in Leftovers
                      /\ w.pc = "pipe" /\ q.i = w.i /\ q.lo = w.lo /\ q.app = w.app /\ q.at = w.at
  <2> SUFFICES ASSUME NEW q \in lost
               PROVE  /\ q \in Leftovers
                      /\ w.pc = "pipe" /\ q.i = w.i /\ q.lo = w.lo /\ q.app = w.app /\ q.at = w.at
    OBVIOUS
  <2>1. w.pc = "pipe" /\ w.lo <= Blocks /\ q = [i |-> w.i, lo |-> w.lo, app |-> w.app, at |-> w.at]
    BY <1>2
  <2>2. w.i \in 1..Files /\ w.lo \in 1..Blocks /\ w.app \in BOOLEAN /\ w.at \in {"stage", "target", "gone"}
    BY <1>1, <2>1, CopyAssumption DEF Steady, RunRecords
  <2> QED BY <2>1, <2>2 DEF Leftovers
<1>4. /\ t.stage = site[j].stage /\ t.target = site[j].target /\ t.rm = site[j].rm
      /\ t.late = site[j].late \cup lost
  BY <1>1 DEF Sites
<1>5. t \in Sites
  <2>1. site[j].late \cup lost \in SUBSET Leftovers
    BY <1>1, <1>3 DEF Sites
  <2> QED BY <1>1, <2>1 DEF Sites
<1>6. Leaves(w, site[j], t)
  BY <1>3, <1>4 DEF Leaves
<1> QED BY <1>5, <1>6 DEF w

(* The steps of a run that fail. *)
LEMMA FailureKeepsInv ==
  ASSUME XInv, SInv', MarksAgree', NEW j \in Jobs, NEW r \in Runs,
         PipeFails(j, r) \/ AwaitRejects(j, r) \/ CommitLost(j, r)
  PROVE  XInv'
<1>1. run[j][r].pc \notin Dead
  BY DEF PipeFails, AwaitRejects, CommitLost, Dead
<1>2. CASE PipeFails(j, r)
  <2>1. PICK lost \in SUBSET InFlight(j, r) : site' = [site EXCEPT ![j].late = @ \cup lost]
    BY <1>2 DEF PipeFails
  <2> DEFINE t == [site[j] EXCEPT !.late = @ \cup lost]
  <2>2. site' = [site EXCEPT ![j] = t]
    BY <2>1 DEF XInv, XTypes
  <2> HIDE DEF t
  <2>3. t \in Sites /\ Leaves(run[j][r], site[j], t)
    BY <1>1, <2>1, InFlightTyped DEF t
  <2>4. Catch(j, r, FALSE)
    BY <1>2 DEF PipeFails
  <2> QED BY <1>1, <2>2, <2>3, <2>4, CatchKeepsInv
<1>3. CASE AwaitRejects(j, r) \/ CommitLost(j, r)
  <2>1. UNCHANGED site /\ (Catch(j, r, FALSE) \/ Catch(j, r, TRUE))
    BY <1>3 DEF AwaitRejects, CommitLost
  <2>2. site[j] \in Sites /\ site' = [site EXCEPT ![j] = site[j]]
    BY <2>1, Same, JobFacts
  <2>3. Leaves(run[j][r], site[j], site[j])
    BY DEF Leaves
  <2> QED BY <1>1, <2>1, <2>2, <2>3, CatchKeepsInv
<1> QED BY <1>2, <1>3

LEMMA CheckSizeKeepsInv ==
  ASSUME XInv, SInv', MarksAgree', NEW j \in Jobs, NEW r \in Runs, CheckSize(j, r)
  PROVE  XInv'
<1> DEFINE w == run[j][r]
           file == site[j].stage[w.i]
<1>1. w.pc = "check" /\ w.pc \notin Dead /\ UNCHANGED site
  BY DEF CheckSize, Dead
<1>2. /\ Sorts(copy[j], w, site[j]) /\ JobInv(Original(j), status[j], copy[j], w, site[j])
      /\ status[j] = "absent" => copy[j].phase # ""
  BY <1>1, LiveRun
<1>3. site[j] \in Sites /\ copy[j] \in CopyObjects /\ site' = [site EXCEPT ![j] = site[j]]
      /\ copy = [copy EXCEPT ![j] = copy[j]]
  BY <1>1, Same, JobFacts
<1>4. CASE file # NoFile /\ Len(file) = Blocks
  <2>1. Loop(j, r, w.i + 1, [copy EXCEPT ![j] = copy[j]])
    BY <1>3, <1>4 DEF CheckSize
  <2>2. status[j] = "running" => MayGoOn(j, w.i + 1, copy[j])
    <3> SUFFICES ASSUME status[j] = "running", NEW v, v.i = w.i + 1,
                        v.pc = (IF w.i + 1 > Files THEN "dirs" ELSE "look")
                 PROVE  JobInv(Original(j), "running", copy[j], v, site[j])
      BY DEF MayGoOn
    <3>1. JobInv(Original(j), "running", copy[j], w, site[j])
      BY <1>2
    <3>2. w.pc \in {"look", "check"} /\ site[j].stage[w.i] # NoFile /\ Len(site[j].stage[w.i]) = Blocks
      BY <1>1, <1>4
    <3> HIDE DEF w
    <3> QED BY <1>2, <3>1, <3>2, NextFileOK
  <2>3. w.i + 1 \in 1..(Files + 1)
    <3>1. w.i \in 1..Files
      BY <1>1, <1>2 DEF JobInv, Control, Steady
    <3> QED BY <3>1, FileNumbers
  <2> QED BY <1>1, <1>2, <1>3, <2>1, <2>2, <2>3, LoopKeepsInv
<1>5. CASE ~(file # NoFile /\ Len(file) = Blocks)
  <2>1. Catch(j, r, TRUE)
    BY <1>5 DEF CheckSize
  <2>2. Leaves(run[j][r], site[j], site[j])
    BY DEF Leaves
  <2> QED BY <1>1, <1>3, <2>1, <2>2, CatchKeepsInv
<1> QED BY <1>4, <1>5

LEMMA DirsDoneKeepsInv ==
  ASSUME XInv, SInv', MarksAgree', NEW j \in Jobs, NEW r \in Runs, DirsDone(j, r)
  PROVE  XInv'
<1> DEFINE w == run[j][r]
           v == [w EXCEPT !.pc = "commit"]
           y == [copy[j] EXCEPT !.phase = "committing", !.canPause = FALSE, !.child = r]
<1>1. w.pc = "dirs" /\ w.pc \notin Dead /\ UNCHANGED <<status, site>>
  BY DEF DirsDone, Dead, svars
<1>2. w \in RunRecords /\ JobInv(Original(j), status[j], copy[j], w, site[j])
  BY <1>1, LiveRun
<1>3. v \in RunRecords /\ v.pc = "commit"
  BY <1>2, Placed DEF Places
<1>4. y \in CopyObjects /\ y.resumes = copy[j].resumes /\ y.phase # ""
  BY JobFacts, RunNumbers DEF CopyObjects, Phases
<1>5. /\ run' = [run EXCEPT ![j][r] = v] /\ copy' = [copy EXCEPT ![j] = y]
      /\ status' = [status EXCEPT ![j] = status[j]] /\ site' = [site EXCEPT ![j] = site[j]]
      /\ site[j] \in Sites
  <2>1. run' = [run EXCEPT ![j][r] = v]
    BY DEF DirsDone, XInv, XTypes
  <2>2. copy' = [copy EXCEPT ![j] = y]
    BY DEF DirsDone, XInv, XTypes
  <2> QED BY <1>1, <2>1, <2>2, Same, JobFacts
<1> HIDE DEF v, y, w
<1>6. JobInv(Original(j), status[j], y, v, site[j])
  BY <1>1, <1>2, <1>3, <1>4, DirsOK
<1> QED BY <1>1, <1>3, <1>4, <1>5, <1>6, RunChanges DEF w

LEMMA CommitRunsKeepsInv ==
  ASSUME XInv, SInv', MarksAgree', NEW j \in Jobs, NEW r \in Runs, CommitRuns(j, r)
  PROVE  XInv'
<1> DEFINE w == run[j][r]
<1>1. w.pc = "commit" /\ w.pc \notin Dead /\ UNCHANGED <<status, copy>>
  BY DEF CommitRuns, Dead, svars
<1>2. /\ w \in RunRecords /\ Sorts(copy[j], w, site[j])
      /\ JobInv(Original(j), status[j], copy[j], w, site[j])
      /\ r = Current(copy[j])
      /\ status[j] \in {"running", "paused", "cancelled", "absent"}
      /\ status[j] = "absent" => copy[j].phase # ""
  BY <1>1, LiveRun
<1>3. /\ status' = [status EXCEPT ![j] = status[j]] /\ copy' = [copy EXCEPT ![j] = copy[j]]
      /\ copy[j] \in CopyObjects /\ site[j] \in Sites /\ run[j] \in [Runs -> RunRecords]
  BY <1>1, Same, JobFacts
<1>4. CASE CommitAllowed(j)
  <2> DEFINE v == [w EXCEPT !.pc = "moved"]
             u == [p \in Runs |-> IF p = r THEN v
                                  ELSE IF Writing(run[j][p]) THEN Follows(run[j][p]) ELSE run[j][p]]
  <2>1. /\ site' = [site EXCEPT ![j] = Moved(site[j])]
        /\ run' = [run EXCEPT ![j] = u]
    BY <1>4 DEF CommitRuns
  <2>2. v \in RunRecords /\ v.pc = "moved"
    BY <1>2, Placed DEF Places
  <2>3. u \in [Runs -> RunRecords] /\ u[r] = v /\ \A p \in Runs : p # r => u[p] = run[j][p]
    <3>1. \A p \in Runs : p # r => ~Writing(run[j][p])
      BY <1>2, LiveRun DEF Writing, Dead
    <3> HIDE DEF v
    <3> QED BY <1>3, <2>2, <3>1
  <2> HIDE DEF u, v, w
  <2>4. Moved(site[j]) \in Sites /\ JobInv(Original(j), status[j], copy[j], v, Moved(site[j]))
    <3>1. site[j].stage # Nothing
      BY <1>4 DEF CommitAllowed
    <3> QED BY <1>1, <1>2, <2>2, <3>1, MovedOK
  <2>5. JobInv(Original(j), status[j], copy[j], u[Current(copy[j])], Moved(site[j]))
    BY <1>2, <2>3, <2>4
  <2> QED BY <1>2, <1>3, <2>1, <2>3, <2>4, <2>5, CurrentChanges
<1>5. CASE ~CommitAllowed(j)
  <2> DEFINE v == [w EXCEPT !.pc = "refused"]
  <2>1. run' = [run EXCEPT ![j][r] = v] /\ UNCHANGED site
    BY <1>5 DEF CommitRuns, XInv, XTypes
  <2>2. v \in RunRecords /\ v.pc = "refused"
    BY <1>2, Placed DEF Places
  <2>3. site' = [site EXCEPT ![j] = site[j]]
    BY <2>1, Same
  <2> HIDE DEF v, w
  <2>4. Stops(status[j], copy[j], w, site[j], status[j], copy[j], v, site[j])
    BY <1>1, <1>2, <2>2 DEF Stops, Leaves
  <2>5. JobInv(Original(j), status[j], copy[j], v, site[j])
    BY <1>2, <2>4, StopOK
  <2>6. run[j][r].pc \notin Dead /\ copy[j].resumes = copy[j].resumes
    BY <1>1 DEF w
  <2>7. run' = [run EXCEPT ![j][r] = v]
    BY <2>1
  <2> QED BY <1>3, <2>2, <2>3, <2>5, <2>6, <2>7, RunChanges
<1> QED BY <1>4, <1>5

LEMMA CommitReturnsKeepsInv ==
  ASSUME XInv, SInv', MarksAgree', NEW j \in Jobs, NEW r \in Runs, CommitReturns(j, r)
  PROVE  XInv'
<1> DEFINE w == run[j][r]
           v == [w EXCEPT !.pc = "ended"]
           y == [copy[j] EXCEPT !.child = 0, !.pipe = 0,
                                !.phase = IF status[j] = "running" THEN "" ELSE @,
                                !.canPause = @ /\ status[j] # "running"]
<1>1. w.pc \in {"moved", "refused"} /\ w.pc \notin Dead /\ UNCHANGED site
  BY DEF CommitReturns, Dead
<1>2. w \in RunRecords /\ JobInv(Original(j), status[j], copy[j], w, site[j])
      /\ (status[j] = "absent" => copy[j].phase # "")
  BY <1>1, LiveRun
<1>3. site[j] \in Sites /\ site' = [site EXCEPT ![j] = site[j]]
  BY <1>1, Same, JobFacts
<1>4. y \in CopyObjects /\ y.resumes = copy[j].resumes
      /\ (status[j] # "running" => y.phase = copy[j].phase)
  BY JobFacts, RunNumbers DEF CopyObjects, Phases
<1>5. CASE w.pc = "refused"
  <2>1. Catch(j, r, FALSE)
    BY <1>5 DEF CommitReturns
  <2>2. Leaves(run[j][r], site[j], site[j])
    BY DEF Leaves
  <2>3. run[j][r].pc \notin Dead
    BY <1>1
  <2> HIDE DEF v, y, w
  <2> QED BY <1>3, <2>1, <2>2, <2>3, CatchKeepsInv
<1>6. CASE w.pc = "moved"
  <2>1. /\ Ends(j, r) /\ copy' = [copy EXCEPT ![j] = y]
        /\ IF status[j] = "running" THEN Release(j, "done") ELSE UNCHANGED svars
    <3>1. /\ Ends(j, r)
          /\ copy' = [copy EXCEPT ![j].child = 0, ![j].pipe = 0,
                                  ![j].phase = IF status[j] = "running" THEN "" ELSE @,
                                  ![j].canPause = @ /\ status[j] # "running"]
          /\ IF status[j] = "running" THEN Release(j, "done") ELSE UNCHANGED svars
      BY <1>6 DEF CommitReturns
    <3>2. copy' = [copy EXCEPT ![j] = y]
      BY <3>1 DEF XInv, XTypes
    <3> QED BY <3>1, <3>2
  <2> HIDE DEF y
  <2>2. CASE status[j] = "running"
    <3>1. status' = [status EXCEPT ![j] = "done"]
      BY <2>1, <2>2 DEF Release, EndWith
    <3>2. run' = [run EXCEPT ![j][r] = v]
      BY <2>1 DEF Ends, XInv, XTypes
    <3>3. v \in RunRecords /\ v.pc = "ended"
      BY <1>2, Placed DEF Places
    <3>4. JobInv(Original(j), "running", copy[j], w, site[j])
      BY <1>2, <2>2
    <3> HIDE DEF v, w
    <3>5. JobInv(Original(j), "done", y, v, site[j])
      BY <1>4, <1>6, <3>3, <3>4, DoneOK
    <3> QED BY <1>1, <1>3, <1>4, <2>1, <3>1, <3>2, <3>3, <3>5, RunChanges DEF w
  <2>3. CASE status[j] # "running"
    <3>1. UNCHANGED <<status, site>>
      BY <1>1, <2>1, <2>3 DEF svars
    <3>2. status[j] = "absent" => y.phase # ""
      BY <1>2, <1>4, <2>3
    <3> QED BY <1>1, <1>4, <2>1, <2>3, <3>1, <3>2, LeavingKeepsInv
  <2> QED BY <2>2, <2>3
<1> QED BY <1>1, <1>5, <1>6

-----------------------------------------------------------------------------
(* The user, the drain loop and the target host. *)

LEMMA InterruptKeepsInv ==
  ASSUME XInv, SInv', MarksAgree', NEW j \in Jobs, NEW kills \in BOOLEAN, Interrupt(j, kills),
         NEW s \in {"paused", "cancelled"}, status[j] \in {"running", "paused"},
         status' = [status EXCEPT ![j] = s], copy' = [copy EXCEPT ![j].canPause = FALSE]
  PROVE  XInv'
<1> DEFINE p == copy[j].pipe
           c == copy[j].child
           cut == kills /\ c # 0 /\ run[j][c].pc \in {"commit", "moved", "refused"}
           n == Current(copy[j])
           w == run[j][n]
           u == [r \in Runs |->
                  IF r = p /\ run[j][r].pc = "pipe" THEN [run[j][r] EXCEPT !.pc = "broken"]
                  ELSE IF cut /\ r = c THEN [run[j][r] EXCEPT !.pc = "killed"] ELSE run[j][r]]
           y == [copy[j] EXCEPT !.canPause = FALSE]
<1>1. /\ n \in Runs /\ w \in RunRecords /\ site[j] \in Sites /\ run[j] \in [Runs -> RunRecords]
      /\ Sorts(copy[j], w, site[j]) /\ JobInv(Original(j), status[j], copy[j], w, site[j])
      /\ p \in 0..(MaxResumes + 1) /\ c \in 0..(MaxResumes + 1)
  BY JobFacts DEF CopyObjects
<1>2. /\ \A r \in Runs : r # n => run[j][r].pc \in Dead
      /\ p = 0 \/ p \in Runs
      /\ c = 0 \/ c \in Runs
  <2>1. \A r \in Runs : r # n => run[j][r].pc \in Dead
    BY LiveRun
  <2>2. p = 0 \/ p \in Runs
    BY <1>1, CopyAssumption DEF Runs
  <2>3. c = 0 \/ c \in Runs
    BY <1>1, CopyAssumption DEF Runs
  <2> QED BY <2>1, <2>2, <2>3
<1>3. PICK lost \in SUBSET InFlight(j, p) : site' = [site EXCEPT ![j].late = @ \cup lost]
  BY DEF Interrupt
<1> DEFINE t == [site[j] EXCEPT !.late = @ \cup lost]
<1>4. /\ run' = [run EXCEPT ![j] = u]
      /\ site' = [site EXCEPT ![j] = t]
      /\ copy' = [copy EXCEPT ![j] = y]
  <2>1. run' = [run EXCEPT ![j] = u]
    BY DEF Interrupt
  <2>2. site' = [site EXCEPT ![j] = t]
    BY <1>3 DEF XInv, XTypes
  <2>3. copy' = [copy EXCEPT ![j] = y]
    BY DEF XInv, XTypes
  <2> QED BY <2>1, <2>2, <2>3
<1>5. y \in CopyObjects /\ y.resumes = copy[j].resumes /\ y.phase = copy[j].phase
  BY JobFacts DEF CopyObjects
<1>6. \A r \in Runs : /\ u[r] = run[j][r] \/ u[r] = [run[j][r] EXCEPT !.pc = "broken"]
                         \/ u[r] = [run[j][r] EXCEPT !.pc = "killed"]
                      /\ run[j][r].pc \in Dead => u[r] = run[j][r]
                      /\ u[r] # run[j][r] => run[j][r].pc \in {"pipe", "commit", "moved", "refused"}
                      /\ r = p /\ run[j][r].pc = "pipe" => u[r] = [run[j][r] EXCEPT !.pc = "broken"]
  BY DEF Dead
<1>7. u \in [Runs -> RunRecords] /\ \A r \in Runs : r # n => u[r] = run[j][r]
  <2>1. \A r \in Runs : u[r] \in RunRecords
    <3> SUFFICES ASSUME NEW r \in Runs PROVE u[r] \in RunRecords
      OBVIOUS
    <3>1. run[j][r] \in RunRecords
      BY <1>1
    <3>2. /\ [run[j][r] EXCEPT !.pc = "broken"] \in RunRecords
          /\ [run[j][r] EXCEPT !.pc = "killed"] \in RunRecords
      BY <3>1, Placed DEF Places
    <3> HIDE DEF u
    <3> QED BY <1>6, <3>1, <3>2
  <2> QED BY <1>2, <1>6, <2>1
<1> HIDE DEF u
<1>8. t \in Sites /\ JobInv(Original(j), s, y, u[n], t)
  <2>1. CASE p = n /\ w.pc = "pipe"
    <3>1. w.pc \notin Dead
      BY <2>1 DEF Dead
    <3>2. t \in Sites /\ Leaves(w, site[j], t)
      <4> HIDE DEF t, w
      <4> QED BY <1>1, <1>3, <2>1, <3>1, InFlightTyped DEF t, w
    <3>3. u[n].pc = "broken"
      <4>1. u[n] = [w EXCEPT !.pc = "broken"]
        BY <1>1, <1>6, <2>1
      <4> QED BY <1>1, <4>1, Placed DEF Places
    <3>4. Stops(status[j], copy[j], w, site[j], s, y, u[n], t)
      <4> HIDE DEF t, w, y, n
      <4> QED BY <1>5, <3>1, <3>2, <3>3 DEF Stops, Alive
    <3> HIDE DEF t, w, y
    <3> QED BY <1>1, <3>2, <3>4, StopOK
  <2>2. CASE ~(p = n /\ w.pc = "pipe")
    <3>1. lost = {}
      <4>1. InFlight(j, p) = {}
        <5>1. CASE p = 0
          BY <5>1 DEF InFlight
        <5>2. CASE p # 0 /\ p # n
          BY <1>2, <5>2 DEF InFlight, Dead
        <5>3. CASE p = n
          BY <2>2, <5>3 DEF InFlight
        <5> QED BY <5>1, <5>2, <5>3
      <4> QED BY <1>3, <4>1
    <3>2. t = site[j]
      BY <1>1, <3>1 DEF Sites
    <3>3. CASE u[n] = w
      <4>1. site[j].rm => s \in {"cancelled", "absent"}
        BY <1>1 DEF JobInv, Control, Pairs
      <4>2. Alive(s) => Alive(status[j])
        BY DEF Alive
      <4>3. JobInv(Original(j), s, y, w, site[j])
        <5> HIDE DEF t, y, w, n
        <5> QED BY <1>1, <1>5, <4>1, <4>2, KeptOK
      <4> HIDE DEF t, y, w
      <4> QED BY <1>1, <3>2, <3>3, <4>3
    <3>4. CASE u[n] # w
      <4>1. w.pc \notin Dead /\ u[n].pc \in {"broken", "killed"}
        <5>1. w.pc \notin Dead
          BY <1>1, <1>6, <3>4
        <5>2. u[n] = [w EXCEPT !.pc = "broken"] \/ u[n] = [w EXCEPT !.pc = "killed"]
          BY <1>1, <1>6, <3>4
        <5>3. [w EXCEPT !.pc = "broken"].pc = "broken" /\ [w EXCEPT !.pc = "killed"].pc = "killed"
          <6> HIDE DEF w
          <6> QED BY <1>1, Placed DEF Places
        <5> HIDE DEF w
        <5> QED BY <5>1, <5>2, <5>3
      <4>2. Stops(status[j], copy[j], w, site[j], s, y, u[n], site[j])
        <5> HIDE DEF t, w, y, n
        <5> QED BY <1>5, <4>1 DEF Stops, Leaves, Alive
      <4> HIDE DEF y, w
      <4> QED BY <1>1, <3>2, <4>2, StopOK
    <3> QED BY <3>3, <3>4
  <2> QED BY <2>1, <2>2
<1> HIDE DEF t, y, w
<1> QED BY <1>4, <1>5, <1>7, <1>8, CurrentChanges

(* The handlers of the user that touch neither runs nor files. *)
LEMMA UserKeepsInv ==
  ASSUME XInv, SInv', MarksAgree', NEW j \in Jobs,
         \/ StartCrossCopyJob(j) \/ PauseCopy(j) \/ PauseQueued(j)
         \/ CancelQueued(j) \/ CancelCopy(j) \/ DeleteCopy(j)
  PROVE  XInv'
<1> DEFINE n == Current(copy[j])
           w == run[j][n]
           o == Original(j)
<1>1. /\ n \in Runs /\ w \in RunRecords /\ site[j] \in Sites /\ copy[j] \in CopyObjects
      /\ run[j] \in [Runs -> RunRecords]
      /\ Sorts(copy[j], w, site[j]) /\ JobInv(o, status[j], copy[j], w, site[j])
      /\ run = [run EXCEPT ![j] = run[j]] /\ site = [site EXCEPT ![j] = site[j]]
      /\ copy = [copy EXCEPT ![j] = copy[j]]
  BY JobFacts, Same
<1>2. Pairs(o, status[j], copy[j], w, site[j])
  BY <1>1 DEF JobInv, Control
<1>3. CASE StartCrossCopyJob(j)
  <2> DEFINE y == [copy[j] EXCEPT !.phase = "queued"]
  <2>1. /\ status' = [status EXCEPT ![j] = "pending"] /\ copy' = [copy EXCEPT ![j] = y]
        /\ run' = [run EXCEPT ![j] = run[j]] /\ site' = [site EXCEPT ![j] = site[j]]
    <3>1. status' = [status EXCEPT ![j] = "pending"] /\ UNCHANGED <<run, site>>
      BY <1>3 DEF StartCrossCopyJob, QueueTransferJob
    <3>2. copy' = [copy EXCEPT ![j] = y]
      BY <1>3 DEF StartCrossCopyJob, XInv, XTypes
    <3> QED BY <1>1, <3>1, <3>2
  <2>2. Fresh(o, copy[j], w, site[j])
    BY <1>2, <1>3 DEF StartCrossCopyJob, Pairs
  <2>3. y \in CopyObjects /\ y.resumes = copy[j].resumes /\ y.resumes = 0
    BY <1>1, <2>2 DEF CopyObjects, Phases, Fresh
  <2> HIDE DEF y, w, o
  <2>4. JobInv(o, "pending", y, w, site[j])
    BY <2>2, <2>3, FreshOK
  <2>5. JobInv(Original(j), "pending", y, run[j][Current(copy[j])], site[j])
    BY <2>4 DEF w, o
  <2>6. run[j] \in [Runs -> RunRecords] /\ site[j] \in Sites /\ y \in CopyObjects /\ y.resumes = copy[j].resumes
    BY <1>1, <2>3
  <2> QED BY <2>1, <2>5, <2>6, CurrentChanges
<1>4. CASE PauseCopy(j)
  <2>1. /\ status[j] = "running" /\ status' = [status EXCEPT ![j] = "paused"]
        /\ Interrupt(j, copy[j].pipe = 0) /\ copy' = [copy EXCEPT ![j].canPause = FALSE]
    BY <1>4 DEF PauseCopy, Release, EndWith
  <2>2. (copy[j].pipe = 0) \in BOOLEAN
    OBVIOUS
  <2> QED BY <2>1, <2>2, InterruptKeepsInv
<1>5. CASE CancelCopy(j)
  <2>1. /\ status[j] \in {"running", "paused"} /\ status' = [status EXCEPT ![j] = "cancelled"]
        /\ Interrupt(j, TRUE) /\ copy' = [copy EXCEPT ![j].canPause = FALSE]
    BY <1>5 DEF CancelCopy, Release, EndWith
  <2> QED BY <2>1, InterruptKeepsInv
<1>6. CASE PauseQueued(j)
  <2>1. /\ status[j] = "pending" /\ status' = [status EXCEPT ![j] = "paused"]
        /\ UNCHANGED <<copy, run, site>>
    BY <1>6 DEF PauseQueued, Withdraw
  <2>2. ~site[j].rm /\ Alive(status[j])
    BY <1>2, <2>1 DEF Pairs, Alive
  <2> HIDE DEF w, o
  <2>3. JobInv(o, "paused", copy[j], w, site[j])
    <3>1. JobInv(o, status[j], copy[j], w, site[j])
      BY <1>1
    <3> QED BY <2>2, <3>1, KeptOK
  <2>4. JobInv(Original(j), "paused", copy[j], run[j][Current(copy[j])], site[j])
    BY <2>3 DEF w, o
  <2>5. /\ status' = [status EXCEPT ![j] = "paused"] /\ copy' = [copy EXCEPT ![j] = copy[j]]
        /\ run' = [run EXCEPT ![j] = run[j]] /\ site' = [site EXCEPT ![j] = site[j]]
    BY <1>1, <2>1
  <2>6. run[j] \in [Runs -> RunRecords] /\ site[j] \in Sites /\ copy[j] \in CopyObjects
    BY <1>1
  <2> QED BY <2>4, <2>5, <2>6, CurrentChanges
<1>7. CASE CancelQueued(j)
  <2> DEFINE t == [site[j] EXCEPT !.rm = copy[j].known]
  <2>1. /\ status' = [status EXCEPT ![j] = "cancelled"] /\ UNCHANGED <<copy, run>>
        /\ site' = [site EXCEPT ![j] = t]
    <3>1. site' = [site EXCEPT ![j] = t]
      BY <1>7 DEF CancelQueued, XInv, XTypes
    <3> QED BY <1>7, <3>1 DEF CancelQueued, Withdraw
  <2>2. t \in Sites /\ t.stage = site[j].stage /\ t.target = site[j].target /\ t.late = site[j].late
    BY <1>1 DEF Sites, CopyObjects
  <2> HIDE DEF w, o, t
  <2>3. JobInv(o, "cancelled", copy[j], w, t)
    <3>1. JobInv(o, status[j], copy[j], w, site[j])
      BY <1>1
    <3>2. ~Alive("cancelled")
      BY DEF Alive
    <3> QED BY <2>2, <3>1, <3>2, KeptOK
  <2>4. JobInv(Original(j), "cancelled", copy[j], run[j][Current(copy[j])], t)
    BY <2>3 DEF w, o
  <2>5. /\ status' = [status EXCEPT ![j] = "cancelled"] /\ copy' = [copy EXCEPT ![j] = copy[j]]
        /\ run' = [run EXCEPT ![j] = run[j]] /\ site' = [site EXCEPT ![j] = t]
    BY <1>1, <2>1
  <2>6. run[j] \in [Runs -> RunRecords] /\ t \in Sites /\ copy[j] \in CopyObjects
    BY <1>1, <2>2
  <2> QED BY <2>4, <2>5, <2>6, CurrentChanges
<1>8. CASE DeleteCopy(j)
  <2> DEFINE t == [site[j] EXCEPT !.rm = copy[j].known]
             y == [copy[j] EXCEPT !.phase = "deleted"]
  <2>1. /\ status' = [status EXCEPT ![j] = "absent"] /\ UNCHANGED run
        /\ site' = [site EXCEPT ![j] = t] /\ copy' = [copy EXCEPT ![j] = y]
    <3>1. site' = [site EXCEPT ![j] = t]
      BY <1>8 DEF DeleteCopy, XInv, XTypes
    <3>2. copy' = [copy EXCEPT ![j] = y]
      BY <1>8 DEF DeleteCopy, XInv, XTypes
    <3> QED BY <1>8, <3>1, <3>2 DEF DeleteCopy, DeleteJob
  <2>2. t \in Sites /\ t.stage = site[j].stage /\ t.target = site[j].target /\ t.late = site[j].late
    BY <1>1 DEF Sites, CopyObjects
  <2>3. y \in CopyObjects /\ y.resumes = copy[j].resumes /\ y.phase = "deleted"
    BY <1>1 DEF CopyObjects, Phases
  <2> HIDE DEF w, o, t, y
  <2>4. JobInv(o, "absent", y, w, t)
    <3>1. JobInv(o, status[j], copy[j], w, site[j])
      BY <1>1
    <3>2. ~Alive("absent") /\ y.phase # ""
      BY <2>3 DEF Alive
    <3> QED BY <2>2, <2>3, <3>1, <3>2, KeptOK
  <2>5. JobInv(Original(j), "absent", y, run[j][Current(copy[j])], t)
    BY <2>4 DEF w, o
  <2>6. /\ status' = [status EXCEPT ![j] = "absent"] /\ copy' = [copy EXCEPT ![j] = y]
        /\ run' = [run EXCEPT ![j] = run[j]] /\ site' = [site EXCEPT ![j] = t]
    BY <1>1, <2>1
  <2>7. run[j] \in [Runs -> RunRecords] /\ t \in Sites /\ y \in CopyObjects /\ y.resumes = copy[j].resumes
    BY <1>1, <2>2, <2>3
  <2> QED BY <2>5, <2>6, <2>7, CurrentChanges
<1> QED BY <1>3, <1>4, <1>5, <1>6, <1>7, <1>8

LEMMA ResumeKeepsInv ==
  ASSUME XInv, SInv', MarksAgree', ~QuickResume, NEW j \in Jobs, ResumeCrossCopyJob(j)
  PROVE  XInv'
<1> DEFINE n == Current(copy[j])
           y == [copy[j] EXCEPT !.phase = "queued", !.canPause = FALSE, !.resumes = @ + 1]
<1>1. /\ status[j] \in {"paused", "failed"} /\ Live(j) = {} /\ Resumed < MaxResumes
      /\ status' = [status EXCEPT ![j] = "pending"] /\ UNCHANGED <<run, site>>
  BY DEF ResumeCrossCopyJob, QueueTransferJob
<1>2. copy' = [copy EXCEPT ![j] = y]
  BY DEF ResumeCrossCopyJob, XInv, XTypes
<1>3. /\ n \in Runs /\ site[j] \in Sites /\ copy[j] \in CopyObjects /\ run[j] \in [Runs -> RunRecords]
      /\ Sorts(copy[j], run[j][n], site[j])
      /\ JobInv(Original(j), status[j], copy[j], run[j][n], site[j])
      /\ OthersRest(copy[j], run[j])
      /\ run' = [run EXCEPT ![j] = run[j]] /\ site' = [site EXCEPT ![j] = site[j]]
  BY <1>1, JobFacts, Same
<1>4. y \in CopyObjects /\ y.resumes = copy[j].resumes + 1 /\ copy[j].resumes \in Nat
  <2>1. copy[j].resumes \in Nat
    BY <1>3 DEF CopyObjects
  <2>2. copy[j].resumes + 1 \in Nat
    BY <2>1
  <2> QED BY <1>3, <2>1, <2>2 DEF CopyObjects, Phases
<1>5. y.resumes <= MaxResumes /\ Current(y) \in Runs /\ Current(y) = n + 1
  <2>1. Resumed \in Nat /\ copy[j].resumes <= Resumed
    BY ResumesAreCounted, JobFacts DEF Resumed
  <2> HIDE DEF y
  <2>2. y.resumes <= MaxResumes
    BY <1>1, <1>4, <2>1, CopyAssumption
  <2> QED BY <1>4, <2>2, CopyAssumption DEF Current, Runs
<1>6. \A r \in Runs : run[j][r].pc \in Dead
  BY <1>1 DEF Live, Dead
<1>7. OthersRest(y, run[j]) /\ run[j][Current(y)].pc = "none"
  <2>1. \A r \in Runs : r > n => run[j][r].pc = "none"
    BY <1>3 DEF OthersRest
  <2>2. \A r \in Runs : r > Current(y) => r > n
    BY <1>3, <1>5 DEF Runs
  <2>3. Current(y) > n
    BY <1>3, <1>5 DEF Runs
  <2> HIDE DEF y, n
  <2> QED BY <1>5, <1>6, <2>1, <2>2, <2>3 DEF OthersRest
<1> HIDE DEF y
<1>8. JobInv(Original(j), "pending", y, run[j][Current(y)], site[j])
  <2> HIDE DEF n
  <2> QED BY <1>1, <1>3, <1>4, <1>6, <1>7, ResumeOK
<1> QED BY <1>1, <1>2, <1>3, <1>4, <1>5, <1>7, <1>8, JobChanges

(* A run starts. *)
LEMMA RunCrossCopyJobKeepsInv ==
  ASSUME XInv, SInv', MarksAgree', NEW k \in Kinds, RunCrossCopyJob(k)
  PROVE  XInv'
<1> DEFINE j == Head(queue[k])
           n == copy[j].resumes + 1
           w == run[j][n]
           p == IF copy[j].known THEN "open" ELSE "scan"
           v == [w EXCEPT !.pc = p]
           f == IF copy[j].known THEN "transferring" ELSE "scanning"
           y == [copy[j] EXCEPT !.phase = f, !.canPause = FALSE]
           u == [run[j] EXCEPT ![n] = v]
<1>1. j \in Jobs /\ status[j] = "pending" /\ status' = [status EXCEPT ![j] = "running"]
  <2>1. CanShift(k) /\ Startable(j) /\ status' = [status EXCEPT ![j] = "running"]
    BY DEF RunCrossCopyJob, AdmitHead
  <2> QED BY <2>1, HeadIsOfKind DEF XInv, Startable
<1>2. UNCHANGED site
  BY DEF RunCrossCopyJob
<1>3. copy' = [copy EXCEPT ![j] = y]
  BY <1>1 DEF RunCrossCopyJob, XInv, XTypes
<1>4. run' = [run EXCEPT ![j][n] = v]
  <2> HIDE DEF j
  <2> QED BY <1>1 DEF RunCrossCopyJob, XInv, XTypes, j
<1> HIDE DEF j
<1>5. /\ n = Current(copy[j]) /\ n \in Runs /\ w \in RunRecords /\ site[j] \in Sites /\ copy[j] \in CopyObjects
      /\ run[j] \in [Runs -> RunRecords] /\ site' = [site EXCEPT ![j] = site[j]]
      /\ JobInv(Original(j), "pending", copy[j], w, site[j])
  <2>1. n = Current(copy[j])
    BY DEF Current
  <2> QED BY <1>1, <1>2, <2>1, JobFacts, Same
<1>6. v \in RunRecords /\ v.pc \in {"scan", "open"}
  <2>1. p \in Places /\ p \in {"scan", "open"}
    BY DEF Places
  <2> HIDE DEF p, w
  <2> QED BY <1>5, <2>1, Placed
<1>7. y \in CopyObjects /\ y.resumes = copy[j].resumes
  <2>1. f \in Phases
    BY DEF Phases
  <2> HIDE DEF f
  <2> QED BY <1>5, <2>1 DEF CopyObjects
<1>8. w.pc = "none"
  BY <1>5 DEF JobInv, Control, Pairs
<1> HIDE DEF p, f, v, y
<1>9. u \in [Runs -> RunRecords] /\ u[n] = v /\ (\A r \in Runs : r # n => u[r] = run[j][r])
  BY <1>5, <1>6
<1>10. run' = [run EXCEPT ![j] = u]
  BY <1>4, <1>5, <1>1 DEF XInv, XTypes
<1> HIDE DEF u
<1>11. JobInv(Original(j), "running", y, v, site[j])
  <2>1. Advances("pending", copy[j], w, "running", y, v)
    BY <1>6, <1>7, <1>8 DEF Advances
  <2> HIDE DEF w
  <2> QED BY <1>5, <2>1, AdvanceOK
<1>12. JobInv(Original(j), "running", y, u[Current(copy[j])], site[j])
  <2> HIDE DEF n
  <2> QED BY <1>5, <1>9, <1>11
<1>13. \A r \in Runs : r # Current(copy[j]) => u[r] = run[j][r]
  <2> HIDE DEF n
  <2> QED BY <1>5, <1>9
<1> QED BY <1>1, <1>3, <1>5, <1>7, <1>9, <1>10, <1>12, <1>13, CurrentChanges

LEMMA RemoteKeepsInv ==
  ASSUME XInv, SInv', MarksAgree', NEW j \in Jobs, LateWrite(j) \/ RemoveStaging(j)
  PROVE  XInv'
<1> DEFINE n == Current(copy[j])
           w == run[j][n]
<1>1. /\ n \in Runs /\ w \in RunRecords /\ site[j] \in Sites /\ copy[j] \in CopyObjects
      /\ run[j] \in [Runs -> RunRecords]
      /\ Sorts(copy[j], w, site[j]) /\ JobInv(Original(j), status[j], copy[j], w, site[j])
      /\ run = [run EXCEPT ![j] = run[j]] /\ copy = [copy EXCEPT ![j] = copy[j]]
      /\ status = [status EXCEPT ![j] = status[j]]
  BY JobFacts, Same
<1>2. UNCHANGED <<status, copy>>
  BY DEF LateWrite, RemoveStaging, svars
<1>3. CASE LateWrite(j)
  <2>1. PICK q \in site[j].late : site' = [site EXCEPT ![j] = Lands(Arrived(@, q), q)]
    BY <1>3 DEF LateWrite
  <2> DEFINE t == Lands(Arrived(site[j], q), q)
  <2>2. site' = [site EXCEPT ![j] = t] /\ UNCHANGED run
    <3>1. site \in [Jobs -> Sites]
      BY DEF XInv, XTypes
    <3>2. site' = [site EXCEPT ![j] = t]
      BY <2>1, <3>1
    <3> QED BY <1>3, <3>2 DEF LateWrite
  <2>3. t \in Sites /\ JobInv(Original(j), status[j], copy[j], w, t)
    <3> HIDE DEF w
    <3> QED BY <1>1, LateOK
  <2> HIDE DEF t
  <2> QED BY <1>1, <1>2, <2>2, <2>3, CurrentChanges
<1>4. CASE RemoveStaging(j)
  <2> DEFINE v == Forgetting(w)
             t == Removed(site[j])
             u == [r \in Runs |-> IF Writing(run[j][r]) THEN Forgets(run[j][r]) ELSE run[j][r]]
  <2>1. run' = [run EXCEPT ![j] = u] /\ site[j].rm
    BY <1>4 DEF RemoveStaging
  <2>2. site' = [site EXCEPT ![j] = t]
    BY <1>4 DEF RemoveStaging, XInv, XTypes, Removed
  <2>3. t \in Sites /\ v \in RunRecords /\ JobInv(Original(j), status[j], copy[j], v, t)
    <3> HIDE DEF w
    <3> QED BY <1>1, <2>1, RemovedOK
  <2>4. u[n] = v
    BY <1>1 DEF Forgetting
  <2>5. \A r \in Runs : r # n => u[r] = run[j][r]
    <3>1. \A r \in Runs : r # n => ~Writing(run[j][r])
      BY LiveRun DEF Writing, Dead
    <3> QED BY <3>1
  <2> HIDE DEF v, t
  <2>6. u \in [Runs -> RunRecords]
    <3>1. \A r \in Runs : u[r] \in RunRecords
      <4> HIDE DEF u
      <4> QED BY <1>1, <2>3, <2>4, <2>5
    <3> QED BY <3>1
  <2> HIDE DEF u
  <2> QED BY <1>1, <1>2, <2>1, <2>2, <2>3, <2>4, <2>5, <2>6, CurrentChanges
<1> QED BY <1>3, <1>4

-----------------------------------------------------------------------------
(* Every step of a copy is a step of the scheduler or none. *)

LEMMA LiveJobRuns ==
  ASSUME XInv, NEW j \in Jobs, NEW r \in Runs, run[j][r].pc \notin Dead, ~Stopped(j)
  PROVE  status[j] = "running"
BY LiveRun

LEMMA CatchRefines ==
  ASSUME XInv, Idle, NEW j \in Jobs, NEW r \in Runs, run[j][r].pc \notin Dead, NEW final, Catch(j, r, final)
  PROVE  SNext \/ UNCHANGED svars
<1>1. CASE Stopped(j)
  BY <1>1 DEF Catch
<1>2. CASE ~Stopped(j)
  <2>1. Release(j, "failed") /\ status[j] = "running"
    BY <1>2, LiveJobRuns DEF Catch
  <2> QED BY <2>1, ReleaseIsEnding DEF Settled
<1> QED BY <1>1, <1>2

LEMMA RunStepRefines ==
  ASSUME XInv, NEW j \in Jobs, XRunStep(j)
  PROVE  SNext \/ UNCHANGED svars
<1>1. PICK r \in Runs :
        \/ ScanEnds(j, r) \/ Prepared(j, r) \/ ChannelsOpen(j, r) \/ Look(j, r)
        \/ PipeWrites(j, r) \/ PipeEnds(j, r)
        \/ PipeFails(j, r) \/ CheckSize(j, r) \/ AwaitRejects(j, r)
        \/ DirsDone(j, r) \/ CommitRuns(j, r) \/ CommitReturns(j, r) \/ CommitLost(j, r)
  BY DEF XRunStep
<1>2. ASSUME \/ ScanEnds(j, r) \/ Prepared(j, r) \/ ChannelsOpen(j, r) \/ Look(j, r)
             \/ PipeWrites(j, r) \/ PipeEnds(j, r) \/ DirsDone(j, r) \/ CommitRuns(j, r)
      PROVE  UNCHANGED svars
  BY <1>2 DEF ScanEnds, Prepared, ChannelsOpen, Look, PipeWrites, PipeEnds, DirsDone, CommitRuns, Loop
<1>3. ASSUME PipeFails(j, r) \/ AwaitRejects(j, r) \/ CommitLost(j, r) PROVE SNext \/ UNCHANGED svars
  <2>1. Idle /\ run[j][r].pc \notin Dead /\ \E final : Catch(j, r, final)
    BY <1>3 DEF PipeFails, AwaitRejects, CommitLost, Dead
  <2> QED BY <2>1, CatchRefines
<1>4. ASSUME CheckSize(j, r) PROVE SNext \/ UNCHANGED svars
  <2>1. Idle /\ run[j][r].pc \notin Dead /\ (UNCHANGED svars \/ Catch(j, r, TRUE))
    BY <1>4 DEF CheckSize, Loop, Dead
  <2> QED BY <2>1, CatchRefines
<1>5. ASSUME CommitReturns(j, r) PROVE SNext \/ UNCHANGED svars
  <2>1. Idle
    BY <1>5 DEF CommitReturns
  <2>2. CASE run[j][r].pc = "refused" /\ Catch(j, r, FALSE)
    <3>1. run[j][r].pc \notin Dead
      BY <2>2 DEF Dead
    <3> QED BY <2>1, <2>2, <3>1, CatchRefines
  <2>3. CASE IF status[j] = "running" THEN Release(j, "done") ELSE UNCHANGED svars
    BY <2>1, <2>3, ReleaseIsEnding DEF Settled
  <2> QED BY <1>5, <2>2, <2>3 DEF CommitReturns
<1> QED BY <1>1, <1>2, <1>3, <1>4, <1>5

LEMMA UserStepRefines ==
  ASSUME XInv, NEW j \in Jobs, XUser(j)
  PROVE  SNext
<1>1. ASSUME StartCrossCopyJob(j) PROVE SNext
  <2>1. Submit(j)
    BY <1>1 DEF StartCrossCopyJob, Submit
  <2> QED BY <2>1 DEF SNext
<1>2. ASSUME PauseCopy(j) PROVE SNext
  <2>1. Release(j, "paused") /\ Idle /\ status[j] = "running"
    BY <1>2 DEF PauseCopy
  <2> QED BY <2>1, ReleaseIsEnding DEF Settled
<1>3. ASSUME PauseQueued(j) PROVE SNext
  <2>1. WithdrawJob(j, "paused")
    BY <1>3 DEF PauseQueued, WithdrawJob
  <2> QED BY <2>1 DEF SNext, Settled
<1>4. ASSUME ResumeCrossCopyJob(j) PROVE SNext
  BY <1>4 DEF ResumeCrossCopyJob, ResumeJob, SNext
<1>5. ASSUME CancelQueued(j) PROVE SNext
  <2>1. WithdrawJob(j, "cancelled")
    BY <1>5 DEF CancelQueued, WithdrawJob
  <2> QED BY <2>1 DEF SNext, Settled
<1>6. ASSUME CancelCopy(j) PROVE SNext
  <2>1. Release(j, "cancelled") /\ Idle /\ status[j] \in {"running", "paused"} /\ SInv
    BY <1>6 DEF CancelCopy, XInv
  <2>2. status[j] = "paused" => ~queued[j]
    BY DEF XInv, MarksAgree
  <2> QED BY <2>1, <2>2, ReleaseIsEnding, CancelPausedIsWithdrawal DEF Settled
<1>7. ASSUME DeleteCopy(j) PROVE SNext
  BY <1>7 DEF DeleteCopy, SNext
<1> QED BY <1>1, <1>2, <1>3, <1>4, <1>5, <1>6, <1>7 DEF XUser

LEMMA XStepRefines ==
  ASSUME XInv, [XNext]_xvars
  PROVE  [SNext]_svars
<1>1. ASSUME NEW j \in Jobs, XRemote(j) PROVE UNCHANGED svars
  BY <1>1 DEF XRemote, LateWrite, RemoveStaging
<1>2. ASSUME NEW k \in Kinds, XDrain(k) PROVE SNext
  BY <1>2 DEF XDrain, RunCrossCopyJob, DrainStep, SNext
<1>3. ASSUME NEW l \in [Kinds -> Limits], ChangeSettings(l) PROVE SNext
  BY <1>3 DEF SNext
<1>4. ASSUME UNCHANGED xvars PROVE UNCHANGED svars
  BY <1>4 DEF xvars
<1> QED BY <1>1, <1>2, <1>3, <1>4, RunStepRefines, UserStepRefines DEF XNext

-----------------------------------------------------------------------------
(* The invariant. *)

LEMMA XInitInv == XInit => XInv
<1> SUFFICES ASSUME XInit PROVE XInv
  OBVIOUS
<1>1. SInv /\ MarksAgree
  BY SInitInv DEF XInit, SInit, MarksAgree
<1> DEFINE x == [phase |-> "", known |-> FALSE, canPause |-> FALSE, resumable |-> TRUE,
                 pipe |-> 0, child |-> 0, resumes |-> 0]
<1>2. x \in CopyObjects /\ NoRun \in RunRecords /\ NoRun.pc = "none" /\ x.resumes = 0 /\ x.phase = ""
  BY RunNumbers DEF CopyObjects, Phases, RunRecords, Places, NoRun
<1>3. copy = [j \in Jobs |-> x] /\ run = [j \in Jobs |-> [r \in Runs |-> NoRun]]
  BY DEF XInit
<1> HIDE DEF x
<1>4. ASSUME NEW j \in Jobs
      PROVE  /\ site[j] \in Sites /\ site[j].late = {} /\ ~site[j].rm
             /\ site[j].stage = Nothing /\ site[j].target = Original(j)
  <2>1. Original(j) \in Trees /\ Nothing \in Trees /\ {} \in SUBSET Leftovers
    BY TreesTyped
  <2> QED BY <2>1 DEF XInit, Sites
<1>5. XTypes
  <2>1. \E F : site = [j \in Jobs |-> F[j]]
    <3>1. site = [j \in Jobs |-> [stage |-> Nothing, target |-> Original(j), late |-> {}, rm |-> FALSE]]
      BY DEF XInit
    <3>2. site = [j \in Jobs |-> site[j]]
      BY <3>1
    <3> QED BY <3>2
  <2>2. site \in [Jobs -> Sites]
    BY <1>4, <2>1
  <2>3. copy \in [Jobs -> CopyObjects]
    BY <1>2, <1>3
  <2>4. run \in [Jobs -> [Runs -> RunRecords]]
    BY <1>2, <1>3
  <2> QED BY <2>2, <2>3, <2>4 DEF XTypes
<1>6. ASSUME NEW j \in Jobs
      PROVE  /\ copy[j].resumes <= MaxResumes
             /\ OthersRest(copy[j], run[j])
             /\ JobInv(Original(j), status[j], copy[j], run[j][Current(copy[j])], site[j])
  <2>1. copy[j] = x /\ status[j] = "absent" /\ \A r \in Runs : run[j][r] = NoRun
    <3>1. status[j] = "absent"
      BY DEF XInit, SInit
    <3>2. copy[j] = x
      BY <1>3
    <3>3. \A r \in Runs : run[j][r] = NoRun
      BY <1>3
    <3> QED BY <3>1, <3>2, <3>3
  <2>2. Current(x) \in Runs /\ 0 <= MaxResumes
    <3>1. Current(x) = 1
      <4>1. x.resumes = 0
        BY <1>2
      <4>2. x.resumes + 1 = 1
        BY <4>1
      <4> QED BY <4>2 DEF Current
    <3>2. MaxResumes \in Nat
      BY CopyAssumption
    <3> QED BY <3>1, <3>2 DEF Runs
  <2>3. OthersRest(copy[j], run[j])
    BY <1>2, <2>1 DEF OthersRest, Dead
  <2>4. Fresh(Original(j), x, NoRun, site[j])
    BY <1>2, <1>4 DEF Fresh
  <2>5. JobInv(Original(j), "absent", x, NoRun, site[j])
    BY <1>2, <2>4, FreshOK
  <2> QED BY <1>2, <2>1, <2>2, <2>3, <2>5
<1> QED BY <1>1, <1>5, <1>6 DEF XInv

LEMMA XNextInv ==
  ASSUME ~QuickResume, XInv, [XNext]_xvars
  PROVE  XInv'
<1>1. SInv' /\ MarksAgree'
  <2>1. [SNext]_svars /\ SInv /\ MarksAgree
    BY XStepRefines DEF XInv
  <2> QED BY <2>1, SNextInv, MarksStayRight, CopyAssumption
<1>2. ASSUME NEW j \in Jobs, XRunStep(j) PROVE XInv'
  <2>1. PICK r \in Runs :
          \/ ScanEnds(j, r) \/ Prepared(j, r) \/ ChannelsOpen(j, r) \/ Look(j, r)
          \/ PipeWrites(j, r) \/ PipeEnds(j, r)
          \/ PipeFails(j, r) \/ CheckSize(j, r) \/ AwaitRejects(j, r)
          \/ DirsDone(j, r) \/ CommitRuns(j, r) \/ CommitReturns(j, r) \/ CommitLost(j, r)
    BY <1>2 DEF XRunStep
  <2>2. CASE ScanEnds(j, r) \/ Prepared(j, r) \/ ChannelsOpen(j, r)
    BY <1>1, <2>2, PrepareKeepsInv, ChannelsOpenKeepsInv
  <2>3. CASE Look(j, r) \/ PipeWrites(j, r) \/ PipeEnds(j, r)
    BY <1>1, <2>3, LookKeepsInv, PipeWritesKeepsInv, PipeEndsKeepsInv
  <2>4. CASE PipeFails(j, r) \/ AwaitRejects(j, r) \/ CommitLost(j, r)
    BY <1>1, <2>4, FailureKeepsInv
  <2>5. CASE CheckSize(j, r) \/ DirsDone(j, r)
    BY <1>1, <2>5, CheckSizeKeepsInv, DirsDoneKeepsInv
  <2>6. CASE CommitRuns(j, r) \/ CommitReturns(j, r)
    BY <1>1, <2>6, CommitRunsKeepsInv, CommitReturnsKeepsInv
  <2> QED BY <2>1, <2>2, <2>3, <2>4, <2>5, <2>6
<1>3. ASSUME NEW j \in Jobs, XRemote(j) PROVE XInv'
  BY <1>1, <1>3, RemoteKeepsInv DEF XRemote
<1>4. ASSUME NEW j \in Jobs, XUser(j) PROVE XInv'
  <2>1. CASE ResumeCrossCopyJob(j)
    BY <1>1, <2>1, ResumeKeepsInv
  <2>2. CASE ~ResumeCrossCopyJob(j)
    BY <1>1, <1>4, <2>2, UserKeepsInv DEF XUser
  <2> QED BY <2>1, <2>2
<1>5. ASSUME NEW k \in Kinds, XDrain(k) PROVE XInv'
  <2>1. CASE RunCrossCopyJob(k)
    BY <1>1, <2>1, RunCrossCopyJobKeepsInv
  <2>2. CASE (SkipHead(k) \/ DrainDone(k) \/ ReleaseCallback(k)) /\ UNCHANGED <<copy, run, site>>
    BY <1>1, <2>2, NothingChanges DEF SkipHead, DrainDone, ReleaseCallback
  <2> QED BY <1>5, <2>1, <2>2 DEF XDrain
<1>6. ASSUME NEW l \in [Kinds -> Limits], ChangeSettings(l), UNCHANGED <<copy, run, site>> PROVE XInv'
  BY <1>1, <1>6, NothingChanges DEF ChangeSettings
<1>7. ASSUME UNCHANGED xvars PROVE XInv'
  BY <1>1, <1>7, NothingChanges DEF xvars, svars
<1> QED BY <1>2, <1>3, <1>4, <1>5, <1>6, <1>7 DEF XNext

(* The inductive invariant holds when a job is resumed only after its       *)
(* paused run has ended.                                                    *)
THEOREM CopyInvariant == ~QuickResume => (XSafety => []XInv)
<1> SUFFICES ASSUME ~QuickResume PROVE XSafety => []XInv
  OBVIOUS
<1>1. XInit => XInv
  BY XInitInv
<1>2. XInv /\ [XNext]_xvars => XInv'
  BY XNextInv
<1> QED BY <1>1, <1>2, PTL DEF XSafety

(* With fresh copies and resumes that wait for the paused run, every step   *)
(* of a copy is a step the scheduler allows its job engine: no late         *)
(* rejection fails a queued job or gives back a slot that is not its own.   *)
THEOREM CopiesImplementScheduler == ~QuickResume => (XSafety => ImplementsScheduler)
<1> SUFFICES ASSUME ~QuickResume PROVE XSafety => SSafety
  BY DEF ImplementsScheduler
<1>1. XInit => SInit
  BY DEF XInit
<1>2. XInv /\ [XNext]_xvars => [SNext]_svars
  BY XStepRefines
<1>3. XSafety => []XInv
  BY CopyInvariant
<1> QED BY <1>1, <1>2, <1>3, PTL DEF XSafety, SSafety

(* A copy that shows "running" has a run that will settle it: no early      *)
(* return and no swallowed error leaves it on its slot.                     *)
THEOREM RunningCopiesHaveRun == ~QuickResume => (XSafety => []RunningHasRun)
<1>1. ASSUME XInv PROVE RunningHasRun
  <2> SUFFICES ASSUME NEW j \in Jobs, status[j] = "running" PROVE Live(j) # {}
    BY DEF RunningHasRun
  <2>1. Current(copy[j]) \in Runs /\ run[j][Current(copy[j])].pc \notin Dead
    BY <1>1, JobFacts DEF JobInv, Control, Pairs
  <2> QED BY <2>1 DEF Live, Dead
<1> QED BY <1>1, CopyInvariant, PTL

(* The target of a copy that was resumed at most once is what it was or the *)
(* whole copy, whatever was interrupted, lost or delayed; a copy that shows *)
(* "done" has a whole target.                                               *)
THEOREM CopyTargetsAreWhole == ~QuickResume => (XSafety => []TargetWholeOrOriginal)
<1>1. ASSUME XInv PROVE TargetWholeOrOriginal
  <2> SUFFICES ASSUME NEW j \in Jobs, copy[j].resumes <= 1
               PROVE  /\ site[j].target \in {Original(j), Whole}
                      /\ status[j] = "done" => site[j].target = Whole
    BY DEF TargetWholeOrOriginal
  <2>1. TargetGood(Original(j), status[j], run[j][Current(copy[j])], site[j])
    BY <1>1, JobFacts DEF JobInv, Content
  <2> QED BY <2>1 DEF TargetGood
<1> QED BY <1>1, CopyInvariant, PTL

(* Job objects, runs and the blocks of staged files are of their types.     *)
THEOREM CopyTypesCorrect == ~QuickResume => (XSafety => []XTypeOK)
<1>1. ASSUME XInv PROVE XTypeOK
  <2>1. STypeOK
    BY <1>1 DEF XInv, SInv
  <2> SUFFICES ASSUME NEW j \in Jobs
               PROVE  /\ copy[j].phase \in Phases
                      /\ copy[j].pipe \in 0..(MaxResumes + 1) /\ copy[j].child \in 0..(MaxResumes + 1)
                      /\ \A r \in Runs : run[j][r].pc \in Places
                      /\ \A f \in 1..Files :
                           \/ site[j].stage[f] = NoFile
                           \/ \A b \in DOMAIN site[j].stage[f] : site[j].stage[f][b] \in 0..Blocks
    BY <2>1 DEF XTypeOK, Phases, Places
  <2>2. copy[j] \in CopyObjects /\ run[j] \in [Runs -> RunRecords]
    BY <1>1, JobFacts
  <2>3. \A r \in Runs : run[j][r].pc \in Places
    BY <2>2 DEF RunRecords
  <2>4. WritersHaveFile(run[j][Current(copy[j])], site[j])
    BY <1>1, JobFacts DEF JobInv, Control
  <2>5. /\ copy[j].phase \in Phases
        /\ copy[j].pipe \in 0..(MaxResumes + 1) /\ copy[j].child \in 0..(MaxResumes + 1)
    BY <2>2 DEF CopyObjects
  <2> QED BY <2>3, <2>4, <2>5 DEF WritersHaveFile
<1> QED BY <1>1, CopyInvariant, PTL
=============================================================================
