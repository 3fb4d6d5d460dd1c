-------------------------- MODULE DownloadJobs_proofs -------------------------
(***************************************************************************)
(* Proofs about downloads, for any number of jobs, blocks, slots and       *)
(* resumes, as long as the sources do not change: the engine implements    *)
(* the scheduler, one closure at a time writes to a temporary file, and a  *)
(* finished download is the whole file.  A source that changes breaks the  *)
(* first of these, as run DownloadCancelled shows.                         *)
(*                                                                         *)
(* The invariant is a predicate of one job's values: the size n of its     *)
(* source, the status s, the job object x, its temporary file d and, for   *)
(* each of its closures, the closure w.                                    *)
(***************************************************************************)
EXTENDS DownloadJobs, TransferScheduler_proofs

Phases == {"", "queued", "preparing", "downloading", "system-saving", "cancelling", "deleted"}
Places == {"none", "size1", "size2", "pipe", "size3", "stale", "saving", "ended"}
LoadObjects ==
  [phase : Phases, canPause : BOOLEAN, size : Int, initial : Int, changed : BOOLEAN,
   owner : 0..(MaxResumes + 1), saved : BOOLEAN, resumes : Nat]
RunRecords == [pc : Places, lo : Nat, real : Nat, ok : BOOLEAN]
Files == Seq({0} \X Nat)
Constant == [ver : {0}, len : Nat]

DTypes ==
  /\ load \in [Jobs -> LoadObjects]
  /\ run \in [Jobs -> [Runs -> RunRecords]]
  /\ temp \in [Jobs -> Files]
  /\ source \in [Jobs -> Constant]

(* The closure that counts. *)
Current(x) == x.resumes + 1

(* Places where a closure waits for nothing, or for an answer that will     *)
(* change nothing; and where it waits for a size before it reads.           *)
Rest == {"none", "ended", "stale"}
Asking == {"size1", "size2"}

RunOK(n, s, x, r, w, d) ==
  /\ r < Current(x) => w.pc \in Rest
  /\ r > Current(x) => w.pc = "none"
  /\ w.pc \in {"size2", "pipe", "size3", "stale", "saving"} => x.size = n
  /\ w.pc \in {"size3", "stale"} => (w.ok => w.real = n)
  /\ w.pc \in Asking => /\ s \in {"running", "cancelled", "absent"}
                        /\ s = "absent" => x.phase # ""
                        /\ x.canPause = FALSE
  /\ w.pc = "size2" /\ s = "running" => Len(d) = n
  /\ w.pc \in {"pipe", "size3"} => s = "running" /\ x.owner = r
  /\ w.pc = "pipe" => w.lo = Len(d) + 1
  /\ w.pc = "size3" => w.real = Len(d)
  /\ w.pc = "saving" => /\ s = "running" /\ Len(d) = n /\ x.canPause = FALSE
                        /\ x.phase \in {"system-saving", "cancelling"}

(* A beginning of the source, block by block. *)
InPlace(n, d) == Len(d) <= n /\ \A p \in DOMAIN d : d[p][2] = p

JobOK(n, s, x, d) ==
  /\ x.size \in {Unknown, n} /\ x.initial \in {Unknown, n} /\ (x.size = n => x.initial = n)
  /\ InPlace(n, d)
  /\ s = "done" => Len(d) = n
  /\ s = "pending" => x.canPause = FALSE
  /\ s = "absent" /\ x.phase = "" => x.canPause = FALSE

DInv ==
  /\ SInv
  /\ MarksAgree
  /\ DTypes
  /\ \A j \in Jobs :
       /\ load[j].resumes <= MaxResumes
       /\ JobOK(source[j].len, status[j], load[j], temp[j])
       /\ \A r \in Runs : RunOK(source[j].len, status[j], load[j], r, run[j][r], temp[j])

-----------------------------------------------------------------------------
(* One job and its closures. *)

LEMMA JobFacts ==
  ASSUME DInv, NEW j \in Jobs
  PROVE  /\ load[j] \in LoadObjects /\ run[j] \in [Runs -> RunRecords]
         /\ temp[j] \in Files /\ source[j] \in Constant
         /\ load[j].resumes \in Nat /\ load[j].resumes <= MaxResumes
         /\ Current(load[j]) \in Runs /\ Current(load[j]) \in Int
         /\ source[j].len \in Nat
         /\ JobOK(source[j].len, status[j], load[j], temp[j])
         /\ \A r \in Runs : /\ run[j][r] \in RunRecords
                            /\ RunOK(source[j].len, status[j], load[j], r, run[j][r], temp[j])
         /\ status[j] \in Statuses
<1>1. /\ load[j] \in LoadObjects /\ run[j] \in [Runs -> RunRecords]
      /\ temp[j] \in Files /\ source[j] \in Constant /\ status[j] \in Statuses
  BY DEF DInv, DTypes, SInv, STypeOK
<1>2. load[j].resumes \in Nat /\ load[j].resumes <= MaxResumes
  BY <1>1 DEF DInv, LoadObjects
<1>3. Current(load[j]) \in Runs /\ Current(load[j]) \in Int
  BY <1>2, DownloadAssumption DEF Current, Runs
<1>4. source[j].len \in Nat
  BY <1>1 DEF Constant
<1> QED BY <1>1, <1>2, <1>3, <1>4 DEF DInv

(* A closure that does not rest is the current one, and the others rest. *)
LEMMA OthersRest ==
  ASSUME DInv, NEW j \in Jobs, NEW r \in Runs, run[j][r].pc \notin Rest
  PROVE  /\ r = Current(load[j])
         /\ \A p \in Runs : p # r => run[j][p].pc \in Rest
         /\ status[j] \in {"running", "cancelled", "absent"}
         /\ ~Stopped(j) <=> status[j] = "running"
<1>1. r \in Int /\ Current(load[j]) \in Int
  BY JobFacts DEF Runs
<1>2. RunOK(source[j].len, status[j], load[j], r, run[j][r], temp[j]) /\ run[j][r].pc \in Places
  BY JobFacts DEF RunRecords
<1>3. r = Current(load[j])
  <2>1. ~(r < Current(load[j])) /\ ~(r > Current(load[j]))
    BY <1>2 DEF RunOK, Rest
  <2> QED BY <1>1, <2>1
<1>4. ASSUME NEW p \in Runs, p # r PROVE run[j][p].pc \in Rest
  <2>1. p < Current(load[j]) \/ p > Current(load[j])
    BY <1>1, <1>3, <1>4 DEF Runs
  <2>2. RunOK(source[j].len, status[j], load[j], p, run[j][p], temp[j])
    BY JobFacts
  <2> QED BY <2>1, <2>2 DEF RunOK, Rest
<1>5. status[j] \in {"running", "cancelled", "absent"}
  BY <1>2 DEF RunOK, Rest, Places, Asking
<1>6. ~Stopped(j) <=> status[j] = "running"
  BY <1>5 DEF Stopped
<1> QED BY <1>3, <1>4, <1>5, <1>6

(* What the queue and the user find when no transfer goes on. *)
LEMMA AllRest ==
  ASSUME DInv, NEW j \in Jobs,
         status[j] \notin {"running", "cancelled", "absent"} \/ (status[j] = "absent" /\ load[j].phase = "")
  PROVE  \A r \in Runs : run[j][r].pc \in Rest
<1> SUFFICES ASSUME NEW r \in Runs PROVE run[j][r].pc \in Rest
  OBVIOUS
<1>1. RunOK(source[j].len, status[j], load[j], r, run[j][r], temp[j]) /\ run[j][r].pc \in Places
  BY JobFacts DEF RunRecords
<1> QED BY <1>1 DEF RunOK, Rest, Places, Asking

(* A closure at rest asks little of its job. *)
LEMMA RestKept ==
  ASSUME NEW n, NEW s, NEW t, NEW x, NEW y, NEW r, NEW w, NEW d, NEW e,
         RunOK(n, s, x, r, w, d), w.pc \in Rest,
         y.resumes = x.resumes, x.size = n => y.size = n
  PROVE  RunOK(n, t, y, r, w, e)
BY DEF RunOK, Rest, Asking, Current

-----------------------------------------------------------------------------
(* The invariant is preserved. *)

LEMMA JobChanges ==
  ASSUME DInv, SInv', MarksAgree', NEW j \in Jobs, NEW s,
         NEW x \in LoadObjects, NEW u \in [Runs -> RunRecords], NEW d \in Files,
         status' = [status EXCEPT ![j] = s], load' = [load EXCEPT ![j] = x],
         run' = [run EXCEPT ![j] = u], temp' = [temp EXCEPT ![j] = d], UNCHANGED source,
         x.resumes <= MaxResumes,
         JobOK(source[j].len, s, x, d),
         \A r \in Runs : RunOK(source[j].len, s, x, r, u[r], d)
  PROVE  DInv'
<1>1. /\ status \in [Jobs -> Statuses] /\ load \in [Jobs -> LoadObjects]
      /\ run \in [Jobs -> [Runs -> RunRecords]] /\ temp \in [Jobs -> Files] /\ source \in [Jobs -> Constant]
  BY DEF DInv, SInv, STypeOK, DTypes
<1>2. DTypes'
  BY <1>1 DEF DTypes
<1>3. ASSUME NEW i \in Jobs
      PROVE  /\ load'[i].resumes <= MaxResumes
             /\ JobOK(source'[i].len, status'[i], load'[i], temp'[i])
             /\ \A r \in Runs : RunOK(source'[i].len, status'[i], load'[i], r, run'[i][r], temp'[i])
  <2>1. CASE i = j
    <3>1. status'[i] = s /\ load'[i] = x /\ run'[i] = u /\ temp'[i] = d /\ source'[i] = source[j]
      BY <1>1, <2>1
    <3> QED BY <3>1
  <2>2. CASE i # j
    <3>1. /\ status'[i] = status[i] /\ load'[i] = load[i] /\ run'[i] = run[i] /\ temp'[i] = temp[i]
          /\ source'[i] = source[i]
      BY <1>1, <2>2
    <3> QED BY <3>1, JobFacts
  <2> QED BY <2>1, <2>2
<1> QED BY <1>2, <1>3 DEF DInv

(* The same when closure r moves and the others rest. *)
LEMMA RunChanges ==
  ASSUME DInv, SInv', MarksAgree', NEW j \in Jobs, NEW s, NEW r \in Runs,
         \A p \in Runs : p # r => run[j][p].pc \in Rest,
         NEW x \in LoadObjects, x.resumes = load[j].resumes,
         load[j].size = source[j].len => x.size = source[j].len,
         NEW v \in RunRecords, NEW d \in Files,
         status' = [status EXCEPT ![j] = s], load' = [load EXCEPT ![j] = x],
         run' = [run EXCEPT ![j][r] = v], temp' = [temp EXCEPT ![j] = d], UNCHANGED source,
         JobOK(source[j].len, s, x, d),
         RunOK(source[j].len, s, x, r, v, d)
  PROVE  DInv'
<1> DEFINE u == [run[j] EXCEPT ![r] = v]
<1>1. run \in [Jobs -> [Runs -> RunRecords]] /\ run[j] \in [Runs -> RunRecords]
  BY DEF DInv, DTypes
<1>2. u \in [Runs -> RunRecords] /\ u[r] = v /\ \A p \in Runs : p # r => u[p] = run[j][p]
  BY <1>1
<1>3. run' = [run EXCEPT ![j] = u]
  BY <1>1
<1> HIDE DEF u
<1>4. ASSUME NEW p \in Runs PROVE RunOK(source[j].len, s, x, p, u[p], d)
  <2>1. CASE p = r
    BY <1>2, <2>1
  <2>2. CASE p # r
    <3>1. RunOK(source[j].len, status[j], load[j], p, run[j][p], temp[j]) /\ run[j][p].pc \in Rest
      BY <2>2, JobFacts
    <3>2. RunOK(source[j].len, s, x, p, run[j][p], d)
      BY <3>1, RestKept
    <3> QED BY <1>2, <2>2, <3>2
  <2> QED BY <2>1, <2>2
<1>5. x.resumes <= MaxResumes
  BY JobFacts
<1> QED BY <1>2, <1>3, <1>4, <1>5, JobChanges

LEMMA Same ==
  ASSUME DInv, NEW j \in Jobs
  PROVE  /\ status = [status EXCEPT ![j] = status[j]]
         /\ load = [load EXCEPT ![j] = load[j]]
         /\ run = [run EXCEPT ![j] = run[j]]
         /\ temp = [temp EXCEPT ![j] = temp[j]]
BY DEF DInv, SInv, STypeOK, DTypes

LEMMA NothingChanges ==
  ASSUME DInv, SInv', MarksAgree', UNCHANGED <<status, load, run, temp, source>>
  PROVE  DInv'
BY DEF DInv, DTypes

(* A closure at another place. *)
LEMMA Placed ==
  ASSUME NEW w \in RunRecords, NEW p \in Places
  PROVE  /\ [w EXCEPT !.pc = p] \in RunRecords /\ [w EXCEPT !.pc = p].pc = p
         /\ [w EXCEPT !.pc = p].lo = w.lo /\ [w EXCEPT !.pc = p].real = w.real
         /\ [w EXCEPT !.pc = p].ok = w.ok
BY DEF RunRecords

LEMMA PlacesKnown ==
  /\ Rest \subseteq Places /\ Asking \subseteq Places /\ {"pipe", "size3", "saving"} \subseteq Places
BY DEF Rest, Asking, Places

LEMMA FilesTyped ==
  /\ <<>> \in Files /\ Len(<<>>) = 0 /\ DOMAIN <<>> = {}
  /\ \A d \in Files : Len(d) \in Nat /\ DOMAIN d = 1..Len(d)
BY DEF Files

LEMMA EmptyInPlace ==
  ASSUME NEW n \in Nat
  PROVE  InPlace(n, <<>>)
BY FilesTyped DEF InPlace

(* A closure that has ended, or whose answer comes too late, wants nothing  *)
(* of its job but that the size was known.                                  *)
LEMMA EndedOK ==
  ASSUME NEW n, NEW s, NEW x, NEW y, NEW r, NEW w, NEW v, NEW d, NEW e,
         RunOK(n, s, x, r, w, d), r = Current(x), y.resumes = x.resumes, x.resumes \in Nat,
         v.pc = "ended", NEW t
  PROVE  RunOK(n, t, y, r, v, e)
<1>1. Current(y) = r /\ r \in Int
  BY DEF Current
<1>2. ~(r < Current(y)) /\ ~(r > Current(y))
  BY <1>1
<1> QED BY <1>2 DEF RunOK, Asking, Rest

-----------------------------------------------------------------------------
(* The end of a transfer. *)

LEMMA GoesIs ==
  ASSUME DInv, NEW j \in Jobs, NEW r \in Runs, NEW p \in Places, Goes(j, r, p)
  PROVE  run' = [run EXCEPT ![j][r] = [run[j][r] EXCEPT !.pc = p]]
BY DEF Goes, DInv, DTypes

LEMMA FinalizesKeepsInv ==
  ASSUME DInv, SInv', MarksAgree', NEW j \in Jobs, NEW r \in Runs, run[j][r].pc \notin Rest,
         NEW l \in LoadObjects, l.resumes = load[j].resumes,
         l.size = source[j].len, l.initial = source[j].len,
         NEW s \in {"done", "failed", "cancelled"}, NEW d \in Files,
         InPlace(source[j].len, d), s = "done" => Len(d) = source[j].len,
         Finalizes(j, r, l, s), temp' = [temp EXCEPT ![j] = d], UNCHANGED source
  PROVE  DInv'
<1> DEFINE w == run[j][r]
           v == [w EXCEPT !.pc = "ended"]
           y == [l EXCEPT !.phase = "", !.canPause = FALSE]
           n == source[j].len
<1>1. /\ run' = [run EXCEPT ![j][r] = v] /\ load' = [load EXCEPT ![j] = y]
      /\ status' = [status EXCEPT ![j] = s]
  BY GoesIs, PlacesKnown DEF Finalizes, Release, EndWith, Rest
<1>2. v \in RunRecords /\ v.pc = "ended"
  BY JobFacts, Placed, PlacesKnown DEF Rest
<1>3. /\ y \in LoadObjects /\ y.resumes = load[j].resumes /\ y.canPause = FALSE
      /\ y.size = n /\ y.initial = n
  BY DEF LoadObjects, Phases
<1>4. RunOK(n, status[j], load[j], r, w, temp[j]) /\ r = Current(load[j]) /\ load[j].resumes \in Nat
  BY JobFacts, OthersRest
<1>5. \A p \in Runs : p # r => run[j][p].pc \in Rest
  BY OthersRest
<1> HIDE DEF w, v, y
<1>6. RunOK(n, s, y, r, v, d)
  BY <1>2, <1>3, <1>4, EndedOK
<1>7. JobOK(n, s, y, d)
  BY <1>3 DEF JobOK
<1> QED BY <1>1, <1>2, <1>3, <1>5, <1>6, <1>7, RunChanges

(* What a closure makes of its job before it finishes. *)
Finishing(j, l) ==
  /\ l \in LoadObjects
  /\ l.resumes = load[j].resumes /\ l.phase = load[j].phase /\ l.canPause = load[j].canPause
  /\ l.size = source[j].len /\ l.initial = source[j].len

LEMMA FinishKeepsInv ==
  ASSUME DInv, SInv', MarksAgree', NEW j \in Jobs, NEW r \in Runs, run[j][r].pc \notin Rest,
         NEW l, Finishing(j, l), NEW s \in {"done", "failed"},
         s = "done" /\ status[j] = "running" => Len(temp[j]) = source[j].len,
         Finish(j, r, l, s), UNCHANGED <<temp, source>>
  PROVE  DInv'
<1> USE DEF Finishing
<1> DEFINE w == run[j][r]
           n == source[j].len
           d == temp[j]
<1>1. /\ RunOK(n, status[j], load[j], r, w, d) /\ JobOK(n, status[j], load[j], d)
      /\ r = Current(load[j]) /\ load[j].resumes \in Nat /\ w \in RunRecords /\ d \in Files
      /\ (\A p \in Runs : p # r => run[j][p].pc \in Rest)
      /\ status[j] \in {"running", "cancelled", "absent"} /\ (~Stopped(j) <=> status[j] = "running")
  BY JobFacts, OthersRest
<1>2. temp' = [temp EXCEPT ![j] = d] /\ status = [status EXCEPT ![j] = status[j]]
  BY Same
<1>3. CASE Stopped(j)
  <2> DEFINE v == [w EXCEPT !.pc = "ended"]
  <2>1. /\ run' = [run EXCEPT ![j][r] = v] /\ load' = [load EXCEPT ![j] = l]
        /\ status' = [status EXCEPT ![j] = status[j]]
    BY <1>2, <1>3, GoesIs, PlacesKnown DEF Finish, Rest, svars
  <2>2. v \in RunRecords /\ v.pc = "ended"
    BY <1>1, Placed, PlacesKnown DEF Rest
  <2> HIDE DEF w, v, d
  <2>3. RunOK(n, status[j], l, r, v, d)
    BY <1>1, <2>2, EndedOK
  <2>4. JobOK(n, status[j], l, d)
    BY <1>1 DEF JobOK
  <2> QED BY <1>1, <1>2, <2>1, <2>2, <2>3, <2>4, RunChanges
<1>4. CASE ~Stopped(j) /\ s = "done" /\ j \in Desktop
  <2> DEFINE v == [w EXCEPT !.pc = "saving"]
             y == [l EXCEPT !.phase = "system-saving", !.canPause = FALSE]
  <2>1. StartsSaving(j, r, l)
    BY <1>4 DEF Finish
  <2>2. /\ run' = [run EXCEPT ![j][r] = v] /\ load' = [load EXCEPT ![j] = y]
        /\ status' = [status EXCEPT ![j] = "running"]
    BY <1>1, <1>2, <1>4, <2>1, GoesIs, PlacesKnown DEF StartsSaving, svars
  <2>3. v \in RunRecords /\ v.pc = "saving"
    BY <1>1, Placed, PlacesKnown
  <2>4. /\ y \in LoadObjects /\ y.resumes = load[j].resumes /\ y.size = n /\ y.initial = n
        /\ y.canPause = FALSE /\ y.phase = "system-saving"
    BY DEF LoadObjects, Phases
  <2>5. Len(d) = n
    BY <1>1, <1>4
  <2> HIDE DEF w, v, y, d
  <2>6. Current(y) = r /\ ~(r < Current(y)) /\ ~(r > Current(y))
    <3>1. Current(y) = r /\ r \in Int
      BY <1>1, <2>4 DEF Current
    <3> QED BY <3>1
  <2>7. RunOK(n, "running", y, r, v, d)
    BY <2>3, <2>4, <2>5, <2>6 DEF RunOK, Asking
  <2>8. JobOK(n, "running", y, d)
    BY <1>1, <2>4 DEF JobOK
  <2> QED BY <1>1, <1>2, <2>2, <2>3, <2>4, <2>7, <2>8, RunChanges
<1>5. CASE ~Stopped(j) /\ ~(s = "done" /\ j \in Desktop)
  <2>1. Finalizes(j, r, l, s)
    BY <1>5 DEF Finish
  <2>2. InPlace(n, d) /\ (s = "done" => Len(d) = n)
    BY <1>1, <1>5 DEF JobOK
  <2>3. /\ s \in {"done", "failed", "cancelled"} /\ UNCHANGED source /\ l \in LoadObjects
        /\ l.resumes = load[j].resumes /\ l.size = source[j].len /\ l.initial = source[j].len
    OBVIOUS
  <2>4. d \in Files /\ temp' = [temp EXCEPT ![j] = d]
    BY <1>1, <1>2
  <2> HIDE DEF d, w, Finishing
  <2>5. run[j][r].pc \notin Rest
    OBVIOUS
  <2>6. CASE s = "failed"
    <3>1. Finalizes(j, r, l, "failed") /\ "failed" \in {"done", "failed", "cancelled"} /\ "failed" # "done"
      BY <2>1, <2>6
    <3> QED BY <2>2, <2>3, <2>4, <2>5, <3>1, FinalizesKeepsInv
  <2>7. CASE s = "done"
    <3>1. Finalizes(j, r, l, "done") /\ "done" \in {"done", "failed", "cancelled"} /\ Len(d) = source[j].len
      BY <2>1, <2>2, <2>7
    <3> QED BY <2>2, <2>3, <2>4, <2>5, <3>1, FinalizesKeepsInv
  <2> QED BY <2>6, <2>7
<1> QED BY <1>3, <1>4, <1>5

(* The closure of a save, and the two ways in which others finish. *)
LEMMA EndsKeepInv ==
  ASSUME DInv, SInv', MarksAgree', NEW j \in Jobs, NEW r \in Runs,
         SameSize(j, r) \/ PipeFails(j, r) \/ SaveEnds(j, r)
  PROVE  DInv'
<1> DEFINE w == run[j][r]
           n == source[j].len
           d == temp[j]
<1>1. w.pc \in {"size2", "pipe", "saving"} /\ w.pc \notin Rest
  BY DEF SameSize, PipeFails, SaveEnds, Rest
<1>2. /\ RunOK(n, status[j], load[j], r, w, d) /\ JobOK(n, status[j], load[j], d)
      /\ load[j] \in LoadObjects /\ d \in Files
  BY JobFacts
<1>3. CASE SameSize(j, r) \/ PipeFails(j, r)
  <2>1. w.pc \in {"size2", "pipe"}
    BY <1>3 DEF SameSize, PipeFails
  <2>2. Finishing(j, load[j])
    BY <1>2, <2>1 DEF Finishing, RunOK, JobOK
  <2>3. CASE SameSize(j, r)
    <3>1. Finish(j, r, load[j], "done") /\ UNCHANGED <<temp, source>> /\ w.pc = "size2"
      BY <2>3 DEF SameSize
    <3>2. status[j] = "running" => Len(d) = n
      BY <1>2, <3>1 DEF RunOK
    <3> QED BY <1>1, <2>2, <3>1, <3>2, FinishKeepsInv
  <2>4. CASE PipeFails(j, r)
    <3>1. Finish(j, r, load[j], "failed") /\ UNCHANGED <<temp, source>>
      BY <2>4 DEF PipeFails
    <3> QED BY <1>1, <2>2, <3>1, FinishKeepsInv
  <2> QED BY <1>3, <2>3, <2>4
<1>4. CASE SaveEnds(j, r)
  <2>1. w.pc = "saving"
    BY <1>4 DEF SaveEnds
  <2>2. Len(d) = n /\ load[j].size = n /\ load[j].initial = n /\ InPlace(n, d)
    BY <1>2, <2>1 DEF RunOK, JobOK
  <2>3. CASE temp' = [temp EXCEPT ![j] = <<>>] /\ Finalizes(j, r, load[j], "cancelled")
    <3>1. <<>> \in Files /\ InPlace(n, <<>>)
      BY FilesTyped, JobFacts DEF InPlace
    <3>2. UNCHANGED source /\ "cancelled" \in {"done", "failed", "cancelled"} /\ "cancelled" # "done"
      BY <1>4 DEF SaveEnds
    <3> QED BY <1>1, <1>2, <2>2, <2>3, <3>1, <3>2, FinalizesKeepsInv
  <2>4. CASE \E delivered \in BOOLEAN :
               Finalizes(j, r, [load[j] EXCEPT !.saved = delivered], "done") /\ UNCHANGED temp
    <3>1. PICK delivered \in BOOLEAN :
            Finalizes(j, r, [load[j] EXCEPT !.saved = delivered], "done") /\ UNCHANGED temp
      BY <2>4
    <3> DEFINE l == [load[j] EXCEPT !.saved = delivered]
    <3>2. l \in LoadObjects /\ l.resumes = load[j].resumes /\ l.size = n /\ l.initial = n
      BY <1>2, <2>2 DEF LoadObjects
    <3>3. /\ UNCHANGED source /\ "done" \in {"done", "failed", "cancelled"}
          /\ temp' = [temp EXCEPT ![j] = d] /\ Finalizes(j, r, l, "done")
      BY <1>4, <3>1, Same DEF SaveEnds
    <3> HIDE DEF l, d
    <3> QED BY <1>1, <1>2, <2>2, <3>2, <3>3, FinalizesKeepsInv
  <2> QED BY <1>4, <2>3, <2>4 DEF SaveEnds
<1> QED BY <1>3, <1>4
-----------------------------------------------------------------------------
(* The other steps of a closure. *)

LEMMA CurrentHere ==
  ASSUME DInv, NEW j \in Jobs, NEW y, y.resumes = load[j].resumes, NEW r, r = Current(load[j])
  PROVE  ~(r < Current(y)) /\ ~(r > Current(y)) /\ r \in 0..(MaxResumes + 1)
<1>1. r = Current(y) /\ r \in Runs /\ r \in Int
  BY JobFacts DEF Current
<1> QED BY <1>1, DownloadAssumption DEF Runs

(* The size is known, and the closure goes on to read or to ask again. *)
Preparing(j, r, l) ==
  /\ \A p \in Runs : p # r => run[j][p].pc \in Rest
  /\ l \in LoadObjects
  /\ l.resumes = load[j].resumes /\ l.canPause = FALSE
  /\ l.size = source[j].len /\ l.initial = source[j].len
  /\ InPlace(source[j].len, temp[j])

LEMMA PrepareKeepsInv ==
  ASSUME DInv, SInv', MarksAgree', NEW j \in Jobs, NEW r \in Runs, r = Current(load[j]),
         NEW l, Preparing(j, r, l),
         status' = [status EXCEPT ![j] = "running"], Prepare(j, r, l), UNCHANGED source
  PROVE  DInv'
<1> USE DEF Preparing
<1> DEFINE n == source[j].len
           d == temp[j]
<1>1. n \in Nat /\ d \in Files /\ Len(d) \in Nat /\ Len(d) <= n /\ InPlace(n, d)
  BY JobFacts, FilesTyped DEF InPlace
<1>2. /\ temp = [temp EXCEPT ![j] = d] /\ \A p \in Runs : p # r => run[j][p].pc \in Rest
  BY Same
<1>0. (IF Len(temp[j]) > l.size THEN 0 ELSE Len(temp[j])) = Len(d) /\ l.size = n
  BY <1>1
<1>3. CASE Len(d) = n
  <2> DEFINE v == [NoRun EXCEPT !.pc = "size2", !.lo = Len(d)]
  <2>1. run' = [run EXCEPT ![j][r] = v] /\ load' = [load EXCEPT ![j] = l] /\ UNCHANGED temp
    BY <1>0, <1>3 DEF Prepare
  <2>2. v \in RunRecords /\ v.pc = "size2"
    BY <1>1 DEF NoRun, RunRecords, Places
  <2> HIDE DEF v, n, d
  <2>3. l.resumes = load[j].resumes /\ l.size = n /\ l.initial = n /\ l.canPause = FALSE /\ l \in LoadObjects
    BY DEF n
  <2>4. RunOK(n, "running", l, r, v, d)
    <3>1. ~(r < Current(l)) /\ ~(r > Current(l))
      BY <2>3, CurrentHere
    <3> QED BY <1>3, <2>2, <2>3, <3>1 DEF RunOK, Asking
  <2>5. JobOK(n, "running", l, d)
    BY <1>1, <2>3 DEF JobOK
  <2> QED BY <1>1, <1>2, <2>1, <2>2, <2>3, <2>4, <2>5, RunChanges DEF n
<1>4. CASE Len(d) # n
  <2> DEFINE v == [NoRun EXCEPT !.pc = "pipe", !.lo = Len(d) + 1]
             y == [l EXCEPT !.phase = "downloading", !.canPause = TRUE, !.owner = r]
  <2>1. Spawn(j, r, l, Len(d))
    BY <1>0, <1>4 DEF Prepare
  <2>2. run' = [run EXCEPT ![j][r] = v] /\ load' = [load EXCEPT ![j] = y]
    BY <2>1 DEF Spawn
  <2>3. temp' = [temp EXCEPT ![j] = d]
    <3>1. temp' = [temp EXCEPT ![j] = IF Len(d) > 0 THEN @ ELSE <<>>]
      BY <2>1 DEF Spawn
    <3>2. temp' = [temp EXCEPT ![j] = IF Len(d) > 0 THEN d ELSE <<>>]
      BY <3>1
    <3>3. Len(d) = 0 => d = <<>>
      BY <1>1 DEF Files
    <3>4. (IF Len(d) > 0 THEN d ELSE <<>>) = d
      BY <1>1, <3>3
    <3> QED BY <3>2, <3>4
  <2>4. v \in RunRecords /\ v.pc = "pipe" /\ v.lo = Len(d) + 1
    <3> DEFINE lo == Len(d) + 1
    <3>1. lo \in Nat /\ v = [NoRun EXCEPT !.pc = "pipe", !.lo = lo]
      BY <1>1
    <3> HIDE DEF lo, v
    <3>2. v \in RunRecords /\ v.pc = "pipe" /\ v.lo = lo
      BY <3>1 DEF NoRun, RunRecords, Places
    <3> QED BY <3>2 DEF lo
  <2>5. r \in 0..(MaxResumes + 1)
    BY CurrentHere
  <2>6. /\ y \in LoadObjects /\ y.resumes = load[j].resumes /\ y.size = n /\ y.initial = n /\ y.owner = r
    BY <2>5 DEF LoadObjects, Phases
  <2> HIDE DEF v, y, n, d
  <2>7. RunOK(n, "running", y, r, v, d)
    <3>1. ~(r < Current(y)) /\ ~(r > Current(y))
      BY <2>6, CurrentHere
    <3> QED BY <2>4, <2>6, <3>1 DEF RunOK, Asking
  <2>8. JobOK(n, "running", y, d)
    BY <1>1, <2>6 DEF JobOK
  <2> QED BY <1>1, <1>2, <2>2, <2>3, <2>4, <2>6, <2>7, <2>8, RunChanges DEF n
<1> QED BY <1>3, <1>4

LEMMA SizeArrivesKeepsInv ==
  ASSUME DInv, SInv', MarksAgree', NEW j \in Jobs, NEW r \in Runs, SizeArrives(j, r)
  PROVE  DInv'
<1> DEFINE w == run[j][r]
           n == source[j].len
           d == temp[j]
           m == IF r = 1 \/ load[j].initial = Unknown THEN n ELSE load[j].initial
           l == [load[j] EXCEPT !.size = n, !.initial = m]
<1>1. w.pc = "size1" /\ w.pc \notin Rest /\ UNCHANGED <<status, source>>
  BY DEF SizeArrives, svars, Rest
<1>2. /\ RunOK(n, status[j], load[j], r, w, d) /\ JobOK(n, status[j], load[j], d)
      /\ r = Current(load[j]) /\ load[j].resumes \in Nat /\ w \in RunRecords /\ d \in Files
      /\ load[j] \in LoadObjects /\ n \in Nat
      /\ (\A p \in Runs : p # r => run[j][p].pc \in Rest)
      /\ status[j] \in {"running", "cancelled", "absent"} /\ (~Stopped(j) <=> status[j] = "running")
  BY <1>1, JobFacts, OthersRest
<1>3. temp = [temp EXCEPT ![j] = d] /\ status = [status EXCEPT ![j] = status[j]]
  BY Same
<1>4. m = n
  BY <1>2 DEF JobOK
<1>5. IF Stopped(j)
      THEN Goes(j, r, "ended") /\ load' = [load EXCEPT ![j] = l] /\ UNCHANGED temp
      ELSE Prepare(j, r, l)
  <2>1. l = [load[j] EXCEPT !.size = n, !.initial = IF r = 1 \/ @ = Unknown THEN n ELSE @]
    BY <1>2 DEF LoadObjects
  <2> HIDE DEF l, m
  <2> QED BY <2>1 DEF SizeArrives
<1>6. /\ l \in LoadObjects /\ l.resumes = load[j].resumes /\ l.size = n /\ l.initial = n
      /\ l.canPause = load[j].canPause /\ l.phase = load[j].phase
  <2>1. n \in Int
    BY <1>2
  <2> HIDE DEF m, n
  <2> QED BY <1>2, <1>4, <2>1 DEF LoadObjects
<1> HIDE DEF l, m
<1>7. CASE Stopped(j)
  <2> DEFINE v == [w EXCEPT !.pc = "ended"]
  <2>1. /\ run' = [run EXCEPT ![j][r] = v] /\ load' = [load EXCEPT ![j] = l] /\ UNCHANGED temp
    BY <1>5, <1>7, GoesIs, PlacesKnown DEF Rest
  <2>2. v \in RunRecords /\ v.pc = "ended"
    BY <1>2, Placed, PlacesKnown DEF Rest
  <2> HIDE DEF w, v, d
  <2>3. RunOK(n, status[j], l, r, v, d)
    BY <1>2, <1>6, <2>2, EndedOK
  <2>4. JobOK(n, status[j], l, d)
    BY <1>2, <1>6 DEF JobOK
  <2>5. /\ temp' = [temp EXCEPT ![j] = d] /\ status' = [status EXCEPT ![j] = status[j]] /\ UNCHANGED source
        /\ load' = [load EXCEPT ![j] = l] /\ run' = [run EXCEPT ![j][r] = v]
    BY <1>1, <1>2, <1>3, <2>1
  <2>6. /\ \A p \in Runs : p # r => run[j][p].pc \in Rest
        /\ l \in LoadObjects /\ l.resumes = load[j].resumes /\ l.size = source[j].len /\ d \in Files
    BY <1>2, <1>6 DEF n
  <2>7. RunOK(source[j].len, status[j], l, r, v, d) /\ JobOK(source[j].len, status[j], l, d)
    BY <2>3, <2>4 DEF n
  <2> QED BY <2>2, <2>5, <2>6, <2>7, RunChanges
<1>8. CASE ~Stopped(j)
  <2>1. status' = [status EXCEPT ![j] = "running"] /\ Prepare(j, r, l) /\ UNCHANGED source
    BY <1>1, <1>2, <1>3, <1>5, <1>8
  <2>2. Preparing(j, r, l)
    <3>1. load[j].canPause = FALSE
      BY <1>1, <1>2 DEF RunOK, Asking
    <3> QED BY <1>2, <1>6, <3>1 DEF Preparing, JobOK
  <2> QED BY <1>2, <2>1, <2>2, PrepareKeepsInv
<1> QED BY <1>7, <1>8

(* An unchanged source has the size that was expected of it. *)
LEMMA NoOtherSize ==
  ASSUME DInv, NEW j \in Jobs, NEW r \in Runs
  PROVE  ~OtherSize(j, r)
<1> SUFFICES ASSUME run[j][r].pc = "size2" PROVE source[j].len = load[j].size
  BY DEF OtherSize
<1> QED BY JobFacts DEF RunOK

LEMMA SizeFailsKeepsInv ==
  ASSUME DInv, SInv', MarksAgree', NEW j \in Jobs, NEW r \in Runs, SizeFails(j, r)
  PROVE  DInv'
<1> DEFINE w == run[j][r]
           n == source[j].len
           d == temp[j]
           x == load[j]
           v == [w EXCEPT !.pc = "ended"]
           s == IF Stopped(j) THEN status[j] ELSE "failed"
<1>1. w.pc \in Asking /\ w.pc \notin Rest /\ UNCHANGED <<load, temp, source>>
  BY DEF SizeFails, Rest, Asking
<1>2. /\ RunOK(n, status[j], x, r, w, d) /\ JobOK(n, status[j], x, d)
      /\ r = Current(x) /\ x.resumes \in Nat /\ w \in RunRecords /\ d \in Files /\ x \in LoadObjects
      /\ (\A p \in Runs : p # r => run[j][p].pc \in Rest)
      /\ status[j] \in {"running", "cancelled", "absent"} /\ (~Stopped(j) <=> status[j] = "running")
  BY <1>1, JobFacts, OthersRest
<1>3. /\ temp' = [temp EXCEPT ![j] = d] /\ load' = [load EXCEPT ![j] = x]
      /\ status' = [status EXCEPT ![j] = s]
  BY <1>1, Same DEF SizeFails, svars, Release, EndWith
<1>4. run' = [run EXCEPT ![j][r] = v]
  BY GoesIs, PlacesKnown DEF SizeFails, Rest
<1>5. v \in RunRecords /\ v.pc = "ended"
  BY <1>2, Placed, PlacesKnown DEF Rest
<1>6. s \in {"failed", "cancelled", "absent"} /\ (s = "absent" => status[j] = "absent")
  BY <1>2
<1> HIDE DEF w, v, d, s, x
<1>7. RunOK(n, s, x, r, v, d)
  BY <1>2, <1>5, EndedOK
<1>8. JobOK(n, s, x, d)
  BY <1>2, <1>6 DEF JobOK
<1>9. /\ \A p \in Runs : p # r => run[j][p].pc \in Rest
      /\ x \in LoadObjects /\ x.resumes = load[j].resumes /\ d \in Files
      /\ (load[j].size = n => x.size = n) /\ UNCHANGED source
  BY <1>1, <1>2 DEF x
<1> QED BY <1>3, <1>4, <1>5, <1>7, <1>8, <1>9, RunChanges DEF n
-----------------------------------------------------------------------------
(* Reading, and the answer to the last query. *)

LEMMA PipeReadsKeepsInv ==
  ASSUME DInv, SInv', MarksAgree', NEW j \in Jobs, NEW r \in Runs, PipeReads(j, r)
  PROVE  DInv'
<1> DEFINE w == run[j][r]
           n == source[j].len
           d == temp[j]
           x == load[j]
           b == <<source[j].ver, w.lo>>
           e == Append(d, b)
           k == w.lo + 1
           v == [w EXCEPT !.lo = k]
<1>1. w.pc = "pipe" /\ w.pc \notin Rest /\ w.lo <= n /\ UNCHANGED <<status, load, source>>
  BY DEF PipeReads, svars, Rest
<1>2. /\ RunOK(n, status[j], x, r, w, d) /\ JobOK(n, status[j], x, d)
      /\ r = Current(x) /\ w \in RunRecords /\ d \in Files /\ x \in LoadObjects
      /\ source[j] \in Constant
      /\ (\A p \in Runs : p # r => run[j][p].pc \in Rest)
      /\ load' = [load EXCEPT ![j] = x] /\ status' = [status EXCEPT ![j] = status[j]]
  BY <1>1, JobFacts, OthersRest, Same
<1>3. run' = [run EXCEPT ![j][r] = v] /\ temp' = [temp EXCEPT ![j] = e]
  BY DEF PipeReads, DInv, DTypes
<1>4. b \in {0} \X Nat /\ w.lo \in Nat /\ b[2] = w.lo
  BY <1>2 DEF Constant, RunRecords
<1>5. w.lo = Len(d) + 1 /\ status[j] = "running" /\ x.size = n /\ x.owner = r
  BY <1>1, <1>2 DEF RunOK
<1> HIDE DEF b, w, n, d, x
<1>6. e \in Files /\ Len(e) = Len(d) + 1 /\ Len(d) \in Nat /\ DOMAIN e = 1..(Len(d) + 1)
  BY <1>2, <1>4 DEF Files
<1>7. \A p \in 1..(Len(d) + 1) : e[p] = IF p = Len(d) + 1 THEN b ELSE d[p]
  BY <1>2, <1>4 DEF Files
<1>8. k \in Nat
  BY <1>4
<1> HIDE DEF k, e
<1>9. v \in RunRecords /\ v.pc = "pipe" /\ v.lo = k
  BY <1>1, <1>2, <1>8 DEF RunRecords
<1> HIDE DEF v
<1>10. InPlace(n, e)
  <2>1. \A p \in DOMAIN d : d[p][2] = p
    BY <1>2 DEF JobOK, InPlace
  <2>2. ASSUME NEW p \in DOMAIN e PROVE e[p][2] = p
    <3>1. p \in 1..(Len(d) + 1) /\ p \in Int
      BY <1>6
    <3>2. CASE p = Len(d) + 1
      BY <1>4, <1>5, <1>7, <3>1, <3>2
    <3>3. CASE p # Len(d) + 1
      <4>1. p \in DOMAIN d
        BY <1>2, <1>6, <3>1, <3>3, FilesTyped
      <4> QED BY <1>7, <2>1, <3>1, <3>3, <4>1
    <3> QED BY <3>2, <3>3
  <2>3. Len(e) <= n
    BY <1>1, <1>5, <1>6
  <2> QED BY <2>2, <2>3 DEF InPlace
<1>11. JobOK(n, "running", x, e)
  BY <1>2, <1>5, <1>10 DEF JobOK
<1>12. RunOK(n, "running", x, r, v, e)
  <2>1. ~(r < Current(x)) /\ ~(r > Current(x))
    BY <1>2, CurrentHere DEF x
  <2>2. k = Len(e) + 1
    BY <1>5, <1>6 DEF k
  <2> QED BY <1>5, <1>9, <2>1, <2>2 DEF RunOK, Asking
<1>13. status' = [status EXCEPT ![j] = "running"] /\ x.resumes = load[j].resumes
  BY <1>2, <1>5 DEF x
<1> QED BY <1>1, <1>2, <1>3, <1>5, <1>6, <1>9, <1>11, <1>12, <1>13, RunChanges DEF n

LEMMA PipeEndsKeepsInv ==
  ASSUME DInv, SInv', MarksAgree', NEW j \in Jobs, NEW r \in Runs, PipeEnds(j, r)
  PROVE  DInv'
<1> DEFINE w == run[j][r]
           n == source[j].len
           d == temp[j]
           x == load[j]
<1>1. w.pc = "pipe" /\ w.pc \notin Rest /\ UNCHANGED <<status, load, source, temp>>
  BY DEF PipeEnds, svars, Rest
<1>2. /\ RunOK(n, status[j], x, r, w, d) /\ JobOK(n, status[j], x, d)
      /\ r = Current(x) /\ w \in RunRecords /\ d \in Files /\ x \in LoadObjects /\ n \in Nat
      /\ (\A p \in Runs : p # r => run[j][p].pc \in Rest)
      /\ load' = [load EXCEPT ![j] = x] /\ status' = [status EXCEPT ![j] = status[j]]
      /\ temp' = [temp EXCEPT ![j] = d]
  BY <1>1, JobFacts, OthersRest, Same
<1>3. PICK ok \in BOOLEAN :
        /\ ok => w.lo > n
        /\ run' = [run EXCEPT ![j][r].pc = "size3", ![j][r].ok = ok, ![j][r].real = Len(d)]
  <2> DEFINE past == w.lo > n
  <2>1. PICK ok \in {FALSE, past} :
          run' = [run EXCEPT ![j][r].pc = "size3", ![j][r].ok = ok, ![j][r].real = Len(d)]
    BY DEF PipeEnds
  <2>2. past \in BOOLEAN
    OBVIOUS
  <2> HIDE DEF past
  <2>3. ok = FALSE \/ ok = past
    BY <2>1
  <2>4. ok \in BOOLEAN /\ (ok => past)
    <3>1. CASE ok = FALSE
      BY <3>1
    <3>2. CASE ok = past /\ past = TRUE
      BY <3>2
    <3>3. CASE ok = past /\ past = FALSE
      BY <3>3
    <3> QED BY <2>2, <2>3, <3>1, <3>2, <3>3
  <2> QED BY <2>1, <2>4 DEF past
<1>5. w.lo = Len(d) + 1 /\ status[j] = "running" /\ x.size = n /\ x.owner = r /\ Len(d) \in Nat /\ Len(d) <= n
  BY <1>1, <1>2, FilesTyped DEF RunOK, JobOK, InPlace
<1>6. ok => Len(d) = n
  BY <1>2, <1>3, <1>5
<1> DEFINE m == Len(d)
           v == [w EXCEPT !.pc = "size3", !.ok = ok, !.real = m]
<1>7. run' = [run EXCEPT ![j][r] = v]
  BY <1>3 DEF DInv, DTypes
<1> HIDE DEF w, n, d, x
<1>8. m \in Nat
  BY <1>5
<1> HIDE DEF m
<1>9. v \in RunRecords /\ v.pc = "size3" /\ v.ok = ok /\ v.real = m
  BY <1>2, <1>8 DEF RunRecords, Places
<1> HIDE DEF v
<1>10. RunOK(n, "running", x, r, v, d)
  <2>1. ~(r < Current(x)) /\ ~(r > Current(x))
    BY <1>2, CurrentHere DEF x
  <2> QED BY <1>5, <1>6, <1>9, <2>1 DEF RunOK, Asking, m
<1>11. status' = [status EXCEPT ![j] = "running"] /\ x.resumes = load[j].resumes
  BY <1>2, <1>5 DEF x
<1>12. JobOK(n, "running", x, d)
  BY <1>2, <1>5
<1>13. /\ x \in LoadObjects /\ d \in Files /\ temp' = [temp EXCEPT ![j] = d] /\ load' = [load EXCEPT ![j] = x]
       /\ UNCHANGED source /\ x.size = n
  BY <1>1, <1>2, <1>5
<1>14. \A p \in Runs : p # r => run[j][p].pc \in Rest
  BY <1>2
<1> QED BY <1>7, <1>9, <1>10, <1>11, <1>12, <1>13, <1>14, RunChanges DEF n

(* The answer matters only if the file was not read to its end. *)
LEMMA FinalSizeKeepsInv ==
  ASSUME DInv, SInv', MarksAgree', NEW j \in Jobs, NEW r \in Runs, FinalSize(j, r)
  PROVE  DInv'
<1> DEFINE w == run[j][r]
           n == source[j].len
           d == temp[j]
           l == load[j]
<1>1. w.pc = "size3" /\ w.pc \notin Rest /\ UNCHANGED <<temp, source>>
  BY DEF FinalSize, Rest
<1>2. RunOK(n, status[j], l, r, w, d) /\ JobOK(n, status[j], l, d) /\ l \in LoadObjects
  BY JobFacts
<1>3. l.size = n /\ l.initial = n /\ w.real = Len(d) /\ (w.ok => w.real = n)
  BY <1>1, <1>2 DEF RunOK, JobOK
<1>4. PICK m \in {n, l.initial} :
        LET changed == w.real # l.initial \/ m # l.initial
            after == [l EXCEPT !.changed = @ \/ changed,
                               !.size = IF changed /\ w.ok THEN w.real ELSE @]
        IN  Finish(j, r, after, Verdict(l, w, changed))
  BY DEF FinalSize
<1> DEFINE changed == w.real # l.initial \/ m # l.initial
           flag == l.changed \/ changed
           after == [l EXCEPT !.changed = flag]
           s == Verdict(l, w, changed)
<1>5. ~(changed /\ w.ok)
  BY <1>3, <1>4
<1>6. Finish(j, r, after, s)
  <2> DEFINE other == [l EXCEPT !.changed = @ \/ changed, !.size = IF changed /\ w.ok THEN w.real ELSE @]
  <2>1. Finish(j, r, other, s)
    BY <1>4
  <2>2. other = after
    <3>1. (IF changed /\ w.ok THEN w.real ELSE l.size) = l.size
      BY <1>5
    <3>2. other = [l EXCEPT !.changed = flag, !.size = IF changed /\ w.ok THEN w.real ELSE l.size]
      BY <1>2 DEF LoadObjects
    <3> HIDE DEF other, changed, flag, w
    <3> QED BY <1>2, <3>1, <3>2 DEF LoadObjects
  <2> QED BY <2>1, <2>2
<1>7. s \in {"done", "failed"} /\ (s = "done" => Len(d) = n)
  BY <1>3, <1>5 DEF Verdict
<1>8. Finishing(j, after)
  <2>1. flag \in BOOLEAN
    OBVIOUS
  <2> HIDE DEF flag
  <2> QED BY <1>2, <1>3, <2>1 DEF Finishing, LoadObjects
<1> HIDE DEF after, s, l, changed, flag
<1> QED BY <1>1, <1>6, <1>7, <1>8, FinishKeepsInv

LEMMA StaleFinalSizeKeepsInv ==
  ASSUME DInv, SInv', MarksAgree', NEW j \in Jobs, NEW r \in Runs, StaleFinalSize(j, r)
  PROVE  DInv'
<1> DEFINE w == run[j][r]
           n == source[j].len
           d == temp[j]
           l == load[j]
           v == [w EXCEPT !.pc = "ended"]
           u == [run[j] EXCEPT ![r] = v]
<1>1. w.pc = "stale" /\ UNCHANGED <<status, temp, source>> /\ run' = [run EXCEPT ![j][r] = v]
  BY GoesIs, PlacesKnown DEF StaleFinalSize, svars, Rest
<1>2. /\ RunOK(n, status[j], l, r, w, d) /\ JobOK(n, status[j], l, d) /\ l \in LoadObjects
      /\ w \in RunRecords /\ d \in Files /\ l.resumes <= MaxResumes
      /\ temp' = [temp EXCEPT ![j] = d] /\ status' = [status EXCEPT ![j] = status[j]]
      /\ run[j] \in [Runs -> RunRecords]
  BY <1>1, JobFacts, Same
<1>3. l.size = n /\ l.initial = n /\ (w.ok => w.real = n)
  BY <1>1, <1>2 DEF RunOK, JobOK
<1>4. PICK m \in {n, l.initial} :
        LET changed == w.real # l.initial \/ m # l.initial
        IN  load' = [load EXCEPT ![j].changed = @ \/ changed,
                                 ![j].size = IF changed /\ w.ok THEN w.real ELSE @]
  BY DEF StaleFinalSize
<1> DEFINE changed == w.real # l.initial \/ m # l.initial
           flag == l.changed \/ changed
           y == [l EXCEPT !.changed = flag]
<1>5. ~(changed /\ w.ok)
  BY <1>3, <1>4
<1>6. load' = [load EXCEPT ![j] = y]
  <2> DEFINE z == IF changed /\ w.ok THEN w.real ELSE l.size
  <2>1. z = l.size
    BY <1>5
  <2>2. load' = [load EXCEPT ![j] = [l EXCEPT !.changed = flag, !.size = z]]
    BY <1>4 DEF DInv, DTypes
  <2> HIDE DEF z, flag
  <2>3. [l EXCEPT !.changed = flag, !.size = z] = y
    BY <1>2, <2>1 DEF LoadObjects
  <2> QED BY <2>2, <2>3
<1>7. /\ y \in LoadObjects /\ y.resumes = l.resumes /\ y.size = n /\ y.initial = n
      /\ y.canPause = l.canPause /\ y.phase = l.phase /\ y.owner = l.owner
  <2>1. flag \in BOOLEAN
    OBVIOUS
  <2> HIDE DEF flag
  <2> QED BY <1>2, <1>3, <2>1 DEF LoadObjects
<1>8. v \in RunRecords /\ v.pc = "ended"
  BY <1>2, Placed, PlacesKnown DEF Rest
<1> HIDE DEF v, y
<1>9. u \in [Runs -> RunRecords] /\ u[r] = v /\ \A p \in Runs : p # r => u[p] = run[j][p]
  BY <1>2, <1>8
<1>10. run' = [run EXCEPT ![j] = u]
  BY <1>1 DEF DInv, DTypes
<1> HIDE DEF u
<1>11. JobOK(n, status[j], y, d)
  BY <1>2, <1>3, <1>7 DEF JobOK
<1>12. ASSUME NEW p \in Runs PROVE RunOK(n, status[j], y, p, u[p], d)
  <2>1. CASE p = r
    <3>1. u[p] = v /\ Current(y) = Current(l)
      BY <1>7, <1>9, <2>1 DEF Current
    <3>2. r > Current(l) => w.pc = "none"
      BY <1>2 DEF RunOK
    <3> QED BY <1>1, <1>8, <2>1, <3>1, <3>2 DEF RunOK, Rest, Asking
  <2>2. CASE p # r
    <3>1. RunOK(n, status[j], l, p, run[j][p], d) /\ u[p] = run[j][p]
      BY <1>9, <2>2, JobFacts
    <3>2. Current(y) = Current(l)
      BY <1>7 DEF Current
    <3> HIDE DEF l, d, n
    <3> QED BY <1>3, <1>7, <3>1, <3>2 DEF RunOK
  <2> QED BY <2>1, <2>2
<1>13. y.resumes <= MaxResumes
  BY <1>2, <1>7
<1> HIDE DEF d, l
<1> QED BY <1>1, <1>2, <1>6, <1>7, <1>9, <1>10, <1>11, <1>12, <1>13, JobChanges
-----------------------------------------------------------------------------
(* The user, and the queue. *)

(* No transfer goes on, and none begins. *)
LEMMA RestingKeepsInv ==
  ASSUME DInv, SInv', MarksAgree', NEW j \in Jobs, \A r \in Runs : run[j][r].pc \in Rest,
         NEW s, NEW x \in LoadObjects, NEW d \in Files,
         x.resumes = load[j].resumes, x.size = load[j].size,
         status' = [status EXCEPT ![j] = s], load' = [load EXCEPT ![j] = x],
         temp' = [temp EXCEPT ![j] = d], UNCHANGED <<run, source>>,
         JobOK(source[j].len, s, x, d)
  PROVE  DInv'
<1>1. run' = [run EXCEPT ![j] = run[j]] /\ run[j] \in [Runs -> RunRecords] /\ x.resumes <= MaxResumes
  BY Same, JobFacts
<1>2. ASSUME NEW r \in Runs PROVE RunOK(source[j].len, s, x, r, run[j][r], d)
  <2>1. RunOK(source[j].len, status[j], load[j], r, run[j][r], temp[j]) /\ run[j][r].pc \in Rest
    BY JobFacts
  <2> QED BY <2>1, RestKept
<1> QED BY <1>1, <1>2, JobChanges

LEMMA QueuedKeepsInv ==
  ASSUME DInv, SInv', MarksAgree', NEW j \in Jobs,
         StartDownloadJob(j) \/ PauseQueued(j) \/ CancelQueued(j)
  PROVE  DInv'
<1> DEFINE n == source[j].len
           x == load[j]
           d == temp[j]
<1>1. /\ x \in LoadObjects /\ d \in Files /\ JobOK(n, status[j], x, d) /\ n \in Nat
      /\ temp = [temp EXCEPT ![j] = d] /\ load = [load EXCEPT ![j] = x]
  BY JobFacts, Same
<1>2. UNCHANGED <<run, source>>
  BY DEF StartDownloadJob, PauseQueued, CancelQueued
<1>3. \A r \in Runs : run[j][r].pc \in Rest
  BY AllRest DEF StartDownloadJob, PauseQueued, CancelQueued
<1>4. CASE StartDownloadJob(j)
  <2> DEFINE y == [x EXCEPT !.phase = "queued"]
  <2>1. /\ status' = [status EXCEPT ![j] = "pending"] /\ temp' = [temp EXCEPT ![j] = d]
        /\ load' = [load EXCEPT ![j] = y] /\ status[j] = "absent" /\ x.phase = ""
    BY <1>1, <1>4 DEF StartDownloadJob, QueueTransferJob, DInv, DTypes
  <2>2. /\ y \in LoadObjects /\ y.resumes = x.resumes /\ y.size = x.size /\ y.initial = x.initial
        /\ y.canPause = x.canPause
    BY <1>1 DEF LoadObjects, Phases
  <2> HIDE DEF y, x, d, n
  <2>3. JobOK(n, "pending", y, d)
    BY <1>1, <2>1, <2>2 DEF JobOK
  <2> QED BY <1>1, <1>2, <1>3, <2>1, <2>2, <2>3, RestingKeepsInv DEF x, n
<1>5. CASE PauseQueued(j)
  <2>1. /\ status' = [status EXCEPT ![j] = "paused"] /\ temp' = [temp EXCEPT ![j] = d]
        /\ load' = [load EXCEPT ![j] = x]
    BY <1>1, <1>5 DEF PauseQueued, Withdraw
  <2> HIDE DEF d
  <2>2. JobOK(n, "paused", x, d)
    BY <1>1 DEF JobOK
  <2> QED BY <1>1, <1>2, <1>3, <2>1, <2>2, RestingKeepsInv
<1>6. CASE CancelQueued(j)
  <2>1. /\ status' = [status EXCEPT ![j] = "cancelled"] /\ temp' = [temp EXCEPT ![j] = <<>>]
        /\ load' = [load EXCEPT ![j] = x]
    BY <1>1, <1>6 DEF CancelQueued, Withdraw
  <2>2. JobOK(n, "cancelled", x, <<>>) /\ <<>> \in Files
    <3>1. InPlace(n, <<>>) /\ <<>> \in Files
      BY <1>1, EmptyInPlace, FilesTyped
    <3> HIDE DEF x, n
    <3> QED BY <1>1, <3>1 DEF JobOK
  <2> QED BY <1>1, <1>2, <1>3, <2>1, <2>2, RestingKeepsInv
<1> QED BY <1>4, <1>5, <1>6

(* A running or paused job is stopped, its closure with it. *)
LEMMA StopKeepsInv ==
  ASSUME DInv, SInv', MarksAgree', NEW j \in Jobs, NEW s \in {"paused", "cancelled"},
         load[j].canPause = TRUE \/ load[j].phase \notin {"system-saving", "cancelling"},
         s = "paused" => load[j].canPause = TRUE,
         StopsOwner(j), NEW d \in Files, InPlace(source[j].len, d),
         status' = [status EXCEPT ![j] = s], load' = [load EXCEPT ![j].canPause = FALSE],
         temp' = [temp EXCEPT ![j] = d], UNCHANGED source
  PROVE  DInv'
<1> DEFINE n == source[j].len
           x == load[j]
           y == [x EXCEPT !.canPause = FALSE]
<1> DEFINE Left(r, w) == IF r # x.owner THEN w
                         ELSE IF w.pc = "pipe" THEN [w EXCEPT !.pc = "ended"]
                         ELSE IF w.pc = "size3" THEN [w EXCEPT !.pc = "stale"] ELSE w
<1> DEFINE u == [r \in Runs |-> Left(r, run[j][r])]
<1>1. /\ x \in LoadObjects /\ JobOK(n, status[j], x, temp[j]) /\ x.resumes <= MaxResumes
      /\ x.resumes \in Nat
  BY JobFacts
<1>2. run' = [run EXCEPT ![j] = u] /\ load' = [load EXCEPT ![j] = y]
  BY DEF StopsOwner, DInv, DTypes
<1>3. /\ y \in LoadObjects /\ y.resumes = x.resumes /\ y.size = x.size /\ y.initial = x.initial
      /\ y.canPause = FALSE /\ y.phase = x.phase
  BY <1>1 DEF LoadObjects
<1>4. Current(y) = Current(x)
  BY <1>3 DEF Current
<1> HIDE DEF x, y
<1>5. ASSUME NEW r \in Runs
      PROVE  u[r] \in RunRecords /\ RunOK(n, s, y, r, u[r], d)
  <2> DEFINE w == run[j][r]
             v == u[r]
  <2>1. w \in RunRecords /\ RunOK(n, status[j], x, r, w, temp[j])
    BY JobFacts DEF x
  <2>2. w.pc \in {"pipe", "size3"} => r = x.owner
    BY <2>1 DEF RunOK
  <2>3. w.pc # "saving" /\ (s = "paused" => w.pc \notin Asking)
    BY <2>1 DEF RunOK, x
  <2>4. v = Left(r, w)
    OBVIOUS
  <2> HIDE DEF w, u, v
  <2>5. CASE w.pc = "pipe"
    <3>1. v = [w EXCEPT !.pc = "ended"]
      BY <2>2, <2>4, <2>5
    <3>2. v \in RunRecords /\ v.pc = "ended"
      BY <2>1, <3>1, Placed, PlacesKnown DEF Rest
    <3>3. ~(r > Current(y))
      BY <1>4, <2>1, <2>5 DEF RunOK
    <3>4. RunOK(n, s, y, r, v, d)
      BY <3>2, <3>3 DEF RunOK, Asking, Rest
    <3> QED BY <3>2, <3>4 DEF v
  <2>6. CASE w.pc = "size3"
    <3>1. v = [w EXCEPT !.pc = "stale"]
      BY <2>2, <2>4, <2>6
    <3>2. v \in RunRecords /\ v.pc = "stale" /\ v.real = w.real /\ v.ok = w.ok
      BY <2>1, <3>1, Placed, PlacesKnown DEF Rest
    <3>3. ~(r > Current(y))
      BY <1>4, <2>1, <2>6 DEF RunOK
    <3>4. x.size = n /\ (w.ok => w.real = n)
      BY <2>1, <2>6 DEF RunOK
    <3>5. RunOK(n, s, y, r, v, d)
      BY <1>3, <3>2, <3>3, <3>4 DEF RunOK, Asking, Rest
    <3> QED BY <3>2, <3>5 DEF v
  <2>7. CASE w.pc \notin {"pipe", "size3"}
    <3>1. v = w
      BY <2>4, <2>7
    <3>2. RunOK(n, s, y, r, w, d)
      BY <1>3, <1>4, <2>1, <2>3, <2>7 DEF RunOK, Asking
    <3> QED BY <2>1, <3>1, <3>2 DEF v
  <2> QED BY <2>5, <2>6, <2>7
<1>6. u \in [Runs -> RunRecords]
  <2>1. u = [r \in Runs |-> u[r]]
    OBVIOUS
  <2> HIDE DEF u
  <2> QED BY <1>5, <2>1
<1> HIDE DEF u
<1>7. JobOK(n, s, y, d)
  BY <1>1, <1>3 DEF JobOK
<1>8. y.resumes <= MaxResumes
  BY <1>1, <1>3
<1> QED BY <1>2, <1>3, <1>5, <1>6, <1>7, <1>8, JobChanges

LEMMA ResumeKeepsInv ==
  ASSUME DInv, SInv', MarksAgree', NEW j \in Jobs, ResumeDownloadJob(j)
  PROVE  DInv'
<1> DEFINE n == source[j].len
           x == load[j]
           y == [x EXCEPT !.phase = "queued", !.canPause = FALSE, !.resumes = @ + 1]
<1>1. /\ x \in LoadObjects /\ temp[j] \in Files /\ JobOK(n, status[j], x, temp[j])
      /\ x.resumes \in Nat /\ run[j] \in [Runs -> RunRecords]
      /\ temp = [temp EXCEPT ![j] = temp[j]] /\ run = [run EXCEPT ![j] = run[j]]
  BY JobFacts, Same
<1>2. /\ status[j] \in {"paused", "failed"} /\ Resumed < MaxResumes
      /\ status' = [status EXCEPT ![j] = "pending"] /\ UNCHANGED <<run, temp, source>>
  BY DEF ResumeDownloadJob, QueueTransferJob
<1>3. load' = [load EXCEPT ![j] = y]
  BY DEF ResumeDownloadJob, DInv, DTypes
<1>4. /\ y \in LoadObjects /\ y.resumes = x.resumes + 1 /\ y.size = x.size /\ y.initial = x.initial
      /\ y.canPause = FALSE
  <2>1. x.resumes + 1 \in Nat
    BY <1>1
  <2> QED BY <1>1, <2>1 DEF LoadObjects, Phases
<1>5. y.resumes <= MaxResumes
  <2>1. Resumed \in Nat /\ x.resumes <= Resumed
    BY ResumesAreCounted, JobFacts DEF Resumed
  <2> HIDE DEF x, y
  <2> QED BY <1>1, <1>2, <1>4, <2>1, DownloadAssumption
<1>6. \A r \in Runs : run[j][r].pc \in Rest
  BY <1>2, AllRest
<1> HIDE DEF y
<1>7. ASSUME NEW r \in Runs PROVE RunOK(n, "pending", y, r, run[j][r], temp[j])
  <2> DEFINE w == run[j][r]
  <2>1. RunOK(n, status[j], x, r, w, temp[j]) /\ w.pc \in Rest
    BY <1>6, JobFacts
  <2>2. r > Current(y) => r > Current(x)
    BY <1>1, <1>4 DEF Current, Runs
  <2> HIDE DEF n, x, w
  <2>3. RunOK(n, "pending", y, r, w, temp[j])
    BY <1>4, <2>1, <2>2 DEF RunOK, Rest, Asking
  <2> QED BY <2>3 DEF w
<1>8. JobOK(n, "pending", y, temp[j])
  <2> HIDE DEF n, x
  <2> QED BY <1>1, <1>4 DEF JobOK
<1> QED BY <1>1, <1>2, <1>3, <1>4, <1>5, <1>7, <1>8, JobChanges

(* The save is asked to stop. *)
LEMMA CancelSavingKeepsInv ==
  ASSUME DInv, SInv', MarksAgree', NEW j \in Jobs, CancelSaving(j)
  PROVE  DInv'
<1> DEFINE n == source[j].len
           x == load[j]
           y == [x EXCEPT !.phase = "cancelling"]
<1>1. /\ x \in LoadObjects /\ temp[j] \in Files /\ JobOK(n, status[j], x, temp[j])
      /\ x.resumes <= MaxResumes /\ run[j] \in [Runs -> RunRecords]
      /\ temp = [temp EXCEPT ![j] = temp[j]] /\ run = [run EXCEPT ![j] = run[j]]
      /\ status = [status EXCEPT ![j] = status[j]]
  BY JobFacts, Same
<1>2. /\ status[j] = "running" /\ UNCHANGED <<status, run, temp, source>>
      /\ load' = [load EXCEPT ![j] = y]
  BY DEF CancelSaving, svars, DInv, DTypes
<1>3. /\ y \in LoadObjects /\ y.resumes = x.resumes /\ y.size = x.size /\ y.initial = x.initial
      /\ y.canPause = x.canPause /\ y.phase = "cancelling" /\ y.owner = x.owner
  BY <1>1 DEF LoadObjects, Phases
<1>4. Current(y) = Current(x)
  BY <1>3 DEF Current
<1> HIDE DEF y
<1>5. ASSUME NEW r \in Runs PROVE RunOK(n, status[j], y, r, run[j][r], temp[j])
  <2> DEFINE w == run[j][r]
  <2>1. RunOK(n, status[j], x, r, w, temp[j])
    BY JobFacts
  <2> HIDE DEF n, x, w
  <2>2. RunOK(n, status[j], y, r, w, temp[j])
    BY <1>3, <1>4, <2>1 DEF RunOK
  <2> QED BY <2>2 DEF w
<1>6. JobOK(n, status[j], y, temp[j])
  <2> HIDE DEF n, x
  <2> QED BY <1>1, <1>2, <1>3 DEF JobOK
<1>7. y.resumes <= MaxResumes
  BY <1>1, <1>3
<1> QED BY <1>1, <1>2, <1>3, <1>5, <1>6, <1>7, JobChanges

LEMMA DeleteKeepsInv ==
  ASSUME DInv, SInv', MarksAgree', NEW j \in Jobs, DeleteDownload(j)
  PROVE  DInv'
<1> DEFINE n == source[j].len
           x == load[j]
           y == [x EXCEPT !.phase = "deleted"]
<1>1. /\ x \in LoadObjects /\ JobOK(n, status[j], x, temp[j]) /\ n \in Nat
      /\ x.resumes <= MaxResumes /\ run[j] \in [Runs -> RunRecords]
      /\ run = [run EXCEPT ![j] = run[j]] /\ InPlace(n, <<>>) /\ <<>> \in Files
  BY JobFacts, Same, EmptyInPlace, FilesTyped
<1>2. /\ status[j] \in Settled /\ status' = [status EXCEPT ![j] = "absent"] /\ UNCHANGED <<run, source>>
      /\ load' = [load EXCEPT ![j] = y] /\ temp' = [temp EXCEPT ![j] = <<>>]
  BY DEF DeleteDownload, DeleteJob, DInv, DTypes
<1>3. /\ y \in LoadObjects /\ y.resumes = x.resumes /\ y.size = x.size /\ y.initial = x.initial
      /\ y.canPause = x.canPause /\ y.phase = "deleted"
  BY <1>1 DEF LoadObjects, Phases
<1>4. Current(y) = Current(x)
  BY <1>3 DEF Current
<1> HIDE DEF y
<1>5. ASSUME NEW r \in Runs PROVE RunOK(n, "absent", y, r, run[j][r], <<>>)
  <2> DEFINE w == run[j][r]
  <2>1. RunOK(n, status[j], x, r, w, temp[j])
    BY JobFacts
  <2>2. status[j] # "running"
    BY <1>2 DEF Settled
  <2> HIDE DEF n, x, w
  <2>3. RunOK(n, "absent", y, r, w, <<>>)
    BY <1>3, <1>4, <2>1, <2>2 DEF RunOK
  <2> QED BY <2>3 DEF w
<1>6. JobOK(n, "absent", y, <<>>)
  <2> HIDE DEF n, x
  <2> QED BY <1>1, <1>3 DEF JobOK
<1>7. y.resumes <= MaxResumes
  BY <1>1, <1>3
<1> QED BY <1>1, <1>2, <1>3, <1>5, <1>6, <1>7, JobChanges

LEMMA UserKeepsInv ==
  ASSUME DInv, SInv', MarksAgree', NEW j \in Jobs, DUser(j)
  PROVE  DInv'
<1> DEFINE n == source[j].len
<1>1. /\ load[j] \in LoadObjects /\ temp[j] \in Files /\ n \in Nat /\ InPlace(n, temp[j])
      /\ temp = [temp EXCEPT ![j] = temp[j]] /\ InPlace(n, <<>>) /\ <<>> \in Files
  BY JobFacts, Same, EmptyInPlace, FilesTyped DEF JobOK
<1>2. ASSUME PauseDownload(j) PROVE DInv'
  <2>1. /\ load[j].canPause /\ status' = [status EXCEPT ![j] = "paused"]
        /\ StopsOwner(j) /\ load' = [load EXCEPT ![j].canPause = FALSE] /\ UNCHANGED source
        /\ temp' = [temp EXCEPT ![j] = temp[j]]
    BY <1>1, <1>2 DEF PauseDownload, Release, EndWith
  <2>2. load[j].canPause = TRUE
    BY <1>1, <2>1 DEF LoadObjects
  <2> QED BY <1>1, <2>1, <2>2, StopKeepsInv
<1>3. ASSUME CancelDownload(j) PROVE DInv'
  <2>1. /\ load[j].phase \notin {"system-saving", "cancelling"}
        /\ status' = [status EXCEPT ![j] = "cancelled"]
        /\ StopsOwner(j) /\ load' = [load EXCEPT ![j].canPause = FALSE] /\ UNCHANGED source
        /\ temp' = [temp EXCEPT ![j] = <<>>]
    BY <1>3 DEF CancelDownload, Release, EndWith
  <2> QED BY <1>1, <2>1, StopKeepsInv
<1> QED BY <1>2, <1>3, QueuedKeepsInv, ResumeKeepsInv, CancelSavingKeepsInv, DeleteKeepsInv DEF DUser

-----------------------------------------------------------------------------
(* A transfer starts, or its runner throws. *)

LEMMA RunDownloadJobKeepsInv ==
  ASSUME DInv, SInv', MarksAgree', NEW k \in Kinds, RunDownloadJob(k)
  PROVE  DInv'
<1> DEFINE j == Head(queue[k])
           r == load[j].resumes + 1
           n == source[j].len
           x == load[j]
           l == [x EXCEPT !.phase = "preparing"]
<1>1. j \in Jobs /\ status[j] = "pending" /\ status' = [status EXCEPT ![j] = "running"] /\ UNCHANGED source
  <2>1. CanShift(k) /\ Startable(j) /\ status' = [status EXCEPT ![j] = "running"] /\ UNCHANGED source
    BY DEF RunDownloadJob, AdmitHead
  <2> QED BY <2>1, HeadIsOfKind DEF DInv, Startable
<1>2. IF r > 1 /\ l.size # Unknown
      THEN Prepare(j, r, l)
      ELSE Goes(j, r, "size1") /\ load' = [load EXCEPT ![j] = l] /\ UNCHANGED temp
  BY DEF RunDownloadJob
<1> HIDE DEF j
<1>3. /\ r = Current(x) /\ r \in Runs /\ x \in LoadObjects /\ temp[j] \in Files
      /\ JobOK(n, "pending", x, temp[j]) /\ run[j][r] \in RunRecords
      /\ temp = [temp EXCEPT ![j] = temp[j]]
      /\ x.resumes \in Nat
  <2>1. r = Current(x)
    BY DEF Current
  <2> QED BY <1>1, <2>1, JobFacts, Same
<1>4. \A p \in Runs : run[j][p].pc \in Rest
  BY <1>1, AllRest
<1>5. /\ l \in LoadObjects /\ l.resumes = x.resumes /\ l.size = x.size /\ l.initial = x.initial
      /\ l.canPause = FALSE /\ l.phase = "preparing"
  <2>1. x.canPause = FALSE
    BY <1>3 DEF JobOK
  <2> QED BY <1>3, <2>1 DEF LoadObjects, Phases
<1> HIDE DEF l, r
<1>6. CASE r > 1 /\ l.size # Unknown
  <2>1. l.size = n /\ l.initial = n /\ InPlace(n, temp[j])
    <3> HIDE DEF n, x
    <3> QED BY <1>3, <1>5, <1>6 DEF JobOK
  <2>2. Preparing(j, r, l)
    BY <1>4, <1>5, <2>1 DEF Preparing
  <2> QED BY <1>1, <1>2, <1>3, <1>6, <2>2, PrepareKeepsInv
<1>7. CASE ~(r > 1 /\ l.size # Unknown)
  <2> DEFINE v == [run[j][r] EXCEPT !.pc = "size1"]
  <2>1. Goes(j, r, "size1") /\ load' = [load EXCEPT ![j] = l] /\ temp' = [temp EXCEPT ![j] = temp[j]]
    BY <1>2, <1>3, <1>7
  <2>2. run' = [run EXCEPT ![j][r] = v]
    BY <1>1, <1>3, <2>1, GoesIs, PlacesKnown DEF Asking
  <2>3. v \in RunRecords /\ v.pc = "size1"
    BY <1>3, Placed, PlacesKnown DEF Asking
  <2>4. ~(r < Current(l)) /\ ~(r > Current(l))
    BY <1>1, <1>3, <1>5, CurrentHere
  <2> HIDE DEF v, n, x
  <2>5. RunOK(n, "running", l, r, v, temp[j])
    BY <1>5, <2>3, <2>4 DEF RunOK, Asking
  <2>6. JobOK(n, "running", l, temp[j])
    BY <1>3, <1>5 DEF JobOK
  <2>7. x.size = n => l.size = n
    BY <1>5
  <2> QED BY <1>1, <1>3, <1>4, <1>5, <2>1, <2>2, <2>3, <2>5, <2>6, <2>7, RunChanges DEF n, x
<1> QED BY <1>6, <1>7

LEMMA RunThrowsKeepsInv ==
  ASSUME DInv, SInv', MarksAgree', NEW k \in Kinds, RunThrows(k)
  PROVE  DInv'
<1> DEFINE j == Head(queue[k])
<1>1. /\ j \in Jobs /\ status[j] = "pending" /\ status' = [status EXCEPT ![j] = "failed"]
      /\ UNCHANGED <<load, run, temp, source>>
  <2>1. /\ CanShift(k) /\ Startable(j) /\ status' = [status EXCEPT ![j] = "failed"]
        /\ UNCHANGED <<load, run, temp, source>>
    BY DEF RunThrows, FailHead
  <2> QED BY <2>1, HeadIsOfKind DEF DInv, Startable
<1> HIDE DEF j
<1>2. /\ load[j] \in LoadObjects /\ temp[j] \in Files
      /\ JobOK(source[j].len, "pending", load[j], temp[j])
      /\ temp = [temp EXCEPT ![j] = temp[j]] /\ load = [load EXCEPT ![j] = load[j]]
  BY <1>1, JobFacts, Same
<1>3. \A r \in Runs : run[j][r].pc \in Rest
  BY <1>1, AllRest
<1>4. JobOK(source[j].len, "failed", load[j], temp[j])
  BY <1>2 DEF JobOK
<1> QED BY <1>1, <1>2, <1>3, <1>4, RestingKeepsInv

-----------------------------------------------------------------------------
(* Every step of a download is a step of the scheduler or none. *)

LEMMA FinishRefines ==
  ASSUME DInv, Idle, NEW j \in Jobs, NEW r \in Runs, run[j][r].pc \notin Rest,
         NEW l, NEW s \in {"done", "failed"}, Finish(j, r, l, s)
  PROVE  SNext \/ UNCHANGED svars
<1>1. CASE Stopped(j)
  BY <1>1 DEF Finish
<1>2. CASE ~Stopped(j) /\ s = "done" /\ j \in Desktop
  BY <1>2 DEF Finish, StartsSaving
<1>3. CASE ~Stopped(j) /\ ~(s = "done" /\ j \in Desktop)
  <2>1. Release(j, s)
    BY <1>3 DEF Finish, Finalizes
  <2>2. status[j] = "running"
    BY <1>3, OthersRest
  <2>3. s \in Settled
    BY DEF Settled
  <2> QED BY <2>1, <2>2, <2>3, ReleaseIsEnding
<1> QED BY <1>1, <1>2, <1>3

LEMMA RunStepRefines ==
  ASSUME DInv, NEW j \in Jobs, DRunStep(j)
  PROVE  SNext \/ UNCHANGED svars
<1>1. PICK r \in Runs :
        \/ SizeArrives(j, r) \/ SameSize(j, r) \/ OtherSize(j, r) \/ SizeFails(j, r)
        \/ PipeReads(j, r) \/ PipeEnds(j, r) \/ PipeFails(j, r)
        \/ FinalSize(j, r) \/ StaleFinalSize(j, r) \/ SaveEnds(j, r)
  BY DEF DRunStep
<1>2. CASE SizeArrives(j, r) \/ PipeReads(j, r) \/ PipeEnds(j, r) \/ StaleFinalSize(j, r)
  BY <1>2 DEF SizeArrives, PipeReads, PipeEnds, StaleFinalSize
<1>3. CASE SameSize(j, r) \/ PipeFails(j, r)
  <2>1. Idle /\ run[j][r].pc \notin Rest
    BY <1>3 DEF SameSize, PipeFails, Rest
  <2>2. CASE SameSize(j, r)
    BY <2>1, <2>2, FinishRefines DEF SameSize
  <2>3. CASE PipeFails(j, r)
    BY <2>1, <2>3, FinishRefines DEF PipeFails
  <2> QED BY <1>3, <2>2, <2>3
<1>4. CASE FinalSize(j, r)
  <2>1. Idle /\ run[j][r].pc \notin Rest
    BY <1>4 DEF FinalSize, Rest
  <2> DEFINE w == run[j][r]
             x == load[j]
  <2> DEFINE changed(n) == w.real # x.initial \/ n # x.initial
  <2> DEFINE after(n) == [x EXCEPT !.changed = @ \/ changed(n),
                                   !.size = IF changed(n) /\ w.ok THEN w.real ELSE @]
  <2>2. PICK n \in {source[j].len, x.initial} : Finish(j, r, after(n), Verdict(x, w, changed(n)))
    BY <1>4 DEF FinalSize
  <2>3. Verdict(x, w, changed(n)) \in {"done", "failed"}
    BY DEF Verdict
  <2> HIDE DEF after, changed
  <2> QED BY <2>1, <2>2, <2>3, FinishRefines
<1>5. CASE SizeFails(j, r)
  <2>1. Idle /\ run[j][r].pc \notin Rest /\ (UNCHANGED svars \/ (~Stopped(j) /\ Release(j, "failed")))
    BY <1>5 DEF SizeFails, Rest
  <2>2. ~Stopped(j) => status[j] = "running"
    BY <2>1, OthersRest
  <2> QED BY <2>1, <2>2, ReleaseIsEnding DEF Settled
<1>6. CASE SaveEnds(j, r)
  <2>1. Idle /\ run[j][r].pc = "saving" /\ (Release(j, "cancelled") \/ Release(j, "done"))
    BY <1>6 DEF SaveEnds, Finalizes
  <2>2. status[j] = "running"
    BY <2>1, JobFacts DEF RunOK
  <2> QED BY <2>1, <2>2, ReleaseIsEnding DEF Settled
<1> QED BY <1>1, <1>2, <1>3, <1>4, <1>5, <1>6, NoOtherSize

LEMMA UserStepRefines ==
  ASSUME DInv, NEW j \in Jobs, DUser(j)
  PROVE  SNext \/ UNCHANGED svars
<1>1. ASSUME StartDownloadJob(j) PROVE SNext
  <2>1. Submit(j)
    BY <1>1 DEF StartDownloadJob, Submit
  <2> QED BY <2>1 DEF SNext
<1>2. ASSUME PauseDownload(j) PROVE SNext
  <2>1. Release(j, "paused") /\ Idle /\ status[j] = "running"
    BY <1>2 DEF PauseDownload
  <2> QED BY <2>1, ReleaseIsEnding DEF Settled
<1>3. ASSUME PauseQueued(j) PROVE SNext
  <2>1. WithdrawJob(j, "paused")
    BY <1>3 DEF PauseQueued, WithdrawJob
  <2> QED BY <2>1 DEF SNext, Settled
<1>4. ASSUME ResumeDownloadJob(j) PROVE SNext
  BY <1>4 DEF ResumeDownloadJob, ResumeJob, SNext
<1>5. ASSUME CancelQueued(j) PROVE SNext
  <2>1. WithdrawJob(j, "cancelled")
    BY <1>5 DEF CancelQueued, WithdrawJob
  <2> QED BY <2>1 DEF SNext, Settled
<1>6. ASSUME CancelDownload(j) PROVE SNext
  <2>1. Release(j, "cancelled") /\ Idle /\ status[j] \in {"running", "paused"} /\ SInv
    BY <1>6 DEF CancelDownload, DInv
  <2>2. status[j] = "paused" => ~queued[j]
    BY DEF DInv, MarksAgree
  <2> QED BY <2>1, <2>2, ReleaseIsEnding, CancelPausedIsWithdrawal DEF Settled
<1>7. ASSUME CancelSaving(j) PROVE UNCHANGED svars
  BY <1>7 DEF CancelSaving
<1>8. ASSUME DeleteDownload(j) PROVE SNext
  BY <1>8 DEF DeleteDownload, SNext
<1> QED BY <1>1, <1>2, <1>3, <1>4, <1>5, <1>6, <1>7, <1>8 DEF DUser

LEMMA DStepRefines ==
  ASSUME DInv, [DNext]_dvars
  PROVE  [SNext]_svars
<1>1. ASSUME NEW j \in Jobs, SourceChanges(j) PROVE UNCHANGED svars
  BY <1>1 DEF SourceChanges
<1>2. ASSUME NEW k \in Kinds, DDrain(k) PROVE SNext
  BY <1>2 DEF DDrain, RunDownloadJob, RunThrows, DrainStep, SNext
<1>3. ASSUME NEW l \in [Kinds -> Limits], ChangeSettings(l) PROVE SNext
  BY <1>3 DEF SNext
<1>4. ASSUME UNCHANGED dvars PROVE UNCHANGED svars
  BY <1>4 DEF dvars
<1> QED BY <1>1, <1>2, <1>3, <1>4, RunStepRefines, UserStepRefines DEF DNext

-----------------------------------------------------------------------------
(* The invariant. *)

LEMMA DInitInv ==
  ASSUME MaxChanges = 0, DInit
  PROVE  DInv
<1>1. SInv /\ MarksAgree
  BY SInitInv DEF DInit, SInit, MarksAgree
<1> DEFINE x == [phase |-> "", canPause |-> FALSE, size |-> Unknown, initial |-> Unknown,
                 changed |-> FALSE, owner |-> 0, saved |-> FALSE, resumes |-> 0]
<1>2. /\ x.resumes = 0 /\ x.size = Unknown /\ x.initial = Unknown /\ x.canPause = FALSE
      /\ NoRun.pc = "none"
  BY DEF NoRun
<1>3. x \in LoadObjects
  <2>1. 0 \in 0..(MaxResumes + 1) /\ Unknown \in Int /\ "" \in Phases
    BY DownloadAssumption DEF Unknown, Phases
  <2> QED BY <2>1 DEF LoadObjects
<1>4. NoRun \in RunRecords
  BY DEF NoRun, RunRecords, Places
<1>5. PICK n \in Sizes : source = [j \in Jobs |-> [ver |-> 0, len |-> n]]
  BY DEF DInit
<1>6. n \in Nat
  BY DownloadAssumption
<1>7. load = [j \in Jobs |-> x] /\ run = [j \in Jobs |-> [r \in Runs |-> NoRun]]
      /\ temp = [j \in Jobs |-> <<>>] /\ \A j \in Jobs : status[j] = "absent"
  BY DEF DInit, SInit
<1> HIDE DEF x
<1>8. DTypes
  BY <1>3, <1>4, <1>5, <1>6, <1>7, FilesTyped DEF DTypes, Constant
<1>9. ASSUME NEW j \in Jobs
      PROVE  /\ load[j].resumes <= MaxResumes
             /\ JobOK(source[j].len, status[j], load[j], temp[j])
             /\ \A r \in Runs : RunOK(source[j].len, status[j], load[j], r, run[j][r], temp[j])
  <2>1. load[j] = x /\ temp[j] = <<>> /\ source[j].len = n /\ status[j] = "absent"
        /\ \A r \in Runs : run[j][r] = NoRun
    BY <1>5, <1>7
  <2>2. InPlace(n, <<>>)
    BY <1>6, EmptyInPlace
  <2>3. Unknown # n
    BY <1>6 DEF Unknown
  <2>4. JobOK(n, "absent", x, <<>>)
    BY <1>2, <2>2, <2>3 DEF JobOK
  <2>5. \A r \in Runs : RunOK(n, "absent", x, r, NoRun, <<>>)
    BY <1>2 DEF RunOK, Rest, Asking
  <2>6. 0 <= MaxResumes
    BY DownloadAssumption
  <2> QED BY <1>2, <2>1, <2>4, <2>5, <2>6
<1> QED BY <1>1, <1>8, <1>9 DEF DInv

LEMMA DNextInv ==
  ASSUME MaxChanges = 0, DInv, [DNext]_dvars
  PROVE  DInv'
<1>1. SInv' /\ MarksAgree'
  <2>1. [SNext]_svars /\ SInv /\ MarksAgree
    BY DStepRefines DEF DInv
  <2> QED BY <2>1, SNextInv, MarksStayRight, DownloadAssumption
<1>2. ASSUME NEW j \in Jobs, DRunStep(j) PROVE DInv'
  <2>1. PICK r \in Runs :
          \/ SizeArrives(j, r) \/ SameSize(j, r) \/ OtherSize(j, r) \/ SizeFails(j, r)
          \/ PipeReads(j, r) \/ PipeEnds(j, r) \/ PipeFails(j, r)
          \/ FinalSize(j, r) \/ StaleFinalSize(j, r) \/ SaveEnds(j, r)
    BY <1>2 DEF DRunStep
  <2>2. CASE SizeArrives(j, r) \/ SizeFails(j, r)
    BY <1>1, <2>2, SizeArrivesKeepsInv, SizeFailsKeepsInv
  <2>3. CASE SameSize(j, r) \/ PipeFails(j, r) \/ SaveEnds(j, r)
    BY <1>1, <2>3, EndsKeepInv
  <2>4. CASE PipeReads(j, r) \/ PipeEnds(j, r)
    BY <1>1, <2>4, PipeReadsKeepsInv, PipeEndsKeepsInv
  <2>5. CASE FinalSize(j, r) \/ StaleFinalSize(j, r)
    BY <1>1, <2>5, FinalSizeKeepsInv, StaleFinalSizeKeepsInv
  <2> QED BY <2>1, <2>2, <2>3, <2>4, <2>5, NoOtherSize
<1>3. ASSUME NEW j \in Jobs, DUser(j) PROVE DInv'
  BY <1>1, <1>3, UserKeepsInv
<1>4. ASSUME NEW j \in Jobs PROVE ~SourceChanges(j)
  <2>1. source[j].ver = 0
    BY JobFacts DEF Constant
  <2> QED BY <2>1 DEF SourceChanges
<1>5. ASSUME NEW k \in Kinds, DDrain(k) PROVE DInv'
  <2>1. CASE RunDownloadJob(k) \/ RunThrows(k)
    BY <1>1, <2>1, RunDownloadJobKeepsInv, RunThrowsKeepsInv
  <2>2. CASE (SkipHead(k) \/ DrainDone(k) \/ ReleaseCallback(k)) /\ UNCHANGED <<load, run, temp, source>>
    BY <1>1, <2>2, NothingChanges DEF SkipHead, DrainDone, ReleaseCallback
  <2> QED BY <1>5, <2>1, <2>2 DEF DDrain
<1>6. ASSUME NEW l \in [Kinds -> Limits], ChangeSettings(l), UNCHANGED <<load, run, temp, source>> PROVE DInv'
  BY <1>1, <1>6, NothingChanges DEF ChangeSettings
<1>7. ASSUME UNCHANGED dvars PROVE DInv'
  BY <1>1, <1>7, NothingChanges DEF dvars, svars
<1> QED BY <1>2, <1>3, <1>4, <1>5, <1>6, <1>7 DEF DNext

(* The inductive invariant holds as long as the sources do not change.      *)
THEOREM DownloadInvariant == MaxChanges = 0 => (DSafety => []DInv)
<1> SUFFICES ASSUME MaxChanges = 0 PROVE DSafety => []DInv
  OBVIOUS
<1>1. DInit => DInv
  BY DInitInv
<1>2. DInv /\ [DNext]_dvars => DInv'
  BY DNextInv
<1> QED BY <1>1, <1>2, PTL DEF DSafety

(* As long as the sources do not change, every step of a download is one    *)
(* the scheduler allows its job engine: no late answer settles a job that   *)
(* was paused, cancelled or deleted, or gives back a slot that is not its   *)
(* own.                                                                     *)
THEOREM DownloadsImplementScheduler == MaxChanges = 0 => (DSafety => ImplementsScheduler)
<1> SUFFICES ASSUME MaxChanges = 0 PROVE DSafety => SSafety
  BY DEF ImplementsScheduler
<1>1. DInit => SInit
  BY DEF DInit
<1>2. DInv /\ [DNext]_dvars => [SNext]_svars
  BY DStepRefines
<1>3. DSafety => []DInv
  BY DownloadInvariant
<1> QED BY <1>1, <1>2, <1>3, PTL DEF DSafety, SSafety

(* However often a download was paused, failed and resumed behind what it   *)
(* already had, one closure at most writes to its temporary file, the       *)
(* blocks are in their places, and "done" means the whole file.             *)
THEOREM DoneDownloadsAreWhole == MaxChanges = 0 => (DSafety => []DoneIsWhole)
<1>1. ASSUME DInv PROVE DoneIsWhole
  <2> SUFFICES ASSUME NEW j \in Jobs
               PROVE  /\ \A p \in DOMAIN temp[j] : temp[j][p][2] = p
                      /\ Cardinality({r \in Runs : run[j][r].pc = "pipe"}) <= 1
                      /\ status[j] = "done" /\ source[j].ver = 0 => Len(temp[j]) = source[j].len
    BY DEF DoneIsWhole
  <2>1. JobOK(source[j].len, status[j], load[j], temp[j])
    BY <1>1, JobFacts
  <2>2. Cardinality({r \in Runs : run[j][r].pc = "pipe"}) <= 1
    <3> DEFINE writers == {r \in Runs : run[j][r].pc = "pipe"}
               n == Current(load[j])
    <3>1. writers \in SUBSET {n}
      BY <1>1, OthersRest DEF Rest
    <3>2. IsFiniteSet({n}) /\ Cardinality({n}) = 1
      BY FS_Singleton
    <3> HIDE DEF writers, n
    <3>3. Cardinality(writers) <= Cardinality({n})
      BY <3>1, <3>2, FS_Subset
    <3> QED BY <3>2, <3>3 DEF writers
  <2> QED BY <2>1, <2>2 DEF JobOK, InPlace
<1> QED BY <1>1, DownloadInvariant, PTL

(* A cancelled download may run on only through a second size query.  The   *)
(* sources may change here, so all this rests on is that jobs have statuses. *)
StatusTyped == status \in [Jobs -> Statuses]
StaysOver(j) == status[j] = "cancelled" => status'[j] \in {"cancelled", "absent"} \/ \E r \in Runs : OtherSize(j, r)

LEMMA OneJobChanges ==
  ASSUME StatusTyped, NEW i \in Jobs, NEW s \in Statuses, status' = [status EXCEPT ![i] = s],
         status[i] = "cancelled" => s \in {"cancelled", "absent"}
  PROVE  StatusTyped' /\ \A j \in Jobs : StaysOver(j)
<1>1. \A j \in Jobs : status'[j] = IF j = i THEN s ELSE status[j]
  BY DEF StatusTyped
<1> QED BY <1>1 DEF StatusTyped, StaysOver

LEMMA NoJobChanges ==
  ASSUME StatusTyped, status' = status
  PROVE  StatusTyped' /\ \A j \in Jobs : StaysOver(j)
BY DEF StatusTyped, StaysOver

(* The closure's `finish`, for any verdict. *)
LEMMA FinishStaysOver ==
  ASSUME StatusTyped, NEW i \in Jobs, NEW r, NEW l, NEW s \in {"done", "failed"}, Finish(i, r, l, s)
  PROVE  StatusTyped' /\ \A j \in Jobs : StaysOver(j)
<1>1. CASE Stopped(i) \/ (s = "done" /\ i \in Desktop)
  <2>1. status' = status
    BY <1>1 DEF Finish, StartsSaving, svars
  <2> QED BY <2>1, NoJobChanges
<1>2. CASE ~Stopped(i) /\ ~(s = "done" /\ i \in Desktop)
  <2>1. status' = [status EXCEPT ![i] = s] /\ status[i] # "cancelled"
    BY <1>2 DEF Finish, Finalizes, Release, EndWith, Stopped
  <2> QED BY <2>1, OneJobChanges DEF Statuses
<1> QED BY <1>1, <1>2

LEMMA StepStaysOver ==
  ASSUME StatusTyped, [DNext]_dvars
  PROVE  StatusTyped' /\ \A j \in Jobs : StaysOver(j)
<1> DEFINE Over == StatusTyped' /\ \A j \in Jobs : StaysOver(j)
<1>1. ASSUME NEW i \in Jobs, NEW r \in Runs, SizeArrives(i, r) \/ PipeReads(i, r) \/ PipeEnds(i, r) \/ StaleFinalSize(i, r)
      PROVE  Over
  <2>1. status' = status
    BY <1>1 DEF SizeArrives, PipeReads, PipeEnds, StaleFinalSize, svars
  <2> QED BY <2>1, NoJobChanges
<1>2. ASSUME NEW i \in Jobs, NEW r \in Runs, SameSize(i, r) \/ PipeFails(i, r) PROVE Over
  BY <1>2, FinishStaysOver DEF SameSize, PipeFails
<1>3. ASSUME NEW i \in Jobs, NEW r \in Runs, FinalSize(i, r) PROVE Over
  <2>1. PICK l, s : s \in {"done", "failed"} /\ Finish(i, r, l, s)
    BY <1>3 DEF FinalSize, Verdict
  <2> QED BY <2>1, FinishStaysOver
<1>4. ASSUME NEW i \in Jobs, NEW r \in Runs, OtherSize(i, r) PROVE Over
  <2>1. \A j \in Jobs : j # i => status'[j] = status[j]
    BY <1>4 DEF OtherSize, StatusTyped, svars
  <2>2. status' \in [Jobs -> Statuses]
    BY <1>4 DEF OtherSize, StatusTyped, Statuses, svars
  <2> QED BY <1>4, <2>1, <2>2 DEF StatusTyped, StaysOver
<1>5. ASSUME NEW i \in Jobs, NEW r \in Runs, SizeFails(i, r) PROVE Over
  <2>1. CASE Stopped(i)
    BY <1>5, <2>1, NoJobChanges DEF SizeFails, svars
  <2>2. CASE ~Stopped(i)
    BY <1>5, <2>2, OneJobChanges DEF SizeFails, Release, EndWith, Stopped, Statuses
  <2> QED BY <2>1, <2>2
<1>6. ASSUME NEW i \in Jobs, NEW r \in Runs, SaveEnds(i, r) PROVE Over
  <2>1. \/ status' = [status EXCEPT ![i] = "cancelled"]
        \/ status[i] # "cancelled" /\ status' = [status EXCEPT ![i] = "done"]
    BY <1>6 DEF SaveEnds, Finalizes, Release, EndWith
  <2> QED BY <2>1, OneJobChanges DEF Statuses
<1>7. ASSUME NEW i \in Jobs, DUser(i) PROVE Over
  <2>1. CASE CancelSaving(i)
    BY <2>1, NoJobChanges DEF CancelSaving, svars
  <2>2. CASE CancelQueued(i) \/ CancelDownload(i)
    <3>1. status' = [status EXCEPT ![i] = "cancelled"]
      BY <2>2 DEF CancelQueued, CancelDownload, Withdraw, Release, EndWith
    <3> QED BY <3>1, OneJobChanges DEF Statuses
  <2>3. CASE PauseDownload(i) \/ PauseQueued(i)
    <3>1. status' = [status EXCEPT ![i] = "paused"] /\ status[i] # "cancelled"
      BY <2>3 DEF PauseDownload, PauseQueued, Withdraw, Release, EndWith
    <3> QED BY <3>1, OneJobChanges DEF Statuses
  <2>4. CASE StartDownloadJob(i) \/ ResumeDownloadJob(i)
    <3>1. status' = [status EXCEPT ![i] = "pending"] /\ status[i] # "cancelled"
      BY <2>4 DEF StartDownloadJob, ResumeDownloadJob, QueueTransferJob
    <3> QED BY <3>1, OneJobChanges DEF Statuses
  <2>5. CASE DeleteDownload(i)
    <3>1. status' = [status EXCEPT ![i] = "absent"]
      BY <2>5 DEF DeleteDownload, DeleteJob
    <3> QED BY <3>1, OneJobChanges DEF Statuses
  <2> QED BY <1>7, <2>1, <2>2, <2>3, <2>4, <2>5 DEF DUser
<1>8. ASSUME NEW k \in Kinds, DDrain(k) PROVE Over
  <2> DEFINE h == Head(queue[k])
  <2>1. CASE RunDownloadJob(k) \/ RunThrows(k)
    <3>1. PICK s \in {"running", "failed"} : status' = [status EXCEPT ![h] = s] /\ status[h] = "pending"
      BY <2>1 DEF RunDownloadJob, RunThrows, AdmitHead, FailHead, Startable
    <3>2. \A j \in Jobs : status'[j] = IF j = h THEN s ELSE status[j]
      BY <3>1 DEF StatusTyped
    <3>3. status' \in [Jobs -> Statuses]
      BY <3>1 DEF StatusTyped, Statuses
    <3> QED BY <3>1, <3>2, <3>3 DEF StatusTyped, StaysOver
  <2>2. CASE SkipHead(k) \/ DrainDone(k) \/ ReleaseCallback(k)
    BY <2>2, NoJobChanges DEF SkipHead, DrainDone, ReleaseCallback
  <2> QED BY <1>8, <2>1, <2>2 DEF DDrain
<1>9. CASE UNCHANGED dvars \/ (\E j \in Jobs : SourceChanges(j)) \/ (\E l \in [Kinds -> Limits] : ChangeSettings(l))
  <2>1. status' = status
    BY <1>9 DEF SourceChanges, ChangeSettings, dvars, svars
  <2> QED BY <2>1, NoJobChanges
<1> QED BY <1>1, <1>2, <1>3, <1>4, <1>5, <1>6, <1>7, <1>8, <1>9 DEF DNext, DRunStep

(* A cancelled download is over, however its source changes, unless it was  *)
(* cancelled while a second size query was under way and the answer is       *)
(* another size; that it then runs on is what the engine does wrong.         *)
THEOREM OnlyAnotherSizeRevives ==
  DSafety => [][\A j \in Jobs : status[j] = "cancelled" =>
                 status'[j] \in {"cancelled", "absent"} \/ \E r \in Runs : OtherSize(j, r)]_dvars
<1>1. DInit => StatusTyped
  BY DEF DInit, SInit, StatusTyped, Statuses
<1>2. StatusTyped /\ [DNext]_dvars => StatusTyped'
  BY StepStaysOver
<1>3. StatusTyped /\ [DNext]_dvars
      => [\A j \in Jobs : status[j] = "cancelled" =>
            status'[j] \in {"cancelled", "absent"} \/ \E r \in Runs : OtherSize(j, r)]_dvars
  BY StepStaysOver DEF StaysOver
<1> QED BY <1>1, <1>2, <1>3, PTL DEF DSafety

(* Job objects, closures and temporary files are of their types.            *)
THEOREM DownloadTypesCorrect == MaxChanges = 0 => (DSafety => []DTypeOK)
<1> SUFFICES ASSUME MaxChanges = 0 PROVE DSafety => []DTypeOK
  OBVIOUS
<1>1. ASSUME DInv PROVE DTypeOK
  <2> SUFFICES ASSUME NEW j \in Jobs
               PROVE  /\ load[j].phase \in Phases
                      /\ load[j].owner \in 0..(MaxResumes + 1)
                      /\ \A r \in Runs : run[j][r].pc \in Places
                      /\ \A p \in DOMAIN temp[j] : temp[j][p][1] \in 0..MaxChanges
    BY <1>1 DEF DTypeOK, DInv, SInv, Phases, Places
  <2>1. load[j] \in LoadObjects /\ (\A r \in Runs : run[j][r] \in RunRecords) /\ temp[j] \in Files
    BY <1>1, JobFacts
  <2>2. \A p \in DOMAIN temp[j] : temp[j][p] \in {0} \X Nat
    BY <2>1 DEF Files
  <2>3. \A p \in DOMAIN temp[j] : temp[j][p][1] \in 0..MaxChanges
    BY <1>1, <2>2
  <2> QED BY <2>1, <2>3 DEF LoadObjects, RunRecords
<1> QED BY <1>1, DownloadInvariant, PTL
=============================================================================
