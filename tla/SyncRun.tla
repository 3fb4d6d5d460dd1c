------------------------------ MODULE SyncRun -------------------------------
(***************************************************************************)
(* What a two-way sync does to one file (executeSync and the baseline of   *)
(* runAutomation, src/src/sftp-automations.ts), with users writing and     *)
(* deleting the file on both sides between and during the runs.            *)
(*                                                                         *)
(* A file is compared by its stamp (size and time); a write changes the    *)
(* stamp.  A listing and the baseline hold stamps: `base` says the stamp   *)
(* is the baseline's, `list` that it is still the one of the listing.      *)
(* compare_content is on, and files are small enough to be hashed.         *)
(***************************************************************************)
EXTENDS Integers, FiniteSets

CONSTANTS
  Contents,    \* contents a user may write
  Deletes,     \* propagate_deletes
  MaxEdits     \* bound on what users write and delete

ASSUME SyncAssumption ==
  /\ Deletes \in BOOLEAN /\ MaxEdits \in Nat /\ 0 \notin Contents

Sides == {"local", "remote"}
Other(s) == IF s = "local" THEN "remote" ELSE "local"
Absent == 0

VARIABLES
  side,      \* the file on each side
  listed,    \* what the run's trees say of it
  base,      \* the baseline: there is one; it has the file on a side; the hash
  sync,      \* the run: where it is, the side it works on, what it carries
  edits,     \* number of edits
  written,   \* history: the contents users wrote
  dropped,   \* history: the contents users deleted or wrote over
  copies,    \* history: the contents kept as conflict copies
  reported,  \* history: a conflict was found, and nobody has edited since
  disturbed  \* history: there was an edit during a run

svars == <<side, listed, base, sync, edits, written, dropped, copies, reported, disturbed>>
history == <<edits, written, dropped, reported, disturbed>>

FileOf(c) == [c |-> c, base |-> FALSE, list |-> FALSE]
NoFile == FileOf(Absent)
NotListed == [c |-> Absent, base |-> FALSE]
NoBase == [has |-> FALSE, of |-> [s \in Sides |-> FALSE], hash |-> Absent]
NoSync == [pc |-> "idle", to |-> "local", c |-> Absent]

SInit ==
  /\ side = [s \in Sides |-> NoFile] /\ listed = [s \in Sides |-> NotListed]
  /\ base = NoBase /\ sync = NoSync /\ edits = 0
  /\ written = {} /\ dropped = {} /\ copies = {} /\ reported = FALSE /\ disturbed = FALSE

-----------------------------------------------------------------------------
Edit(s, c) ==
  /\ edits < MaxEdits
  /\ ~(c = Absent /\ side[s].c = Absent)
  /\ edits' = edits + 1
  /\ side' = [side EXCEPT ![s] = FileOf(c)]
  /\ written' = written \cup ({c} \ {Absent})
  /\ dropped' = (dropped \cup ({side[s].c} \ {Absent})) \ {c}
  /\ reported' = FALSE
  /\ disturbed' = (disturbed \/ sync.pc # "idle")
  /\ UNCHANGED <<listed, base, sync, copies>>

-----------------------------------------------------------------------------
(* A run.  localTree and remoteTree run at the same time. *)

Goes(pc) == sync' = [sync EXCEPT !.pc = pc]

Begin ==
  /\ sync.pc = "idle" /\ Goes("listing")
  /\ listed' = [s \in Sides |-> NotListed]
  /\ side' = [s \in Sides |-> [side[s] EXCEPT !.list = FALSE]]
  /\ UNCHANGED <<base, history, copies>>

(* The tree of side s passes the file. *)
ListSide(s, pc, next) ==
  /\ sync.pc = pc
  /\ listed' = [listed EXCEPT ![s] = [c |-> side[s].c, base |-> side[s].base]]
  /\ side' = [side EXCEPT ![s].list = side[s].c # Absent]
  /\ Goes(next)
  /\ UNCHANGED <<base, history, copies>>

List ==
  \/ \E s \in Sides : ListSide(s, "listing", IF s = "local" THEN "left remote" ELSE "left local")
  \/ ListSide("remote", "left remote", "deciding") \/ ListSide("local", "left local", "deciding")

Has(s) == listed[s].c # Absent

(* Mutant: what the baseline does not have passes for unchanged. *)
ChangedIfKnown(s) == (base.of["local"] \/ base.of["remote"]) /\ ~listed[s].base
Changed(s) == IF base.of["local"] \/ base.of["remote"] THEN ~listed[s].base ELSE TRUE

Tracked == base.of["local"] /\ base.of["remote"]

(* Nothing is done to the file: the run is clean, or it is not. *)
Skip == Goes("clean")
GivesUp == sync' = NoSync

To(s, pc) == sync' = [sync EXCEPT !.pc = pc, !.to = s]

(* sameSyncContent reads the files as they are now, if the sizes listed are *)
(* the same: contents that differ may have the same size.                   *)
Same == side["local"].c = side["remote"].c
MayDiffer == ~Same \/ listed["local"].c # listed["remote"].c

Decide ==
  /\ sync.pc = "deciding"
  /\ \/ \E s \in Sides :                           \* on the other side only
          /\ Has(Other(s)) /\ ~Has(s)
          /\ IF Deletes /\ Tracked THEN To(Other(s), "checking") ELSE To(s, "adding")
     \/ /\ Has("local") /\ Has("remote")
        /\ IF ~Changed("local") /\ ~Changed("remote") THEN Skip
           ELSE \/ Same /\ side["local"].c # Absent /\ Skip
                \/ (\E s \in Sides : side[s].c = Absent) /\ GivesUp
                \/ /\ MayDiffer
                   /\ IF ~Changed("remote") THEN To("remote", "writing")
                      ELSE IF ~Changed("local") THEN To("local", "writing") ELSE Goes("conflict")
     \/ ~Has("local") /\ ~Has("remote") /\ Skip
  /\ UNCHANGED <<side, listed, base, history, copies>>

(* runUploadFile checks that the local file is the one listed; its target   *)
(* is looked at again, and an existing one is only replaced by "writing"    *)
(* (the conflict option is "skip").  runDownloadFile does the latter too.   *)
Source == Other(sync.to)

Fetch ==
  /\ sync.pc \in {"adding", "writing"}
  /\ IF \/ side[Source].c = Absent
        \/ Source = "local" /\ ~side["local"].list
     THEN GivesUp
     ELSE IF sync.pc = "adding" /\ side[sync.to].c # Absent THEN Skip
     ELSE sync' = [sync EXCEPT !.pc = "carrying", !.c = side[Source].c]
  /\ UNCHANGED <<side, listed, base, history, copies>>

(* The transfer ends: a new file replaces what is there by now. *)
Deliver ==
  /\ sync.pc = "carrying"
  /\ side' = [side EXCEPT ![sync.to] = FileOf(sync.c)]
  /\ sync' = [sync EXCEPT !.pc = "clean", !.c = Absent]
  /\ UNCHANGED <<listed, base, history, copies>>

TransferFails ==
  /\ sync.pc = "carrying" /\ GivesUp
  /\ UNCHANGED <<side, listed, base, history, copies>>

(* Mutant: a file that has changed since the baseline is deleted as well. *)
MatchesPresence == side[sync.to].c # Absent
(* matchesDeletionSnapshot: the stamp listed is the baseline's, the content *)
(* still has its hash.                                                      *)
MatchesDeletionSnapshot == listed[sync.to].base /\ base.hash # Absent /\ side[sync.to].c = base.hash

(* The file to be hashed is gone: a failure, not a conflict. *)
HashThrows == listed[sync.to].base /\ base.hash # Absent /\ side[sync.to].c = Absent

CheckDelete ==
  /\ sync.pc = "checking"
  /\ \/ MatchesDeletionSnapshot /\ Goes("deleting") /\ UNCHANGED reported
     \/ HashThrows /\ GivesUp /\ UNCHANGED reported
     \/ ~MatchesDeletionSnapshot /\ ~HashThrows /\ GivesUp /\ reported' = TRUE
  /\ UNCHANGED <<side, listed, base, edits, written, dropped, disturbed, copies>>

DeleteFile ==
  /\ sync.pc = "deleting"
  /\ IF side[sync.to].c = Absent THEN GivesUp /\ UNCHANGED side
     ELSE side' = [side EXCEPT ![sync.to] = NoFile] /\ Skip
  /\ UNCHANGED <<listed, base, history, copies>>

Copied == {side["local"].c, side["remote"].c} \ {Absent}

(* Both have changed: both are copied, on both sides, the local one first;  *)
(* what follows a copy that fails is not.  A run with a conflict stores no  *)
(* baseline.                                                                *)
KeepBoth ==
  /\ sync.pc = "conflict"
  /\ GivesUp
  /\ \E K \in SUBSET Copied : /\ K # {} => side["local"].c \in K
                             /\ copies' = copies \cup K
  /\ reported' = TRUE
  /\ UNCHANGED <<side, listed, base, edits, written, dropped, disturbed>>

-----------------------------------------------------------------------------
(* After a clean run the folders are listed again. *)
Relist ==
  \/ \E s \in Sides : ListSide(s, "clean", IF s = "local" THEN "again remote" ELSE "again local")
  \/ ListSide("remote", "again remote", "hashing") \/ ListSide("local", "again local", "hashing")

Stood(s) == side[s].c # Absent /\ side[s].list

(* baselineStateWithDeletionHashes: with propagate_deletes on, what both    *)
(* sides have is hashed, must be the same, and must not have changed since. *)
HashesNeeded == Deletes /\ Has("local") /\ Has("remote")

(* Mutant: the two hashes are not compared. *)
HashesTaken == side["local"].c # Absent /\ side["remote"].c # Absent
HashesAgree == side["local"].c # Absent /\ side["local"].c = side["remote"].c

Hash ==
  /\ sync.pc = "hashing"
  /\ IF ~HashesNeeded THEN Goes("storing")
     ELSE IF HashesAgree
          THEN sync' = [sync EXCEPT !.pc = "restat", !.c = side["local"].c]
          ELSE GivesUp
  /\ UNCHANGED <<side, listed, base, history, copies>>

Restat ==
  /\ sync.pc = "restat"
  /\ IF Stood("local") /\ Stood("remote") THEN Goes("storing") ELSE GivesUp
  /\ UNCHANGED <<side, listed, base, history, copies>>

(* saveBaseline: the stamps of the second listing are the baseline. *)
StoreBaseline ==
  /\ sync.pc = "storing"
  /\ base' = [has |-> TRUE, of |-> [s \in Sides |-> Has(s)], hash |-> IF HashesNeeded THEN sync.c ELSE Absent]
  /\ side' = [s \in Sides |-> [side[s] EXCEPT !.base = side[s].list]]
  /\ GivesUp
  /\ UNCHANGED <<listed, history, copies>>

RunSync ==
  \/ Begin \/ List \/ Decide \/ Fetch \/ Deliver \/ TransferFails \/ CheckDelete \/ DeleteFile \/ KeepBoth
  \/ Relist \/ Hash \/ Restat \/ StoreBaseline

SNext == RunSync \/ \E s \in Sides, c \in Contents \cup {Absent} : Edit(s, c)
SSafety == SInit /\ [][SNext]_svars

(* Runs are started again and again (Automations!RunsGoOn), and go on; a    *)
(* transfer that is tried again and again succeeds.                         *)
SFairness == WF_svars(RunSync) /\ SF_svars(Deliver)
SSpec == SSafety /\ SFairness

-----------------------------------------------------------------------------
STypeOK ==
  /\ side \in [Sides -> [c : Contents \cup {Absent}, base : BOOLEAN, list : BOOLEAN]]
  /\ listed \in [Sides -> [c : Contents \cup {Absent}, base : BOOLEAN]]
  /\ base.hash \in Contents \cup {Absent} /\ sync.to \in Sides /\ sync.c \in Contents \cup {Absent}

(* Two files the next run takes for unchanged, and skips, have the same     *)
(* content, whatever was written while the baseline was taken.              *)
UnchangedIsSame ==
  side["local"].base /\ side["remote"].base => side["local"].c = side["remote"].c

(* What a user wrote and did not himself delete or write over is still on   *)
(* one side, or in a conflict copy: as long as nobody edits during a run.   *)
Lost == written \ (dropped \cup copies \cup {side[s].c : s \in Sides} \cup {sync.c})
NothingLostBetweenRuns == ~disturbed => Lost = {}
(* The same, whatever users do during runs.                                 *)
NothingLost == Lost = {}

(* Once the users are done, the two sides become the same and stay so,      *)
(* unless a conflict has been found.                                        *)
Converges == <>[](side["local"].c = side["remote"].c \/ reported)

(* A conflict is copied once, not by every run that finds it.               *)
ConflictCopiedOnce == [][sync.pc = "conflict" /\ sync'.pc = "idle" => ~reported]_svars
=============================================================================
