---------------------------- MODULE MCBackground ----------------------------
(***************************************************************************)
(* What Terma does in the background: it keeps forwards alive, runs        *)
(* automations, and syncs folders in their runs.  The three share no       *)
(* state that they write; one run checks them side by side, each behaviour *)
(* being one of Forwards, of Automations or of SyncRun.                    *)
(***************************************************************************)
EXTENDS Forwards, Automations, SyncRun

VARIABLE part
bvars == <<part, fvars, avars, svars>>

MCNone == {}
MCOne == {1}
MCTwo == {2}

(* The parts that do not run rest where nothing has to happen. *)
BInit ==
  /\ part \in {"forwards", "automations", "sync"}
  /\ FInit /\ AInit /\ SInit
  /\ part # "automations" => task.shape = "never" /\ task.ahead
BNext ==
  \/ part = "forwards"    /\ FNext /\ UNCHANGED <<part, avars, svars>>
  \/ part = "automations" /\ ANext /\ UNCHANGED <<part, fvars, svars>>
  \/ part = "sync"        /\ SNext /\ UNCHANGED <<part, fvars, avars>>

(* FFairness, AFairness and SFairness, each for its part. *)
BFairness ==
  /\ \A f \in Forwards : SF_fvars(part = "forwards" /\ OpStep(f)) /\ WF_fvars(part = "forwards" /\ Answered(f))
  /\ WF_fvars(part = "forwards" /\ KeeperStep)
  /\ WF_avars(part = "automations" /\ TimePasses) /\ WF_avars(part = "automations" /\ Tick)
  /\ WF_avars(part = "automations" /\ RunStep)
  /\ WF_svars(part = "sync" /\ RunSync) /\ SF_svars(part = "sync" /\ Deliver)

BSpec == BInit /\ [][BNext]_bvars /\ BFairness
=============================================================================
