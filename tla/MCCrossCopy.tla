---------------------------- MODULE MCCrossCopy ----------------------------
(* Bounded instances of the cross-host copy. *)
EXTENDS CrossCopy, TLC

CONSTANTS x1, x2

MCKinds == {"download"}
MCOne == {x1}
MCTwo == {x1, x2}
MCNone == {}
MCOneKindOf == [j \in MCOne |-> "download"]
MCTwoKindOf == [j \in MCTwo |-> "download"]
=============================================================================
