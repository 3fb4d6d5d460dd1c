----------------------------- MODULE MCForwards -----------------------------
(* Bounded instances of the forwards: 1 is built in, 2 is an ssh child. *)
EXTENDS Forwards

MCNone == {}
MCOne == {1}
MCTwo == {2}
MCBoth == {1, 2}
=============================================================================
