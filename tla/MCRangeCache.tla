---------------------------- MODULE MCRangeCache ----------------------------
(* Instances of the range cache alone, for what it does not keep. *)
EXTENDS RangeCache, TLC
CONSTANTS r1, r2
MCOneReader == {r1}
MCTwoReaders == {r1, r2}
ReaderSym == Permutations(MCTwoReaders)
=============================================================================
