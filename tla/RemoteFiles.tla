---------------------------- MODULE RemoteFiles ----------------------------
(***************************************************************************)
(* Files as sequences of blocks, and what a write does to them.  A source  *)
(* file is 1, 2, ..., n; a block of another value, or out of place, is     *)
(* content the source never had there.                                     *)
(***************************************************************************)
EXTENDS Integers, Sequences

NoFile == <<-1>>

Source(n) == [b \in 1..n |-> b]

(* Block b at position i; a gap is filled with zeros. *)
WriteAt(file, i, b) ==
  [k \in 1..(IF i > Len(file) THEN i ELSE Len(file)) |->
     IF k = i THEN b ELSE IF k <= Len(file) THEN file[k] ELSE 0]

(* The next block w.lo of a writer: at its own offset, or at the end of the *)
(* file when it was opened for appending.                                   *)
Written(file, w) == IF w.app THEN Append(file, w.lo) ELSE WriteAt(file, w.lo, w.lo)
=============================================================================
