--------------------------- MODULE MCConnections ----------------------------
(***************************************************************************)
(* What is kept for SSH connections: their secrets, their port forwards,   *)
(* the shared SFTP client with its pooled channels, and the range cache of *)
(* a remote file that is dragged or previewed.  The four share no state    *)
(* that they write; one run checks them side by side, each behaviour being *)
(* one of SecretKeys, Forwards, SftpSessions or RangeCache.                *)
(*                                                                         *)
(* Forward 1 is carried by the built-in client, forward 2 by an ssh child. *)
(***************************************************************************)
EXTENDS SecretKeys, Forwards, SftpSessions, RangeCache, TLC

CONSTANTS q1, q2, r1, r2
MCOne == {1}
MCTwo == {2}
MCRequests == {q1, q2}
MCReaders == {r1, r2}
Symmetry == Permutations(MCRequests) \cup Permutations(MCReaders)

VARIABLE part
cvars == <<part, kvars, fvars, pvars, rvars>>

CInit == part \in {"secrets", "forwards", "sessions", "cache"} /\ KInit /\ FInit /\ PInit /\ RInit
CNext ==
  \/ part = "secrets"  /\ KNext /\ UNCHANGED <<part, fvars, pvars, rvars>>
  \/ part = "forwards" /\ FNext /\ UNCHANGED <<part, kvars, pvars, rvars>>
  \/ part = "sessions" /\ PNext /\ UNCHANGED <<part, kvars, fvars, rvars>>
  \/ part = "cache"    /\ RNext /\ UNCHANGED <<part, kvars, fvars, pvars>>
CSpec == CInit /\ [][CNext]_cvars
=============================================================================
