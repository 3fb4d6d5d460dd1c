--------------------------- MODULE MCDownloadJobs ---------------------------
(* Bounded instances of the download engine. *)
EXTENDS DownloadJobs, TLC

CONSTANTS web, desk

MCKinds == {"download"}
MCBoth == {web, desk}
MCNone == {}
MCWeb == {web}
MCDesk == {desk}
MCBothKindOf == [j \in MCBoth |-> "download"]
MCWebKindOf == [j \in MCWeb |-> "download"]
MCDeskKindOf == [j \in MCDesk |-> "download"]
MCNoneOrTwo == {0, 2}
MCOneToThree == 1..3
=============================================================================
