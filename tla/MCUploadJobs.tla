---------------------------- MODULE MCUploadJobs ----------------------------
(* Bounded instances of the upload engine. *)
EXTENDS UploadJobs, TLC

CONSTANTS local1, browser1

MCKinds == {"upload"}
MCBoth == {local1, browser1}
MCBothKindOf == [j \in MCBoth |-> "upload"]
MCNone == {}
MCLocal == {local1}
MCBrowser == {browser1}
MCLocalKindOf == [j \in MCLocal |-> "upload"]
MCBrowserKindOf == [j \in MCBrowser |-> "upload"]
=============================================================================
