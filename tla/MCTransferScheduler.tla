------------------------ MODULE MCTransferScheduler ------------------------
(* Bounded instance of the scheduler: three uploads, so that the queue has a *)
(* head, a middle and a tail.                                                *)
EXTENDS TransferScheduler, TLC

CONSTANTS u1, u2, u3

MCJobs == {u1, u2, u3}
MCKinds == {"upload"}
MCFailInQueue == {u1}
MCKindOf == [j \in MCJobs |-> "upload"]
=============================================================================
