---------------------------- MODULE MCJobHistory ----------------------------
(* Bounded instances of the job history: jobs are 1, 2, 3. *)
EXTENDS JobHistory

MCThree == <<"browser", "upload", "cross-copy">>
MCTwo == <<"desktop", "browser">>
MCMixed == <<"desktop", "upload", "cross-copy">>
=============================================================================
