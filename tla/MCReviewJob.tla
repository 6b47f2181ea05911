---- MODULE MCReviewJob ----
(* ReviewJob for TLC: one pull request's jobs, heads and attempts are few, *)
(* given by the .cfg files of the runs, with the bounds on disturbances.   *)
EXTENDS ReviewJob
====
