---------------------------- MODULE MC_Favorites ----------------------------
(* Favorites with a plain job, and a pipeline and its primary branch. *)
EXTENDS Favorites, TLC

CONSTANTS job, branch, pipeline

MCJobs == {job, branch}
MCItems == {job, branch, pipeline}
MCJobOf == [i \in MCItems |-> IF i = pipeline THEN branch ELSE i]
\* The buttons of the pipeline and of its branch do the same.
MCSymmetry == Permutations(MCJobs)
=============================================================================
