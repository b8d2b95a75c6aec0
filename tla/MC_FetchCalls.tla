--------------------------- MODULE MC_FetchCalls ---------------------------
(* FetchCalls on two resources, one of which has a class to look up. *)
EXTENDS FetchCalls, TLC

CONSTANTS pipeline, run, c1, c2, workflowRun

MCUrls == {pipeline, run}
MCCalls == {c1, c2}
MCClasses == {workflowRun}
MCClassesOf == (pipeline :> {}) @@ (run :> {workflowRun})
=============================================================================
