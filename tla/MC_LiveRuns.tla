---------------------------- MODULE MC_LiveRuns ----------------------------
(* LiveRuns for TLC; the .cfg files choose the bounds. *)
EXTENDS LiveRuns
=============================================================================
