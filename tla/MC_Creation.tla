---------------------------- MODULE MC_Creation ----------------------------
(* An instance of Creation for TLC: two organizations, one of them with a  *)
(* second page of repositories.                                            *)
EXTENDS Creation, TLC

CONSTANTS A, B

MCFlows == {"github", "bitbucket-server", "git"}
MCPagesOf == A :> 2 @@ B :> 1
=============================================================================
