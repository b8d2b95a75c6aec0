----------------------------- MODULE MC_Editor -----------------------------
(***************************************************************************)
(* A Jenkinsfile of one stage, with a container (2) that holds a step (3), *)
(* and a step (4).                                                         *)
(***************************************************************************)
EXTENDS Editor

MCFiles ==
  {[EmptyPipeline EXCEPT !.branches[Root] = <<1>>,
                         !.steps[1] = <<2, 4>>, !.steps[2] = <<3>>,
                         !.containers = {2}]}
=============================================================================
