---------------------------- MODULE MC_RunGraph ----------------------------
(* RunGraph for TLC: stages 2 and 3, branches 11 and 12, their stages 21    *)
(* to 24.                                                                  *)
EXTENDS RunGraph

Stage(n, branches) == [name |-> n, orphan |-> FALSE, branches |-> branches]
Orphan(branches) == [name |-> ParallelName, orphan |-> TRUE, branches |-> branches]
Branch(n, inner) == [name |-> n, inner |-> inner]

(* Two branches of stages of their own; one such branch and one without;    *)
(* the same branch in two stages; and a parallel step outside of its        *)
(* stages, with a stage of the name the synthetic one gets.                 *)
MCPipelines ==
  {<<Stage(2, <<Branch(12, <<21, 22>>), Branch(11, <<23, 24>>)>>)>>,
   <<Stage(2, <<Branch(12, <<21, 22>>), Branch(11, <<>>)>>), Stage(3, <<>>)>>,
   <<Stage(2, <<Branch(12, <<21, 22>>)>>), Stage(3, <<Branch(12, <<21, 22>>)>>)>>,
   <<Orphan(<<Branch(12, <<>>), Branch(11, <<>>)>>), Stage(ParallelName, <<>>), Stage(3, <<>>)>>}
=============================================================================
