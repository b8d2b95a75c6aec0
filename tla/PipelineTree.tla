---------------------------- MODULE PipelineTree ----------------------------
(***************************************************************************)
(* A pipeline as the editor holds it, and what PipelineStore does to it.   *)
(*                                                                         *)
(* A node is the number its object was given (idgen); Root is the pipeline *)
(* itself.  Stages are found below the root by `branches', the steps of a  *)
(* stage, and the steps in a step that is a container, by `steps'.         *)
(* `settings' stands for the agent, the environment and the sections the   *)
(* editor does not know.  Names are left out.                              *)
(***************************************************************************)
EXTENDS Naturals, Sequences, SequencesExt, FiniteSets

CONSTANT MaxId    \* bound: the number of nodes

ASSUME MaxIdAssumption == MaxId \in Nat \ {0}

Root == 0
Nodes == 0..MaxId

Pipelines == [branches   : [Nodes -> Seq(Nodes)],
              steps      : [Nodes -> Seq(Nodes)],
              containers : SUBSET Nodes,
              settings   : [Nodes -> {0, 1}],
              pristine   : SUBSET Nodes]

EmptyPipeline == [branches |-> [n \in Nodes |-> <<>>], steps |-> [n \in Nodes |-> <<>>],
                  containers |-> {}, settings |-> [n \in Nodes |-> 0], pristine |-> {}]

-----------------------------------------------------------------------------
(* What is found from a node *)

Below(f, n) ==
  LET closure[S \in SUBSET Nodes] ==
        LET more == S \cup UNION {Range(f[m]) : m \in S}
        IN IF more = S THEN S ELSE closure[more]
  IN closure[Range(f[n])]

Stages(p) == Below(p.branches, Root)
Inside(p, n) == Below(p.steps, n)
Steps(p) == UNION {Inside(p, s) : s \in Stages(p)}

Childless(p, s) == p.branches[s] = <<>>

(* What the server is sent, and what two pipelines are compared by: the    *)
(* tree without the marks.  A stage that has branches sends no steps.      *)
Json(p) ==
  LET sent == [n \in {Root} \cup Stages(p) \cup Steps(p) |->
                 IF n \in Stages(p) /\ ~Childless(p, n) THEN <<>> ELSE p.steps[n]]
  IN [n \in DOMAIN sent |-> <<p.branches[n], sent[n], p.settings[n]>>]

HasPristineEdits(p) == p.pristine \cap Steps(p) # {}

CleanPristine(p, cleaned) == [p EXCEPT !.pristine = @ \ cleaned]

(* The server asks for a stage, and for steps in each that has no branches *)
Valid(p) == /\ ~Childless(p, Root)
            /\ \A s \in Stages(p) : Childless(p, s) => p.steps[s] # <<>>

(* Every node has one place *)
OneParent(p) ==
  LET in == {Root} \cup Stages(p) \cup Steps(p)
  IN /\ Stages(p) \cap Steps(p) = {}
     /\ Root \notin Stages(p) \cup Steps(p)
     /\ \A f \in {p.branches, p.steps}, m \in in :
          /\ Cardinality(Range(f[m])) = Len(f[m])
          /\ \A n \in in \ {m} : Range(f[m]) \cap Range(f[n]) = {}

-----------------------------------------------------------------------------
(* The functions of PipelineStore *)

FindParentStage(p, s) ==
  CHOOSE m \in {Root} \cup Stages(p) : s \in Range(p.branches[m])

(* The node whose list a step is in: its container, or its stage *)
FindParent(p, x) ==
  CHOOSE m \in Stages(p) \cup Steps(p) : x \in Range(p.steps[m])

FindStageByStep(p, x) == CHOOSE s \in Stages(p) : x \in Inside(p, s)

CreateSequentialStage(p, new) == [p EXCEPT !.branches[Root] = Append(@, new)]

(* from, to: moveStageProperties *)
Moved(p, from, to) ==
  [p EXCEPT !.steps = [@ EXCEPT ![to] = p.steps[from], ![from] = <<>>],
            !.settings = [@ EXCEPT ![to] = p.settings[from], ![from] = 0]]

(* Faulty variant: the steps stay with the parent *)
CreateParallelStageLeavesSteps(p, parent, zeroth, new) ==
  [p EXCEPT !.branches[parent] =
     IF Childless(p, parent) THEN <<zeroth, new>> ELSE Append(@, new)]

(* A stage with steps of its own becomes the parent of two branches, the   *)
(* first of which, `zeroth', gets what it had.                             *)
CreateParallelStage(p, parent, zeroth, new) ==
  IF Childless(p, parent)
  THEN [Moved(p, parent, zeroth) EXCEPT !.branches[parent] = <<zeroth, new>>]
  ELSE [p EXCEPT !.branches[parent] = Append(@, new)]

(* The branch that is left alone is merged into its parent, whose children *)
(* then are none, those of the branch being dropped.                       *)
DeleteStageFrom(p, s) ==
  LET parent == FindParentStage(p, s)
      left == RemoveFirst(p.branches[parent], s)
  IN IF parent # Root /\ Len(left) = 1
     THEN [Moved(p, left[1], parent) EXCEPT !.branches[parent] = <<>>]
     ELSE [p EXCEPT !.branches[parent] = left]

(* parent: the container, or the stage *)
AddStepTo(p, parent, new, container) ==
  [p EXCEPT !.steps[parent] = Append(@, new),
            !.containers = IF container THEN @ \cup {new} ELSE @]

DeleteStepFrom(p, x) == [p EXCEPT !.steps[FindParent(p, x)] = RemoveFirst(@, x)]

(* The drop zones: before and after a step, and first and last in a        *)
(* container; or last in the stage.                                        *)
Before == "BEFORE_ITEM"
After == "AFTER_ITEM"
FirstChild == "FIRST_CHILD"
LastChild == "LAST_CHILD"

Index(s, x) == CHOOSE i \in DOMAIN s : s[i] = x

(* Faulty variant: a step that becomes the first or the last child of      *)
(* another is not taken out                                                *)
MoveStepInCopies(p, x, target, position) ==
  CASE position = FirstChild -> [p EXCEPT !.steps[target] = Cons(x, @)]
    [] position = LastChild -> [p EXCEPT !.steps[target] = Append(@, x)]
    [] OTHER -> p

(* The step is taken out first.  A target in the step itself is then not   *)
(* found ("Stage not found") and the step is left out; put into its own    *)
(* children it is out as well.                                             *)
MoveStepIn(p, x, target, position) ==
  LET out == DeleteStepFrom(p, x)
  IN CASE position = FirstChild -> [out EXCEPT !.steps[target] = Cons(x, @)]
       [] position = LastChild -> [out EXCEPT !.steps[target] = Append(@, x)]
       [] OTHER ->
            IF target \in Inside(p, x) THEN out
            ELSE LET list == FindParent(out, target)
                     i == Index(out.steps[list], target)
                 IN [out EXCEPT !.steps[list] =
                       InsertAt(@, IF position = Before THEN i ELSE i + 1, x)]

(* findParentStep throws before the listeners are told *)
MoveThrows(p, x, target, position) ==
  position \in {Before, After} /\ target \in Inside(p, x)
=============================================================================
