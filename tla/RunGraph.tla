------------------------------ MODULE RunGraph ------------------------------
(* The graph of a pipeline run, from the flow nodes of the run to the      *)
(* columns on the page: PipelineNodeGraphVisitor gathers the stages and     *)
(* branches that have started, PipelineNodeContainerImpl unites them with   *)
(* those of the last successful run, so that a run shows what is to come,   *)
(* and GraphNodeConverter.js lays out what the server has answered.         *)
(*                                                                         *)
(* A scripted pipeline is a sequence of items that run one after another:   *)
(* a stage, a stage whose body is one parallel step, or a parallel step     *)
(* outside of any stage ("orphan").  A branch has steps, or stages of its   *)
(* own that follow each other.  Branches run side by side, runs too.        *)
(* Jenkins numbers the nodes of a run as they start: a step that one run    *)
(* takes and another does not (Step), or branches that go on in another     *)
(* order, give a stage another id.                                          *)
(*                                                                         *)
(* Abstractions.  A name is a number, ordered as the names are; ids count   *)
(* the nodes the model knows.  What ForkScanner reports is taken as its     *)
(* outcome: the items last to first, the stages of a branch within it.      *)
(* Left out: declarative pipelines (labels, skipped stages), pipelines of   *)
(* old-style stages, parallel steps within branches, paused and queued      *)
(* nodes, times, actions, and the layout in pixels.                         *)
EXTENDS Integers, FiniteSets, SequencesExt

CONSTANTS
  Pipelines,  \* what the Jenkinsfile may say when a run begins
  MaxRuns,    \* bound on runs
  MaxSteps,   \* bound on further numbered nodes, in all runs
  MaxFailed   \* bound on steps that fail, in all runs

ASSUME GraphBounds == {MaxRuns, MaxSteps, MaxFailed} \subseteq Nat

Item == [name : Nat, orphan : BOOLEAN, branches : Seq([name : Nat, inner : Seq(Nat)])]

ASSUME PipelinesAssumption ==
  /\ Pipelines \subseteq Seq(Item)
  /\ \A p \in Pipelines : \A i \in DOMAIN p :
       /\ p[i].orphan => p[i].branches # <<>> /\ \A b \in ToSet(p[i].branches) : b.inner = <<>>
       /\ \A j, k \in DOMAIN p[i].branches :
            p[i].branches[j].name = p[i].branches[k].name => j = k

NoNode == 0           \* no id
Unknown == "null"   \* no result yet, and the state of what has not started
ParallelName == 0   \* PARALLEL_SYNTHETIC_STAGE_NAME

VARIABLES
  steps, failedSteps, \* so far
  run              \* the runs, the oldest first
graphVars == <<steps, failedSteps, run>>

-----------------------------------------------------------------------------
(* A run: its pipeline, the ids of what has started, how its leaves ended.  *)
(* A position is <<item>>, <<item, branch>> or <<item, branch, stage>>.     *)

Branches(q, i) == q.pipe[i].branches
Inner(q, i, j) == Branches(q, i)[j].inner

IsLeaf(q, pos) ==
  CASE Len(pos) = 1 -> Branches(q, pos[1]) = <<>>
    [] Len(pos) = 2 -> Inner(q, pos[1], pos[2]) = <<>>
    [] OTHER -> TRUE

Leaves(q) == {pos \in DOMAIN q.ids : IsLeaf(q, pos)}
Running(q) == Leaves(q) \ DOMAIN q.ended
FailedIn(q, pos) == \E l \in DOMAIN q.ended : IsPrefix(pos, l) /\ q.ended[l] = "FAILURE"

(* A branch ends with a stage that fails or with its last one; a parallel   *)
(* step when all its branches have ended.                                   *)
BranchEnded(q, i, j) ==
  \/ <<i, j>> \in DOMAIN q.ended
  \/ FailedIn(q, <<i, j>>)
  \/ Inner(q, i, j) # <<>> /\ <<i, j, Len(Inner(q, i, j))>> \in DOMAIN q.ended
Ended(q, pos) ==
  CASE Len(pos) = 1 /\ Branches(q, pos[1]) # <<>> ->
         \A j \in DOMAIN Branches(q, pos[1]) : BranchEnded(q, pos[1], j)
    [] Len(pos) = 2 -> BranchEnded(q, pos[1], pos[2])
    [] OTHER -> pos \in DOMAIN q.ended

State(q, pos) ==
  IF ~Ended(q, pos) THEN "RUNNING" ELSE IF FailedIn(q, pos) THEN "FAILURE" ELSE "SUCCESS"

HasStarted(q, i) == \E pos \in DOMAIN q.ids : pos[1] = i
ItemsStarted(q) == Cardinality({i \in DOMAIN q.pipe : HasStarted(q, i)})
InnerStarted(q, i, j) == Cardinality({pos \in DOMAIN q.ids : IsStrictPrefix(<<i, j>>, pos)})

-----------------------------------------------------------------------------
(* PipelineNodeGraphVisitor: the nodes of a run.                            *)

(* parallelStart: the branches in the order of their names *)
ByName(q, i) ==
  LET places == DOMAIN Branches(q, i)
  IN  CHOOSE order \in [places -> places] : \A x, y \in places :
        x < y => Branches(q, i)[order[x]].name < Branches(q, i)[order[y]].name

(* A stage, or the synthetic one around an orphan, whose id is made of the  *)
(* id of its first branch and differs from every other.                     *)
HeadId(q, i) == IF q.pipe[i].orphan THEN -q.ids[<<i, ByName(q, i)[1]>>] ELSE q.ids[<<i>>]

NextStage(q, i) == IF i < ItemsStarted(q) THEN <<HeadId(q, i + 1)>> ELSE <<>>

(* stackPerEnd: a stage that is alone in its branch is discarded *)
Chain(q, i, j) == IF InnerStarted(q, i, j) < 2 THEN 0 ELSE InnerStarted(q, i, j)

StageNode(q, i) ==
  [id |-> HeadId(q, i),
   name |-> IF q.pipe[i].orphan THEN ParallelName ELSE q.pipe[i].name,
   type |-> "STAGE",
   parent |-> IF i > 1 /\ Branches(q, i - 1) = <<>> THEN HeadId(q, i - 1) ELSE NoNode,
   edges |-> IF Branches(q, i) = <<>> THEN NextStage(q, i)
             ELSE [x \in DOMAIN Branches(q, i) |-> q.ids[<<i, ByName(q, i)[x]>>]],
   state |-> State(q, <<i>>)]

BranchNode(q, i, j) ==
  [id |-> q.ids[<<i, j>>], name |-> Branches(q, i)[j].name, type |-> "PARALLEL",
   parent |-> HeadId(q, i),
   edges |-> IF Chain(q, i, j) = 0 THEN NextStage(q, i) ELSE <<q.ids[<<i, j, 1>>]>>,
   state |-> State(q, <<i, j>>)]

(* Faulty variant: the last one does not lead on *)
InnerNodeUnlinked(q, i, j, k) ==
  [id |-> q.ids[<<i, j, k>>], name |-> Inner(q, i, j)[k], type |-> "STAGE",
   parent |-> IF k = 1 THEN q.ids[<<i, j>>] ELSE q.ids[<<i, j, k - 1>>],
   edges |-> IF k = Chain(q, i, j) THEN <<>> ELSE <<q.ids[<<i, j, k + 1>>]>>,
   state |-> State(q, <<i, j, k>>)]
InnerNode(q, i, j, k) ==
  [id |-> q.ids[<<i, j, k>>], name |-> Inner(q, i, j)[k], type |-> "STAGE",
   parent |-> IF k = 1 THEN q.ids[<<i, j>>] ELSE q.ids[<<i, j, k - 1>>],
   edges |-> IF k = Chain(q, i, j) THEN NextStage(q, i) ELSE <<q.ids[<<i, j, k + 1>>]>>,
   state |-> State(q, <<i, j, k>>)]

(* nodes.push for items and branches, nodes.add for the stages of a branch *)
PipelineNodes(q) ==
  LET n == ItemsStarted(q)
      item(i) == <<StageNode(q, i)>>
                   \o [x \in DOMAIN Branches(q, i) |-> BranchNode(q, i, ByName(q, i)[x])]
      chain(i, j) == [k \in 1..Chain(q, i, j) |-> InnerNode(q, i, j, k)]
      within(i) == FlattenSeq([j \in DOMAIN Branches(q, i) |-> chain(i, j)])
  IN  FlattenSeq([i \in 1..n |-> item(i)]) \o FlattenSeq([i \in 1..n |-> within(n + 1 - i)])

-----------------------------------------------------------------------------
(* union: the nodes of a run with those of an earlier one.                  *)

NodeOf(nodes, id) == nodes[SelectInSeq(nodes, LAMBDA n : n.id = id)]
ParentName(nodes, n) == IF n.parent = NoNode THEN <<>> ELSE <<NodeOf(nodes, n.parent).name>>

FindById(n, old) == SelectInSeq(old, LAMBDA o : o.id = n.id)
FindByParentage(cur, n, old) ==
  SelectInSeq(old, LAMBDA o : o.name = n.name /\ ParentName(old, o) = ParentName(cur, n))

(* Faulty variant: ids only where the names do not help *)
LookupByNameFirst(cur, n, old) ==
  LET byName == FindByParentage(cur, n, old)
  IN  IF byName # 0 THEN byName ELSE FindById(n, old)
Lookup(cur, n, old) ==
  LET byId == FindById(n, old)
  IN  IF byId # 0 THEN byId ELSE FindByParentage(cur, n, old)

(* probablySameNode: names and types, up the line of first parents *)
Line(nodes, node) ==
  LET up[id \in {n.id : n \in ToSet(nodes)}] ==
        LET n == NodeOf(nodes, id)
        IN  <<n.type, n.name>> \o IF n.parent = NoNode THEN <<>> ELSE up[n.parent]
  IN  up[node.id]

Compatible(cur, old) ==
  \A n \in ToSet(cur) :
    LET i == Lookup(cur, n, old) IN i # 0 /\ Line(old, old[i]) = Line(cur, n)

(* Each node of the earlier run in its place, as the last node of this run  *)
(* that was found to be it, or as one that has not started.  Incompatible   *)
(* graphs are not united.                                                   *)
Union(cur, old) ==
  LET found(i) == SelectLastInSeq(cur, LAMBDA n : Lookup(cur, n, old) = i)
      new(i) == IF found(i) = 0 THEN [old[i] EXCEPT !.state = Unknown] ELSE cur[found(i)]
      renamed(id) == new(FindById([id |-> id], old)).id
  IN  IF ~Compatible(cur, old) THEN cur
      ELSE [i \in DOMAIN old |->
              [new(i) EXCEPT
                 !.parent = IF old[i].parent = NoNode THEN NoNode ELSE renamed(old[i].parent),
                 !.edges = [x \in DOMAIN old[i].edges |-> renamed(old[i].edges[x])]]]

(* PipelineNodeContainerImpl *)
LastSuccessful == SelectLastInSeq(run, LAMBDA q : q.result = "SUCCESS")
United(r) == run[r].result # "SUCCESS" /\ LastSuccessful \in 1..(r - 1)
Nodes(r) ==
  IF United(r) THEN Union(PipelineNodes(run[r]), PipelineNodes(run[LastSuccessful]))
  ELSE PipelineNodes(run[r])

-----------------------------------------------------------------------------
(* convertJenkinsNodeGraph: the columns of the page, each of rows of ids.   *)

(* Array.filter: what of a sequence is kept *)
Filter(s, kept) == FlattenSeq([x \in DOMAIN s |-> IF s[x] \in kept THEN <<s[x]>> ELSE <<>>])

Parallels(nodes, n) ==
  Filter(n.edges, {m.id : m \in {m \in ToSet(nodes) : m.type = "PARALLEL"}})

(* buildSequentialStages *)
Sequence(nodes, first) ==
  LET row[id \in {n.id : n \in ToSet(nodes)}] ==
        LET edges == NodeOf(nodes, id).edges
        IN  <<id>> \o IF edges # <<>> /\ NodeOf(nodes, edges[1]).parent = id THEN row[edges[1]]
                      ELSE <<>>
  IN  row[first]

(* The stages of a branch stand in for it. *)
Row(nodes, branch) ==
  LET child == SelectInSeq(nodes, LAMBDA n : n.parent = branch)
  IN  IF child = 0 THEN <<branch>> ELSE Sequence(nodes, nodes[child].id)

IsSequential(nodes, id) ==
  \E b \in ToSet(nodes) :
    b.type = "PARALLEL" /\ id \in ToSet(Row(nodes, b.id)) \ {b.id}

(* Where the loop goes on: after branches, at what follows the last one     *)
(* that leads anywhere, which may be a stage of the branch.                 *)
After(nodes, n) ==
  LET leading == Filter(Parallels(nodes, n),
                        {m.id : m \in {m \in ToSet(nodes) : m.edges # <<>>}})
  IN  IF Parallels(nodes, n) = <<>> THEN IF Len(n.edges) = 1 THEN n.edges[1] ELSE NoNode
      ELSE IF leading = <<>> THEN NoNode ELSE NodeOf(nodes, Last(leading)).edges[1]

ConvertJenkinsNodeGraph(nodes) ==
  LET column(id) ==
        LET branches == Parallels(nodes, NodeOf(nodes, id))
        IN  [top |-> id,
             rows |-> IF branches = <<>> THEN << <<id>> >>
                      ELSE [x \in DOMAIN branches |-> Row(nodes, branches[x])]]
      walk[id \in {n.id : n \in ToSet(nodes)}] ==
        (IF IsSequential(nodes, id) THEN <<>> ELSE <<column(id)>>)
          \o (LET next == After(nodes, NodeOf(nodes, id))
              IN  IF next = NoNode THEN <<>> ELSE walk[next])
  IN  IF nodes = <<>> THEN <<>> ELSE walk[nodes[1].id]

-----------------------------------------------------------------------------
(* Jenkins runs the pipeline.                                               *)

GraphInit == steps = 0 /\ failedSteps = 0 /\ run = <<>>

(* Nothing is left of a run but its end: after its last item, or after one  *)
(* that failed.                                                            *)
AboutToEnd(q) ==
  LET i == ItemsStarted(q)
  IN  i > 0 /\ Ended(q, <<i>>) /\ (FailedIn(q, <<i>>) \/ i = Len(q.pipe))

(* A run begins, of whatever the Jenkinsfile says by then, when the earlier *)
(* ones have ended or are about to: a bound on how far runs overlap, which  *)
(* lets the earlier one end while the other is under way.                   *)
Launch ==
  /\ Len(run) < MaxRuns
  /\ \A r \in DOMAIN run : run[r].result # Unknown \/ AboutToEnd(run[r])
  /\ \E p \in Pipelines :
       run' = Append(run, [pipe |-> p, ids |-> <<>>, ended |-> <<>>, next |-> 1,
                           result |-> Unknown])
  /\ UNCHANGED <<steps, failedSteps>>

Start(r, positions) ==
  LET ids == run[r].ids
      number(pos) == run[r].next + SelectInSeq(positions, LAMBDA p : p = pos) - 1
  IN  run' = [run EXCEPT ![r].ids = [pos \in DOMAIN ids \cup ToSet(positions) |->
                                       IF pos \in DOMAIN ids THEN ids[pos] ELSE number(pos)],
                         ![r].next = @ + Len(positions)]

(* The next item starts, with all its branches. *)
StartItem(r) ==
  LET i == ItemsStarted(run[r]) + 1
  IN  /\ run[r].result = Unknown
      /\ i \in DOMAIN run[r].pipe
      /\ i > 1 => State(run[r], <<i - 1>>) = "SUCCESS"
      /\ Start(r, (IF run[r].pipe[i].orphan THEN <<>> ELSE << <<i>> >>)
                    \o [j \in DOMAIN Branches(run[r], i) |-> <<i, j>>])
      /\ UNCHANGED <<steps, failedSteps>>

(* The next stage of a branch starts. *)
StartInner(r, i, j) ==
  LET k == InnerStarted(run[r], i, j) + 1
  IN  /\ <<i, j>> \in DOMAIN run[r].ids
      /\ k \in DOMAIN Inner(run[r], i, j)
      /\ k > 1 => State(run[r], <<i, j, k - 1>>) = "SUCCESS"
      /\ Start(r, << <<i, j, k>> >>)
      /\ UNCHANGED <<steps, failedSteps>>

Finish(r, leaf, result) ==
  LET ends == run[r].ended
  IN  /\ leaf \in Running(run[r])
      /\ result = "FAILURE" => failedSteps < MaxFailed
      /\ run' = [run EXCEPT ![r].ended = [l \in DOMAIN ends \cup {leaf} |->
                                             IF l = leaf THEN result ELSE ends[l]]]
      /\ failedSteps' = IF result = "FAILURE" THEN failedSteps + 1 ELSE failedSteps
      /\ UNCHANGED steps

(* A run takes a step that others may not take. *)
Step(r) ==
  /\ steps < MaxSteps
  /\ run[r].result = Unknown
  /\ run' = [run EXCEPT ![r].next = @ + 1]
  /\ steps' = steps + 1
  /\ UNCHANGED failedSteps

EndRun(r) ==
  /\ run[r].result = Unknown
  /\ AboutToEnd(run[r])
  /\ run' = [run EXCEPT ![r].result = State(run[r], <<ItemsStarted(run[r])>>)]
  /\ UNCHANGED <<steps, failedSteps>>

GraphNext ==
  \/ Launch
  \/ \E r \in DOMAIN run :
       \/ StartItem(r) \/ Step(r) \/ EndRun(r)
       \/ \E pos \in DOMAIN run[r].ids : Len(pos) = 2 /\ StartInner(r, pos[1], pos[2])
       \/ \E leaf \in DOMAIN run[r].ids, result \in {"SUCCESS", "FAILURE"} : Finish(r, leaf, result)

GraphSpec == GraphInit /\ [][GraphNext]_graphVars

-----------------------------------------------------------------------------
(* Properties.                                                             *)

(* Two nodes nothing but their ids tells apart: a stage after a parallel    *)
(* step has no parent, and may have the name of another such stage.         *)
Twins(nodes) == Cardinality({Line(nodes, n) : n \in ToSet(nodes)}) < Len(nodes)

(* PipelineNodeGraphVisitor.union: whatever the numbering of the two runs   *)
(* and however the Jenkinsfile changed between them, no id is answered      *)
(* twice, every stage and branch of the run's own graph is there as it is,  *)
(* and what is added has not started.  (Of twins one may be lost.)          *)
RunShown ==
  \A r \in DOMAIN run :
    LET own == PipelineNodes(run[r])
        shown == Nodes(r)
        kept(n) == \E m \in ToSet(shown) :
                     m.id = n.id /\ m.name = n.name /\ m.type = n.type /\ m.state = n.state
    IN  ~Twins(own) =>
          /\ Cardinality({n.id : n \in ToSet(shown)}) = Len(shown)
          /\ \A n \in ToSet(own) : kept(n)
          /\ \A m \in ToSet(shown) : m.state = Unknown \/ \E n \in ToSet(own) : n.id = m.id

(* The columns of what a run has started, or of a whole run: names only.    *)
Shape(q) ==
  [i \in 1..ItemsStarted(q) |->
     [top |-> IF q.pipe[i].orphan THEN ParallelName ELSE q.pipe[i].name,
      rows |-> IF Branches(q, i) = <<>> THEN << <<q.pipe[i].name>> >>
               ELSE [x \in DOMAIN Branches(q, i) |->
                       LET j == ByName(q, i)[x]
                       IN  IF InnerStarted(q, i, j) < 2 THEN <<Branches(q, i)[j].name>>
                           ELSE SubSeq(Inner(q, i, j), 1, InnerStarted(q, i, j))]]]

(* What a node of one run is called, another node of the other is. *)
Clash(q1, q2) ==
  \E a \in DOMAIN q1.ids, b \in DOMAIN q2.ids : a # b /\ q1.ids[a] = q2.ids[b]

(* Two nodes have one name, and so have their parents, but what is further  *)
(* up tells them apart: findNodeWrapperByParentageIn takes the first.       *)
Ambiguous(nodes) ==
  \E n, m \in ToSet(nodes) :
    /\ n.name = m.name /\ ParentName(nodes, n) = ParentName(nodes, m)
    /\ Line(nodes, n) # Line(nodes, m)

(* union and convertJenkinsNodeGraph together: the page draws every stage   *)
(* once, in its column and row, and reaches the end; and what it draws is   *)
(* all of the last successful run, if the run has the same pipeline, none   *)
(* of its ids is that of another node and names tell its nodes apart.       *)
(* Otherwise it may be no more than what has started.                       *)
GraphDrawn ==
  \A r \in DOMAIN run :
    LET nodes == Nodes(r)
        columns == ConvertJenkinsNodeGraph(nodes)
        name(id) == NodeOf(nodes, id).name
        drawn == [c \in DOMAIN columns |->
                    [top |-> name(columns[c].top),
                     rows |-> [x \in DOMAIN columns[c].rows |->
                                 [y \in DOMAIN columns[c].rows[x] |-> name(columns[c].rows[x][y])]]]]
    IN  \/ United(r) /\ drawn = Shape(run[LastSuccessful])
        \/ /\ drawn = Shape(run[r])
           /\ United(r) => \/ run[r].pipe # run[LastSuccessful].pipe
                           \/ Clash(run[r], run[LastSuccessful])
                           \/ Ambiguous(PipelineNodes(run[LastSuccessful]))
=============================================================================
