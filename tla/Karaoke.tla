------------------------------- MODULE Karaoke -------------------------------
(***************************************************************************)
(* The page of a pipeline run (Pipeline, with its PipelinePager): the      *)
(* nodes of the run, the node that is shown and the steps of it, fetched   *)
(* again on the events of the run, on clicks and when the run ends.        *)
(*                                                                         *)
(* A run has the stages 1..Stages one after the other.  Each starts, logs  *)
(* a step and ends, so that a run is where it has got to: a number.        *)
(* Everything that is put off is put off for the same 200 ms, whether it   *)
(* is a debounced event or a request, and happens in the order in which it *)
(* was put off.                                                            *)
(***************************************************************************)
EXTENDS Naturals, Sequences, SequencesExt, FiniteSets

CONSTANTS
  Nothing,
  Unread,       \* what the server has not read yet
  Stages,
  MaxClicks,    \* bound: clicks on a node
  MaxLater,     \* bound: what is put off, but for the debounced refetch, when the run goes on
  MaxTroubles   \* bound: times the page is left, and requests that fail

ASSUME KaraokeBounds ==
  /\ Stages \in Nat \ {0}
  /\ MaxClicks \in Nat /\ MaxLater \in Nat /\ MaxTroubles \in Nat

Node == 1..Stages
End == 3 * Stages + 1

(* The request for the nodes: whoever wants a node shown is in asks, with  *)
(* the node; `only' is that someone wants no more than the nodes.          *)
NodesRequest == [asks : Seq({Nothing, 0} \cup Node), only : BOOLEAN, read : {Unread} \cup 0..End]

ASSUME NothingAssumption ==
  /\ Nothing \notin Nat \cup NodesRequest
  /\ Unread \notin Nat \cup {Nothing}

VARIABLES
  progress,    \* server: where the run is
  open,        \* the page is open
  selected,    \* params.node: the node of the url, or Nothing
  following,   \* the page follows the run
  ended,       \* props.run is completed
  later,       \* what was put off, in order
  nodesGet,    \* the request for the nodes under way, or Nothing
  nodes,       \* the nodes the page knows: where the run was, or Nothing
  stepsGet,    \* the request for the steps of each url under way, if any
  complete,    \* the nodes of which it knows all steps
  currentNode, \* the node that is shown, or Nothing
  stepsUrl,    \* currentStepsUrl: a node, 0 for the run, or Nothing
  clicks, troubles,  \* counts up to the bounds
  \* history, since the page knows that the run has ended:
  outdated,    \* a request joined one that had been read before
  short,       \* the nodes whose steps were to be those of such a request
  overtaken,   \* the node of an older url was asked for
  failed       \* a request failed, or the page was opened again

nodesVars == <<nodesGet, nodes, stepsGet, complete, currentNode, stepsUrl>>
runPageVars == <<open, selected, following, ended, later>>
countVars == <<clicks, troubles>>
historyVars == <<outdated, short, overtaken, failed>>
karaokeVars == <<progress, runPageVars, nodesVars, countVars, historyVars>>

Started(p) == Cardinality({n \in Node : 3 * n - 2 <= p})
Finished(n, p) == 3 * n <= p

(* What the nodes tell of the run at p, as the place where they tell the   *)
(* same: a step changes nothing.                                           *)
NodesAt(p) == IF p = End \/ p % 3 = 2 THEN p - 1 ELSE p

(* Faulty variant: a node that runs comes before the one asked for         *)
FocusRunning(node, p) ==
  IF node \in 1..Started(p) /\ (p = End \/ p % 3 = 0) THEN node ELSE Started(p)

(* fetchNodes: the node asked for if there is one, else the one that runs  *)
(* or the last.                                                            *)
Focus(node, p) == IF node \in 1..Started(p) THEN node ELSE Started(p)

AskNodes(node) == [do |-> "nodes", node |-> node]
AskOnly == [do |-> "nodes only", node |-> Nothing]
AskSteps(url) == [do |-> "steps", node |-> url]
Refetch(out) == [do |-> IF out THEN "refetch nodes" ELSE "refetch", node |-> Nothing]
RefetchSteps == [do |-> "refetch steps", node |-> Nothing]
ShowEnd(node) == [do |-> "end", node |-> node]
Left(node) == [do |-> "left", node |-> node]
LeftNodes == [do |-> "left nodes", node |-> Nothing]

IsRefetch(task) == task \in {Refetch(TRUE), Refetch(FALSE)}

-----------------------------------------------------------------------------
(* The run, and what Pipeline does on its events.                          *)

(* debounceFetchNodes: one timer for all, that starts anew.                *)
DebounceFetchNodes(out) ==
  later' = Append(RemoveFirstMatch(later, IsRefetch), Refetch(out))

(* sseEventHandler: a step matters only while the page follows the run.    *)
SseEventHandler(p) ==
  IF ~open THEN UNCHANGED later
  ELSE IF \E n \in Node : p = 3 * n - 1
  THEN later' = IF following THEN Append(later, RefetchSteps) ELSE later
  ELSE DebounceFetchNodes(~following)

RunGoesOn ==
  /\ progress < End /\ Len(RemoveFirstMatch(later, IsRefetch)) <= MaxLater
  /\ progress' = progress + 1
  /\ SseEventHandler(progress')
  /\ UNCHANGED <<open, selected, following, ended, nodesVars, countVars, historyVars>>

(* Faulty variant: nothing is fetched when the run has ended               *)
RunEndedOnly ==
  /\ open /\ progress = End /\ ~ended
  /\ ended' = TRUE /\ following' = FALSE
  /\ outdated' = FALSE /\ short' = {} /\ overtaken' = FALSE /\ failed' = FALSE
  /\ UNCHANGED <<later, progress, open, selected, nodesVars, countVars>>

(* componentWillReceiveProps: the run is completed.  What is put off keeps *)
(* the node of the url.                                                    *)
RunEnded ==
  /\ open /\ progress = End /\ ~ended
  /\ ended' = TRUE /\ following' = FALSE
  /\ later' = Append(later, ShowEnd(selected))
  /\ outdated' = FALSE /\ short' = {} /\ overtaken' = FALSE /\ failed' = FALSE
  /\ UNCHANGED <<progress, open, selected, nodesVars, countVars>>

-----------------------------------------------------------------------------
(* The user.                                                               *)

(* afterClick and componentWillReceiveProps: a click on a finished node    *)
(* stops to follow the run, on any other it resumes; the new url brings an *)
(* Augmenter that does not follow a run that has ended.                    *)
AfterClick(n) ==
  /\ open /\ nodes # Nothing /\ n \in 1..Started(nodes)
  /\ clicks < MaxClicks /\ clicks' = clicks + 1
  /\ selected' = n
  /\ following' = (~Finished(n, nodes) /\ ~ended)
  /\ later' = IF n # selected THEN Append(later, AskNodes(n)) ELSE later
  /\ UNCHANGED <<progress, open, ended, nodesVars, troubles, historyVars>>

(* scrolling up; the end key does not resume                               *)
ScrollUp ==
  /\ open /\ following /\ following' = FALSE
  /\ UNCHANGED <<progress, open, selected, ended, later, nodesVars, countVars, historyVars>>

(* componentWillUnmount: no more events.  What was put off still happens,  *)
(* with the url that was left.                                             *)
LeaveRun ==
  /\ open /\ open' = FALSE /\ following' = FALSE
  /\ troubles < MaxTroubles /\ troubles' = troubles + 1
  /\ later' = [i \in DOMAIN later |->
                 CASE later[i] = Refetch(FALSE)  -> Left(selected)
                   [] later[i] = Refetch(TRUE)   -> LeftNodes
                   [] later[i].do = "end"        -> Left(later[i].node)
                   [] OTHER                      -> later[i]]
  /\ UNCHANGED <<progress, selected, ended, nodesVars, clicks, historyVars>>

(* The page is opened again: KaraokeService has a pager for the run        *)
(* already, and nothing is fetched.                                        *)
OpenAgain ==
  /\ ~open /\ open' = TRUE
  /\ selected' \in {Nothing, selected}
  /\ ended' \in {ended, progress = End}
  /\ following' = ~ended'
  /\ failed' = TRUE
  /\ UNCHANGED <<progress, later, nodesVars, countVars, outdated, short, overtaken>>
-----------------------------------------------------------------------------
(* PipelinePager.                                                          *)

(* getNodes: a request for a url that is under way is joined, although it  *)
(* may have been read already.                                             *)
SendNodes(asks) ==
  IF nodesGet = Nothing
  THEN /\ nodesGet' = [asks |-> asks, only |-> asks = <<>>, read |-> Unread]
       /\ UNCHANGED outdated
  ELSE /\ nodesGet' = [nodesGet EXCEPT !.asks = @ \o asks, !.only = @ \/ asks = <<>>]
       /\ outdated' = (outdated \/ nodesGet.read \notin {Unread, NodesAt(progress)})

(* fetchCurrentStepUrl, getSteps: so is a request for the steps of a node. *)
(* Of the steps only whether they are all those of a finished node matters,*)
(* and of a request whether it was sent before the node finished.  Those of*)
(* the run, before it has a node, are of no matter.                        *)
FetchSteps(url) ==
  IF url \notin Node THEN UNCHANGED <<stepsGet, short>>
  ELSE /\ stepsGet' = [stepsGet EXCEPT ![url] =
                         IF @ # "none" THEN @
                         ELSE IF Finished(url, progress) THEN "late" ELSE "early"]
       /\ short' = IF ended /\ stepsGet[url] = "early" THEN short \cup {url} ELSE short

(* The first of what was put off happens.                                  *)
Fire ==
  /\ later # <<>>
  /\ LET task == Head(later)
         PutOff(tasks) == later' = Tail(later) \o tasks
     IN \/ /\ task \in {Refetch(TRUE), LeftNodes} /\ PutOff(<<AskOnly>>)
           /\ UNCHANGED <<following, overtaken, outdated, nodesGet, stepsGet, short>>
        \/ /\ task = Refetch(FALSE) /\ PutOff(<<AskNodes(selected)>>)
           /\ UNCHANGED <<following, overtaken, outdated, nodesGet, stepsGet, short>>
        \/ /\ task = RefetchSteps
           /\ PutOff(IF stepsUrl = Nothing THEN <<>> ELSE <<AskSteps(stepsUrl)>>)
           /\ UNCHANGED <<following, overtaken, outdated, nodesGet, stepsGet, short>>
        \/ /\ task.do = "left" /\ PutOff(<<AskNodes(task.node)>>)
           /\ UNCHANGED <<following, overtaken, outdated, nodesGet, stepsGet, short>>
        \/ /\ task.do = "end" /\ PutOff(<<AskNodes(task.node)>>)
           /\ following' = TRUE
           /\ overtaken' = (overtaken \/ task.node # selected)
           /\ UNCHANGED <<outdated, nodesGet, stepsGet, short>>
        \/ /\ task.do \in {"nodes", "nodes only"} /\ PutOff(<<>>)
           /\ SendNodes(IF task.do = "nodes" THEN <<task.node>> ELSE <<>>)
           /\ UNCHANGED <<following, overtaken, stepsGet, short>>
        \/ /\ task.do = "steps" /\ PutOff(<<>>)
           /\ FetchSteps(task.node)
           /\ UNCHANGED <<following, overtaken, outdated, nodesGet>>
  /\ UNCHANGED <<progress, open, selected, ended, nodes, complete, currentNode,
                 stepsUrl, countVars, failed>>

(* The server reads the run some time after it was asked.                  *)
NodesRead ==
  /\ nodesGet # Nothing /\ nodesGet.read = Unread
  /\ nodesGet' = [nodesGet EXCEPT !.read = NodesAt(progress)]
  /\ UNCHANGED <<progress, runPageVars, nodes, stepsGet, complete, currentNode, stepsUrl,
                 countVars, historyVars>>

(* fetchNodes and fetchNodesOnly, everyone who joined in turn: the nodes   *)
(* are stored, and fetchNodes shows one of them and asks for its steps, or *)
(* for those of the run if there is no node.                               *)
NodesAnswered ==
  /\ nodesGet # Nothing /\ nodesGet.read # Unread
  /\ LET p == nodesGet.read
         urls == [i \in DOMAIN nodesGet.asks |-> Focus(nodesGet.asks[i], p)]
     IN /\ nodes' = IF Started(p) > 0 \/ nodesGet.only THEN p ELSE nodes
        /\ stepsUrl' = IF urls = <<>> THEN stepsUrl ELSE Last(urls)
        /\ currentNode' = IF urls = <<>> \/ Started(p) = 0 THEN currentNode ELSE Last(urls)
        /\ later' = later \o [i \in DOMAIN urls |-> AskSteps(urls[i])]
  /\ nodesGet' = Nothing
  /\ UNCHANGED <<progress, open, selected, following, ended, stepsGet, complete,
                 countVars, historyVars>>

(* fetchCurrentStepUrl: the steps are stored, for whoever asked.  The      *)
(* server has read them at some moment since the request was sent.         *)
StepsAnswered(url) ==
  /\ stepsGet[url] # "none"
  /\ stepsGet' = [stepsGet EXCEPT ![url] = "none"]
  /\ \/ Finished(url, progress) /\ complete' = complete \cup {url}
     \/ stepsGet[url] = "early" /\ complete' = complete \ {url}
  /\ UNCHANGED <<progress, runPageVars, nodesGet, nodes, currentNode, stepsUrl,
                 countVars, historyVars>>

(* The catch of a request stores nothing.                                  *)
RequestFails ==
  /\ troubles < MaxTroubles /\ troubles' = troubles + 1
  /\ failed' = TRUE
  /\ \/ nodesGet # Nothing /\ nodesGet' = Nothing /\ UNCHANGED stepsGet
     \/ /\ \E url \in Node :
             /\ stepsGet[url] # "none"
             /\ stepsGet' = [stepsGet EXCEPT ![url] = "none"]
        /\ UNCHANGED nodesGet
  /\ UNCHANGED <<progress, runPageVars, nodes, complete, currentNode, stepsUrl, clicks,
                 outdated, short, overtaken>>

-----------------------------------------------------------------------------
KaraokeInit ==
  /\ progress \in 0..(End - 1)
  /\ open = TRUE /\ following = TRUE /\ ended = FALSE
  /\ selected \in {Nothing} \cup 1..Started(progress)
  /\ later = <<AskNodes(selected)>>
  /\ nodesGet = Nothing
  /\ nodes = Nothing /\ complete = {}
  /\ stepsGet = [url \in Node |-> "none"]
  /\ currentNode = Nothing /\ stepsUrl = Nothing
  /\ clicks = 0 /\ troubles = 0
  /\ outdated = FALSE /\ short = {} /\ overtaken = FALSE /\ failed = FALSE

KaraokeNext ==
  \/ RunGoesOn \/ RunEnded
  \/ (\E n \in Node : AfterClick(n)) \/ ScrollUp \/ LeaveRun \/ OpenAgain
  \/ Fire \/ NodesRead \/ NodesAnswered \/ RequestFails
  \/ \E url \in Node : StepsAnswered(url)

KaraokeSpec == KaraokeInit /\ [][KaraokeNext]_karaokeVars
-----------------------------------------------------------------------------
(* Properties.                                                             *)

Quiet ==
  later = <<>> /\ nodesGet = Nothing /\ \A url \in Node : stepsGet[url] = "none"

(* Pipeline.componentWillReceiveProps, PipelinePager.fetchNodes: once the  *)
(* page knows that the run has ended and nothing is under way, the nodes   *)
(* and the steps it shows are those of the ended run, however clicks,      *)
(* events and answers were mixed, and the node is that of the url.  Except *)
(* when a request failed, the page was opened again, or the nodes, or the  *)
(* steps, were asked for while a request was under way that had been sent  *)
(* too early: nothing asks again.                                          *)
SettledView ==
  open /\ ended /\ Quiet /\ ~failed /\ ~outdated =>
    /\ nodes = NodesAt(End)
    /\ currentNode = stepsUrl
    /\ stepsUrl \in complete \cup short
    /\ ~overtaken => currentNode = Focus(selected, End)

(* Pipeline.componentWillReceiveProps, "switches from the url which node   *)
(* to focus": whenever nothing is under way the node of the url is shown,  *)
(* whatever events came between the click and the answers, and although    *)
(* these may have been read before.  Except when a request failed, the page*)
(* was opened again or the end of the run brought back an older node.      *)
SelectedShown ==
  open /\ selected # Nothing /\ Quiet /\ ~failed /\ ~overtaken =>
    currentNode = selected
=============================================================================
