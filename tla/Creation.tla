------------------------------ MODULE Creation ------------------------------
(***************************************************************************)
(* Creating a pipeline in the dashboard: the flow managers (a stack of     *)
(* steps), the paged lists of repositories, the request that creates the   *)
(* multibranch project on the server, and the wait for the events that     *)
(* tell how its first indexing went.                                       *)
(*                                                                         *)
(* Five flows share the manager: github, github-enterprise,                *)
(* bitbucket-cloud, bitbucket-server and git.  An event is handled by the  *)
(* page in the step of the server that sends it.                           *)
(***************************************************************************)
EXTENDS Naturals, Sequences, FiniteSets

CONSTANTS
  Flows,       \* the flows to look at
  Orgs,        \* organizations, each with a list of repositories
  PagesOf,     \* the number of pages of that list: a page is one repository
  None,        \* no organization, repository, name or step
  MaxServers,  \* bound: times a server is chosen
  MaxSelects,  \* bound: times an organization is chosen
  MaxSaves     \* bound: requests to create a pipeline

WithServers == {"github-enterprise", "bitbucket-server"}
Bitbucket == {"bitbucket-cloud", "bitbucket-server"}

ASSUME FlowsAssumption ==
  Flows \subseteq {"github", "bitbucket-cloud", "git"} \cup WithServers
ASSUME PagesAssumption == PagesOf \in [Orgs -> Nat \ {0}]
ASSUME BoundsAssumption == MaxServers \in Nat /\ MaxSelects \in Nat /\ MaxSaves \in Nat

Repositories == UNION {{<<o, p>> : p \in 1..PagesOf[o]} : o \in Orgs}

(* A page that is on its way, or a list that was kept; next is the page    *)
(* after it, if any.                                                       *)
Pages == [org : Orgs, items : Seq(Repositories), cached : BOOLEAN, next : Nat]

(* The name a repository proposes for its pipeline is the page it is on,   *)
(* so two organizations have repositories of one name; 0 is a name of no   *)
(* repository.                                                             *)
NameOf(r) == r[2]
Names == {0} \cup {NameOf(r) : r \in Repositories}

VARIABLES
  flow,
  steps,       \* the stack of states; stateId is that of the last one
  manual,      \* credentialSelected: the user has chosen the credential
  complete,    \* the step of the credential is done
  orgGets,     \* requests for the organizations under way
  org,         \* selectedOrganization
  repos,       \* repositories
  loading,     \* repositoriesLoading
  cache,       \* _repositoryCache
  pages,       \* per choice of an organization: the page that is on its way
  orderly,     \* history: no organization was chosen while pages were on
               \* their way, and no page failed
  repo, name,  \* selectedRepository, pipelineName
  pipeline,
  handler, timer,   \* for events, and for the wait for them
  branchGets,  \* git: fetches of the pipeline after its indexing
  left,        \* the page was left
  creates,     \* the requests to create a pipeline
  exists,      \* server: names of pipelines
  indexing,    \* server: pipelines that are indexed
  notices,     \* server: pipelines whose lack of a Jenkinsfile is to be told
  busy,        \* server: pipelines with runs
  servers      \* counts up to MaxServers

stepVars == <<steps, manual, complete, orgGets, servers>>
repoVars == <<org, repos, loading, cache, pages, orderly>>
waitVars == <<handler, timer, branchGets, pipeline>>
saveVars == <<repo, name, creates>>
serverVars == <<exists, indexing, notices, busy>>
vars == <<flow, left, stepVars, repoVars, saveVars, waitVars, serverVars>>

Complete == {"saving", "events", "success", "event-error", "timeout", "missing", "error"}

States ==
  {"loading", "server", "connect", "unknown", "credential", "organization", "pending",
   "repository", "rename"} \cup Complete

ASSUME NoneAssumption ==
  None \notin States /\ None \notin Orgs /\ None \notin Repositories /\ None \notin Names
    /\ None \notin Pages

-----------------------------------------------------------------------------
(* The stack of steps.                                                     *)

State == steps[Len(steps)]

(* the place of a state that was added once, or 0                          *)
At(s, st) ==
  LET places == {i \in DOMAIN s : s[i] = st}
  IN IF Cardinality(places) = 1 THEN CHOOSE i \in places : TRUE ELSE 0

Added(s, st) == At(s, st) > 0

(* Faulty variant: what followed is kept                                   *)
RenderKeepingRest(s, st, after) ==
  IF after # None /\ ~Added(s, after) THEN s
  ELSE IF Added(s, st) THEN s
  ELSE IF after = None THEN <<st>> ELSE Append(s, st)

(* A step replaces itself or comes after another one, and what followed is *)
(* dropped.  To be rendered after a step that is not there is an error,    *)
(* and changes nothing.                                                    *)
Render(s, st, after) ==
  IF after # None /\ ~Added(s, after) THEN s
  ELSE IF Added(s, st) THEN SubSeq(s, 1, At(s, st))
  ELSE Append(SubSeq(s, 1, At(s, after)), st)

Change(s, st) == [s EXCEPT ![Len(s)] = st]

StepsDisabled == State \in Complete

AfterCredential(selected) ==
  IF selected THEN "credential" ELSE IF flow \in WithServers THEN "server" ELSE None

-----------------------------------------------------------------------------
(* Servers, credentials and organizations.                                 *)

Loaded ==
  /\ steps = <<"loading">>
  /\ steps' = Render(steps, IF flow = "git" THEN "connect" ELSE "server", None)
  /\ UNCHANGED <<flow, left, manual, complete, orgGets, servers, repoVars, saveVars, waitVars, serverVars>>

SelectServer ==
  /\ Added(steps, "server") /\ ~StepsDisabled /\ servers < MaxServers
  /\ steps' = Render(steps, "credential", "server")
  /\ complete' = FALSE /\ servers' = servers + 1
  /\ UNCHANGED <<flow, left, manual, orgGets, repoVars, saveVars, waitVars, serverVars>>

SelectCredential ==
  /\ Added(steps, "credential") /\ ~complete
  /\ manual' \in BOOLEAN
  /\ complete' = TRUE
  /\ steps' = Render(steps, "pending", AfterCredential(manual'))
  /\ orgGets' = orgGets + 1
  /\ UNCHANGED <<flow, left, servers, repoVars, saveVars, waitVars, serverVars>>

OrganizationsArrive ==
  /\ orgGets > 0 /\ orgGets' = orgGets - 1
  /\ steps' = Render(steps, "organization", AfterCredential(manual))
  /\ UNCHANGED <<flow, left, manual, complete, servers, repoVars, saveVars, waitVars, serverVars>>

(* a failure without a body is not handled, and nothing is shown           *)
OrganizationsFail ==
  /\ orgGets > 0 /\ orgGets' = orgGets - 1
  /\ steps' \in {Render(steps, "unknown", None), steps}
  /\ UNCHANGED <<flow, left, manual, complete, servers, repoVars, saveVars, waitVars, serverVars>>

-----------------------------------------------------------------------------
(* The repositories of an organization, page by page.                      *)

PageOf(o, p) ==
  [org |-> o, items |-> <<<<o, p>>>>, cached |-> FALSE,
   next |-> IF p < PagesOf[o] THEN p + 1 ELSE 0]

UnderWay == {i \in DOMAIN pages : pages[i] # None}

(* Faulty variant: the repositories of the organization before are kept    *)
SelectOrganizationKept(o) ==
  /\ Added(steps, "organization") /\ ~StepsDisabled /\ Len(pages) < MaxSelects
  /\ org' = o
  /\ steps' = Render(steps, "pending", "organization")
  /\ loading' = TRUE
  /\ pages' = Append(pages, IF cache[o] # <<>>
                            THEN [org |-> o, items |-> cache[o], cached |-> TRUE, next |-> 0]
                            ELSE PageOf(o, 1))
  /\ orderly' = (orderly /\ UnderWay = {})
  /\ UNCHANGED <<flow, left, manual, complete, orgGets, servers, repos, cache, saveVars, waitVars, serverVars>>

SelectOrganization(o) ==
  /\ Added(steps, "organization") /\ ~StepsDisabled /\ Len(pages) < MaxSelects
  /\ org' = o
  /\ steps' = Render(steps, "pending", "organization")
  /\ repos' = <<>> /\ loading' = TRUE
  /\ pages' = Append(pages, IF cache[o] # <<>>
                            THEN [org |-> o, items |-> cache[o], cached |-> TRUE, next |-> 0]
                            ELSE PageOf(o, 1))
  /\ orderly' = (orderly /\ UnderWay = {})
  /\ UNCHANGED <<flow, left, manual, complete, orgGets, servers, cache, saveVars, waitVars, serverVars>>

(* The page is added to whatever list there is, and the list is kept as    *)
(* that of the organization the page was asked for.                        *)
PageArrives(i) ==
  LET page == pages[i] IN
  /\ repos' = repos \o page.items
  /\ cache' = [cache EXCEPT ![page.org] = repos']
  /\ pages' = [pages EXCEPT ![i] = IF page.next > 0 THEN PageOf(page.org, page.next) ELSE None]
  /\ loading' = (page.next > 0 /\ loading)
  /\ steps' = IF repos = <<>> THEN Render(steps, "repository", "organization") ELSE steps
  /\ UNCHANGED <<flow, left, manual, complete, orgGets, servers, org, orderly, saveVars, waitVars, serverVars>>

PageFails(i) ==
  /\ ~pages[i].cached
  /\ pages' = [pages EXCEPT ![i] = None]
  /\ orderly' = FALSE
  /\ UNCHANGED <<flow, left, stepVars, org, repos, loading, cache, saveVars, waitVars, serverVars>>

SelectRepository(r) ==
  /\ Added(steps, "repository") /\ ~StepsDisabled
  /\ \E i \in DOMAIN repos : repos[i] = r
  /\ repo' = r /\ name' = NameOf(r)
  /\ UNCHANGED <<flow, left, stepVars, repoVars, creates, waitVars, serverVars>>

-----------------------------------------------------------------------------
(* Asking for the pipeline.                                                *)

Renamed == Added(steps, "rename")

(* Faulty variant: no timer                                                *)
ListeningForEver ==
  /\ handler' = TRUE
  /\ timer' = FALSE

(* _initListeners replaces the handler and the timer.                      *)
Listening ==
  /\ handler' = TRUE
  /\ timer' = TRUE

(* Sends the request for the pipeline n under the step it is asked from.   *)
Ask(n) ==
  /\ steps' = Render(steps, "saving",
                     IF Renamed THEN "rename" ELSE IF flow = "git" THEN "connect" ELSE "repository")
  /\ creates' = Append(creates, [name |-> n, at |-> "sent"])
  /\ IF flow = "git" THEN UNCHANGED <<handler, timer>> ELSE Listening
  /\ name' = n
  /\ UNCHANGED <<flow, left, manual, complete, orgGets, servers, repoVars, branchGets, pipeline, serverVars>>

SaveRepo ==
  /\ Added(steps, "repository") /\ ~StepsDisabled
  /\ repo # None /\ repos # <<>>
  /\ Ask(name) /\ UNCHANGED repo

(* The page has asked whether the name that was typed is free; 0 stands    *)
(* for any name.                                                           *)
SaveRenamed ==
  /\ Renamed /\ State = "rename"
  /\ 0 \notin exists /\ Ask(0)
  /\ UNCHANGED repo

(* GitConnectStep: any url, which becomes a name                           *)
GitConnect ==
  /\ flow = "git" /\ State = "connect"
  /\ \E n \in Names \ {0} : Ask(n)
  /\ UNCHANGED repo

-----------------------------------------------------------------------------
(* AbstractMultiBranchCreateRequest on the server.                         *)

Goes(i, at) == creates' = [creates EXCEPT ![i].at = at]

ClientUnchanged == UNCHANGED <<flow, left, stepVars, repoVars, repo, name, waitVars>>

(* The credential or the url is refused, another error comes back, or      *)
(* nothing does; only git tells these apart.                               *)
CreateRefused(i) ==
  /\ creates[i].at = "sent"
  /\ \E at \in IF flow = "git" THEN {"refused", "error", "lost"} ELSE {"error"} : Goes(i, at)
  /\ ClientUnchanged /\ UNCHANGED serverVars

CreateValidated(i) ==
  /\ creates[i].at = "sent"
  /\ Goes(i, IF creates[i].name \in exists THEN "name" ELSE "validated")
  /\ ClientUnchanged /\ UNCHANGED serverVars

(* Another request may have taken the name since it was looked up.         *)
ProjectCreated(i) ==
  /\ creates[i].at = "validated"
  /\ Goes(i, IF creates[i].name \in exists THEN "error" ELSE "created")
  /\ exists' = exists \cup {creates[i].name}
  /\ ClientUnchanged /\ UNCHANGED <<indexing, notices, busy>>

(* The project stays if its credential cannot be assigned.  A repository   *)
(* without a Jenkinsfile is not indexed; a failing probe finds none.       *)
ProjectFinished(i) ==
  LET n == creates[i].name IN
  /\ creates[i].at = "created"
  /\ \/ Goes(i, "error") /\ UNCHANGED <<indexing, notices>>
     \/ Goes(i, "success") /\ indexing' = indexing \cup {n} /\ UNCHANGED notices
     \/ flow # "git" /\ Goes(i, "success") /\ notices' = notices \cup {n} /\ UNCHANGED indexing
  /\ ClientUnchanged /\ UNCHANGED <<exists, busy>>

(* Another user creates a pipeline.                                        *)
OtherCreates(n) ==
  /\ n \notin exists
  /\ \E i \in DOMAIN creates : creates[i].at = "validated" /\ creates[i].name = n
  /\ exists' = exists \cup {n} /\ busy' = busy \cup {n}
  /\ ClientUnchanged /\ UNCHANGED <<creates, indexing, notices>>

-----------------------------------------------------------------------------
(* _createPipelineComplete.                                                *)

(* The check of the branches that is started here (GithubFlowManager.js    *)
(* :308-319, BbCloudFlowManager.js:302-313) never finds any, and changes   *)
(* nothing: BbCreationApi, which all these flows use, looks at a property  *)
(* that no pipeline has (BbCreationApi.js:202).                            *)
Created(n) ==
  IF flow = "git"
  THEN /\ pipeline' = n
       /\ UNCHANGED <<steps, name>>
  ELSE IF Added(steps, "missing") \/ Added(steps, "success")
  THEN UNCHANGED <<steps, name, pipeline>>
  ELSE /\ steps' = Change(steps, "events")
       /\ pipeline' = n /\ name' = n

Refused(at) ==
  steps' = CASE at = "name" -> Render(steps, "rename", IF flow = "git" THEN "connect" ELSE "repository")
             [] at = "refused" /\ flow = "git" -> SubSeq(steps, 1, At(steps, "connect"))
             [] at = "error" /\ flow = "git" -> Render(steps, "error", "connect")
             [] OTHER -> steps

(* The flows other than git look for other fields in a refusal than the    *)
(* server names, and have no step for an error: they keep the one they     *)
(* show.                                                                   *)
CreateAnswered(i) ==
  /\ creates[i].at \in {"success", "name", "refused", "error", "lost"}
  /\ creates' = [creates EXCEPT ![i] = [name |-> None, at |-> "answered"]]
  /\ IF creates[i].at = "success"
     THEN Created(creates[i].name)
     ELSE Refused(creates[i].at) /\ UNCHANGED <<name, pipeline>>
  /\ UNCHANGED <<flow, left, manual, complete, orgGets, servers, repoVars, repo, handler, timer, branchGets, serverVars>>

-----------------------------------------------------------------------------
(* Events of runs and of indexings, and the wait for them.                 *)

(* _finishListening                                                        *)
Finish(st) ==
  /\ steps' = Change(steps, st)
  /\ handler' = FALSE
  /\ timer' = FALSE

OnlyWaits == UNCHANGED <<flow, left, manual, complete, orgGets, servers, repoVars, repo, creates, name>>

(* Faulty variant: the pipeline is not noted                               *)
RunEventOnly ==
  /\ handler /\ name \in busy
  /\ Finish("success")
  /\ OnlyWaits /\ UNCHANGED <<pipeline, branchGets, serverVars>>

(* A run of any pipeline of the name the page waits for will do.  GitHub's *)
(* flows do not note the pipeline.  Other events but those of indexings    *)
(* start the check of the branches of Created, which changes nothing.      *)
RunEvent ==
  /\ handler /\ name \in busy
  /\ Finish("success")
  /\ pipeline' = IF flow \in Bitbucket \cup {"git"} THEN name ELSE pipeline
  /\ OnlyWaits /\ UNCHANGED <<branchGets, serverVars>>

(* Branches are found while their project is indexed, and have runs.       *)
BranchFound(n) ==
  /\ n \in indexing \ busy
  /\ busy' = busy \cup {n}
  /\ ClientUnchanged /\ UNCHANGED <<creates, exists, indexing, notices>>

(* job_multibranch_indexing_result of a project, ours or another one: the  *)
(* dashboard takes any failure for its own; git fetches the pipeline.      *)
IndexingEvent(n, failed) ==
  IF handler /\ flow = "git" /\ n = name
  THEN /\ branchGets' = branchGets + 1
       /\ UNCHANGED <<steps, handler, timer, pipeline>>
  ELSE IF handler /\ flow # "git" /\ failed
  THEN Finish("event-error") /\ UNCHANGED <<branchGets, pipeline>>
  ELSE UNCHANGED <<steps, waitVars>>

IndexingEnds(n) ==
  /\ n \in indexing /\ indexing' = indexing \ {n}
  /\ \E failed \in BOOLEAN : IndexingEvent(n, failed)
  /\ OnlyWaits /\ UNCHANGED <<exists, notices, busy>>

OtherIndexingFails ==
  /\ handler /\ flow # "git"
  /\ IndexingEvent(None, TRUE)
  /\ OnlyWaits /\ UNCHANGED serverVars

(* _sendMultibranchIndexingCompleteEvent, a second after the project       *)
MissingEvent(n) ==
  /\ n \in notices /\ notices' = notices \ {n}
  /\ IF handler /\ n = name THEN Finish("missing") ELSE UNCHANGED <<steps, handler, timer>>
  /\ OnlyWaits /\ UNCHANGED <<pipeline, branchGets, exists, indexing, busy>>

GitFetched ==
  /\ branchGets > 0 /\ branchGets' = branchGets - 1
  /\ \E st \in {"missing", "success", "event-error"} : Finish(st)
  /\ OnlyWaits /\ UNCHANGED <<pipeline, serverVars>>

TimerFires ==
  /\ timer
  /\ Finish("timeout")
  /\ OnlyWaits /\ UNCHANGED <<pipeline, branchGets, serverVars>>

(* The user leaves, or the page goes on to the new pipeline or the editor  *)
(* (to leave before the end only stops the page): destroy drops the        *)
(* listeners, but for those of git.                                        *)
Leave ==
  /\ State \in {"success", "missing", "event-error", "timeout"}
  /\ left' = TRUE
  /\ handler' = (handler /\ flow = "git") /\ timer' = FALSE
  /\ UNCHANGED <<flow, stepVars, repoVars, repo, name, creates, pipeline, branchGets, serverVars>>
-----------------------------------------------------------------------------
Init ==
  /\ flow \in Flows
  /\ steps = IF flow \in {"github", "bitbucket-cloud"} THEN <<"credential">> ELSE <<"loading">>
  /\ manual = FALSE /\ complete = FALSE /\ orgGets = 0 /\ servers = 0
  /\ org = None /\ repos = <<>> /\ loading = FALSE
  /\ cache = [o \in Orgs |-> <<>>] /\ pages = <<>> /\ orderly = TRUE
  /\ repo = None /\ name = None /\ pipeline = None
  /\ handler = (flow = "git") /\ timer = FALSE /\ branchGets = 0
  /\ left = FALSE /\ creates = <<>>
  /\ exists \in SUBSET ({1} \cap Names) /\ busy = exists /\ indexing = {} /\ notices = {}

Server ==
  \E i \in DOMAIN creates :
    CreateRefused(i) \/ CreateValidated(i) \/ ProjectCreated(i) \/ ProjectFinished(i)

Next ==
  /\ ~left
  /\ \/ Loaded \/ SelectServer \/ SelectCredential \/ OrganizationsArrive \/ OrganizationsFail
     \/ \E o \in Orgs : SelectOrganization(o)
     \/ \E i \in UnderWay : PageArrives(i) \/ PageFails(i)
     \/ \E r \in Repositories : SelectRepository(r)
     \/ Len(creates) < MaxSaves /\ (SaveRepo \/ SaveRenamed \/ GitConnect)
     \/ Server
     \/ \E i \in DOMAIN creates : CreateAnswered(i)
     \/ \E n \in Names : OtherCreates(n) \/ BranchFound(n) \/ IndexingEnds(n) \/ MissingEvent(n)
     \/ RunEvent \/ OtherIndexingFails \/ GitFetched \/ TimerFires \/ Leave

(* The timer of the browser.                                               *)
Fairness == WF_vars(~left /\ TimerFires)

Spec == Init /\ [][Next]_vars /\ Fairness
-----------------------------------------------------------------------------
(* Properties.                                                             *)

(* unknown stands alone; pending waits for organizations or repositories   *)
Ranks ==
  [st \in States |->
     CASE st \in {"loading", "server", "connect", "unknown"} -> 1
       [] st = "credential" -> 2
       [] st = "organization" -> 3
       [] st = "pending" -> 4
       [] st = "repository" -> 5
       [] st = "rename" -> 6
       [] st \in Complete -> 7]

(* FlowManager.renderStep: whatever order answers come in, the steps on    *)
(* the page are in the order of the flow, each at most once.               *)
StepsInOrder ==
  \A i, j \in DOMAIN steps : i < j => Ranks[steps[i]] < Ranks[steps[j]]

IsListed(s, o) == \A i \in DOMAIN s : s[i] = <<o, i>>

(* _updateRepositories: as long as the user waits for the repositories of  *)
(* an organization and no page fails, the list holds the repositories of   *)
(* the chosen organization and each once, all of them when it stops        *)
(* loading; and what was kept for an organization is its own.              *)
RepositoriesOfOrg ==
  orderly /\ org # None =>
    /\ IsListed(repos, org)
    /\ ~loading => Len(repos) = PagesOf[org]
    /\ \A o \in Orgs : IsListed(cache[o], o)

(* BbCompleteStep.navigatePipeline: a flow of Bitbucket that has succeeded *)
(* knows the pipeline it is to show.  (The flows of GitHub do not when a   *)
(* run comes before the answer, nor does git when its indexing ends first.) *)
KnowsWhereToGo ==
  flow \in Bitbucket /\ Added(steps, "success") => pipeline # None

(* _initListeners, _onSseTimeout: a page that saves does not wait forever, *)
(* unless it took the end of another indexing, or of its timer, for an     *)
(* answer before its request was answered.  (git has no timer.)            *)
SaveSettles ==
  (flow # "git" /\ State = "saving")
    ~> (left \/ State \notin {"saving", "events"} \/ ~handler)
=============================================================================
