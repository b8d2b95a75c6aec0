------------------------------ MODULE LiveRuns ------------------------------
(***************************************************************************)
(* The list of runs of a pipeline in the browser, kept live by job events: *)
(* DefaultSSEHandler with the ActivityService and PipelineService it       *)
(* updates and the Pager of the activity page, against RunServer.          *)
(*                                                                         *)
(* JavaScript runs one handler or promise continuation at a time; between  *)
(* the event that starts a GET and the continuation that uses its answer   *)
(* anything may happen.  GETs of one url share one request (FetchCalls).   *)
(***************************************************************************)
EXTENDS RunServer, FiniteSets

CONSTANTS PageSize,    \* runs per page of the pager
          AlreadyOpen, \* the pipeline and its activity page are open from the start
          MaxFailures  \* bound: requests that fail

ASSUME ClientAssumption ==
    /\ PageSize \in Nat \ {0}
    /\ AlreadyOpen \in BOOLEAN
    /\ MaxFailures \in Nat

VARIABLES
    store,       \* ActivityService: store[n] is the state shown for run n
    latest,      \* latestRun of the pipeline in PipelineService
    pipeline,    \* the pipeline in PipelineService: absent, asked, served, loaded
    latestReply, \* the latest run in the answer that will load it
    asked,       \* asked[n]: the GET of run n that is in flight
    reply,       \* reply[n]: the answer it will bring
    shared,      \* runs whose last event joined a GET already in flight
    failed,      \* runs whose last GET failed
    open,        \* the pager exists
    hrefs,       \* Pager.hrefs
    displaced,   \* history: runs whose row went with the removal of an absent one
    revived,     \* history: runs whose last removal came while a GET was in flight
    pending,     \* Pager.pending
    error,       \* Pager.error
    currentPage, \* Pager.currentPage
    hasMore,     \* Pager.hasMore
    pageGet,     \* the GET of the next page
    page,        \* the answer it will bring
    clicks,      \* fetchNextPage() calls waiting for it
    failures     \* failures left

runVars == <<store, latest, pipeline, latestReply>>
getVars == <<asked, reply, shared, failed>>
listVars == <<open, hrefs, displaced, revived>>
pagerVars == <<pending, error, currentPage, hasMore>>
pageVars == <<pageGet, page, clicks>>
clientVars == <<runVars, getVars, listVars, pagerVars, pageVars, failures>>
vars == <<serverVars, clientVars>>

Shown == {"queued", "running", "paused", "finished"}
Phases == {"idle", "asked", "served", "failed"}
NoRun == 0
MaxClicks == 2   \* bound: fetchNextPage() calls that wait for one answer

TypeOK ==
    /\ ServerTypeOK
    /\ store \in [Numbers -> Shown \cup {"absent"}]
    /\ latest \in Numbers \cup {NoRun}
    /\ pipeline \in {"absent", "asked", "served", "loaded"}
    /\ latestReply \in [num : Builds \cup {NoRun}, state : Shown]
    /\ asked \in [Numbers -> Phases]
    /\ reply \in [Numbers -> Shown \cup {"notfound"}]
    /\ shared \subseteq Numbers
    /\ failed \subseteq Numbers
    /\ open \in BOOLEAN
    /\ hrefs \in Seq(Numbers)
    /\ displaced \subseteq Numbers
    /\ revived \subseteq Numbers
    /\ pending \in BOOLEAN
    /\ error \in BOOLEAN
    /\ currentPage \in Nat
    /\ hasMore \in BOOLEAN
    /\ pageGet \in Phases
    /\ page \in Seq([num : Numbers, state : Shown])
    /\ clicks \in 0..MaxClicks
    /\ failures \in 0..MaxFailures

\* An open activity page of a job without runs, or nothing loaded yet.
Init ==
    /\ ServerInit
    /\ store = [n \in Numbers |-> "absent"]
    /\ latest = NoRun
    /\ pipeline = IF AlreadyOpen THEN "loaded" ELSE "absent"
    /\ latestReply = [num |-> NoRun, state |-> "finished"]
    /\ asked = [n \in Numbers |-> "idle"]
    /\ reply = [n \in Numbers |-> "notfound"]
    /\ shared = {}
    /\ failed = {}
    /\ open = AlreadyOpen
    /\ hrefs = <<>>
    /\ displaced = {}
    /\ revived = {}
    /\ pending = FALSE
    /\ error = FALSE
    /\ currentPage = IF AlreadyOpen THEN 1 ELSE 0
    /\ hasMore = ~AlreadyOpen
    /\ pageGet = "idle"
    /\ page = <<>>
    /\ clicks = 0
    /\ failures = MaxFailures

Listed == {hrefs[i] : i \in 1..Len(hrefs)}

\* Pager.data: the rows that are drawn, for an href without an item has none.
Data == {n \in Listed : store[n] # "absent"}

-----------------------------------------------------------------------------
(* DefaultSSEHandler. *)

\* Faulty variant: no test of Pager.has.
InsertedAgain(n) == IF open THEN <<n>> \o hrefs ELSE hrefs

\* Pager.insert(href), at the front, unless Pager.has(href).
Inserted(n) ==
    IF open /\ n \notin Listed THEN <<n>> \o hrefs ELSE hrefs

\* Faulty variant: the row after the one of n is removed.
RemovedNext(n) ==
    LET at == {i \in 1..Len(hrefs) : hrefs[i] = n}
        i == IF at # {} THEN CHOOSE j \in at : \A k \in at : j <= k ELSE Len(hrefs)
    IN [j \in 1..(Len(hrefs) - 1) |-> IF j <= i THEN hrefs[j] ELSE hrefs[j + 1]]

\* Array.splice(i, 1) for the index i of n, counted from 1; indexOf answers
\* -1 for an absent href, and splice(-1, 1) removes the last element.
Removed(n) ==
    LET at == {i \in 1..Len(hrefs) : hrefs[i] = n}
        i == IF at # {} THEN CHOOSE j \in at : \A k \in at : j <= k ELSE Len(hrefs)
    IN [j \in 1..(Len(hrefs) - 1) |-> IF j < i THEN hrefs[j] ELSE hrefs[j + 1]]

Deliver(kinds) == events # <<>> /\ Head(events).kind \in kinds /\ events' = Tail(events)

\* Faulty variant: fetchActivity with useCache.
FetchActivityCached(n) ==
    IF store[n] = "absent"
      THEN asked' = [asked EXCEPT ![n] = "asked"] /\ shared' = shared \ {n}
      ELSE UNCHANGED <<asked, shared>>

\* A GET of run n, which dedupe lets join the one that is in flight.
FetchActivity(n) ==
    IF asked[n] = "idle"
      THEN asked' = [asked EXCEPT ![n] = "asked"] /\ shared' = shared \ {n}
      ELSE shared' = shared \cup {n} /\ UNCHANGED asked

\* queueEnter, queueLeft of a run that was not cancelled, and updateJob: fetch
\* the run unless its pipeline is not loaded or the event has no number.
HandleUpdate ==
    LET n == Head(events).num
    IN /\ Deliver({"queue_enter", "queue_left"} \cup RunKinds)
       /\ IF n = Unmatched \/ pipeline # "loaded"
            THEN UNCHANGED <<asked, shared>>
            ELSE FetchActivity(n)
       /\ UNCHANGED <<jobVars, runVars, reply, failed>>
       /\ UNCHANGED <<listVars, pagerVars, pageVars, failures>>

\* Faulty variant: an item that left the queue is fetched, cancelled or not.
FetchCancelled ==
    LET n == Head(events).num
    IN /\ Deliver({"queue_cancelled"})
       /\ IF n = Unmatched THEN UNCHANGED <<asked, shared>> ELSE FetchActivity(n)
       /\ UNCHANGED <<jobVars, runVars, reply, failed>>
       /\ UNCHANGED <<listVars, pagerVars, pageVars, failures>>

\* queueLeft of a cancelled run: out of the store and out of the pager.
HandleCancelled ==
    LET n == Head(events).num
    IN /\ Deliver({"queue_cancelled"})
       /\ IF n = Unmatched
            THEN UNCHANGED <<store, hrefs, displaced, revived>>
            ELSE /\ store' = [store EXCEPT ![n] = "absent"]
                 /\ hrefs' = IF open /\ hrefs # <<>> THEN Removed(n) ELSE hrefs
                 /\ displaced' = IF open /\ hrefs # <<>> /\ n \notin Listed
                                   THEN displaced \cup {hrefs[Len(hrefs)]}
                                   ELSE displaced
                 /\ revived' = IF asked[n] = "idle" THEN revived \ {n} ELSE revived \cup {n}
       /\ UNCHANGED <<jobVars, latest, pipeline, latestReply, getVars>>
       /\ UNCHANGED <<open, pagerVars, pageVars, failures>>

\* The server answers the GET of run n, or the request fails.
ServeRun(n) ==
    /\ asked[n] = "asked"
    /\ asked' = [asked EXCEPT ![n] = IF RestRun(n) = "notfound" THEN "failed" ELSE "served"]
    /\ reply' = [reply EXCEPT ![n] = RestRun(n)]
    /\ UNCHANGED <<serverVars, runVars, shared, failed, listVars, pagerVars, pageVars, failures>>

FailRun(n) ==
    /\ asked[n] = "asked" /\ failures > 0
    /\ failures' = failures - 1
    /\ asked' = [asked EXCEPT ![n] = "failed"]
    /\ UNCHANGED <<serverVars, runVars, reply, shared, failed, listVars, pagerVars, pageVars>>

\* fetchActivity stores the run; then the pager and the pipeline are updated.
RunArrives(n) ==
    /\ asked[n] = "served"
    /\ asked' = [asked EXCEPT ![n] = "idle"]
    /\ reply' = [reply EXCEPT ![n] = "notfound"]
    /\ failed' = failed \ {n}
    /\ store' = [store EXCEPT ![n] = reply[n]]
    /\ hrefs' = Inserted(n)
    /\ displaced' = displaced \ {n}
    /\ latest' = IF pipeline = "loaded" THEN n ELSE latest
    /\ UNCHANGED <<serverVars, pipeline, latestReply, shared, open, revived>>
    /\ UNCHANGED <<pagerVars, pageVars, failures>>

\* fetchActivity swallows the error; the pager still gets the href.
RunFails(n) ==
    /\ asked[n] = "failed"
    /\ asked' = [asked EXCEPT ![n] = "idle"]
    /\ failed' = failed \cup {n}
    /\ hrefs' = Inserted(n)
    /\ displaced' = displaced \ {n}
    /\ UNCHANGED <<serverVars, runVars, reply, shared, open, revived, pagerVars, pageVars, failures>>

-----------------------------------------------------------------------------
(* PipelineService.fetchPipeline; its mapper stores the latest run too. *)

AskPipeline ==
    /\ pipeline = "absent"
    /\ pipeline' = "asked"
    /\ UNCHANGED <<serverVars, store, latest, latestReply>>
    /\ UNCHANGED <<getVars, listVars, pagerVars, pageVars, failures>>

ServePipeline ==
    /\ pipeline = "asked"
    /\ pipeline' = "served"
    /\ latestReply' = [num |-> RestLatest, state |-> IF RestLatest = NoRun THEN "finished"
                                                    ELSE build[RestLatest]]
    /\ UNCHANGED <<serverVars, store, latest, getVars, listVars, pagerVars, pageVars, failures>>

PipelineArrives ==
    /\ pipeline = "served"
    /\ pipeline' = "loaded"
    /\ latest' = latestReply.num
    /\ store' = [n \in Numbers |-> IF n = latestReply.num THEN latestReply.state ELSE store[n]]
    /\ UNCHANGED <<serverVars, latestReply, getVars, listVars, pagerVars, pageVars, failures>>

-----------------------------------------------------------------------------
(* The pager of the activity page. *)

\* Faulty variant: pending is not set.
FetchNextPageUnmarked ==
    /\ clicks < MaxClicks
    /\ clicks' = clicks + 1
    /\ pageGet' = IF pageGet = "idle" THEN "asked" ELSE pageGet
    /\ UNCHANGED <<serverVars, runVars, getVars, hrefs, displaced, revived, pagerVars, page>>
    /\ UNCHANGED failures

\* fetchNextPage: the url depends on currentPage only, so a call made while
\* the answer to another is awaited shares its request.
FetchNextPage ==
    /\ clicks < MaxClicks
    /\ pending' = TRUE
    /\ clicks' = clicks + 1
    /\ pageGet' = IF pageGet = "idle" THEN "asked" ELSE pageGet
    /\ UNCHANGED <<serverVars, runVars, getVars, hrefs, displaced, revived>>
    /\ UNCHANGED <<error, currentPage, hasMore, page, failures>>

\* activityPager() makes the pager, whose constructor fetches the first page.
OpenActivity == ~open /\ open' = TRUE /\ FetchNextPage

\* The button is there while runs are shown and hasMore, pending or not.
ShowMore == open /\ hasMore /\ hrefs # <<>> /\ FetchNextPage /\ UNCHANGED open

ServePage ==
    /\ pageGet = "asked"
    /\ pageGet' = "served"
    /\ page' = RestPage(currentPage * PageSize, PageSize + 1)
    /\ UNCHANGED <<serverVars, runVars, getVars, listVars, pagerVars, clicks, failures>>

FailPage ==
    /\ pageGet = "asked" /\ failures > 0
    /\ failures' = failures - 1
    /\ pageGet' = "failed"
    /\ UNCHANGED <<serverVars, runVars, getVars, listVars, pagerVars, page, clicks>>

\* The hrefs of the answer without the extra item that tells there is more.
Trimmed ==
    [i \in 1..(IF Len(page) < PageSize THEN Len(page) ELSE PageSize) |-> page[i].num]

\* Each call that waited appends the same page.
PageArrives ==
    /\ pageGet = "served"
    /\ pageGet' = "idle"
    /\ store' = [n \in Numbers |->
                   IF \E i \in 1..Len(page) : page[i].num = n
                     THEN page[CHOOSE i \in 1..Len(page) : page[i].num = n].state
                     ELSE store[n]]
    /\ hrefs' = hrefs \o Trimmed \o (IF clicks > 1 THEN Trimmed ELSE <<>>)
    /\ hasMore' = (Len(page) > PageSize)
    /\ currentPage' = currentPage + clicks
    /\ pending' = FALSE
    /\ clicks' = 0
    /\ page' = <<>>
    /\ UNCHANGED <<serverVars, latest, pipeline, latestReply, getVars, open, displaced, revived>>
    /\ UNCHANGED <<error, failures>>

\* The error is logged; the action that would set it is created, not called.
PageFails ==
    /\ pageGet = "failed"
    /\ pageGet' = "idle"
    /\ clicks' = 0
    /\ UNCHANGED <<serverVars, runVars, getVars, listVars, pagerVars, page, failures>>

-----------------------------------------------------------------------------
ClientNext ==
    \/ HandleUpdate \/ HandleCancelled
    \/ \E n \in Numbers : ServeRun(n) \/ FailRun(n) \/ RunArrives(n) \/ RunFails(n)
    \/ AskPipeline \/ ServePipeline \/ PipelineArrives
    \/ OpenActivity \/ ShowMore \/ ServePage \/ FailPage \/ PageArrives \/ PageFails

Next == (ServerNext /\ UNCHANGED clientVars) \/ ClientNext

\* Events are delivered, requests are answered and continuations run; nobody
\* is obliged to start, finish or cancel a run, or to press a button.
Fairness ==
    /\ WF_vars(HandleUpdate \/ HandleCancelled)
    /\ \A n \in Numbers : WF_vars(ServeRun(n) \/ FailRun(n)) /\ WF_vars(RunArrives(n) \/ RunFails(n))
    /\ WF_vars(ServePipeline) /\ WF_vars(PipelineArrives)
    /\ WF_vars(ServePage \/ FailPage) /\ WF_vars(PageArrives \/ PageFails)

Spec == Init /\ [][Next]_vars
FairSpec == Spec /\ Fairness

-----------------------------------------------------------------------------
(* Properties. *)

\* Nothing the browser knows of is on its way.
Quiet == events = <<>> /\ asked = [n \in Numbers |-> "idle"] /\ pageGet = "idle"

Duplicated == \E i, j \in 1..Len(hrefs) : i # j /\ hrefs[i] = hrefs[j]

\* An event never puts a second row for a run into the list, however the
\* fetches of several events for the run overlap: only a page may.
EventsNeverDuplicate ==
    [][~Duplicated /\ Duplicated' => PageArrives]_vars

\* Once everything has settled a finished run is shown as finished, except
\* where its last event joined a fetch that was in flight, or a fetch failed.
StaleOnlyIfShared ==
    Quiet => \A n \in Builds :
        build[n] = "finished" => store[n] = "finished" \/ n \in shared \cup failed

\* A run that has started comes to be shown in the open list for good, but for
\* one whose last fetch failed, so that there may be nothing to show, and one
\* whose row went when a run without one was removed.
StartedRunShown ==
    \A n \in Builds : build[n] # "none" ~> [](n \in Data \cup failed \cup displaced)

\* What is shown once everything has settled is a build or in the queue: a
\* cancelled run is gone, but where the cancellation was published under
\* another number, or a fetch that was in flight brought the run back.
CancelledGone ==
    Quiet => \A n \in Data : n <= LastNumber \/ n \in unnamed \cup revived

\* The list never misses the spinner: a page on its way is shown as pending.
PendingWhileFetching == pageGet # "idle" => pending /\ clicks > 0
=============================================================================
