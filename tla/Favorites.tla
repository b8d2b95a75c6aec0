----------------------------- MODULE Favorites -----------------------------
(***************************************************************************)
(* The favorites of blueocean-personalization: FavoriteStore with the      *)
(* buttons that set a favorite, the cards of the dashboard                 *)
(* (DashboardCards) and the events that reach them through SseBus.         *)
(*                                                                         *)
(* A card shows the state of the last run of its job.  Every job runs at   *)
(* most once.  GETs of one url share a request (see FetchCalls), and an    *)
(* answer with a class that the browser has not met yet waits for a lookup *)
(* of its own, one per caller.                                             *)
(***************************************************************************)
EXTENDS Naturals, FiniteSets, SequencesExt

CONSTANTS Jobs,         \* what runs and can be a favorite
          Items,        \* what has a button: jobs and multibranch pipelines
          JobOf,        \* JobOf[i]: i, or the primary branch of pipeline i
          None,         \* no card, no prefetched data
          MaxRuns,      \* bounds: jobs that run; clicks on a button, openings
          MaxActs,      \* of the dashboard, pauses and failures together;
          MaxFailures   \* failing requests

ASSUME JobsAssumption == Jobs \subseteq Items /\ IsFiniteSet(Jobs)
ASSUME JobOfAssumption ==
    /\ JobOf \in [Items -> Jobs]
    /\ \A j \in Jobs : JobOf[j] = j

VARIABLES
    favorites,   \* the favorites of the user, in Jenkins
    run,         \* run[j]: the state of the run of j
    events,      \* published and not yet delivered
    names,       \* FavoriteStore._favoritesList
    cards,       \* FavoriteStore._favorites: cards[j] is the state shown
    fetched,     \* FavoriteStore._fetched
    mounted,     \* the dashboard is open and its listener subscribed
    prefetched,  \* the list the page was served with, until it is used
    list,        \* the promise dedupe holds for the list, if any
    arrived,     \* lists that wait for a capability lookup
    runGet,      \* runGet[j]: the promise for the run of j; told: whose it is
    heard,       \* runs that wait for a capability lookup
    known,       \* of which urls the classes are known
    puts,        \* requests that set a favorite
    acts, failures,
    overlapped,  \* jobs that were set again before the answer to the last time
    failed,      \* what has failed since it was last read alone
    crossed,     \* the last list may be older than what was known
    missed,      \* jobs whose run was reported while a list was on its way
    shuffled     \* jobs whose events were not answered, or heard, in order

serverVars == <<favorites, run, events>>
storeVars == <<names, cards, fetched, mounted>>
listVars == <<prefetched, list, arrived>>
runVars == <<runGet, heard>>
countVars == <<acts, failures>>
noteVars == <<overlapped, failed, crossed, missed, shuffled>>
vars == <<serverVars, storeVars, listVars, runVars, known, puts, countVars, noteVars>>

Shown == {"none", "queued", "running", "paused", "finished"}
ASSUME NoneAssumption == None \notin Shown

NoList == [phase |-> "idle", callers |-> 0, data |-> None]
NoRun == [phase |-> "idle", told |-> <<>>, state |-> "none"]

\* getLatestRun: the last build, if there is one.
LatestRun(j) == IF run[j] = "queued" THEN "none" ELSE run[j]

\* The list the server answers.
FavoritesOfUser == [j \in Jobs |-> IF j \in favorites THEN LatestRun(j) ELSE None]

\* A favorite is a name in the list; a pipeline is one if its primary branch is.
IsFavorite(i) == JobOf[i] \in Range(names)

ListUnderWay == list.phase # "idle" \/ arrived # <<>>
BeingRead(j) == runGet[j].told # <<>> \/ \E i \in DOMAIN heard : heard[i].job = j

Init ==
    /\ favorites \in SUBSET Jobs
    /\ run = [j \in Jobs |-> "none"]
    /\ events = <<>>
    /\ names \in {ns \in [1..Cardinality(favorites) -> Jobs] : Range(ns) = favorites}
    /\ cards = [j \in Jobs |-> None]
    /\ fetched = FALSE
    /\ mounted = FALSE
    /\ prefetched \in {None, FavoritesOfUser}
    /\ list = NoList
    /\ arrived = <<>>
    /\ runGet = [j \in Jobs |-> NoRun]
    /\ heard = <<>>
    /\ known \in {{}, {"list", "run"}}
    /\ puts = {}
    /\ acts = 0 /\ failures = 0
    /\ overlapped = {}
    /\ failed = {}
    /\ crossed = FALSE
    /\ missed = {}
    /\ shuffled = {}

-----------------------------------------------------------------------------
(* Jenkins: the run of a job, with the events of its changes. *)

RunGoesOn(j, from, to) ==
    /\ run[j] = from
    /\ run' = [run EXCEPT ![j] = to]
    /\ events' = Append(events, [job |-> j, what |-> to])
    /\ UNCHANGED <<favorites, storeVars, listVars, runVars, known, puts, failures, noteVars>>

Enqueue(j) ==
    /\ Cardinality({i \in Jobs : run[i] # "none"}) < MaxRuns
    /\ RunGoesOn(j, "none", "queued") /\ UNCHANGED acts

Start(j) == RunGoesOn(j, "queued", "running") /\ UNCHANGED acts

Pause(j) ==
    /\ acts + failures < MaxActs
    /\ acts' = acts + 1
    /\ RunGoesOn(j, "running", "paused")

Unpause(j) == RunGoesOn(j, "paused", "running") /\ UNCHANGED acts

End(j) == RunGoesOn(j, "running", "finished") /\ UNCHANGED acts

-----------------------------------------------------------------------------
(* The list of favorites with their runs. *)

\* The getter favorites: the list is asked for once, until the cache is cleared.
\* A list that is asked for while none is under way brings everything up to
\* date, but for the one of the page, which is as old as the page.
AskList ==
    /\ fetched' = TRUE
    /\ crossed' = (ListUnderWay \/ (prefetched # None /\ prefetched # FavoritesOfUser))
    /\ IF list.phase # "idle"
         THEN /\ list' = [list EXCEPT !.callers = @ + 1]
              /\ UNCHANGED prefetched
         ELSE /\ list' = [phase |-> IF prefetched = None THEN "asked" ELSE "served",
                          callers |-> 1, data |-> prefetched]
              /\ prefetched' = None
    /\ IF ListUnderWay
         THEN UNCHANGED <<missed, failed>>
         ELSE missed' = {} /\ failed' = failed \ {"list"}
    /\ UNCHANGED arrived

\* Faulty variant: the cards are drawn again, but not read again.
ClearCacheOnly ==
    UNCHANGED <<fetched, listVars, failed, crossed, missed>>

\* clearCache; the dashboard, when open, is drawn again and asks again.
ClearCache ==
    IF mounted
      THEN AskList
      ELSE fetched' = FALSE /\ UNCHANGED <<listVars, failed, crossed, missed>>

ServeList ==
    /\ list.phase = "asked"
    /\ list' = [list EXCEPT !.phase = "served", !.data = FavoritesOfUser]
    /\ UNCHANGED <<serverVars, storeVars, prefetched, arrived, runVars, known, puts,
                   countVars, noteVars>>

\* Every caller gets the list, at once or after a lookup of its own.
ListResolves ==
    /\ list.phase = "served"
    /\ list' = NoList
    /\ IF "list" \in known
         THEN cards' = list.data /\ UNCHANGED arrived
         ELSE /\ arrived' = arrived \o [i \in 1..list.callers |-> list.data]
              /\ UNCHANGED cards
    /\ UNCHANGED <<serverVars, names, fetched, mounted, prefetched, runVars, known, puts,
                   countVars, noteVars>>

ListLookedUp(i) ==
    /\ cards' = arrived[i]
    /\ arrived' = RemoveAt(arrived, i)
    /\ known' = known \cup {"list"}
    /\ UNCHANGED <<serverVars, names, fetched, mounted, prefetched, list, runVars, puts,
                   countVars, noteVars>>

Failure(what) ==
    /\ failures < MaxFailures /\ acts + failures < MaxActs
    /\ failures' = failures + 1
    /\ failed' = failed \cup {what}
    /\ UNCHANGED <<acts, overlapped, crossed, missed, shuffled>>

\* The sort of no list throws, and the store keeps what it has.
ListFails ==
    /\ list.phase = "asked"
    /\ list' = NoList
    /\ Failure("list")
    /\ UNCHANGED <<serverVars, storeVars, prefetched, arrived, runVars, known, puts>>

ListLookupFails(i) ==
    /\ arrived' = RemoveAt(arrived, i)
    /\ Failure("list")
    /\ UNCHANGED <<serverVars, storeVars, prefetched, list, runVars, known, puts>>

-----------------------------------------------------------------------------
(* The dashboard. *)

Mount ==
    /\ ~mounted
    /\ acts + failures < MaxActs
    /\ acts' = acts + 1
    /\ mounted' = TRUE
    /\ AskList
    /\ UNCHANGED <<serverVars, names, cards, runVars, known, puts, failures,
                   overlapped, shuffled>>

Unmount ==
    /\ mounted
    /\ mounted' = FALSE
    /\ fetched' = FALSE
    /\ UNCHANGED <<serverVars, names, cards, listVars, runVars, known, puts, countVars, noteVars>>
-----------------------------------------------------------------------------
(* The events, through SseBus. *)

\* onPipelineRun, called with what is told of j.
Updated(c, j, what) ==
    IF fetched /\ c[j] # None THEN [c EXCEPT ![j] = what] ELSE c

\* The listeners that are interested are found before the request is made, so
\* that they are called even when the dashboard has been left meanwhile.  The
\* filter is the one of FavoritesSseListener.
Interested(j) == mounted /\ IsFavorite(j)

Delivered == Head(events)

\* _updateJob: the run is read, together with whoever is reading it.
UpdateJob(j, what) ==
    /\ runGet' = [runGet EXCEPT ![j].told = Append(@, what),
                               ![j].phase = IF @ = "idle" THEN "asked" ELSE @]
    /\ UNCHANGED <<cards, shuffled>>

\* _enqueueJob: the listeners are told at once.
EnqueueJob(j) ==
    /\ cards' = Updated(cards, j, "queued")
    /\ UNCHANGED <<runGet, shuffled>>

Unheard(j) ==
    /\ shuffled' = IF BeingRead(j) THEN shuffled \cup {j} ELSE shuffled
    /\ UNCHANGED <<cards, runGet>>

HandleJobEvent ==
    /\ events # <<>>
    /\ events' = Tail(events)
    /\ LET j == Delivered.job IN
       \/ /\ ~Interested(j)
          /\ Unheard(j)
       \/ /\ Interested(j)
          /\ Delivered.what = "queued"
          /\ EnqueueJob(j)
       \/ /\ Interested(j)
          /\ Delivered.what # "queued"
          /\ UpdateJob(j, Delivered.what)
    /\ UNCHANGED <<favorites, run, names, fetched, mounted, listVars, heard, known,
                   puts, countVars, overlapped, failed, crossed, missed>>

ServeRun(j) ==
    /\ runGet[j].phase = "asked"
    /\ runGet' = [runGet EXCEPT ![j].phase = "served", ![j].state = LatestRun(j)]
    /\ UNCHANGED <<serverVars, storeVars, listVars, heard, known, puts, countVars, noteVars>>

\* Faulty variant: the state that was read, which may be of an earlier time.
StateRead(what, read) == read

\* The state is forced to the one of the event, whatever was read.
StateTold(what, read) == what

\* What is known of j after its run has been reported.
Reported(j) == missed' = IF ListUnderWay THEN missed \cup {j} ELSE missed \ {j}

\* Every caller gets the run, at once or after a lookup of its own.
RunResolves(j) ==
    /\ runGet[j].phase = "served"
    /\ runGet' = [runGet EXCEPT ![j] = NoRun]
    /\ IF "run" \in known
         THEN /\ cards' = Updated(cards, j, StateTold(Last(runGet[j].told), runGet[j].state))
              /\ shuffled' = IF \E i \in DOMAIN heard : heard[i].job = j
                               THEN shuffled \cup {j} ELSE shuffled
              /\ Reported(j)
              /\ UNCHANGED heard
         ELSE /\ heard' = heard \o [i \in DOMAIN runGet[j].told |->
                    [job |-> j, what |-> StateTold(runGet[j].told[i], runGet[j].state)]]
              /\ UNCHANGED <<cards, shuffled, missed>>
    /\ UNCHANGED <<serverVars, names, fetched, mounted, listVars, known, puts, countVars,
                   overlapped, failed, crossed>>

RunLookedUp(i) ==
    LET j == heard[i].job IN
    /\ heard' = RemoveAt(heard, i)
    /\ cards' = Updated(cards, j, heard[i].what)
    /\ known' = known \cup {"run"}
    /\ shuffled' = IF \E k \in 1..(i - 1) : heard[k].job = j THEN shuffled \cup {j} ELSE shuffled
    /\ Reported(j)
    /\ UNCHANGED <<serverVars, names, fetched, mounted, listVars, runGet, puts, countVars,
                   overlapped, failed, crossed>>

RunFails(j) ==
    /\ runGet[j].phase = "asked"
    /\ runGet' = [runGet EXCEPT ![j] = NoRun]
    /\ Failure("run")
    /\ UNCHANGED <<serverVars, storeVars, listVars, heard, known, puts>>

RunLookupFails(i) ==
    /\ heard' = RemoveAt(heard, i)
    /\ Failure("run")
    /\ UNCHANGED <<serverVars, storeVars, listVars, runGet, known, puts>>

-----------------------------------------------------------------------------
(* Setting a favorite. *)

\* Requests are told apart by a number, the first one that is free.
IsFree(n) == \A p \in puts : p.id # n

\* _onFavoriteToggle and setFavorite: the opposite of what the names say.
Click(i) ==
    LET j == JobOf[i] IN
    /\ acts + failures < MaxActs
    /\ acts' = acts + 1
    /\ \E n \in 1..MaxActs :
         /\ IsFree(n) /\ \A m \in 1..(n - 1) : ~IsFree(m)
         /\ puts' = puts \cup
              {[id |-> n, job |-> j, favorite |-> ~IsFavorite(i), phase |-> "asked"]}
    /\ overlapped' = IF \E p \in puts : p.job = j THEN overlapped \cup {j} ELSE overlapped
    /\ UNCHANGED <<serverVars, storeVars, listVars, runVars, known, failures, failed,
                   crossed, missed, shuffled>>

\* FavoriteUtil.toggle.
ServePut(p) ==
    /\ p.phase = "asked"
    /\ puts' = (puts \ {p}) \cup {[p EXCEPT !.phase = "served"]}
    /\ favorites' = IF p.favorite THEN favorites \cup {p.job} ELSE favorites \ {p.job}
    /\ UNCHANGED <<run, events, storeVars, listVars, runVars, known, countVars, noteVars>>

\* The favorite plugin may refuse to set what is set.  There is no item in no
\* data: the error is shown and nothing is done.
PutRefused(p) ==
    /\ p.phase = "asked"
    /\ p.favorite = (p.job \in favorites)
    /\ puts' = puts \ {p}
    /\ UNCHANGED <<serverVars, storeVars, listVars, runVars, known, countVars, noteVars>>

\* The request, or the answer, is lost, with the same effect.
PutFails(p) ==
    /\ puts' = puts \ {p}
    /\ Failure("put")
    /\ UNCHANGED <<serverVars, storeVars, listVars, runVars, known>>

\* Faulty variant: the last one goes instead.
WithoutLast(ns, j) == Front(ns)

\* The first of that name goes.  When there is none, findIndex is -1 and the
\* slices are all but the last, and everything.
Without(ns, j) ==
    IF j \in Range(ns)
      THEN RemoveAt(ns, SelectInSeq(ns, LAMBDA n : n = j))
      ELSE Front(ns) \o ns

PutAnswered(p) ==
    /\ p.phase = "served"
    /\ puts' = puts \ {p}
    /\ names' = IF p.favorite THEN Append(names, p.job) ELSE Without(names, p.job)
    /\ ClearCache
    /\ UNCHANGED <<serverVars, cards, mounted, runVars, known, countVars, overlapped, shuffled>>

-----------------------------------------------------------------------------
Next ==
    \/ \E j \in Jobs : Enqueue(j) \/ Start(j) \/ Pause(j) \/ Unpause(j) \/ End(j)
                          \/ ServeRun(j) \/ RunResolves(j) \/ RunFails(j)
    \/ HandleJobEvent
    \/ \E i \in DOMAIN heard : RunLookedUp(i) \/ RunLookupFails(i)
    \/ ServeList \/ ListResolves \/ ListFails
    \/ \E i \in DOMAIN arrived : ListLookedUp(i) \/ ListLookupFails(i)
    \/ Mount \/ Unmount
    \/ \E i \in Items : Click(i)
    \/ \E p \in puts : ServePut(p) \/ PutFails(p) \/ PutAnswered(p) \/ PutRefused(p)

Spec == Init /\ [][Next]_vars

-----------------------------------------------------------------------------
(* Properties. *)

\* When every click has been answered the names are the user's favorites, each
\* once, unless an answer was lost: a job that was set again before the answer
\* to the last time is excused, and with it, as a removal that finds nothing
\* repeats other names, all of them.
NamesMatch ==
    puts = {} /\ "put" \notin failed /\ overlapped = {} =>
        IsInjective(names) /\ Range(names) = favorites

Quiet ==
    /\ events = <<>> /\ puts = {}
    /\ ~ListUnderWay
    /\ \A j \in Jobs : ~BeingRead(j)

\* On an open dashboard where nothing is under way the cards are those of the
\* user's favorites, whatever was clicked, as long as no list was asked for
\* while another one was on its way (crossed).
CardsMatch ==
    Quiet /\ mounted /\ ~crossed /\ failed \cap {"put", "list"} = {} =>
        {j \in Jobs : cards[j] # None} = favorites

\* There a card shows how its run stands, as SseBus promises when it forces the
\* state of the run it reads, unless the run was reported while the list was on
\* its way, its events were answered out of order, or clicks on it overlapped.
StatesShown ==
    Quiet /\ mounted /\ ~crossed /\ failed = {} =>
        \A j \in Jobs \ (missed \cup shuffled \cup overlapped) :
            cards[j] # None /\ run[j] \in {"running", "paused", "finished"} => cards[j] = run[j]
=============================================================================
