----------------------------- MODULE FetchCalls -----------------------------
(***************************************************************************)
(* Fetch.fetchJSON of blueocean-core-js (fetch.ts) with what it calls: the *)
(* deduplication of in-flight GETs (utils/dedupe-calls.js), the data       *)
(* prefetched in the page, the JWT step, the capability lookup that        *)
(* follows every answer (capability/), and the counter and timers of the   *)
(* loading bar (LoadingIndicator.js).                                      *)
(*                                                                         *)
(* A resource is a version number that the server may increase at any      *)
(* time; a call is one use of fetchJSON.                                   *)
(***************************************************************************)
EXTENDS Naturals, FiniteSets

CONSTANTS Urls,        \* resources fetched with GET
          Calls,       \* one element per call of fetchJSON
          Classes,     \* the "_class" values of the answers
          ClassesOf,   \* ClassesOf[u]: the classes found in an answer for u
          MaxVersion   \* bound on the changes of a resource

ASSUME UrlsAssumption == IsFiniteSet(Urls) /\ Urls # {}
ASSUME CallsAssumption == IsFiniteSet(Calls)
ASSUME ClassesAssumption == ClassesOf \in [Urls -> SUBSET Classes]
ASSUME VersionAssumption == MaxVersion \in Nat

VARIABLES
    jwtEnabled,    \* AppConfig.isJWTEnabled(), which the page is built with
    version,       \* version[u]: server side state of u
    prefetched,    \* urls whose prefetchdata entry is still there
    phase,         \* phase[u]: the promise dedupe holds for u, if any
    answer,        \* answer[u]: the version the server put in the response
    noisy,         \* noisy[u]: the request of u was counted by the indicator
    settledAt,     \* settledAt[u]: history, the version of u when its last promise settled
    stage,         \* stage[c]: how far call c has come
    urlOf,         \* urlOf[c]: the url call c was made with
    silent,        \* silent[c]: disableLoadingIndicator of call c
    got,           \* got[c]: the version call c was answered with
    since,         \* since[c]: history, settledAt[u] when call c asked dedupe for u
    known,         \* classes in the _localStore of the CapabilityStore
    loadingCount,  \* LoadingIndicator.loadingCount
    bar,           \* the CSS classes of the loading bar
    timers         \* the pending timeouts of the loading bar

serverVars == <<jwtEnabled, version>>
dedupeVars == <<prefetched, phase, answer, noisy, settledAt>>
callVars == <<stage, urlOf, silent, got, since>>
barVars == <<loadingCount, bar, timers>>
vars == <<serverVars, dedupeVars, callVars, known, barVars>>

\* The timeouts of the bar and their delay in milliseconds.
Delay == [go |-> 350, long |-> 1350, longer |-> 6350, complete |-> 10, strip |-> 500]
Loading == {"go", "long", "longer"}
Completing == {"complete", "strip"}

Settled == {"resolved", "rejected", "unaugmented"}
Stages == {"new", "token", "waiting", "json", "lookupToken", "lookup"} \cup Settled

TypeOK ==
    /\ jwtEnabled \in BOOLEAN
    /\ version \in [Urls -> 0..MaxVersion]
    /\ prefetched \subseteq Urls
    /\ phase \in [Urls -> {"idle", "asked", "served", "failed"}]
    /\ answer \in [Urls -> 0..MaxVersion]
    /\ noisy \in [Urls -> BOOLEAN]
    /\ settledAt \in [Urls -> 0..MaxVersion]
    /\ stage \in [Calls -> Stages]
    /\ urlOf \in [Calls -> Urls]
    /\ silent \in [Calls -> BOOLEAN]
    /\ got \in [Calls -> 0..MaxVersion]
    /\ since \in [Calls -> 0..MaxVersion]
    /\ known \subseteq Classes
    /\ loadingCount \in Nat
    /\ bar \subseteq Loading \cup {"complete"}
    /\ timers \subseteq Loading \cup Completing

Init ==
    /\ jwtEnabled \in BOOLEAN
    /\ version = [u \in Urls |-> 0]
    /\ prefetched \in SUBSET Urls
    /\ phase = [u \in Urls |-> "idle"]
    /\ answer = [u \in Urls |-> 0]
    /\ noisy = [u \in Urls |-> FALSE]
    /\ settledAt = [u \in Urls |-> 0]
    /\ stage = [c \in Calls |-> "new"]
    /\ urlOf = [c \in Calls |-> CHOOSE u \in Urls : TRUE]
    /\ silent = [c \in Calls |-> FALSE]
    /\ got = [c \in Calls |-> 0]
    /\ since = [c \in Calls |-> 0]
    /\ known \in SUBSET Classes
    /\ loadingCount = 0
    /\ bar = {}
    /\ timers = {}

-----------------------------------------------------------------------------
(* The loading indicator. *)

\* Faulty variant: the timeouts of an earlier hide() are left running.
ShowOverTimers ==
    /\ loadingCount' = loadingCount + 1
    /\ IF loadingCount = 0
         THEN bar' = bar \ {"complete"} /\ timers' = timers \cup Loading
         ELSE UNCHANGED <<bar, timers>>

Show ==
    /\ loadingCount' = loadingCount + 1
    /\ IF loadingCount = 0
         THEN bar' = bar \ {"complete"} /\ timers' = Loading
         ELSE UNCHANGED <<bar, timers>>

\* Faulty variant: nothing is scheduled to take the bar down.
HideOnly ==
    /\ loadingCount' = IF loadingCount > 0 THEN loadingCount - 1 ELSE 0
    /\ timers' = IF loadingCount' = 0 THEN {} ELSE timers
    /\ UNCHANGED bar

Hide ==
    /\ loadingCount' = IF loadingCount > 0 THEN loadingCount - 1 ELSE 0
    /\ timers' = IF loadingCount' = 0 THEN Completing ELSE timers
    /\ UNCHANGED bar

\* Faulty variant: prefetched data never hidden.
NeverHidden == Show

\* show() and hide() in the same turn, as for prefetched data.
ShowHide ==
    IF loadingCount = 0
      THEN /\ bar' = bar \ {"complete"}
           /\ timers' = Completing
           /\ UNCHANGED loadingCount
      ELSE UNCHANGED barVars

\* A timeout fires; those set together fire in the order of their delays.
TimerFires(t) ==
    /\ t \in timers
    /\ \A s \in timers : Delay[t] <= Delay[s]
    /\ timers' = timers \ {t}
    /\ bar' = IF t = "strip" THEN {} ELSE bar \cup {t}
    /\ UNCHANGED <<loadingCount, known>>
    /\ UNCHANGED <<serverVars, dedupeVars, callVars>>

-----------------------------------------------------------------------------
(* The server, which changes and answers when it likes. *)

Change(u) ==
    /\ version[u] < MaxVersion
    /\ version' = [version EXCEPT ![u] = @ + 1]
    /\ UNCHANGED <<jwtEnabled, dedupeVars, callVars, known, barVars>>

Serve(u) ==
    /\ phase[u] = "asked"
    /\ phase' = [phase EXCEPT ![u] = "served"]
    /\ answer' = [answer EXCEPT ![u] = version[u]]
    /\ UNCHANGED <<prefetched, noisy, settledAt>>
    /\ UNCHANGED <<serverVars, callVars, known, barVars>>

\* A status outside 2XX, a network error or a refresh header that changed.
Fail(u) ==
    /\ phase[u] = "asked"
    /\ phase' = [phase EXCEPT ![u] = "failed"]
    /\ UNCHANGED <<prefetched, answer, noisy, settledAt>>
    /\ UNCHANGED <<serverVars, callVars, known, barVars>>

-----------------------------------------------------------------------------
(* Making a call. *)

\* dedupe found a promise for u: the call shares it.
Join(u) ==
    /\ phase[u] # "idle"
    /\ UNCHANGED <<dedupeVars, barVars>>

\* The page holds prefetched data for u: used once, and as old as the page.
UsePrefetched(u, s) ==
    /\ phase[u] = "idle"
    /\ u \in prefetched
    /\ prefetched' = prefetched \ {u}
    /\ phase' = [phase EXCEPT ![u] = "served"]
    /\ answer' = [answer EXCEPT ![u] = 0]
    /\ noisy' = [noisy EXCEPT ![u] = FALSE]
    /\ IF s THEN UNCHANGED barVars ELSE ShowHide
    /\ UNCHANGED settledAt

\* Faulty variant: a request may be made first and the prefetched data used later.
StartRequestAnyway(u, s) ==
    /\ phase[u] = "idle"
    /\ phase' = [phase EXCEPT ![u] = "asked"]
    /\ noisy' = [noisy EXCEPT ![u] = ~s]
    /\ IF s THEN UNCHANGED barVars ELSE Show
    /\ UNCHANGED <<prefetched, answer, settledAt>>

StartRequest(u, s) ==
    /\ phase[u] = "idle"
    /\ u \notin prefetched
    /\ phase' = [phase EXCEPT ![u] = "asked"]
    /\ noisy' = [noisy EXCEPT ![u] = ~s]
    /\ IF s THEN UNCHANGED barVars ELSE Show
    /\ UNCHANGED <<prefetched, answer, settledAt>>

RawFetchJSON(u, s) == Join(u) \/ UsePrefetched(u, s) \/ StartRequest(u, s)

\* Call c asks dedupe for url u.
Ask(c, u, s) ==
    /\ RawFetchJSON(u, s)
    /\ stage' = [stage EXCEPT ![c] = "waiting"]
    /\ since' = [since EXCEPT ![c] = settledAt[u]]

FetchJSON(c, u, s) ==
    /\ stage[c] = "new"
    /\ urlOf' = [urlOf EXCEPT ![c] = u]
    /\ silent' = [silent EXCEPT ![c] = s]
    /\ IF jwtEnabled
         THEN /\ stage' = [stage EXCEPT ![c] = "token"]
              /\ UNCHANGED <<since, dedupeVars, barVars>>
         ELSE Ask(c, u, s)
    /\ UNCHANGED <<serverVars, got, known>>

\* The options other than the fetch options do not survive the JWT step.
TokenResolved(c) ==
    /\ stage[c] = "token"
    /\ Ask(c, urlOf[c], FALSE)
    /\ UNCHANGED <<serverVars, urlOf, silent, got, known>>

\* Faulty variant: the promise that fetchJSON returns is only ever resolved.
TokenLost(c) ==
    /\ stage[c] = "token"
    /\ stage' = [stage EXCEPT ![c] = "lost"]
    /\ UNCHANGED <<serverVars, dedupeVars, urlOf, silent, got, since, known, barVars>>

TokenRejected(c) ==
    /\ stage[c] = "token"
    /\ stage' = [stage EXCEPT ![c] = "rejected"]
    /\ UNCHANGED <<serverVars, dedupeVars, urlOf, silent, got, since, known, barVars>>

-----------------------------------------------------------------------------
(* Answers. *)

\* Faulty variant: a promise is only deleted when it is rejected.
DeleteFailed(u) ==
    /\ phase' = IF phase[u] = "failed" THEN [phase EXCEPT ![u] = "idle"] ELSE phase
    /\ settledAt' = [settledAt EXCEPT ![u] = version[u]]

\* delete promises[key].
DeletePromise(u) ==
    /\ phase' = [phase EXCEPT ![u] = "idle"]
    /\ settledAt' = [settledAt EXCEPT ![u] = version[u]]

\* The callers that hold the promise of u.
Waiting(u) == {c \in Calls : stage[c] = "waiting" /\ urlOf[c] = u}

\* The response is parsed; every call that shares the promise gets the data.
Resolve(u) ==
    /\ phase[u] = "served"
    /\ DeletePromise(u)
    /\ stage' = [c \in Calls |-> IF c \in Waiting(u) THEN "json" ELSE stage[c]]
    /\ got' = [c \in Calls |-> IF c \in Waiting(u) THEN answer[u] ELSE got[c]]
    /\ IF noisy[u] THEN Hide ELSE UNCHANGED barVars
    /\ UNCHANGED <<prefetched, answer, noisy>>
    /\ UNCHANGED <<serverVars, urlOf, silent, since, known>>

Reject(u) ==
    /\ phase[u] = "failed"
    /\ DeletePromise(u)
    /\ stage' = [c \in Calls |-> IF c \in Waiting(u) THEN "rejected" ELSE stage[c]]
    /\ IF noisy[u] THEN Hide ELSE UNCHANGED barVars
    /\ UNCHANGED <<prefetched, answer, noisy>>
    /\ UNCHANGED <<serverVars, urlOf, silent, got, since, known>>

\* resolveCapabilities: from the store, or by a POST that goes through
\* fetchJSON again: a token first, then a request the indicator counts.
Augment(c) ==
    /\ stage[c] = "json"
    /\ \/ /\ ClassesOf[urlOf[c]] \subseteq known
          /\ stage' = [stage EXCEPT ![c] = "resolved"]
          /\ UNCHANGED barVars
       \/ /\ ~(ClassesOf[urlOf[c]] \subseteq known)
          /\ jwtEnabled
          /\ stage' = [stage EXCEPT ![c] = "lookupToken"]
          /\ UNCHANGED barVars
       \/ /\ ~(ClassesOf[urlOf[c]] \subseteq known)
          /\ ~jwtEnabled
          /\ stage' = [stage EXCEPT ![c] = "lookup"]
          /\ Show
    /\ UNCHANGED <<serverVars, dedupeVars, urlOf, silent, got, since, known>>

LookupTokenResolved(c) ==
    /\ stage[c] = "lookupToken"
    /\ stage' = [stage EXCEPT ![c] = "lookup"]
    /\ Show
    /\ UNCHANGED <<serverVars, dedupeVars, urlOf, silent, got, since, known>>

LookupTokenRejected(c) ==
    /\ stage[c] = "lookupToken"
    /\ stage' = [stage EXCEPT ![c] = "unaugmented"]
    /\ UNCHANGED <<serverVars, dedupeVars, urlOf, silent, got, since, known, barVars>>

LookupResolved(c) ==
    /\ stage[c] = "lookup"
    /\ stage' = [stage EXCEPT ![c] = "resolved"]
    /\ known' = known \cup ClassesOf[urlOf[c]]
    /\ Hide
    /\ UNCHANGED <<serverVars, dedupeVars, urlOf, silent, got, since>>

\* The promise fetchJSON returned is rejected although its data arrived.
LookupRejected(c) ==
    /\ stage[c] = "lookup"
    /\ stage' = [stage EXCEPT ![c] = "unaugmented"]
    /\ Hide
    /\ UNCHANGED <<serverVars, dedupeVars, urlOf, silent, got, since, known>>

-----------------------------------------------------------------------------
Next ==
    \/ \E u \in Urls : Change(u) \/ Serve(u) \/ Fail(u) \/ Resolve(u) \/ Reject(u)
    \/ \E c \in Calls, u \in Urls, s \in BOOLEAN : FetchJSON(c, u, s)
    \/ \E c \in Calls : TokenResolved(c) \/ TokenRejected(c) \/ Augment(c)
                           \/ LookupTokenResolved(c) \/ LookupTokenRejected(c)
                           \/ LookupResolved(c) \/ LookupRejected(c)
    \/ \E t \in Loading \cup Completing : TimerFires(t)

\* The event loop runs what is due, and every request is answered or fails.
Fairness ==
    /\ \A u \in Urls : /\ WF_vars(Serve(u) \/ Fail(u))
                       /\ WF_vars(Resolve(u))
                       /\ WF_vars(Reject(u))
    /\ \A c \in Calls : /\ WF_vars(TokenResolved(c) \/ TokenRejected(c))
                        /\ WF_vars(Augment(c))
                        /\ WF_vars(LookupTokenResolved(c) \/ LookupTokenRejected(c))
                        /\ WF_vars(LookupResolved(c) \/ LookupRejected(c))
    /\ \A t \in Loading \cup Completing : WF_vars(TimerFires(t))

Spec == Init /\ [][Next]_vars
FairSpec == Spec /\ Fairness

-----------------------------------------------------------------------------
(* Properties. *)

\* The requests in flight that were made with the indicator on, and the
\* calls whose capabilities are being looked up.
Noisy == {u \in Urls : phase[u] # "idle" /\ noisy[u]}
LookingUp == {c \in Calls : stage[c] = "lookup"}

\* The calls whose JSON has arrived.
Answered ==
    {c \in Calls : stage[c] \in {"json", "lookupToken", "lookup", "resolved", "unaugmented"}}

\* Sharing a request is not caching: whoever asks when the last promise for a
\* url has settled is answered with a state the resource had then or later,
\* whatever is still in flight, failed or was prefetched.
NeverCached ==
    \A c \in Answered : got[c] >= since[c]

\* The indicator counts exactly the requests that are in flight and were not
\* made silently, the capability lookups among them: every show() of fetch.ts
\* is paired with one hide(), on success, on failure and for prefetched data.
IndicatorBalanced ==
    loadingCount = Cardinality(Noisy) + Cardinality(LookingUp)

\* While something is loading the bar neither shows nor is about to show that
\* loading is complete, whatever timeouts an earlier hide() left behind.
BarHonest ==
    loadingCount > 0 => (bar \cup timers) \cap Completing = {}

\* Calls are answered with versions the server had, and never with an older
\* version than a call for the same url answered before (see MonotoneReads).
Reads == INSTANCE MonotoneReads WITH answered <- Answered
MonotoneAnswers == Reads!Spec

\* Every call settles: it is resolved or rejected.
CallsSettle ==
    \A c \in Calls : stage[c] # "new" ~> stage[c] \in Settled

\* When nothing is loading any more the bar is taken down, or loading resumes.
BarTakenDown == loadingCount = 0 ~> (bar = {} \/ loadingCount > 0)
=============================================================================
