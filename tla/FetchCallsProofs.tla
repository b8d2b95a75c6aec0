-------------------------- MODULE FetchCallsProofs --------------------------
(* Proofs about FetchCalls, for every set of resources, calls and classes. *)
EXTENDS FetchCalls, FiniteSetTheorems, TLAPS

USE DEF Settled, Stages

(***************************************************************************)
(* Type correctness.                                                       *)
(***************************************************************************)

BarOK ==
    /\ loadingCount \in Nat
    /\ bar \subseteq Loading \cup {"complete"}
    /\ timers \subseteq Loading \cup Completing

\* show(), hide() and the pair of them keep the state of the bar well typed.
LEMMA BarSteps ==
    ASSUME BarOK, Show \/ Hide \/ ShowHide \/ UNCHANGED barVars
    PROVE  BarOK'
  <1>1. CASE Show
    BY <1>1 DEF BarOK, Show
  <1>2. CASE Hide
    <2>1. loadingCount' \in Nat
      BY <1>2 DEF BarOK, Hide
    <2> QED BY <1>2, <2>1 DEF BarOK, Hide
  <1>3. CASE ShowHide
    BY <1>3 DEF BarOK, ShowHide, barVars
  <1>4. CASE UNCHANGED barVars
    BY <1>4 DEF BarOK, barVars
  <1> QED BY <1>1, <1>2, <1>3, <1>4

\* The part of TypeOK that the dedupe promises and prefetched data make up.
DedupeOK ==
    /\ prefetched \subseteq Urls
    /\ phase \in [Urls -> {"idle", "asked", "served", "failed"}]
    /\ answer \in [Urls -> 0..MaxVersion]
    /\ noisy \in [Urls -> BOOLEAN]
    /\ settledAt \in [Urls -> 0..MaxVersion]

\* Asking for a url keeps the promises and the bar well typed.
LEMMA RawFetchSteps ==
    ASSUME NEW u \in Urls, NEW s \in BOOLEAN,
           DedupeOK, BarOK, RawFetchJSON(u, s)
    PROVE  DedupeOK' /\ BarOK'
  <1> USE VersionAssumption
  <1>1. CASE Join(u)
    BY <1>1 DEF Join, DedupeOK, BarOK, dedupeVars, barVars
  <1>2. CASE UsePrefetched(u, s)
    <2>1. BarOK'
      BY <1>2, BarSteps DEF UsePrefetched
    <2>2. DedupeOK'
      BY <1>2 DEF UsePrefetched, DedupeOK
    <2> QED BY <2>1, <2>2
  <1>3. CASE StartRequest(u, s)
    <2>1. BarOK'
      BY <1>3, BarSteps DEF StartRequest
    <2>2. DedupeOK'
      BY <1>3 DEF StartRequest, DedupeOK
    <2> QED BY <2>1, <2>2
  <1> QED BY <1>1, <1>2, <1>3 DEF RawFetchJSON

LEMMA TypeStep == TypeOK /\ [Next]_vars => TypeOK'
  <1> SUFFICES ASSUME TypeOK, [Next]_vars PROVE TypeOK' OBVIOUS
  <1> USE VersionAssumption
  <1>0. BarOK /\ DedupeOK BY DEF TypeOK, BarOK, DedupeOK
  <1>1. ASSUME NEW u \in Urls, Change(u) PROVE TypeOK'
    BY <1>1 DEF TypeOK, Change, dedupeVars, callVars, barVars
  <1>2. ASSUME NEW u \in Urls, Serve(u) PROVE TypeOK'
    BY <1>2 DEF TypeOK, Serve, serverVars, callVars, barVars
  <1>3. ASSUME NEW u \in Urls, Fail(u) PROVE TypeOK'
    BY <1>3 DEF TypeOK, Fail, serverVars, callVars, barVars
  <1>4. ASSUME NEW u \in Urls, Resolve(u) PROVE TypeOK'
    <2>1. BarOK' BY <1>0, <1>4, BarSteps DEF Resolve
    <2> QED BY <1>4, <2>1 DEF TypeOK, Resolve, DeletePromise, BarOK, serverVars
  <1>5. ASSUME NEW u \in Urls, Reject(u) PROVE TypeOK'
    <2>1. BarOK' BY <1>0, <1>5, BarSteps DEF Reject
    <2> QED BY <1>5, <2>1 DEF TypeOK, Reject, DeletePromise, BarOK, serverVars
  <1>6. ASSUME NEW c \in Calls, NEW u \in Urls, NEW s \in BOOLEAN, FetchJSON(c, u, s)
        PROVE  TypeOK'
    <2>1. DedupeOK' /\ BarOK'
      <3>1. CASE jwtEnabled
        BY <1>0, <1>6, <3>1 DEF FetchJSON, DedupeOK, BarOK, dedupeVars, barVars
      <3>2. CASE ~jwtEnabled
        BY <1>0, <1>6, <3>2, RawFetchSteps DEF FetchJSON, Ask
      <3> QED BY <3>1, <3>2
    <2> QED BY <1>6, <2>1 DEF TypeOK, FetchJSON, Ask, DedupeOK, BarOK, serverVars
  <1>7. ASSUME NEW c \in Calls, TokenResolved(c) PROVE TypeOK'
    <2>1. urlOf[c] \in Urls BY DEF TypeOK
    <2>2. DedupeOK' /\ BarOK'
      BY <1>0, <1>7, <2>1, RawFetchSteps DEF TokenResolved, Ask
    <2> QED BY <1>7, <2>1, <2>2 DEF TypeOK, TokenResolved, Ask, DedupeOK, BarOK, serverVars
  <1>8. ASSUME NEW c \in Calls, TokenRejected(c) PROVE TypeOK'
    BY <1>8 DEF TypeOK, TokenRejected, serverVars, dedupeVars, barVars
  <1>9. ASSUME NEW c \in Calls, Augment(c) PROVE TypeOK'
    <2>1. BarOK' BY <1>0, <1>9, BarSteps DEF Augment
    <2> QED BY <1>9, <2>1 DEF TypeOK, Augment, BarOK, serverVars, dedupeVars
  <1>10. ASSUME NEW c \in Calls, LookupResolved(c) PROVE TypeOK'
    <2>1. BarOK' BY <1>0, <1>10, BarSteps DEF LookupResolved
    <2>2. ClassesOf[urlOf[c]] \subseteq Classes BY ClassesAssumption DEF TypeOK
    <2> QED BY <1>10, <2>1, <2>2 DEF TypeOK, LookupResolved, BarOK, serverVars, dedupeVars
  <1>11. ASSUME NEW c \in Calls, LookupRejected(c) PROVE TypeOK'
    <2>1. BarOK' BY <1>0, <1>11, BarSteps DEF LookupRejected
    <2> QED BY <1>11, <2>1 DEF TypeOK, LookupRejected, BarOK, serverVars, dedupeVars
  <1>12. ASSUME NEW t \in Loading \cup Completing, TimerFires(t) PROVE TypeOK'
    BY <1>12 DEF TypeOK, TimerFires, Loading, Completing, serverVars, dedupeVars, callVars
  <1>13. CASE UNCHANGED vars
    BY <1>13 DEF TypeOK, vars, serverVars, dedupeVars, callVars, barVars
  <1>14. ASSUME NEW c \in Calls, LookupTokenResolved(c) PROVE TypeOK'
    <2>1. BarOK' BY <1>0, <1>14, BarSteps DEF LookupTokenResolved
    <2> QED BY <1>14, <2>1 DEF TypeOK, LookupTokenResolved, BarOK, serverVars, dedupeVars
  <1>15. ASSUME NEW c \in Calls, LookupTokenRejected(c) PROVE TypeOK'
    BY <1>15 DEF TypeOK, LookupTokenRejected, serverVars, dedupeVars, barVars
  <1> QED
    BY <1>1, <1>2, <1>3, <1>4, <1>5, <1>6, <1>7, <1>8, <1>9, <1>10, <1>11, <1>12, <1>13,
       <1>14, <1>15
    DEF Next

\* Type correctness of the fetch layer, whatever the resources and calls.
THEOREM TypeCorrect == Spec => []TypeOK
  <1>1. Init => TypeOK
    BY VersionAssumption, UrlsAssumption DEF Init, TypeOK
  <1> QED BY <1>1, TypeStep, PTL DEF Spec

(***************************************************************************)
(* Sharing is not caching.  Whoever asks joins a promise that is still to  *)
(* settle, and what that will bring was read after the last one settled.   *)
(***************************************************************************)

Fresh ==
    /\ \A u \in prefetched : phase[u] = "idle" /\ settledAt[u] = 0
    /\ \A u \in Urls : settledAt[u] <= version[u]
    /\ \A u \in Urls : phase[u] = "served" => settledAt[u] <= answer[u]
    /\ \A c \in Calls : stage[c] = "waiting" => since[c] <= settledAt[urlOf[c]]

LEMMA AskFresh ==
    ASSUME TypeOK, NeverCached, Fresh, NEW c \in Calls \ Answered, NEW u \in Urls, NEW s,
           Ask(c, u, s), version' = version, got' = got, urlOf'[c] = u,
           \A d \in Calls \ {c} : urlOf'[d] = urlOf[d]
    PROVE  NeverCached' /\ Fresh'
  <1> USE DEF TypeOK, NeverCached, Fresh, Ask
  <1>0. Answered' = Answered BY DEF Answered
  <1>1. CASE Join(u)
    BY <1>0, <1>1 DEF Join, dedupeVars
  <1>2. CASE UsePrefetched(u, s)
    BY <1>0, <1>2 DEF UsePrefetched
  <1>3. CASE StartRequest(u, s)
    BY <1>0, <1>3 DEF StartRequest
  <1> QED BY <1>1, <1>2, <1>3 DEF RawFetchJSON

LEMMA FreshStep ==
    TypeOK /\ NeverCached /\ Fresh /\ [Next]_vars => NeverCached' /\ Fresh'
  <1> SUFFICES ASSUME TypeOK, NeverCached, Fresh, [Next]_vars PROVE NeverCached' /\ Fresh'
    OBVIOUS
  <1> USE DEF TypeOK, NeverCached, Fresh
  <1>0. Answered \subseteq Calls BY DEF Answered
  <1>1. ASSUME NEW u \in Urls, Change(u) PROVE NeverCached' /\ Fresh'
    <2>1. Answered' = Answered BY <1>1 DEF Change, callVars, Answered
    <2> QED BY <1>0, <1>1, <2>1, VersionAssumption DEF Change, dedupeVars, callVars
  <1>2. ASSUME NEW u \in Urls, Serve(u) \/ Fail(u) PROVE NeverCached' /\ Fresh'
    <2>1. Answered' = Answered BY <1>2 DEF Serve, Fail, callVars, Answered
    <2> QED BY <1>0, <1>2, <2>1 DEF Serve, Fail, serverVars, callVars
  <1>3. ASSUME NEW u \in Urls, Resolve(u) PROVE NeverCached' /\ Fresh'
    <2>1. Answered' = Answered \cup Waiting(u)
      BY <1>3 DEF Resolve, Answered, Waiting
    <2>2. \A c \in Waiting(u) : urlOf[c] = u /\ c \in Calls /\ stage[c] = "waiting"
      BY DEF Waiting
    <2>3. \A c \in Waiting(u) : since[c] <= answer[u]
      BY <1>3, <2>2, VersionAssumption DEF Resolve
    <2>4. NeverCached'
      BY <1>0, <1>3, <2>1, <2>2, <2>3 DEF Resolve
    <2>5. Fresh'
      BY <1>3, VersionAssumption DEF Resolve, DeletePromise, Waiting, serverVars
    <2> QED BY <2>4, <2>5
  <1>4. ASSUME NEW u \in Urls, Reject(u) PROVE NeverCached' /\ Fresh'
    <2>1. Answered' = Answered
      BY <1>4 DEF Reject, Answered, Waiting
    <2> QED
      BY <1>0, <1>4, <2>1, VersionAssumption DEF Reject, DeletePromise, Waiting, serverVars
  <1>5. ASSUME NEW c \in Calls, NEW u \in Urls, NEW s \in BOOLEAN, FetchJSON(c, u, s)
        PROVE  NeverCached' /\ Fresh'
    <2>1. c \notin Answered
      BY <1>5 DEF FetchJSON, Answered
    <2>2. CASE jwtEnabled
      <3>1. Answered' = Answered
        BY <1>5, <2>1, <2>2 DEF FetchJSON, Answered
      <3> QED BY <1>0, <1>5, <2>1, <2>2, <3>1 DEF FetchJSON, dedupeVars, serverVars
    <2>3. CASE ~jwtEnabled
      BY <1>5, <2>1, <2>3, AskFresh DEF FetchJSON, serverVars
    <2> QED BY <2>2, <2>3
  <1>6. ASSUME NEW c \in Calls, TokenResolved(c) PROVE NeverCached' /\ Fresh'
    <2>1. c \notin Answered
      BY <1>6 DEF TokenResolved, Answered
    <2> QED BY <1>6, <2>1, AskFresh DEF TokenResolved, serverVars
  <1>7. ASSUME NEW c \in Calls, \/ TokenRejected(c) \/ Augment(c)
                                \/ LookupTokenResolved(c) \/ LookupTokenRejected(c)
                                \/ LookupResolved(c) \/ LookupRejected(c)
        PROVE  NeverCached' /\ Fresh'
    <2>1. Answered' = Answered
      BY <1>7 DEF TokenRejected, Augment, LookupTokenResolved, LookupTokenRejected,
                  LookupResolved, LookupRejected, Answered
    <2>2. stage'[c] # "waiting" /\ \A d \in Calls \ {c} : stage'[d] = stage[d]
      BY <1>7 DEF TokenRejected, Augment, LookupTokenResolved, LookupTokenRejected,
                  LookupResolved, LookupRejected
    <2>3. UNCHANGED <<serverVars, dedupeVars, urlOf, got, since>>
      BY <1>7 DEF TokenRejected, Augment, LookupTokenResolved, LookupTokenRejected,
                  LookupResolved, LookupRejected
    <2> QED BY <1>0, <2>1, <2>2, <2>3 DEF serverVars, dedupeVars
  <1>8. ASSUME NEW t \in Loading \cup Completing, TimerFires(t) PROVE NeverCached' /\ Fresh'
    BY <1>8 DEF TimerFires, Answered, serverVars, dedupeVars, callVars
  <1>9. CASE UNCHANGED vars
    BY <1>9 DEF vars, Answered, serverVars, dedupeVars, callVars
  <1> QED
    BY <1>1, <1>2, <1>3, <1>4, <1>5, <1>6, <1>7, <1>8, <1>9 DEF Next

\* A call is never answered with what the resource was before the last promise
\* for its url had settled, for any number of calls that share, fail or follow.
THEOREM NeverCachedHolds == Spec => []NeverCached
  <1>1. Init => NeverCached /\ Fresh
    <2> SUFFICES ASSUME Init PROVE NeverCached /\ Fresh OBVIOUS
    <2>1. Answered = {}
      BY DEF Init, Answered
    <2> QED BY <2>1 DEF Init, NeverCached, Fresh
  <1> QED BY <1>1, TypeCorrect, FreshStep, PTL DEF Spec

(***************************************************************************)
(* The loading bar never announces completion while something loads.       *)
(***************************************************************************)

LEMMA BarHonestSteps ==
    ASSUME TypeOK, BarHonest, Show \/ Hide \/ ShowHide \/ UNCHANGED barVars
    PROVE  BarHonest'
  <1> USE DEF BarHonest, TypeOK, Loading, Completing
  <1>1. CASE Show
    BY <1>1 DEF Show
  <1>2. CASE Hide
    BY <1>2 DEF Hide
  <1>3. CASE ShowHide
    BY <1>3 DEF ShowHide, barVars
  <1>4. CASE UNCHANGED barVars
    BY <1>4 DEF barVars
  <1> QED BY <1>1, <1>2, <1>3, <1>4

LEMMA HonestStep == TypeOK /\ BarHonest /\ [Next]_vars => BarHonest'
  <1> SUFFICES ASSUME TypeOK, BarHonest, [Next]_vars PROVE BarHonest' OBVIOUS
  <1>1. ASSUME NEW t \in Loading \cup Completing, TimerFires(t) PROVE BarHonest'
    BY <1>1 DEF TimerFires, BarHonest, TypeOK, Loading, Completing
  <1>2. ASSUME NEW u \in Urls, NEW s, RawFetchJSON(u, s) PROVE BarHonest'
    BY <1>2, BarHonestSteps DEF RawFetchJSON, Join, UsePrefetched, StartRequest, barVars
  <1>3. ASSUME NEW u \in Urls, Change(u) \/ Serve(u) \/ Fail(u) \/ Resolve(u) \/ Reject(u)
        PROVE  BarHonest'
    BY <1>3, BarHonestSteps DEF Change, Serve, Fail, Resolve, Reject, barVars
  <1>4. ASSUME NEW c \in Calls, NEW u \in Urls, NEW s \in BOOLEAN, FetchJSON(c, u, s)
        PROVE  BarHonest'
    BY <1>2, <1>4, BarHonestSteps DEF FetchJSON, Ask, barVars
  <1>5. ASSUME NEW c \in Calls, TokenResolved(c) PROVE BarHonest'
    BY <1>2, <1>5 DEF TokenResolved, Ask, TypeOK
  <1>6. ASSUME NEW c \in Calls, \/ TokenRejected(c) \/ Augment(c)
                                \/ LookupTokenResolved(c) \/ LookupTokenRejected(c)
                                \/ LookupResolved(c) \/ LookupRejected(c)
        PROVE  BarHonest'
    BY <1>6, BarHonestSteps
    DEF TokenRejected, Augment, LookupTokenResolved, LookupTokenRejected, LookupResolved,
        LookupRejected, barVars
  <1>7. CASE UNCHANGED vars
    BY <1>7, BarHonestSteps DEF vars, barVars
  <1> QED BY <1>1, <1>3, <1>4, <1>5, <1>6, <1>7 DEF Next

\* Overlapping requests extend the loading animation: no timeout left over from
\* an earlier hide() marks the bar complete while a request is being counted.
THEOREM HonestBar == Spec => []BarHonest
  <1>1. Init => BarHonest
    BY DEF Init, BarHonest
  <1> QED BY <1>1, TypeCorrect, HonestStep, PTL DEF Spec

(***************************************************************************)
(* The indicator counts the requests in flight that are not silent.        *)
(***************************************************************************)

LEMMA CountedAreFinite ==
    /\ IsFiniteSet(Noisy) /\ Cardinality(Noisy) \in Nat
    /\ IsFiniteSet(LookingUp) /\ Cardinality(LookingUp) \in Nat
  <1>1. Noisy \in SUBSET Urls /\ LookingUp \in SUBSET Calls
    BY DEF Noisy, LookingUp
  <1> QED BY <1>1, UrlsAssumption, CallsAssumption, FS_Subset, FS_CardinalityType

\* A step that leaves both sets and the counter alone keeps the balance.
LEMMA BalancedIdle ==
    ASSUME IndicatorBalanced, Noisy' = Noisy, LookingUp' = LookingUp,
           loadingCount' = loadingCount
    PROVE  IndicatorBalanced'
  BY DEF IndicatorBalanced

\* A request enters the counted ones exactly when the counter goes up ...
LEMMA BalancedUp ==
    ASSUME IndicatorBalanced, loadingCount' = loadingCount + 1,
           \/ LookingUp' = LookingUp /\ \E u : u \notin Noisy /\ Noisy' = Noisy \cup {u}
           \/ Noisy' = Noisy /\ \E c : c \notin LookingUp /\ LookingUp' = LookingUp \cup {c}
    PROVE  IndicatorBalanced'
  <1>1. CASE LookingUp' = LookingUp /\ \E u : u \notin Noisy /\ Noisy' = Noisy \cup {u}
    <2>1. Cardinality(Noisy') = Cardinality(Noisy) + 1
      BY <1>1, CountedAreFinite, FS_AddElement
    <2> QED BY <1>1, <2>1, CountedAreFinite DEF IndicatorBalanced
  <1>2. CASE Noisy' = Noisy /\ \E c : c \notin LookingUp /\ LookingUp' = LookingUp \cup {c}
    <2>1. Cardinality(LookingUp') = Cardinality(LookingUp) + 1
      BY <1>2, CountedAreFinite, FS_AddElement
    <2> QED BY <1>2, <2>1, CountedAreFinite DEF IndicatorBalanced
  <1> QED BY <1>1, <1>2

\* ... and leaves them exactly when it goes down.
LEMMA BalancedDown ==
    ASSUME IndicatorBalanced, Hide,
           \/ LookingUp' = LookingUp /\ \E u \in Noisy : Noisy' = Noisy \ {u}
           \/ Noisy' = Noisy /\ \E c \in LookingUp : LookingUp' = LookingUp \ {c}
    PROVE  IndicatorBalanced'
  <1>1. CASE LookingUp' = LookingUp /\ \E u \in Noisy : Noisy' = Noisy \ {u}
    <2>1. Cardinality(Noisy') = Cardinality(Noisy) - 1
      BY <1>1, CountedAreFinite, FS_RemoveElement
    <2>2. Cardinality(Noisy) > 0
      BY <1>1, CountedAreFinite, FS_EmptySet
    <2> QED BY <1>1, <2>1, <2>2, CountedAreFinite
        DEF IndicatorBalanced, Hide
  <1>2. CASE Noisy' = Noisy /\ \E c \in LookingUp : LookingUp' = LookingUp \ {c}
    <2>1. Cardinality(LookingUp') = Cardinality(LookingUp) - 1
      BY <1>2, CountedAreFinite, FS_RemoveElement
    <2>2. Cardinality(LookingUp) > 0
      BY <1>2, CountedAreFinite, FS_EmptySet
    <2> QED BY <1>2, <2>1, <2>2, CountedAreFinite
        DEF IndicatorBalanced, Hide
  <1> QED BY <1>1, <1>2

LEMMA RawFetchBalanced ==
    ASSUME TypeOK, IndicatorBalanced, NEW u \in Urls, NEW s \in BOOLEAN,
           RawFetchJSON(u, s), LookingUp' = LookingUp
    PROVE  IndicatorBalanced'
  <1>1. CASE Join(u)
    <2>1. Noisy' = Noisy /\ loadingCount' = loadingCount
      BY <1>1 DEF Join, Noisy, dedupeVars, barVars
    <2> QED BY <2>1, BalancedIdle
  <1>2. CASE UsePrefetched(u, s)
    <2>1. loadingCount' = loadingCount
      BY <1>2 DEF UsePrefetched, ShowHide, barVars
    <2>2. Noisy' = Noisy
      BY <1>2 DEF UsePrefetched, Noisy, TypeOK
    <2> QED BY <2>1, <2>2, BalancedIdle
  <1>3. CASE StartRequest(u, s) /\ s
    <2>1. Noisy' = Noisy /\ loadingCount' = loadingCount
      BY <1>3 DEF StartRequest, Noisy, TypeOK, barVars
    <2> QED BY <2>1, BalancedIdle
  <1>4. CASE StartRequest(u, s) /\ ~s
    <2>1. loadingCount' = loadingCount + 1
      BY <1>4 DEF StartRequest, Show
    <2>2. u \notin Noisy /\ Noisy' = Noisy \cup {u}
      BY <1>4 DEF StartRequest, Noisy, TypeOK
    <2> QED BY <2>1, <2>2, BalancedUp
  <1> QED BY <1>1, <1>2, <1>3, <1>4 DEF RawFetchJSON

LEMMA BalancedStep == TypeOK /\ IndicatorBalanced /\ [Next]_vars => IndicatorBalanced'
  <1> SUFFICES ASSUME TypeOK, IndicatorBalanced, [Next]_vars
               PROVE  IndicatorBalanced'
    OBVIOUS
  <1>1. ASSUME NEW u \in Urls, Change(u) \/ Serve(u) \/ Fail(u)
        PROVE  IndicatorBalanced'
    <2>1. Noisy' = Noisy
      BY <1>1 DEF Change, Serve, Fail, Noisy, TypeOK, dedupeVars
    <2>2. LookingUp' = LookingUp /\ loadingCount' = loadingCount
      BY <1>1 DEF Change, Serve, Fail, LookingUp, callVars, barVars
    <2> QED BY <2>1, <2>2, BalancedIdle
  <1>2. ASSUME NEW u \in Urls, Resolve(u) \/ Reject(u)
        PROVE  IndicatorBalanced'
    <2>1. LookingUp' = LookingUp
      BY <1>2 DEF Resolve, Reject, Waiting, LookingUp, TypeOK
    <2>2. CASE noisy[u]
      <3>1. u \in Noisy /\ Noisy' = Noisy \ {u}
        BY <1>2, <2>2 DEF Resolve, Reject, DeletePromise, Noisy, TypeOK
      <3>2. Hide
        BY <1>2, <2>2 DEF Resolve, Reject
      <3> QED BY <2>1, <3>1, <3>2, BalancedDown
    <2>3. CASE ~noisy[u]
      <3>1. Noisy' = Noisy /\ loadingCount' = loadingCount
        BY <1>2, <2>3 DEF Resolve, Reject, DeletePromise, Noisy, TypeOK, barVars
      <3> QED BY <2>1, <3>1, BalancedIdle
    <2> QED BY <2>2, <2>3
  <1>3. ASSUME NEW c \in Calls, NEW u \in Urls, NEW s \in BOOLEAN, FetchJSON(c, u, s)
        PROVE  IndicatorBalanced'
    <2>1. LookingUp' = LookingUp
      BY <1>3 DEF FetchJSON, Ask, LookingUp, TypeOK
    <2>2. CASE jwtEnabled
      <3>1. Noisy' = Noisy /\ loadingCount' = loadingCount
        BY <1>3, <2>2 DEF FetchJSON, Noisy, dedupeVars, barVars
      <3> QED BY <2>1, <3>1, BalancedIdle
    <2>3. CASE ~jwtEnabled
      BY <1>3, <2>1, <2>3, RawFetchBalanced DEF FetchJSON, Ask
    <2> QED BY <2>2, <2>3
  <1>4. ASSUME NEW c \in Calls, TokenResolved(c) PROVE IndicatorBalanced'
    <2>1. LookingUp' = LookingUp /\ urlOf[c] \in Urls
      BY <1>4 DEF TokenResolved, Ask, LookingUp, TypeOK
    <2> QED BY <1>4, <2>1, RawFetchBalanced DEF TokenResolved, Ask
  <1>5. ASSUME NEW c \in Calls, TokenRejected(c) \/ LookupTokenRejected(c)
        PROVE  IndicatorBalanced'
    <2>1. LookingUp' = LookingUp /\ Noisy' = Noisy /\ loadingCount' = loadingCount
      BY <1>5
      DEF TokenRejected, LookupTokenRejected, LookingUp, Noisy, TypeOK, dedupeVars, barVars
    <2> QED BY <2>1, BalancedIdle
  <1>6. ASSUME NEW c \in Calls, Augment(c) \/ LookupTokenResolved(c)
        PROVE  IndicatorBalanced'
    <2>1. Noisy' = Noisy
      BY <1>6 DEF Augment, LookupTokenResolved, Noisy, dedupeVars
    <2>2. CASE stage'[c] # "lookup"
      <3>1. LookingUp' = LookingUp
        BY <1>6, <2>2 DEF Augment, LookupTokenResolved, LookingUp, TypeOK
      <3>2. loadingCount' = loadingCount
        BY <1>6, <2>2 DEF Augment, LookupTokenResolved, TypeOK, barVars
      <3> QED BY <2>1, <3>1, <3>2, BalancedIdle
    <2>3. CASE stage'[c] = "lookup"
      <3>1. c \notin LookingUp /\ LookingUp' = LookingUp \cup {c}
        BY <1>6, <2>3 DEF Augment, LookupTokenResolved, LookingUp, TypeOK
      <3>2. loadingCount' = loadingCount + 1
        BY <1>6, <2>3 DEF Augment, LookupTokenResolved, Show, TypeOK
      <3> QED BY <2>1, <3>1, <3>2, BalancedUp
    <2> QED BY <2>2, <2>3
  <1>7. ASSUME NEW c \in Calls, LookupResolved(c) \/ LookupRejected(c)
        PROVE  IndicatorBalanced'
    <2>1. Noisy' = Noisy
      BY <1>7 DEF LookupResolved, LookupRejected, Noisy, dedupeVars
    <2>2. c \in LookingUp /\ LookingUp' = LookingUp \ {c}
      BY <1>7 DEF LookupResolved, LookupRejected, LookingUp, TypeOK
    <2>3. Hide
      BY <1>7 DEF LookupResolved, LookupRejected
    <2> QED BY <2>1, <2>2, <2>3, BalancedDown
  <1>8. ASSUME NEW t \in Loading \cup Completing, TimerFires(t) PROVE IndicatorBalanced'
    <2>1. LookingUp' = LookingUp /\ Noisy' = Noisy /\ loadingCount' = loadingCount
      BY <1>8 DEF TimerFires, LookingUp, Noisy, callVars, dedupeVars
    <2> QED BY <2>1, BalancedIdle
  <1>9. CASE UNCHANGED vars
    <2>1. LookingUp' = LookingUp /\ Noisy' = Noisy /\ loadingCount' = loadingCount
      BY <1>9 DEF vars, LookingUp, Noisy, callVars, dedupeVars, barVars
    <2> QED BY <2>1, BalancedIdle
  <1> QED
    BY <1>1, <1>2, <1>3, <1>4, <1>5, <1>6, <1>7, <1>8, <1>9 DEF Next

\* Every show() of the fetch layer is paired with exactly one hide(), on every
\* path a request can take, for any number of concurrent requests.
THEOREM BalancedIndicator == Spec => []IndicatorBalanced
  <1>1. Init => IndicatorBalanced
    <2> SUFFICES ASSUME Init PROVE IndicatorBalanced OBVIOUS
    <2>1. Noisy = {} /\ LookingUp = {} /\ loadingCount = 0
      BY DEF Init, Noisy, LookingUp
    <2>2. Cardinality({}) = 0
      BY FS_EmptySet
    <2> QED BY <2>1, <2>2 DEF IndicatorBalanced
  <1> QED BY <1>1, TypeCorrect, BalancedStep, PTL DEF Spec

(***************************************************************************)
(* The fetch layer implements MonotoneReads.  The answer of the request in *)
(* flight is no older than any answer given before it, because dedupe      *)
(* never has two requests in flight for one url; prefetched data, as old   *)
(* as the page, is only ever used by the first call for its url.           *)
(***************************************************************************)

ReadInv ==
    /\ \A u \in prefetched : phase[u] = "idle" /\ \A c \in Answered : urlOf[c] # u
    /\ \A u \in Urls : answer[u] <= version[u]
    /\ \A c \in Answered : got[c] <= version[urlOf[c]]
    /\ \A u \in Urls : phase[u] = "served" =>
          \A c \in Answered : urlOf[c] = u => got[c] <= answer[u]

LEMMA RawFetchReads ==
    ASSUME TypeOK, ReadInv, NEW u \in Urls, NEW s \in BOOLEAN, RawFetchJSON(u, s),
           Answered' = Answered, version' = version, got' = got,
           \A c \in Answered : urlOf'[c] = urlOf[c]
    PROVE  ReadInv'
  <1> USE DEF TypeOK, ReadInv
  <1>0. Answered \subseteq Calls BY DEF Answered
  <1>1. CASE Join(u)
    BY <1>0, <1>1 DEF Join, dedupeVars
  <1>2. CASE UsePrefetched(u, s)
    BY <1>0, <1>2, VersionAssumption DEF UsePrefetched
  <1>3. CASE StartRequest(u, s)
    BY <1>0, <1>3 DEF StartRequest
  <1> QED BY <1>1, <1>2, <1>3 DEF RawFetchJSON

LEMMA ReadStep ==
    TypeOK /\ ReadInv /\ [Next]_vars => ReadInv'
  <1> SUFFICES ASSUME TypeOK, ReadInv, [Next]_vars PROVE ReadInv' OBVIOUS
  <1> USE DEF TypeOK
  <1>0. Answered \subseteq Calls BY DEF Answered
  <1>1. ASSUME NEW u \in Urls, Change(u) PROVE ReadInv'
    <2>1. Answered' = Answered BY <1>1 DEF Change, callVars, Answered
    <2> QED BY <1>0, <1>1, <2>1, VersionAssumption
        DEF Change, ReadInv, dedupeVars, callVars
  <1>2. ASSUME NEW u \in Urls, Serve(u) \/ Fail(u) PROVE ReadInv'
    <2>1. Answered' = Answered BY <1>2 DEF Serve, Fail, callVars, Answered
    <2> QED BY <1>0, <1>2, <2>1, VersionAssumption
        DEF Serve, Fail, ReadInv, serverVars, callVars
  <1>3. ASSUME NEW u \in Urls, Resolve(u) PROVE ReadInv'
    <2>1. Answered' = Answered \cup Waiting(u)
      BY <1>3 DEF Resolve, Answered, Waiting
    <2>2. \A c \in Waiting(u) : urlOf[c] = u /\ c \in Calls
      BY DEF Waiting
    <2> QED BY <1>0, <1>3, <2>1, <2>2 DEF Resolve, DeletePromise, ReadInv, serverVars
  <1>4. ASSUME NEW u \in Urls, Reject(u) PROVE ReadInv'
    <2>1. Answered' = Answered
      BY <1>4 DEF Reject, Answered, Waiting
    <2> QED BY <1>0, <1>4, <2>1 DEF Reject, DeletePromise, ReadInv, serverVars
  <1>5. ASSUME NEW c \in Calls, NEW u \in Urls, NEW s \in BOOLEAN, FetchJSON(c, u, s)
        PROVE  ReadInv'
    <2>1. Answered' = Answered /\ c \notin Answered
      BY <1>5 DEF FetchJSON, Ask, Answered
    <2>2. \A d \in Answered : urlOf'[d] = urlOf[d]
      BY <1>0, <1>5, <2>1 DEF FetchJSON
    <2>3. CASE jwtEnabled
      BY <1>0, <1>5, <2>1, <2>2, <2>3 DEF FetchJSON, ReadInv, dedupeVars, serverVars
    <2>4. CASE ~jwtEnabled
      BY <1>5, <2>1, <2>2, <2>4, RawFetchReads DEF FetchJSON, Ask, serverVars
    <2> QED BY <2>3, <2>4
  <1>6. ASSUME NEW c \in Calls, TokenResolved(c) PROVE ReadInv'
    <2>1. Answered' = Answered
      BY <1>6 DEF TokenResolved, Ask, Answered
    <2> QED BY <1>6, <2>1, RawFetchReads DEF TokenResolved, Ask, serverVars
  <1>7. ASSUME NEW c \in Calls, \/ TokenRejected(c) \/ Augment(c)
                                \/ LookupTokenResolved(c) \/ LookupTokenRejected(c)
                                \/ LookupResolved(c) \/ LookupRejected(c)
        PROVE  ReadInv'
    <2>1. Answered' = Answered
      BY <1>7 DEF TokenRejected, Augment, LookupTokenResolved, LookupTokenRejected,
                  LookupResolved, LookupRejected, Answered
    <2> QED BY <1>0, <1>7, <2>1
        DEF TokenRejected, Augment, LookupTokenResolved, LookupTokenRejected,
            LookupResolved, LookupRejected, ReadInv, serverVars, dedupeVars
  <1>8. ASSUME NEW t \in Loading \cup Completing, TimerFires(t) PROVE ReadInv'
    BY <1>8 DEF TimerFires, ReadInv, Answered, serverVars, dedupeVars, callVars
  <1>9. CASE UNCHANGED vars
    BY <1>9 DEF vars, ReadInv, Answered, serverVars, dedupeVars, callVars
  <1> QED
    BY <1>1, <1>2, <1>3, <1>4, <1>5, <1>6, <1>7, <1>8, <1>9 DEF Next

\* A step of the fetch layer is a step of MonotoneReads or invisible to it.
LEMMA ReadsRefined ==
    TypeOK /\ ReadInv /\ [Next]_vars => [Reads!Next]_(Reads!vars)
  <1> SUFFICES ASSUME TypeOK, ReadInv, [Next]_vars PROVE [Reads!Next]_(Reads!vars)
    OBVIOUS
  <1> USE DEF TypeOK, Reads!vars
  <1>1. ASSUME NEW u \in Urls, Change(u) PROVE [Reads!Next]_(Reads!vars)
    BY <1>1 DEF Change, callVars, Answered, Reads!Next, Reads!Change
  <1>2. ASSUME NEW u \in Urls, Serve(u) \/ Fail(u) \/ Reject(u)
        PROVE  UNCHANGED Reads!vars
    BY <1>2 DEF Serve, Fail, Reject, Waiting, callVars, serverVars, Answered
  <1>3. ASSUME NEW u \in Urls, Resolve(u) PROVE [Reads!Next]_(Reads!vars)
    <2>1. Answered' = Answered \cup Waiting(u)
      BY <1>3 DEF Resolve, Answered, Waiting
    <2>2. Waiting(u) \cap Answered = {} /\ \A c \in Waiting(u) : urlOf[c] = u
      BY DEF Waiting, Answered
    <2>3. \A d \in Answered : urlOf[d] = u => got[d] <= answer[u]
      BY <1>3 DEF Resolve, ReadInv
    <2>4. Reads!Answer(u, Waiting(u), answer[u])
      BY <1>3, <2>1, <2>2, <2>3 DEF Resolve, Reads!Answer, serverVars
    <2>5. answer[u] \in 0..version[u]
      BY VersionAssumption DEF ReadInv
    <2>6. Waiting(u) \in SUBSET Calls
      BY DEF Waiting
    <2> QED BY <2>4, <2>5, <2>6 DEF Reads!Next
  <1>4. ASSUME NEW c \in Calls, NEW u \in Urls, NEW s \in BOOLEAN, FetchJSON(c, u, s)
        PROVE  [Reads!Next]_(Reads!vars)
    <2>1. Answered' = Answered /\ c \notin Answered
      BY <1>4 DEF FetchJSON, Ask, Answered
    <2>2. Reads!Ask(c, u)
      BY <1>4, <2>1 DEF FetchJSON, Reads!Ask, serverVars
    <2> QED BY <2>2 DEF Reads!Next
  <1>5. ASSUME NEW c \in Calls, \/ TokenResolved(c) \/ TokenRejected(c) \/ Augment(c)
                                \/ LookupTokenResolved(c) \/ LookupTokenRejected(c)
                                \/ LookupResolved(c) \/ LookupRejected(c)
        PROVE  UNCHANGED Reads!vars
    BY <1>5
    DEF TokenResolved, Ask, TokenRejected, Augment, LookupTokenResolved,
        LookupTokenRejected, LookupResolved, LookupRejected, Answered, serverVars
  <1>6. ASSUME NEW t \in Loading \cup Completing, TimerFires(t) PROVE UNCHANGED Reads!vars
    BY <1>6 DEF TimerFires, Answered, serverVars, callVars
  <1>7. CASE UNCHANGED vars
    BY <1>7 DEF vars, Answered, serverVars, callVars
  <1> QED BY <1>1, <1>2, <1>3, <1>4, <1>5, <1>6, <1>7 DEF Next

\* Deduplication makes concurrent readers of a resource monotone: whatever the
\* interleaving of calls, changes and answers, nobody is told something older
\* than what somebody was told before.
THEOREM MonotoneAnswersHold == Spec => MonotoneAnswers
  <1>1. Init => Reads!Init
    <2> SUFFICES ASSUME Init PROVE Reads!Init OBVIOUS
    <2>1. Answered = {}
      BY DEF Init, Answered
    <2>2. urlOf \in [Calls -> Urls] /\ got \in [Calls -> Nat]
      BY UrlsAssumption DEF Init
    <2> QED BY <2>1, <2>2 DEF Init, Reads!Init
  <1>2. Init => ReadInv
    <2> SUFFICES ASSUME Init PROVE ReadInv OBVIOUS
    <2>1. Answered = {}
      BY DEF Init, Answered
    <2> QED BY <2>1 DEF Init, ReadInv
  <1> QED
    BY <1>1, <1>2, TypeCorrect, ReadStep, ReadsRefined, PTL
    DEF Spec, MonotoneAnswers, Reads!Spec
=============================================================================
