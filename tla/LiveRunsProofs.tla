--------------------------- MODULE LiveRunsProofs ---------------------------
(***************************************************************************)
(* Theorems about LiveRuns, for all values of its constants.               *)
(***************************************************************************)
EXTENDS LiveRuns, DataFacts, SequenceTheorems, TLAPS

\* What the types leave out: the builds are the numbers before next, an item
\* leaves the queue only for a build within the bound, and a reply that will
\* be used is a run.
Numbered ==
    /\ \A n \in Builds : build[n] = "none" <=> n >= next
    /\ leaving => next <= MaxBuild
Replied == \A n \in Numbers : asked[n] = "served" => reply[n] # "notfound"

Sound == TypeOK /\ Numbered /\ Replied

-----------------------------------------------------------------------------
(* Sequences. *)

\* A function on 1..n is a sequence.
LEMMA FunctionIsSeq ==
    ASSUME NEW S, NEW n \in Nat, NEW f \in [1..n -> S]
    PROVE  f \in Seq(S) /\ Len(f) = n
  BY SMT

\* Appending an event keeps the stream well formed (Append of RunServer).
LEMMA AppendEvent ==
    ASSUME events \in Seq(Events), NEW k \in QueueKinds \cup RunKinds,
           NEW n \in Numbers \cup {Unmatched}
    PROVE  Append(events, Event(k, n)) \in Seq(Events)
  <1>1. Event(k, n) \in Events
    BY DEF Event, Events
  <1> QED
    BY <1>1

\* A page of the REST API consists of runs (RunContainerImpl.iterator).
LEMMA PageType ==
    ASSUME ServerTypeOK, Numbered, NEW start \in Nat, NEW limit \in Nat
    PROVE  RestPage(start, limit) \in Seq([num : Numbers, state : Shown])
  <1> USE ServerAssumption
  <1> DEFINE all == next - 1
             size == IF start >= all THEN 0 ELSE IF all - start < limit THEN all - start ELSE limit
             Item(n) == [num |-> n, state |-> RestRun(n)]
             queue == [i \in 1..qlen |-> Item(Expected(qlen - i))]
             runs == [i \in 1..size |-> Item(all - start - i + 1)]
  <1>1. \A n \in 1..(next + qlen - 1) : Item(n) \in [num : Numbers, state : Shown]
    <2> TAKE n \in 1..(next + qlen - 1)
    <2>1. n \in Numbers
      BY DEF ServerTypeOK, Numbers
    <2>2. RestRun(n) \in Shown
      <3>1. CASE n < next
        <4>1. n \in Builds
          BY <3>1 DEF ServerTypeOK, Builds
        <4> QED
          BY <3>1, <4>1 DEF ServerTypeOK, RestRun, Numbered, Shown, Builds
      <3>2. CASE n >= next
        BY <3>2 DEF ServerTypeOK, RestRun, Queued, Shown
      <3> QED
        BY <3>1, <3>2 DEF ServerTypeOK
    <2> QED
      BY <2>1, <2>2
  <1>2. queue \in Seq([num : Numbers, state : Shown])
    <2>1. qlen \in Nat /\ next \in Nat
      BY DEF ServerTypeOK
    <2>2. \A i \in 1..qlen : Expected(qlen - i) \in 1..(next + qlen - 1)
      BY <2>1 DEF ServerTypeOK, Expected
    <2>3. queue \in [1..qlen -> [num : Numbers, state : Shown]]
      <3> HIDE DEF Item
      <3> QED
        BY <1>1, <2>2
    <2> HIDE DEF queue
    <2> QED
      BY <2>1, <2>3, FunctionIsSeq
  <1>3. runs \in Seq([num : Numbers, state : Shown])
    <2>1. size \in Nat /\ \A i \in 1..size : all - start - i + 1 \in 1..(next + qlen - 1)
      BY DEF ServerTypeOK
    <2>2. runs \in [1..size -> [num : Numbers, state : Shown]]
      <3> HIDE DEF Item, size, all
      <3> QED
        BY <1>1, <2>1
    <2> HIDE DEF runs, size
    <2> QED
      BY <2>1, <2>2, FunctionIsSeq
  <1>4. RestPage(start, limit) = queue \o runs
    BY DEF RestPage
  <1> HIDE DEF queue, runs
  <1> QED
    BY <1>2, <1>3, <1>4

\* Pager.insert and Pager.remove keep a list of runs (also Pager.js's splice).
LEMMA ListType ==
    ASSUME hrefs \in Seq(Numbers), open \in BOOLEAN, NEW n \in Numbers
    PROVE  /\ Inserted(n) \in Seq(Numbers)
           /\ hrefs # <<>> => Removed(n) \in Seq(Numbers)
  <1>1. Inserted(n) \in Seq(Numbers)
    <2>1. <<n>> \o hrefs \in Seq(Numbers)
      OBVIOUS
    <2> QED
      BY <2>1 DEF Inserted
  <1>2. ASSUME hrefs # <<>> PROVE Removed(n) \in Seq(Numbers)
    <2> DEFINE at == {i \in 1..Len(hrefs) : hrefs[i] = n}
               i == IF at # {} THEN CHOOSE j \in at : \A k \in at : j <= k ELSE Len(hrefs)
               f == [j \in 1..(Len(hrefs) - 1) |-> IF j < i THEN hrefs[j] ELSE hrefs[j + 1]]
    <2>1. Len(hrefs) - 1 \in Nat
      BY <1>2
    <2>2. f \in [1..(Len(hrefs) - 1) -> Numbers]
      <3> HIDE DEF i
      <3>1. \A j \in 1..(Len(hrefs) - 1) : j \in 1..Len(hrefs) /\ j + 1 \in 1..Len(hrefs)
        BY <2>1
      <3>2. \A j \in 1..Len(hrefs) : hrefs[j] \in Numbers
        OBVIOUS
      <3> QED
        BY <3>1, <3>2
    <2>3. Removed(n) = f
      BY DEF Removed
    <2> HIDE DEF f
    <2> QED
      BY <2>1, <2>2, <2>3, FunctionIsSeq
  <1> QED
    BY <1>1, <1>2

-----------------------------------------------------------------------------
(* Type correctness. *)

\* The initial states of LiveRuns are sound.
LEMMA SoundInit == Init => Sound
  <1> USE ServerAssumption, ClientAssumption
  <1> SUFFICES ASSUME Init PROVE Sound
    OBVIOUS
  <1>1. ServerTypeOK
    <2>0. ServerInit
      BY DEF Init
    <2>1. events \in Seq(Events)
      BY <2>0 DEF ServerInit
    <2>2. budget \in Budgets
      BY <2>0 DEF ServerInit, Budgets
    <2>3. qlen \in 0..MaxQueue /\ next \in 1..(MaxBuild + 1)
      BY <2>0 DEF ServerInit
    <2>5. leaving \in BOOLEAN
      BY <2>0 DEF ServerInit
    <2>4. build \in [Builds -> {"none", "running", "paused", "finished"}]
      BY <2>0 DEF ServerInit
    <2>6. unnamed \subseteq Numbers
      BY <2>0 DEF ServerInit
    <2> QED
      BY <2>1, <2>2, <2>3, <2>4, <2>5, <2>6 DEF ServerTypeOK
  <1>2. TypeOK
    <2>1. store \in [Numbers -> Shown \cup {"absent"}] /\ asked \in [Numbers -> Phases]
          /\ reply \in [Numbers -> Shown \cup {"notfound"}]
      BY DEF Init, Phases
    <2>2. latestReply \in [num : Builds \cup {NoRun}, state : Shown]
      BY DEF Init, Shown
    <2>3. hrefs \in Seq(Numbers) /\ displaced \subseteq Numbers /\ revived \subseteq Numbers
          /\ page \in Seq([num : Numbers, state : Shown])
      BY DEF Init
    <2>4. open \in BOOLEAN /\ pending \in BOOLEAN /\ error \in BOOLEAN /\ hasMore \in BOOLEAN
      BY DEF Init
    <2>5. latest \in Numbers \cup {NoRun} /\ currentPage \in Nat /\ clicks \in 0..MaxClicks
      BY DEF Init, MaxClicks
    <2>6. /\ pipeline \in {"absent", "asked", "served", "loaded"} /\ pageGet \in Phases
          /\ failures \in 0..MaxFailures /\ shared \subseteq Numbers /\ failed \subseteq Numbers
      BY DEF Init, Phases
    <2> QED
      BY <1>1, <2>1, <2>2, <2>3, <2>4, <2>5, <2>6 DEF TypeOK
  <1>3. Numbered
    BY DEF Init, ServerInit, Numbered, Builds
  <1>4. Replied
    BY DEF Init, Replied
  <1> QED
    BY <1>2, <1>3, <1>4 DEF Sound

\* Every step of the job keeps its state well formed (RunServer).
LEMMA ServerStep == ServerTypeOK /\ Numbered /\ ServerNext => ServerTypeOK' /\ Numbered'
  <1> USE ServerAssumption
  <1> SUFFICES ASSUME ServerTypeOK, Numbered, ServerNext PROVE ServerTypeOK' /\ Numbered'
    OBVIOUS
  <1>1. qlen \in 0..MaxQueue /\ next \in 1..(MaxBuild + 1) /\ events \in Seq(Events)
    BY DEF ServerTypeOK
  <1>2. leaving \in BOOLEAN
    BY DEF ServerTypeOK
  <1>3. build \in [Builds -> {"none", "running", "paused", "finished"}]
    BY DEF ServerTypeOK
  <1>4. budget \in Budgets
    BY DEF ServerTypeOK
  <1>5. (\A n \in Builds : build[n] = "none" <=> n >= next) /\ (leaving => next <= MaxBuild)
    BY DEF Numbered
  <1>6. Builds \subseteq Numbers
    BY DEF Builds, Numbers
  <1>7. next <= MaxBuild => next \in Builds
    BY <1>1 DEF Builds
  <1>0. unnamed \subseteq Numbers
    BY DEF ServerTypeOK
  <1>8. ASSUME Enqueue PROVE ServerTypeOK' /\ Numbered'
    <2>1. qlen < MaxQueue /\ qlen' = qlen + 1 /\ next' = next /\ build' = build /\ leaving' = leaving
      BY <1>8 DEF Enqueue
    <2>2. Expected(qlen) \in Numbers
      BY <1>1, <2>1 DEF Expected, Numbers
    <2>3. events' \in Seq(Events)
      BY <1>8, <1>1, <2>2, AppendEvent DEF Enqueue, QueueKinds
    <2>4. budget' \in Budgets
      <3>1. budget.enqueue > 0 /\ budget' = [budget EXCEPT !.enqueue = budget.enqueue - 1]
        BY <1>8 DEF Enqueue
      <3>2. budget.enqueue - 1 \in 0..MaxEnqueue
        BY <1>4, <3>1 DEF Budgets
      <3> QED
        BY <1>4, <3>1, <3>2 DEF Budgets
    <2>5. qlen' \in 0..MaxQueue
      BY <1>1, <2>1
    <2>6. unnamed' \subseteq Numbers
      BY <1>0, <1>8 DEF Enqueue
    <2> QED
      BY <1>1, <1>2, <1>3, <1>5, <2>1, <2>3, <2>4, <2>5, <2>6 DEF ServerTypeOK, Numbered
  <1>9. ASSUME NEW i \in 0..(MaxQueue - 1), CancelItem(i) PROVE ServerTypeOK' /\ Numbered'
    <2>1. i < qlen /\ qlen' = qlen - 1 /\ next' = next /\ build' = build /\ leaving' = leaving
      BY <1>9 DEF CancelItem
    <2>2. Expected(i) \in Numbers /\ next \in Numbers
      BY <1>1, <2>1 DEF Expected, Numbers
    <2>3. events' \in Seq(Events)
      BY <1>9, <1>1, <2>2, AppendEvent DEF CancelItem, QueueKinds
    <2>4. budget' \in Budgets
      <3>1. budget.cancel > 0 /\ budget' = [budget EXCEPT !.cancel = budget.cancel - 1]
        BY <1>9 DEF CancelItem
      <3>2. budget.cancel - 1 \in 0..MaxCancels
        BY <1>4, <3>1 DEF Budgets
      <3> QED
        BY <1>4, <3>1, <3>2 DEF Budgets
    <2>5. qlen' \in 0..MaxQueue
      BY <1>1, <2>1
    <2>6. unnamed' \subseteq Numbers
      <3>1. LastNumber \in Numbers
        BY <1>1, <1>2, <1>5, <2>1 DEF LastNumber, Numbers
      <3> QED
        BY <1>0, <1>9, <3>1 DEF CancelItem
    <2> QED
      BY <1>1, <1>2, <1>3, <1>5, <2>1, <2>3, <2>4, <2>5, <2>6 DEF ServerTypeOK, Numbered
  <1>10. ASSUME Leave PROVE ServerTypeOK' /\ Numbered'
    <2>1. qlen > 0 /\ next <= MaxBuild /\ qlen' = qlen - 1 /\ next' = next /\ build' = build
          /\ budget' = budget /\ unnamed' = unnamed
      BY <1>10 DEF Leave
    <2>2. events' \in Seq(Events)
      BY <1>10, <1>1, <1>6, <1>7, <2>1, AppendEvent DEF Leave, QueueKinds
    <2>3. leaving' \in BOOLEAN
      BY <1>10 DEF Leave
    <2>4. qlen' \in 0..MaxQueue
      BY <1>1, <2>1
    <2> QED
      BY <1>0, <1>1, <1>3, <1>4, <1>5, <2>1, <2>2, <2>3, <2>4 DEF ServerTypeOK, Numbered
  <1>11. ASSUME Start PROVE ServerTypeOK' /\ Numbered'
    <2>1. leaving /\ next' = next + 1 /\ build' = [build EXCEPT ![next] = "running"]
          /\ qlen' = qlen /\ budget' = budget /\ unnamed' = unnamed
      BY <1>11 DEF Start
    <2>2. next <= MaxBuild
      BY <2>1, <1>5
    <2>3. events' \in Seq(Events)
      BY <1>11, <1>1, <1>6, <1>7, <2>2, AppendEvent DEF Start, RunKinds
    <2>4. leaving' = FALSE
      BY <1>11 DEF Start
    <2>5. next' \in 1..(MaxBuild + 1)
      BY <1>1, <2>1, <2>2
    <2>8. build' \in [Builds -> {"none", "running", "paused", "finished"}]
      BY <1>3, <2>1
    <2>6. \A n \in Builds : build'[n] = "none" <=> n >= next'
      BY <1>1, <1>3, <1>5, <2>1, <2>2 DEF Builds
    <2>7. ServerTypeOK'
      BY <1>0, <1>1, <1>4, <2>1, <2>3, <2>4, <2>5, <2>8 DEF ServerTypeOK
    <2> QED
      BY <2>4, <2>6, <2>7 DEF Numbered
  <1>12. ASSUME NEW n \in Builds, NEW from \in {"running", "paused"},
                NEW to \in {"running", "paused", "finished"}, NEW k \in RunKinds,
                Move(n, from, to, k), budget' \in Budgets
         PROVE ServerTypeOK' /\ Numbered'
    <2>1. build[n] = from /\ build' = [build EXCEPT ![n] = to]
          /\ qlen' = qlen /\ next' = next /\ leaving' = leaving /\ unnamed' = unnamed
      BY <1>12 DEF Move
    <2>2. events' \in Seq(Events)
      BY <1>12, <1>1, <1>6, AppendEvent DEF Move
    <2>3. build' \in [Builds -> {"none", "running", "paused", "finished"}]
      BY <1>3, <2>1
    <2>4. \A m \in Builds : build'[m] = "none" <=> m >= next'
      BY <1>3, <1>5, <2>1
    <2> QED
      BY <1>0, <1>1, <1>2, <1>5, <1>12, <2>1, <2>2, <2>3, <2>4 DEF ServerTypeOK, Numbered
  <1>13. ASSUME NEW n \in Builds, Pause(n) \/ Unpause(n) \/ End(n)
         PROVE ServerTypeOK' /\ Numbered'
    <2>1. CASE Pause(n)
      <3>1. budget' \in Budgets
        BY <1>4, <2>1 DEF Pause, Budgets
      <3> QED
        BY <1>12, <2>1, <3>1 DEF Pause, RunKinds
    <2>2. CASE Unpause(n)
      BY <1>4, <1>12, <2>2 DEF Unpause, RunKinds
    <2>3. CASE End(n)
      BY <1>4, <1>12, <2>3 DEF End, RunKinds
    <2> QED
      BY <1>13, <2>1, <2>2, <2>3
  <1> QED
    BY <1>8, <1>9, <1>10, <1>11, <1>13 DEF ServerNext

\* What the client's steps have in common: they leave the job alone but for
\* the events they consume.
LEMMA Consumed ==
    ASSUME ServerTypeOK, Numbered, NEW K, Deliver(K),
           UNCHANGED jobVars
    PROVE  /\ ServerTypeOK' /\ Numbered'
           /\ Head(events).num \in Numbers \cup {Unmatched}
  <1>1. events \in Seq(Events) /\ events # <<>> /\ events' = Tail(events)
    BY DEF ServerTypeOK, Deliver
  <1>2. events' \in Seq(Events) /\ Head(events) \in Events
    BY <1>1
  <1>3. Head(events).num \in Numbers \cup {Unmatched}
    BY <1>2 DEF Events
  <1> QED
    BY <1>2, <1>3 DEF ServerTypeOK, Numbered, jobVars

\* A step that leaves the job alone keeps its state well formed.
LEMMA ServerAlone ==
    ASSUME ServerTypeOK, Numbered, UNCHANGED serverVars
    PROVE  ServerTypeOK' /\ Numbered'
  BY DEF ServerTypeOK, Numbered, serverVars, jobVars

\* Every step of the handler, the fetches and the pager keeps the types.
LEMMA ClientStep == Sound /\ ClientNext => Sound'
  <1> USE ClientAssumption
  <1> SUFFICES ASSUME Sound, ClientNext PROVE Sound'
    OBVIOUS
  <1>1. TypeOK /\ ServerTypeOK /\ Numbered /\ Replied
    BY DEF Sound, TypeOK
  <1>2. CASE HandleUpdate
    <2> DEFINE n == Head(events).num
    <2>1. /\ Deliver({"queue_enter", "queue_left"} \cup RunKinds)
          /\ UNCHANGED jobVars
          /\ UNCHANGED <<runVars, reply, failed, listVars, pagerVars, pageVars, failures>>
      BY <1>2 DEF HandleUpdate
    <2>2. ServerTypeOK' /\ Numbered' /\ n \in Numbers \cup {Unmatched}
      BY <1>1, <2>1, Consumed
    <2>3. asked' \in [Numbers -> Phases] /\ shared' \subseteq Numbers
          /\ \A m \in Numbers : asked'[m] = "served" => asked[m] = "served"
      <3> HIDE DEF n
      <3>1. CASE n = Unmatched \/ pipeline # "loaded"
        BY <1>1, <1>2, <3>1 DEF HandleUpdate, TypeOK, n
      <3>2. CASE ~(n = Unmatched \/ pipeline # "loaded")
        <4>1. n \in Numbers /\ FetchActivity(n)
          BY <1>2, <2>2, <3>2 DEF HandleUpdate, n
        <4> QED
          BY <1>1, <4>1 DEF FetchActivity, TypeOK, Phases
      <3> QED
        BY <3>1, <3>2
    <2>4. TypeOK'
      BY <1>1, <2>1, <2>2, <2>3 DEF TypeOK, runVars, listVars, pagerVars, pageVars
    <2>5. Replied'
      BY <1>1, <2>1, <2>3 DEF Replied
    <2> QED
      BY <2>2, <2>4, <2>5 DEF Sound
  <1>3. CASE HandleCancelled
    <2> DEFINE n == Head(events).num
    <2>1. /\ Deliver({"queue_cancelled"})
          /\ UNCHANGED jobVars
          /\ UNCHANGED <<latest, pipeline, latestReply, getVars, open, pagerVars, pageVars, failures>>
      BY <1>3 DEF HandleCancelled
    <2>2. ServerTypeOK' /\ Numbered' /\ n \in Numbers \cup {Unmatched}
      BY <1>1, <2>1, Consumed
    <2>3. store' \in [Numbers -> Shown \cup {"absent"}] /\ hrefs' \in Seq(Numbers)
          /\ displaced' \subseteq Numbers /\ revived' \subseteq Numbers
      <3> HIDE DEF n
      <3>1. CASE n = Unmatched
        BY <1>1, <1>3, <3>1 DEF HandleCancelled, TypeOK, n
      <3>2. CASE n # Unmatched
        <4>1. n \in Numbers
          BY <2>2, <3>2
        <4>2. store' = [store EXCEPT ![n] = "absent"]
              /\ hrefs' = IF open /\ hrefs # <<>> THEN Removed(n) ELSE hrefs
          BY <1>3, <3>2 DEF HandleCancelled, n
        <4>3. hrefs' \in Seq(Numbers)
          BY <1>1, <4>1, <4>2, ListType DEF TypeOK
        <4>4. revived' = revived \ {n} \/ revived' = revived \cup {n}
          BY <1>3, <3>2 DEF HandleCancelled, n
        <4>5. displaced' \subseteq Numbers
          <5>0. displaced' = IF open /\ hrefs # <<>> /\ n \notin Listed
                              THEN displaced \cup {hrefs[Len(hrefs)]}
                              ELSE displaced
            BY <1>3, <3>2, Zenon DEF HandleCancelled, n
          <5>1. \/ displaced' = displaced
                \/ hrefs # <<>> /\ displaced' = displaced \cup {hrefs[Len(hrefs)]}
            BY <5>0, Zenon
          <5>2. hrefs # <<>> => hrefs[Len(hrefs)] \in Numbers
            BY <1>1 DEF TypeOK
          <5> QED
            BY <1>1, <5>1, <5>2 DEF TypeOK
        <4> QED
          BY <1>1, <4>1, <4>2, <4>3, <4>4, <4>5 DEF TypeOK
      <3> QED
        BY <3>1, <3>2
    <2>4. TypeOK'
      BY <1>1, <2>1, <2>2, <2>3 DEF TypeOK, getVars, pagerVars, pageVars
    <2>5. Replied'
      BY <1>1, <2>1 DEF Replied, getVars
    <2> QED
      BY <2>2, <2>4, <2>5 DEF Sound
  <1>4. ASSUME UNCHANGED serverVars PROVE ServerTypeOK' /\ Numbered'
    BY <1>1, <1>4, ServerAlone
  <1>5. ASSUME NEW n \in Numbers, ServeRun(n) PROVE Sound'
    <2>1. ServerTypeOK' /\ Numbered'
      BY <1>4, <1>5 DEF ServeRun
    <2>2. RestRun(n) \in Shown \cup {"notfound"}
      <3>1. CASE n < next
        <4>1. n \in Builds
          BY <1>1, <3>1, ServerAssumption DEF ServerTypeOK, Builds, Numbers
        <4> QED
          BY <1>1, <3>1, <4>1 DEF ServerTypeOK, RestRun, Numbered, Shown, Builds
      <3>2. CASE ~(n < next)
        BY <3>2 DEF RestRun, Shown
      <3> QED
        BY <3>1, <3>2
    <2>3. asked' \in [Numbers -> Phases] /\ reply' \in [Numbers -> Shown \cup {"notfound"}]
      BY <1>1, <1>5, <2>2 DEF ServeRun, TypeOK, Phases
    <2>4. Replied'
      BY <1>1, <1>5 DEF ServeRun, Replied, TypeOK
    <2>5. TypeOK'
      BY <1>1, <1>5, <2>1, <2>3 DEF ServeRun, TypeOK, runVars, listVars, pagerVars, pageVars
    <2> QED
      BY <2>1, <2>4, <2>5 DEF Sound
  <1>6. ASSUME NEW n \in Numbers, FailRun(n) PROVE Sound'
    <2>1. ServerTypeOK' /\ Numbered'
      BY <1>4, <1>6 DEF FailRun
    <2>2. asked' \in [Numbers -> Phases] /\ Replied'
      BY <1>1, <1>6 DEF FailRun, TypeOK, Phases, Replied
    <2>3. failures' \in 0..MaxFailures
      BY <1>1, <1>6 DEF FailRun, TypeOK
    <2>4. TypeOK'
      BY <1>1, <1>6, <2>1, <2>2, <2>3 DEF FailRun, TypeOK, runVars, listVars, pagerVars, pageVars
    <2> QED
      BY <2>1, <2>2, <2>4 DEF Sound
  <1>7. ASSUME NEW n \in Numbers, RunArrives(n) PROVE Sound'
    <2>1. ServerTypeOK' /\ Numbered'
      BY <1>4, <1>7 DEF RunArrives
    <2>2. reply[n] \in Shown
      BY <1>1, <1>7 DEF RunArrives, Replied, TypeOK
    <2>3. asked' \in [Numbers -> Phases] /\ reply' \in [Numbers -> Shown \cup {"notfound"}]
          /\ store' \in [Numbers -> Shown \cup {"absent"}]
      BY <1>1, <1>7, <2>2 DEF RunArrives, TypeOK, Phases
    <2>4. hrefs' \in Seq(Numbers)
      BY <1>1, <1>7, ListType DEF RunArrives, TypeOK
    <2>5. latest' \in Numbers \cup {NoRun} /\ failed' \subseteq Numbers
          /\ displaced' \subseteq Numbers /\ revived' = revived
      BY <1>1, <1>7 DEF RunArrives, TypeOK
    <2>6. Replied'
      BY <1>1, <1>7 DEF RunArrives, Replied, TypeOK
    <2>7. TypeOK'
      BY <1>1, <1>7, <2>1, <2>3, <2>4, <2>5 DEF RunArrives, TypeOK, pagerVars, pageVars
    <2> QED
      BY <2>1, <2>6, <2>7 DEF Sound
  <1>8. ASSUME NEW n \in Numbers, RunFails(n) PROVE Sound'
    <2>1. ServerTypeOK' /\ Numbered'
      BY <1>4, <1>8 DEF RunFails
    <2>2. asked' \in [Numbers -> Phases] /\ Replied' /\ failed' \subseteq Numbers
          /\ displaced' \subseteq Numbers /\ revived' = revived
      BY <1>1, <1>8 DEF RunFails, TypeOK, Phases, Replied
    <2>3. hrefs' \in Seq(Numbers)
      BY <1>1, <1>8, ListType DEF RunFails, TypeOK
    <2>4. TypeOK'
      BY <1>1, <1>8, <2>1, <2>2, <2>3 DEF RunFails, TypeOK, runVars, pagerVars, pageVars
    <2> QED
      BY <2>1, <2>2, <2>4 DEF Sound
  <1>9. CASE AskPipeline
    <2>1. ServerTypeOK' /\ Numbered'
      BY <1>4, <1>9 DEF AskPipeline
    <2>2. TypeOK' /\ Replied'
      BY <1>1, <1>9, <2>1
         DEF AskPipeline, TypeOK, Replied, getVars, listVars, pagerVars, pageVars
    <2> QED
      BY <2>1, <2>2 DEF Sound
  <1>10. CASE ServePipeline
    <2>1. ServerTypeOK' /\ Numbered'
      BY <1>4, <1>10 DEF ServePipeline
    <2>2. latestReply' \in [num : Builds \cup {NoRun}, state : Shown]
      <3>1. RestLatest \in Builds \cup {NoRun}
        BY <1>1, ServerAssumption DEF ServerTypeOK, RestLatest, Builds, NoRun
      <3>2. RestLatest # NoRun => build[RestLatest] \in Shown
        BY <1>1, <3>1 DEF ServerTypeOK, Numbered, RestLatest, Shown, Builds
      <3> QED
        BY <1>10, <3>1, <3>2 DEF ServePipeline, Shown
    <2>3. TypeOK' /\ Replied'
      BY <1>1, <1>10, <2>1, <2>2
         DEF ServePipeline, TypeOK, Replied, getVars, listVars, pagerVars, pageVars
    <2> QED
      BY <2>1, <2>3 DEF Sound
  <1>11. CASE PipelineArrives
    <2>1. ServerTypeOK' /\ Numbered'
      BY <1>4, <1>11 DEF PipelineArrives
    <2>2. latestReply.num \in Builds \cup {NoRun} /\ latestReply.state \in Shown
      BY <1>1 DEF TypeOK
    <2>3. latest' \in Numbers \cup {NoRun} /\ store' \in [Numbers -> Shown \cup {"absent"}]
      BY <1>1, <1>11, <2>2, ServerAssumption DEF PipelineArrives, TypeOK, Builds, Numbers
    <2>4. TypeOK' /\ Replied'
      BY <1>1, <1>11, <2>1, <2>3
         DEF PipelineArrives, TypeOK, Replied, getVars, listVars, pagerVars, pageVars
    <2> QED
      BY <2>1, <2>4 DEF Sound
  <1>12. ASSUME FetchNextPage, open' \in BOOLEAN PROVE Sound'
    <2>1. ServerTypeOK' /\ Numbered'
      BY <1>4, <1>12 DEF FetchNextPage
    <2>2. pageGet' \in Phases
      BY <1>1, <1>12 DEF FetchNextPage, TypeOK, Phases
    <2>3. clicks' \in 0..MaxClicks
      BY <1>1, <1>12 DEF FetchNextPage, TypeOK, MaxClicks
    <2>4. TypeOK' /\ Replied'
      BY <1>1, <1>12, <2>1, <2>2, <2>3 DEF FetchNextPage, TypeOK, Replied, runVars, getVars
    <2> QED
      BY <2>1, <2>4 DEF Sound
  <1>13. CASE OpenActivity
    BY <1>12, <1>13 DEF OpenActivity
  <1>14. CASE ShowMore
    BY <1>1, <1>12, <1>14 DEF ShowMore, TypeOK
  <1>15. CASE ServePage
    <2>1. ServerTypeOK' /\ Numbered'
      BY <1>4, <1>15 DEF ServePage
    <2>2. page' \in Seq([num : Numbers, state : Shown])
      <3>1. currentPage * PageSize \in Nat /\ PageSize + 1 \in Nat
        BY <1>1 DEF TypeOK
      <3>2. RestPage(currentPage * PageSize, PageSize + 1) \in Seq([num : Numbers, state : Shown])
        BY <1>1, <3>1, PageType
      <3> QED
        BY <1>15, <3>2 DEF ServePage
    <2>3. TypeOK' /\ Replied'
      BY <1>1, <1>15, <2>1, <2>2
         DEF ServePage, TypeOK, Replied, Phases, runVars, getVars, listVars, pagerVars
    <2> QED
      BY <2>1, <2>3 DEF Sound
  <1>16. CASE FailPage
    <2>1. ServerTypeOK' /\ Numbered'
      BY <1>4, <1>16 DEF FailPage
    <2>2. failures' \in 0..MaxFailures
      BY <1>1, <1>16 DEF FailPage, TypeOK
    <2>3. TypeOK' /\ Replied'
      BY <1>1, <1>16, <2>1, <2>2
         DEF FailPage, TypeOK, Replied, Phases, runVars, getVars, listVars, pagerVars
    <2> QED
      BY <2>1, <2>3 DEF Sound
  <1>17. CASE PageArrives
    <2>1. ServerTypeOK' /\ Numbered'
      BY <1>4, <1>17 DEF PageArrives
    <2>2. \A i \in 1..Len(page) : page[i].num \in Numbers /\ page[i].state \in Shown
      <3> DEFINE S == [num : Numbers, state : Shown]
      <3>1. page \in Seq(S)
        BY <1>1 DEF TypeOK
      <3>2. \A i \in 1..Len(page) : page[i] \in S
        <4> HIDE DEF S
        <4> QED
          BY <3>1
      <3> QED
        BY <3>2
    <2>3. store' \in [Numbers -> Shown \cup {"absent"}]
      BY <1>1, <1>17, <2>2 DEF PageArrives, TypeOK
    <2>4. Trimmed \in Seq(Numbers)
      <3> DEFINE k == IF Len(page) < PageSize THEN Len(page) ELSE PageSize
      <3>1. k \in Nat /\ k <= Len(page)
        BY <1>1 DEF TypeOK
      <3>2. Trimmed \in [1..k -> Numbers]
        BY <2>2, <3>1 DEF Trimmed
      <3> HIDE DEF k
      <3> QED
        BY <3>1, <3>2, FunctionIsSeq
    <2>5. hrefs' \in Seq(Numbers)
      <3>1. hrefs \o Trimmed \in Seq(Numbers) /\ (hrefs \o Trimmed) \o Trimmed \in Seq(Numbers)
            /\ hrefs \o Trimmed \o <<>> \in Seq(Numbers)
        BY <1>1, <2>4 DEF TypeOK
      <3> QED
        BY <1>17, <3>1 DEF PageArrives
    <2>6. hasMore' \in BOOLEAN /\ pending' \in BOOLEAN
      <3>1. (Len(page) > PageSize) \in BOOLEAN
        OBVIOUS
      <3> QED
        BY <1>17, <3>1, Zenon DEF PageArrives
    <2>7. currentPage' \in Nat
      BY <1>1, <1>17 DEF PageArrives, TypeOK, MaxClicks
    <2>8. pageGet' \in Phases /\ page' \in Seq([num : Numbers, state : Shown])
          /\ clicks' \in 0..MaxClicks
      BY <1>17 DEF PageArrives, Phases, MaxClicks
    <2>9. TypeOK' /\ Replied'
      BY <1>1, <1>17, <2>1, <2>3, <2>5, <2>6, <2>7, <2>8
         DEF PageArrives, TypeOK, Replied, getVars
    <2> QED
      BY <2>1, <2>9 DEF Sound
  <1>18. CASE PageFails
    <2>1. ServerTypeOK' /\ Numbered'
      BY <1>4, <1>18 DEF PageFails
    <2>2. TypeOK' /\ Replied'
      BY <1>1, <1>18, <2>1
         DEF PageFails, TypeOK, Replied, Phases, MaxClicks, runVars, getVars, listVars, pagerVars
    <2> QED
      BY <2>1, <2>2 DEF Sound
  <1> QED
    BY <1>2, <1>3, <1>5, <1>6, <1>7, <1>8, <1>9, <1>10, <1>11, <1>13, <1>14, <1>15, <1>16,
       <1>17, <1>18 DEF ClientNext

\* Every step keeps the system sound.
LEMMA SoundStep == Sound /\ [Next]_vars => Sound'
  <1> SUFFICES ASSUME Sound, [Next]_vars PROVE Sound'
    OBVIOUS
  <1>1. CASE ServerNext /\ UNCHANGED clientVars
    <2>1. ServerTypeOK' /\ Numbered'
      BY <1>1, ServerStep DEF Sound, TypeOK
    <2>2. TypeOK' /\ Replied'
      BY <1>1, <2>1
         DEF Sound, TypeOK, Replied, clientVars, runVars, getVars, listVars, pagerVars, pageVars
    <2> QED
      BY <2>1, <2>2 DEF Sound
  <1>2. CASE ClientNext
    BY <1>2, ClientStep
  <1>3. CASE UNCHANGED vars
    <2>1. ServerTypeOK' /\ Numbered'
      BY <1>3, ServerAlone DEF Sound, TypeOK, vars
    <2>2. TypeOK' /\ Replied'
      BY <1>3, <2>1 DEF Sound, TypeOK, Replied, vars, clientVars, runVars, getVars, listVars,
                        pagerVars, pageVars
    <2> QED
      BY <2>1, <2>2 DEF Sound
  <1> QED
    BY <1>1, <1>2, <1>3 DEF Next

\* LiveRuns is type correct: lists are lists of runs, and what a fetch brings
\* is a run (DefaultSSEHandler, ActivityService, Pager).
THEOREM TypeCorrect == Spec => []TypeOK
  <1>1. Sound => TypeOK
    BY DEF Sound
  <1> QED
    BY <1>1, SoundInit, SoundStep, PTL DEF Spec

-----------------------------------------------------------------------------
(* The pager. *)

\* A page on its way is shown as pending (Pager.fetchNextPage).
THEOREM PendingHolds == Spec => []PendingWhileFetching
  <1>1. Init => PendingWhileFetching
    BY DEF Init, PendingWhileFetching
  <1>2. Sound /\ PendingWhileFetching /\ [Next]_vars => PendingWhileFetching'
    <2> SUFFICES ASSUME Sound, PendingWhileFetching, [Next]_vars PROVE PendingWhileFetching'
      OBVIOUS
    <2>1. ASSUME UNCHANGED <<pageGet, pending, clicks>> PROVE PendingWhileFetching'
      BY <2>1 DEF PendingWhileFetching
    <2>2. ASSUME FetchNextPage PROVE PendingWhileFetching'
      BY <2>2 DEF FetchNextPage, PendingWhileFetching, Sound, TypeOK
    <2>3. CASE ServerNext /\ UNCHANGED clientVars
      BY <2>1, <2>3 DEF clientVars, pagerVars, pageVars
    <2>4. CASE HandleUpdate \/ HandleCancelled
      BY <2>1, <2>4 DEF HandleUpdate, HandleCancelled, pagerVars, pageVars
    <2>5. ASSUME NEW n \in Numbers, ServeRun(n) \/ FailRun(n) \/ RunArrives(n) \/ RunFails(n)
          PROVE PendingWhileFetching'
      BY <2>1, <2>5 DEF ServeRun, FailRun, RunArrives, RunFails, pagerVars, pageVars
    <2>6. CASE AskPipeline \/ ServePipeline \/ PipelineArrives
      BY <2>1, <2>6 DEF AskPipeline, ServePipeline, PipelineArrives, pagerVars, pageVars
    <2>7. CASE OpenActivity \/ ShowMore
      BY <2>2, <2>7 DEF OpenActivity, ShowMore
    <2>8. CASE ServePage \/ FailPage
      BY <2>8 DEF ServePage, FailPage, PendingWhileFetching, pagerVars
    <2>9. CASE PageArrives \/ PageFails
      BY <2>9 DEF PageArrives, PageFails, PendingWhileFetching
    <2>10. CASE UNCHANGED vars
      BY <2>1, <2>10 DEF vars, clientVars, pagerVars, pageVars
    <2> QED
      BY <2>3, <2>4, <2>5, <2>6, <2>7, <2>8, <2>9, <2>10 DEF Next, ClientNext
  <1> QED
    BY <1>1, <1>2, SoundInit, SoundStep, PTL DEF Spec

\* Neither Pager.insert nor Pager.remove makes a duplicate.
LEMMA NoDuplicateMade ==
    ASSUME hrefs \in Seq(Numbers), open \in BOOLEAN, NEW n \in Numbers, ~Duplicated,
           \/ hrefs' = Inserted(n)
           \/ hrefs # <<>> /\ hrefs' = Removed(n)
    PROVE  ~Duplicated'
  <1>1. CASE hrefs' = Inserted(n)
    <2>1. CASE open /\ n \notin Listed
      <3>1. hrefs' = <<n>> \o hrefs
        BY <1>1, <2>1 DEF Inserted
      <3>2. /\ Len(hrefs') = Len(hrefs) + 1 /\ hrefs'[1] = n
            /\ \A i \in 2..Len(hrefs') : i - 1 \in 1..Len(hrefs) /\ hrefs'[i] = hrefs[i - 1]
        BY <3>1
      <3>3. \A i \in 1..Len(hrefs) : hrefs[i] # n
        BY <2>1 DEF Listed
      <3>4. ASSUME NEW i \in 1..Len(hrefs'), NEW k \in 1..Len(hrefs'), i < k
            PROVE  hrefs'[i] # hrefs'[k]
        <4>1. /\ Len(hrefs) \in Nat /\ k \in 2..Len(hrefs')
              /\ k - 1 \in 1..Len(hrefs) /\ hrefs'[k] = hrefs[k - 1]
          BY <3>2, <3>4
        <4>2. CASE i = 1
          BY <3>2, <3>3, <4>1, <4>2
        <4>3. CASE i # 1
          <5>1. i - 1 \in 1..Len(hrefs) /\ hrefs'[i] = hrefs[i - 1] /\ i - 1 # k - 1
            BY <3>2, <3>4, <4>3
          <5> QED
            BY <4>1, <5>1 DEF Duplicated
        <4> QED
          BY <4>2, <4>3
      <3>5. ASSUME NEW i \in 1..Len(hrefs'), NEW k \in 1..Len(hrefs'), i # k
            PROVE  i < k \/ k < i
        BY <3>5
      <3> QED
        BY <3>4, <3>5 DEF Duplicated
    <2>2. CASE ~(open /\ n \notin Listed)
      BY <1>1, <2>2 DEF Inserted, Duplicated
    <2> QED
      BY <2>1, <2>2
  <1>2. CASE hrefs # <<>> /\ hrefs' = Removed(n)
    <2> DEFINE at == {i \in 1..Len(hrefs) : hrefs[i] = n}
               i == IF at # {} THEN CHOOSE j \in at : \A k \in at : j <= k ELSE Len(hrefs)
               f == [j \in 1..(Len(hrefs) - 1) |-> IF j < i THEN hrefs[j] ELSE hrefs[j + 1]]
    <2>1. hrefs' = f
      BY <1>2 DEF Removed
    <2>2. Len(hrefs) - 1 \in Nat
      BY <1>2
    <2>3. Len(f) = Len(hrefs) - 1
      <3>1. f \in [1..(Len(hrefs) - 1) -> {f[j] : j \in 1..(Len(hrefs) - 1)}]
        <4> HIDE DEF i
        <4> QED
          OBVIOUS
      <3> HIDE DEF f
      <3> QED
        BY <2>2, <3>1, FunctionIsSeq
    <2>4. \A j \in 1..Len(hrefs') : hrefs'[j] = IF j < i THEN hrefs[j] ELSE hrefs[j + 1]
      <3> HIDE DEF i
      <3> QED
        BY <2>1, <2>3
    <2>5. Len(hrefs') = Len(hrefs) - 1
      BY <2>1, <2>3
    <2>6. \A j \in 1..Len(hrefs') : j \in 1..Len(hrefs) /\ j + 1 \in 1..Len(hrefs)
      BY <2>2, <2>5
    <2>7. i \in Nat
      <3>1. CASE at # {}
        <4>1. at \in SUBSET Nat
          OBVIOUS
        <4>2. \E j \in at : \A k \in at : j <= k
          <5> HIDE DEF at
          <5> QED
            BY <3>1, <4>1, LeastExists
        <4>3. i \in at
          BY <3>1, <4>2
        <4> QED
          BY <4>1, <4>3
      <3>2. CASE at = {}
        BY <3>2
      <3> QED
        BY <3>1, <3>2
    <2> HIDE DEF i, f, at
    <2> DEFINE g(j) == IF j < i THEN j ELSE j + 1
    <2>8. \A j \in 1..Len(hrefs') : g(j) \in 1..Len(hrefs) /\ hrefs'[j] = hrefs[g(j)]
      BY <2>4, <2>6
    <2>9. \A j, k \in 1..Len(hrefs') : j # k => g(j) # g(k)
      BY <2>7, <2>2, <2>5
    <2> HIDE DEF g
    <2> QED
      BY <2>8, <2>9 DEF Duplicated
  <1> QED
    BY <1>1, <1>2

\* Only a page of the pager can put a second row for a run into the list.
THEOREM EventsNeverDuplicateHolds == Spec => EventsNeverDuplicate
  <1>1. Sound /\ [Next]_vars => [~Duplicated /\ Duplicated' => PageArrives]_vars
    <2> SUFFICES ASSUME Sound, Next, ~Duplicated, Duplicated' PROVE PageArrives
      OBVIOUS
    <2>1. hrefs' # hrefs
      BY DEF Duplicated
    <2>2. hrefs \in Seq(Numbers) /\ open \in BOOLEAN /\ events \in Seq(Events)
      BY DEF Sound, TypeOK, ServerTypeOK
    <2>3. ~(ServerNext /\ UNCHANGED clientVars)
      BY <2>1 DEF clientVars, listVars
    <2>4. ~HandleUpdate
      BY <2>1 DEF HandleUpdate, listVars
    <2>5. ~HandleCancelled
      <3> SUFFICES ASSUME HandleCancelled PROVE FALSE
        OBVIOUS
      <3> DEFINE n == Head(events).num
      <3>1. n \in Numbers \cup {Unmatched}
        <4>1. events # <<>>
          BY DEF HandleCancelled, Deliver
        <4>2. Head(events) \in Events
          BY <2>2, <4>1
        <4> QED
          BY <4>2 DEF Events
      <3>2. n # Unmatched /\ hrefs # <<>> /\ hrefs' = Removed(n)
        BY <2>1 DEF HandleCancelled
      <3> QED
        BY <2>2, <3>1, <3>2, NoDuplicateMade
    <2>6. ASSUME NEW n \in Numbers PROVE ~(ServeRun(n) \/ FailRun(n))
      BY <2>1 DEF ServeRun, FailRun, listVars
    <2>7. ASSUME NEW n \in Numbers PROVE ~(RunArrives(n) \/ RunFails(n))
      <3>1. RunArrives(n) \/ RunFails(n) => hrefs' = Inserted(n)
        BY DEF RunArrives, RunFails
      <3> QED
        BY <2>2, <3>1, NoDuplicateMade
    <2>8. ~(AskPipeline \/ ServePipeline \/ PipelineArrives)
      BY <2>1 DEF AskPipeline, ServePipeline, PipelineArrives, listVars
    <2>9. ~(OpenActivity \/ ShowMore \/ ServePage \/ FailPage \/ PageFails)
      BY <2>1 DEF OpenActivity, ShowMore, FetchNextPage, ServePage, FailPage, PageFails, listVars
    <2> QED
      BY <2>3, <2>4, <2>5, <2>6, <2>7, <2>8, <2>9 DEF Next, ClientNext
  <1> QED
    BY <1>1, SoundInit, SoundStep, PTL DEF Spec, EventsNeverDuplicate

-----------------------------------------------------------------------------
(* A finished run is shown finished unless its last event shared a request. *)

\* The activity page is open, its pipeline is loaded and no page is due.
Opened == pipeline = "loaded" /\ pageGet = "idle" /\ open = TRUE /\ hasMore = FALSE

Ended(n) == Event("ended", n)
EndAhead(n) == \E i \in 1..Len(events) : events[i] = Ended(n)

\* A cancellation under the number of a finished run comes before its end:
\* it was published when the number still was a guess.
CancelsFirst ==
    \A n \in Builds, i \in 1..Len(events) :
        build[n] = "finished" /\ events[i].kind = "queue_cancelled" /\ events[i].num = n
            => \E j \in (i + 1)..Len(events) : events[j] = Ended(n)

\* Where the end of a finished run is: still an event, in a request or its
\* answer, lost with a shared or failed request, or shown.
Tracked(n) ==
    \/ EndAhead(n)
    \/ asked[n] \in {"asked", "failed"}
    \/ asked[n] = "served" /\ reply[n] = "finished"
    \/ n \in shared
    \/ asked[n] = "idle" /\ (store[n] = "finished" \/ n \in failed)
AllTracked == \A n \in Builds : build[n] = "finished" => Tracked(n)

LEMMA OpenedInit == AlreadyOpen /\ Init => Opened
  <1> SUFFICES ASSUME AlreadyOpen, Init PROVE Opened
    OBVIOUS
  <1>1. pipeline = "loaded" /\ pageGet = "idle"
    BY DEF Init
  <1>2. open = TRUE /\ hasMore = FALSE
    <2>1. AlreadyOpen = TRUE
      BY ClientAssumption
    <2> QED
      BY <2>1, Zenon DEF Init
  <1> QED
    BY <1>1, <1>2 DEF Opened

\* An open page of a loaded pipeline stays open, and no page is asked for.
LEMMA OpenedStep == Opened /\ [Next]_vars => Opened'
  <1> SUFFICES ASSUME Opened, [Next]_vars PROVE Opened'
    OBVIOUS
  <1>1. ASSUME UNCHANGED <<pipeline, pageGet, open, hasMore>> PROVE Opened'
    BY <1>1 DEF Opened
  <1>2. CASE ServerNext /\ UNCHANGED clientVars
    BY <1>1, <1>2 DEF clientVars, runVars, listVars, pagerVars, pageVars
  <1>3. CASE HandleUpdate \/ HandleCancelled
    BY <1>1, <1>3 DEF HandleUpdate, HandleCancelled, runVars, listVars, pagerVars, pageVars
  <1>4. ASSUME NEW n \in Numbers, ServeRun(n) \/ FailRun(n) \/ RunArrives(n) \/ RunFails(n)
        PROVE Opened'
    BY <1>1, <1>4 DEF ServeRun, FailRun, RunArrives, RunFails, runVars, listVars, pagerVars, pageVars
  <1>5. ~(AskPipeline \/ ServePipeline \/ PipelineArrives)
    BY DEF Opened, AskPipeline, ServePipeline, PipelineArrives
  <1>6. ~(OpenActivity \/ ShowMore)
    BY Zenon DEF Opened, OpenActivity, ShowMore
  <1>7. ~(ServePage \/ FailPage \/ PageArrives \/ PageFails)
    BY DEF Opened, ServePage, FailPage, PageArrives, PageFails
  <1>8. CASE UNCHANGED vars
    BY <1>1, <1>8 DEF vars, clientVars, runVars, listVars, pagerVars, pageVars
  <1> QED
    BY <1>2, <1>3, <1>4, <1>5, <1>6, <1>7, <1>8 DEF Next, ClientNext

\* The events a step of the job publishes: one at the end of the stream, for
\* a cancellation under a number that no build has yet.
LEMMA Published ==
    ASSUME Sound, ServerNext
    PROVE  \E e \in Events :
             /\ events' = Append(events, e)
             /\ e.kind = "queue_cancelled" => \A n \in Builds : build'[n] = "finished" => e.num # n
             /\ \A n \in Builds : build'[n] = "finished" => build[n] = "finished" \/ e = Ended(n)
  <1> USE ServerAssumption
  <1> DEFINE Goal(e) ==
             /\ events' = Append(events, e)
             /\ e.kind = "queue_cancelled" => \A n \in Builds : build'[n] = "finished" => e.num # n
             /\ \A n \in Builds : build'[n] = "finished" => build[n] = "finished" \/ e = Ended(n)
  <1>1. /\ ServerTypeOK /\ Numbered
        /\ qlen \in 0..MaxQueue /\ next \in 1..(MaxBuild + 1)
        /\ build \in [Builds -> {"none", "running", "paused", "finished"}]
    BY DEF Sound, TypeOK, ServerTypeOK
  <1>2. \A k \in QueueKinds \cup RunKinds, n \in Numbers \cup {Unmatched} : Event(k, n) \in Events
    BY DEF Event, Events
  <1>3. ASSUME NEW k \in QueueKinds \cup RunKinds, NEW n PROVE Event(k, n).kind = k /\ Event(k, n).num = n
    BY DEF Event
  <1>4. Builds \subseteq Numbers /\ (next <= MaxBuild => next \in Builds)
    BY <1>1 DEF Builds, Numbers
  <1>5. ASSUME Enqueue PROVE \E e \in Events : Goal(e)
    <2>1. PICK n \in {Expected(qlen), Unmatched} : events' = Append(events, Event("queue_enter", n))
      BY <1>5 DEF Enqueue
    <2>2. qlen < MaxQueue /\ build' = build
      BY <1>5 DEF Enqueue
    <2>3. Expected(qlen) \in Numbers
      BY <1>1, <2>2 DEF Expected, Numbers
    <2>4. "queue_enter" \in QueueKinds
      BY DEF QueueKinds
    <2>5. Event("queue_enter", n) \in Events /\ Event("queue_enter", n).kind # "queue_cancelled"
      BY <1>2, <1>3, <2>3, <2>4
    <2> QED
      BY <2>1, <2>2, <2>5
  <1>6. ASSUME NEW i \in 0..(MaxQueue - 1), CancelItem(i) PROVE \E e \in Events : Goal(e)
    <2>1. PICK n \in {Expected(i), next, Unmatched} :
             events' = Append(events, Event("queue_cancelled", n))
      BY <1>6 DEF CancelItem
    <2>2. build' = build /\ i < qlen
      BY <1>6 DEF CancelItem
    <2>3. n \in Numbers \cup {Unmatched}
      BY <1>1, <2>1, <2>2 DEF Expected, Numbers
    <2>4. \A m \in Builds : build'[m] = "finished" => n # m
      BY <1>1, <2>1, <2>2 DEF Numbered, Expected, Unmatched, Builds
    <2>5. "queue_cancelled" \in QueueKinds
      BY DEF QueueKinds
    <2>6. Event("queue_cancelled", n) \in Events /\ Event("queue_cancelled", n).num = n
      BY <1>2, <1>3, <2>3, <2>5
    <2> QED
      BY <2>1, <2>2, <2>4, <2>6
  <1>7. ASSUME Leave PROVE \E e \in Events : Goal(e)
    <2>1. PICK n \in {next, Unmatched} : events' = Append(events, Event("queue_left", n))
      BY <1>7 DEF Leave
    <2>2. build' = build /\ next <= MaxBuild
      BY <1>7 DEF Leave
    <2>3. n \in Numbers \cup {Unmatched}
      BY <1>4, <2>1, <2>2
    <2>4. "queue_left" \in QueueKinds
      BY DEF QueueKinds
    <2>5. Event("queue_left", n) \in Events /\ Event("queue_left", n).kind # "queue_cancelled"
      BY <1>2, <1>3, <2>3, <2>4
    <2> QED
      BY <2>1, <2>2, <2>5
  <1>8. ASSUME Start PROVE \E e \in Events : Goal(e)
    <2>1. events' = Append(events, Event("started", next)) /\ build' = [build EXCEPT ![next] = "running"]
          /\ next <= MaxBuild
      BY <1>1, <1>8 DEF Start, Numbered
    <2>2. \A n \in Builds : build'[n] = "finished" => build[n] = "finished"
      BY <1>1, <2>1
    <2>3. "started" \in RunKinds /\ next \in Numbers
      BY <1>4, <2>1 DEF RunKinds
    <2>4. Event("started", next) \in Events /\ Event("started", next).kind # "queue_cancelled"
      BY <1>2, <1>3, <2>3
    <2> QED
      BY <2>1, <2>2, <2>4
  <1>9. ASSUME NEW n \in Builds, NEW from \in {"running", "paused"},
               NEW to \in {"running", "paused", "finished"}, NEW k \in RunKinds,
               Move(n, from, to, k), to = "finished" => k = "ended"
        PROVE \E e \in Events : Goal(e)
    <2>1. events' = Append(events, Event(k, n)) /\ build' = [build EXCEPT ![n] = to]
      BY <1>9 DEF Move
    <2>2. \A m \in Builds : build'[m] = "finished" => build[m] = "finished" \/ Event(k, n) = Ended(m)
      BY <1>1, <1>9, <2>1 DEF Ended
    <2>3. k # "queue_cancelled"
      BY <1>9 DEF RunKinds
    <2> QED
      BY <1>2, <1>3, <1>4, <2>1, <2>2, <2>3
  <1>10. ASSUME NEW n \in Builds, Pause(n) \/ Unpause(n) \/ End(n) PROVE \E e \in Events : Goal(e)
    <2>1. CASE Pause(n)
      BY <1>9, <2>1 DEF Pause, RunKinds
    <2>2. CASE Unpause(n)
      BY <1>9, <2>2 DEF Unpause, RunKinds
    <2>3. CASE End(n)
      BY <1>9, <2>3 DEF End, RunKinds
    <2> QED
      BY <1>10, <2>1, <2>2, <2>3
  <1> QED
    BY <1>5, <1>6, <1>7, <1>8, <1>10 DEF ServerNext

\* An event that is due stays due when the job publishes another.
LEMMA EndStaysAhead ==
    ASSUME Sound, NEW e \in Events, events' = Append(events, e), NEW n \in Builds
    PROVE  /\ EndAhead(n) => EndAhead(n)'
           /\ e = Ended(n) => EndAhead(n)'
  <1>1. events \in Seq(Events)
    BY DEF Sound, TypeOK, ServerTypeOK
  <1>2. /\ Len(events') = Len(events) + 1 /\ events'[Len(events')] = e
        /\ \A i \in 1..Len(events) : events'[i] = events[i]
        /\ Len(events) \in Nat
    BY <1>1
  <1>3. Ended(n)' = Ended(n)
    BY DEF Ended, Event
  <1>4. ASSUME EndAhead(n) PROVE EndAhead(n)'
    <2>1. PICK i \in 1..Len(events) : events[i] = Ended(n)
      BY <1>4 DEF EndAhead
    <2>2. i \in 1..Len(events') /\ events'[i] = Ended(n)
      BY <1>2, <2>1
    <2> QED
      BY <2>2, <1>3 DEF EndAhead
  <1>5. ASSUME e = Ended(n) PROVE EndAhead(n)'
    <2>1. Len(events') \in 1..Len(events')
      BY <1>2
    <2> QED
      BY <1>2, <1>3, <1>5, <2>1 DEF EndAhead
  <1> QED
    BY <1>4, <1>5

\* Delivery takes the oldest event: the others move up one place.
LEMMA Delivered ==
    ASSUME Sound, NEW K, Deliver(K)
    PROVE  /\ Len(events) \in Nat \ {0} /\ Len(events') = Len(events) - 1
           /\ \A i \in 1..Len(events') : events'[i] = events[i + 1]
           /\ Head(events) = events[1] /\ Head(events) \in Events /\ Head(events).kind \in K
  BY DEF Sound, TypeOK, ServerTypeOK, Deliver

\* What is left of the stream after a delivery keeps the order.
LEMMA CancelsFirstTail ==
    ASSUME Sound, CancelsFirst, NEW K, Deliver(K), build' = build
    PROVE  CancelsFirst'
  <1>1. /\ Len(events) \in Nat \ {0} /\ Len(events') = Len(events) - 1
        /\ \A i \in 1..Len(events') : events'[i] = events[i + 1]
    BY Delivered
  <1>2. SUFFICES ASSUME NEW n \in Builds, NEW i \in 1..Len(events'), build[n] = "finished",
                        events'[i].kind = "queue_cancelled", events'[i].num = n
                 PROVE  \E j \in (i + 1)..Len(events') : events'[j] = Ended(n)
    BY DEF CancelsFirst, Ended, Event
  <1>3. i + 1 \in 1..Len(events) /\ events[i + 1] = events'[i]
    BY <1>1
  <1>4. PICK j \in (i + 2)..Len(events) : events[j] = Ended(n)
    <2>1. \E j \in ((i + 1) + 1)..Len(events) : events[j] = Ended(n)
      BY <1>2, <1>3 DEF CancelsFirst
    <2>2. (i + 1) + 1 = i + 2
      OBVIOUS
    <2> QED
      BY <2>1, <2>2
  <1>5. j - 1 \in (i + 1)..Len(events') /\ j - 1 \in 1..Len(events') /\ (j - 1) + 1 = j
    BY <1>1, <1>4
  <1> QED
    BY <1>1, <1>4, <1>5

\* A step of the client consumes one event or none.
LEMMA ClientEvents ==
    ClientNext => build' = build /\ (events' = events \/ HandleUpdate \/ HandleCancelled)
  BY DEF ClientNext, HandleUpdate, HandleCancelled, ServeRun, FailRun, RunArrives, RunFails, AskPipeline,
         ServePipeline, PipelineArrives, OpenActivity, ShowMore, FetchNextPage, ServePage,
         FailPage, PageArrives, PageFails, serverVars, jobVars

\* A cancellation never overtakes the end of the run that has its number.
LEMMA CancelsFirstStep == Sound /\ CancelsFirst /\ [Next]_vars => CancelsFirst'
  <1> SUFFICES ASSUME Sound, CancelsFirst, [Next]_vars PROVE CancelsFirst'
    OBVIOUS
  <1>1. ASSUME build' = build, events' = events PROVE CancelsFirst'
    BY <1>1 DEF CancelsFirst, Ended, Event
  <1>2. CASE ServerNext
    <2>1. PICK e \in Events :
             /\ events' = Append(events, e)
             /\ e.kind = "queue_cancelled" => \A n \in Builds : build'[n] = "finished" => e.num # n
             /\ \A n \in Builds : build'[n] = "finished" => build[n] = "finished" \/ e = Ended(n)
      BY <1>2, Published
    <2>2. events \in Seq(Events)
      BY DEF Sound, TypeOK, ServerTypeOK
    <2>3. /\ Len(events) \in Nat
          /\ Len(events') = Len(events) + 1 /\ events'[Len(events) + 1] = e
          /\ \A i \in 1..Len(events) : events'[i] = events[i]
      BY <2>1, <2>2
    <2>4. SUFFICES ASSUME NEW n \in Builds, NEW i \in 1..Len(events'), build'[n] = "finished",
                          events'[i].kind = "queue_cancelled", events'[i].num = n
                   PROVE  \E j \in (i + 1)..Len(events') : events'[j] = Ended(n)
      BY DEF CancelsFirst, Ended, Event
    <2>5. i \in 1..Len(events)
      BY <2>1, <2>3, <2>4
    <2>6. CASE build[n] = "finished"
      <3>1. PICK j \in (i + 1)..Len(events) : events[j] = Ended(n)
        BY <2>3, <2>4, <2>5, <2>6 DEF CancelsFirst
      <3>2. j \in (i + 1)..Len(events') /\ j \in 1..Len(events)
        BY <2>3, <2>5, <3>1
      <3> QED
        BY <2>3, <3>1, <3>2
    <2>7. CASE e = Ended(n)
      <3>1. Len(events) + 1 \in (i + 1)..Len(events')
        BY <2>3, <2>5
      <3> QED
        BY <2>3, <2>7, <3>1
    <2> QED
      BY <2>1, <2>4, <2>6, <2>7
  <1>3. CASE ClientNext
    <2>1. CASE HandleUpdate
      BY <1>3, <2>1, CancelsFirstTail, ClientEvents DEF HandleUpdate
    <2>2. CASE HandleCancelled
      BY <1>3, <2>2, CancelsFirstTail, ClientEvents DEF HandleCancelled
    <2> QED
      BY <1>1, <1>3, <2>1, <2>2, ClientEvents
  <1>4. CASE UNCHANGED vars
    BY <1>1, <1>4 DEF vars, serverVars, jobVars
  <1> QED
    BY <1>2, <1>3, <1>4 DEF Next

\* What the handler does to the tracking of a finished run (updateJob and
\* queueLeft): a fetch asks for it, a cancellation leaves its end to come.
LEMMA HandlerTracks ==
    ASSUME Sound, Opened, CancelsFirst, HandleUpdate \/ HandleCancelled,
           NEW n \in Builds, build[n] = "finished", Tracked(n)
    PROVE  Tracked(n)'
  <1> DEFINE e == Head(events)
  <1>1. PICK K : Deliver(K)
    BY DEF HandleUpdate, HandleCancelled
  <1>2. /\ Len(events) \in Nat \ {0} /\ Len(events') = Len(events) - 1
        /\ \A i \in 1..Len(events') : events'[i] = events[i + 1]
        /\ e = events[1] /\ e \in Events
    BY <1>1, Delivered
  <1>3. EndAhead(n) => e = Ended(n) \/ EndAhead(n)'
    <2> SUFFICES ASSUME EndAhead(n), e # Ended(n) PROVE EndAhead(n)'
      OBVIOUS
    <2>1. PICK i \in 1..Len(events) : events[i] = Ended(n)
      BY DEF EndAhead
    <2>2. i # 1
      BY <1>2, <2>1
    <2>3. i - 1 \in 1..Len(events') /\ (i - 1) + 1 = i
      BY <1>2, <2>1, <2>2
    <2>4. events'[i - 1] = Ended(n)
      BY <1>2, <2>1, <2>3
    <2>5. Ended(n)' = Ended(n)
      BY DEF Ended, Event
    <2> QED
      BY <2>3, <2>4, <2>5 DEF EndAhead
  <1>4. n \in Numbers /\ n # Unmatched
    BY ServerAssumption DEF Builds, Numbers, Unmatched
  <1>5. asked \in [Numbers -> Phases] /\ store \in [Numbers -> Shown \cup {"absent"}]
    BY DEF Sound, TypeOK
  <1>6. CASE HandleUpdate
    <2>1. UNCHANGED <<store, reply, failed>>
      BY <1>6 DEF HandleUpdate, runVars
    <2>2. CASE e.num = n
      <3>1. FetchActivity(n)
        BY <1>4, <1>6, <2>2 DEF HandleUpdate, Opened
      <3>2. asked'[n] = "asked" \/ n \in shared'
        BY <1>4, <1>5, <3>1 DEF FetchActivity
      <3> QED
        BY <3>2 DEF Tracked
    <2>3. CASE e.num # n
      <3>1. e # Ended(n)
        BY <2>3 DEF Ended, Event
      <3>2. asked'[n] = asked[n] /\ (n \in shared => n \in shared')
        <4> DEFINE m == e.num
        <4>1. m \in Numbers \cup {Unmatched}
          BY <1>2 DEF Events
        <4>2. \/ UNCHANGED <<asked, shared>>
              \/ m \in Numbers /\ FetchActivity(m)
          BY <1>6, <4>1 DEF HandleUpdate
        <4> HIDE DEF m
        <4>3. m # n
          BY <2>3 DEF m
        <4> QED
          BY <1>4, <1>5, <4>2, <4>3 DEF FetchActivity
      <3> QED
        BY <1>3, <2>1, <3>1, <3>2 DEF Tracked
    <2> QED
      BY <2>2, <2>3
  <1>7. CASE HandleCancelled
    <2>1. UNCHANGED <<asked, reply, shared, failed>>
      BY <1>7 DEF HandleCancelled, getVars
    <2>2. e.kind = "queue_cancelled"
      BY <1>7, Delivered DEF HandleCancelled
    <2>3. e # Ended(n)
      BY <2>2 DEF Ended, Event
    <2>4. CASE e.num = n
      <3>1. \E j \in 2..Len(events) : events[j] = Ended(n)
        <4>1. 1 \in 1..Len(events) /\ 1 + 1 = 2
          BY <1>2
        <4> QED
          BY <1>2, <2>2, <2>4, <4>1 DEF CancelsFirst
      <3>2. EndAhead(n)
        BY <1>2, <3>1 DEF EndAhead
      <3> QED
        BY <1>3, <2>3, <3>2 DEF Tracked
    <2>5. CASE e.num # n
      <3>1. store'[n] = store[n]
        <4> DEFINE m == e.num
        <4>1. store' = store \/ store' = [store EXCEPT ![m] = "absent"]
          BY <1>7 DEF HandleCancelled
        <4> HIDE DEF m
        <4>2. m # n
          BY <2>5 DEF m
        <4> QED
          BY <1>4, <1>5, <4>1, <4>2
      <3> QED
        BY <1>3, <2>1, <2>3, <3>1 DEF Tracked
    <2> QED
      BY <2>4, <2>5
  <1> QED
    BY <1>6, <1>7

\* What the fetch of run m does to the tracking of a finished run.
LEMMA FetchTracks ==
    ASSUME Sound, NEW m \in Numbers, ServeRun(m) \/ FailRun(m) \/ RunArrives(m) \/ RunFails(m),
           NEW n \in Builds, build[n] = "finished", Tracked(n)
    PROVE  Tracked(n)'
  <1>1. n \in Numbers
    BY ServerAssumption DEF Builds, Numbers
  <1>2. /\ asked \in [Numbers -> Phases] /\ reply \in [Numbers -> Shown \cup {"notfound"}]
        /\ store \in [Numbers -> Shown \cup {"absent"}]
    BY DEF Sound, TypeOK
  <1>3. events' = events /\ shared' = shared
    BY DEF ServeRun, FailRun, RunArrives, RunFails, serverVars
  <1>4. EndAhead(n) => EndAhead(n)'
    BY <1>3 DEF EndAhead, Ended, Event
  <1>5. CASE m # n
    <2>1. asked'[n] = asked[n] /\ reply'[n] = reply[n] /\ store'[n] = store[n]
          /\ (n \in failed => n \in failed')
      BY <1>1, <1>2, <1>5 DEF ServeRun, FailRun, RunArrives, RunFails, runVars
    <2> QED
      BY <1>3, <1>4, <2>1 DEF Tracked
  <1>6. CASE m = n
    <2>1. CASE ServeRun(n)
      <3>1. RestRun(n) = "finished"
        <4>1. n < next
          BY DEF Sound, TypeOK, ServerTypeOK, Numbered, Builds
        <4> QED
          BY <4>1 DEF RestRun
      <3>2. asked'[n] = "served" /\ reply'[n] = "finished"
        BY <1>1, <1>2, <2>1, <3>1 DEF ServeRun
      <3> QED
        BY <3>2 DEF Tracked
    <2>2. CASE FailRun(n)
      <3>1. asked'[n] = "failed"
        BY <1>1, <1>2, <2>2 DEF FailRun
      <3> QED
        BY <3>1 DEF Tracked
    <2>3. CASE RunArrives(n)
      <3>1. asked[n] = "served" /\ asked'[n] = "idle" /\ store'[n] = reply[n]
        BY <1>1, <1>2, <2>3 DEF RunArrives
      <3> QED
        BY <1>3, <1>4, <3>1 DEF Tracked
    <2>4. CASE RunFails(n)
      <3>1. asked'[n] = "idle" /\ n \in failed'
        BY <1>1, <1>2, <2>4 DEF RunFails
      <3> QED
        BY <3>1 DEF Tracked
    <2> QED
      BY <1>6, <2>1, <2>2, <2>3, <2>4
  <1> QED
    BY <1>5, <1>6

\* The end of a finished run is never lost track of.
LEMMA TrackedStep ==
    Sound /\ Opened /\ CancelsFirst /\ AllTracked /\ [Next]_vars => AllTracked'
  <1> SUFFICES ASSUME Sound, Opened, CancelsFirst, AllTracked, [Next]_vars,
                      NEW n \in Builds, build'[n] = "finished"
               PROVE  Tracked(n)'
    BY DEF AllTracked
  <1>1. CASE ServerNext /\ UNCHANGED clientVars
    <2>1. PICK e \in Events :
             /\ events' = Append(events, e)
             /\ e.kind = "queue_cancelled" => \A m \in Builds : build'[m] = "finished" => e.num # m
             /\ \A m \in Builds : build'[m] = "finished" => build[m] = "finished" \/ e = Ended(m)
      BY <1>1, Published
    <2>2. EndAhead(n)' \/ (~EndAhead(n) /\ build[n] = "finished")
      BY <2>1, EndStaysAhead
    <2>3. UNCHANGED <<asked, reply, shared, failed, store>>
      BY <1>1 DEF clientVars, getVars, runVars
    <2>4. ~EndAhead(n) /\ build[n] = "finished" => Tracked(n)'
      BY <2>3 DEF AllTracked, Tracked
    <2> QED
      BY <2>2, <2>4 DEF Tracked
  <1>2. ASSUME ClientNext PROVE build[n] = "finished" /\ Tracked(n)
    BY <1>2, ClientEvents DEF AllTracked
  <1>3. CASE HandleUpdate \/ HandleCancelled
    BY <1>2, <1>3, HandlerTracks DEF ClientNext
  <1>4. ASSUME NEW m \in Numbers, ServeRun(m) \/ FailRun(m) \/ RunArrives(m) \/ RunFails(m)
        PROVE Tracked(n)'
    <2>1. ClientNext
      BY <1>4 DEF ClientNext
    <2> QED
      BY <1>2, <1>4, <2>1, FetchTracks
  <1>5. ~(AskPipeline \/ ServePipeline \/ PipelineArrives)
    BY DEF Opened, AskPipeline, ServePipeline, PipelineArrives
  <1>6. ~(OpenActivity \/ ShowMore)
    BY Zenon DEF Opened, OpenActivity, ShowMore
  <1>7. ~(ServePage \/ FailPage \/ PageArrives \/ PageFails)
    BY DEF Opened, ServePage, FailPage, PageArrives, PageFails
  <1>8. CASE UNCHANGED vars
    BY <1>8 DEF vars, serverVars, jobVars, clientVars, getVars, runVars, AllTracked, Tracked, EndAhead, Ended,
                Event
  <1> QED
    BY <1>1, <1>3, <1>4, <1>5, <1>6, <1>7, <1>8 DEF Next, ClientNext

\* Once the browser is quiet, a finished run of an open activity page is shown
\* as finished, unless the fetch of its last event was shared or has failed.
THEOREM StaleOnlyIfSharedHolds == AlreadyOpen => (Spec => []StaleOnlyIfShared)
  <1> DEFINE IInv == Sound /\ Opened /\ CancelsFirst /\ AllTracked
  <1> SUFFICES ASSUME AlreadyOpen PROVE Spec => []StaleOnlyIfShared
    OBVIOUS
  <1>1. Init => IInv
    <2> SUFFICES ASSUME Init PROVE IInv
      OBVIOUS
    <2>1. Sound
      BY SoundInit
    <2>2. Opened
      BY OpenedInit
    <2>3. CancelsFirst
      BY DEF Init, ServerInit, CancelsFirst
    <2>4. AllTracked
      BY DEF Init, ServerInit, AllTracked
    <2> QED
      BY <2>1, <2>2, <2>3, <2>4
  <1>2. IInv /\ [Next]_vars => IInv'
    BY SoundStep, OpenedStep, CancelsFirstStep, TrackedStep
  <1>3. IInv => StaleOnlyIfShared
    <2> SUFFICES ASSUME AllTracked, Quiet, NEW n \in Builds, build[n] = "finished"
                 PROVE  store[n] = "finished" \/ n \in shared \cup failed
      BY DEF StaleOnlyIfShared
    <2>1. n \in Numbers
      BY ServerAssumption DEF Builds, Numbers
    <2>2. asked[n] = "idle" /\ ~EndAhead(n)
      BY <2>1 DEF Quiet, EndAhead
    <2> QED
      BY <2>2 DEF AllTracked, Tracked
  <1> HIDE DEF IInv
  <1> QED
    BY <1>1, <1>2, <1>3, PTL DEF Spec
-----------------------------------------------------------------------------
(* What is shown and does not exist any more.  A number that is shown, or  *)
(* is about to be, is that of a build or an item, or its cancellation is   *)
(* still among the events, or it is one of the two exceptions.             *)

Cancelled(n) == Event("queue_cancelled", n)
GoneAhead(n) == \E i \in 1..Len(events) : events[i] = Cancelled(n)
Excused(n) == n <= LastNumber \/ n \in unnamed \cup revived \/ GoneAhead(n)

Known ==
    \A n \in Numbers : store[n] # "absent" \/ asked[n] = "served" => Excused(n)

\* A cancellation that is due stays due when the job publishes an event, and
\* the one that is published is due.
LEMMA GoneStaysAhead ==
    ASSUME Sound, NEW e \in Events, events' = Append(events, e), NEW n \in Numbers
    PROVE  /\ GoneAhead(n) => GoneAhead(n)'
           /\ e = Cancelled(n) => GoneAhead(n)'
  <1>1. events \in Seq(Events)
    BY DEF Sound, TypeOK, ServerTypeOK
  <1>2. /\ Len(events') = Len(events) + 1 /\ events'[Len(events')] = e
        /\ \A i \in 1..Len(events) : events'[i] = events[i]
        /\ Len(events) \in Nat
    BY <1>1
  <1>3. Cancelled(n)' = Cancelled(n)
    BY DEF Cancelled, Event
  <1>4. ASSUME GoneAhead(n) PROVE GoneAhead(n)'
    <2>1. PICK i \in 1..Len(events) : events[i] = Cancelled(n)
      BY <1>4 DEF GoneAhead
    <2>2. i \in 1..Len(events') /\ events'[i] = Cancelled(n)
      BY <1>2, <2>1
    <2> QED
      BY <2>2, <1>3 DEF GoneAhead
  <1>5. ASSUME e = Cancelled(n) PROVE GoneAhead(n)'
    <2>1. Len(events') \in 1..Len(events')
      BY <1>2
    <2> QED
      BY <1>2, <1>3, <1>5, <2>1 DEF GoneAhead
  <1> QED
    BY <1>4, <1>5

\* The delivery of another event leaves a cancellation due.
LEMMA GoneStaysBehind ==
    ASSUME Sound, NEW K, Deliver(K), NEW n \in Numbers, GoneAhead(n),
           Head(events) # Cancelled(n)
    PROVE  GoneAhead(n)'
  <1>1. /\ Len(events) \in Nat \ {0} /\ Len(events') = Len(events) - 1
        /\ \A i \in 1..Len(events') : events'[i] = events[i + 1]
        /\ Head(events) = events[1]
    BY Delivered
  <1>2. PICK i \in 1..Len(events) : events[i] = Cancelled(n)
    BY DEF GoneAhead
  <1>3. i # 1
    BY <1>1, <1>2
  <1>4. i - 1 \in 1..Len(events') /\ (i - 1) + 1 = i
    BY <1>1, <1>2, <1>3
  <1>5. events'[i - 1] = Cancelled(n)
    BY <1>1, <1>2, <1>4
  <1>6. Cancelled(n)' = Cancelled(n)
    BY DEF Cancelled, Event
  <1> QED
    BY <1>4, <1>5, <1>6 DEF GoneAhead

\* Whatever happens to the job, a number that goes is told or marked.
LEMMA JobExcuses ==
    ASSUME Sound, ServerNext, revived' = revived, NEW n \in Numbers, Excused(n)
    PROVE  Excused(n)'
  <1>1. PICK e \in Events : events' = Append(events, e)
    BY Published
  <1>2. GoneAhead(n) => GoneAhead(n)'
    BY <1>1, GoneStaysAhead
  <1>3. /\ qlen \in 0..MaxQueue /\ next \in 1..(MaxBuild + 1) /\ leaving \in BOOLEAN
        /\ n \in Nat
    BY DEF Sound, TypeOK, ServerTypeOK, Numbers
  <1>4. ASSUME LastNumber' = LastNumber, unnamed' = unnamed PROVE Excused(n)'
    BY <1>2, <1>4 DEF Excused
  <1>5. CASE Enqueue
    <2>1. LastNumber' = LastNumber + 1 /\ LastNumber \in Int
      BY <1>3, <1>5, ServerAssumption DEF Enqueue, LastNumber
    <2>2. unnamed' = unnamed \ {LastNumber + 1}
      BY <1>5 DEF Enqueue
    <2> QED
      BY <1>2, <1>3, <2>1, <2>2 DEF Excused
  <1>6. ASSUME NEW i \in 0..(MaxQueue - 1), CancelItem(i) PROVE Excused(n)'
    <2>1. LastNumber' = LastNumber - 1 /\ LastNumber \in Int
      BY <1>3, <1>6, ServerAssumption DEF CancelItem, LastNumber
    <2>2. PICK m \in {Expected(i), next, Unmatched} :
             /\ events' = Append(events, Event("queue_cancelled", m))
             /\ unnamed' = IF m = LastNumber THEN unnamed ELSE unnamed \cup {LastNumber}
      BY <1>6 DEF CancelItem
    <2>3. CASE n = LastNumber /\ m = LastNumber
      <3>1. m \in Numbers /\ Event("queue_cancelled", m) \in Events
        BY <2>3 DEF Event, Events, QueueKinds
      <3>2. Event("queue_cancelled", m) = Cancelled(n)
        BY <2>3 DEF Cancelled
      <3>3. GoneAhead(n)'
        BY <2>2, <3>1, <3>2, GoneStaysAhead
      <3> QED
        BY <3>3 DEF Excused
    <2>4. CASE n = LastNumber /\ m # LastNumber
      BY <2>2, <2>4 DEF Excused
    <2>5. CASE n # LastNumber
      <3>1. n <= LastNumber => n <= LastNumber'
        BY <1>3, <2>1, <2>5
      <3>2. unnamed \subseteq unnamed'
        BY <2>2
      <3> QED
        BY <1>2, <3>1, <3>2 DEF Excused
    <2> QED
      BY <2>3, <2>4, <2>5
  <1>7. CASE Leave
    <2>1. LastNumber' = LastNumber /\ unnamed' = unnamed
      BY <1>3, <1>7, ServerAssumption DEF Leave, LastNumber
    <2> QED
      BY <1>4, <2>1
  <1>8. CASE Start
    <2>1. LastNumber' = LastNumber /\ unnamed' = unnamed
      BY <1>3, <1>8, ServerAssumption DEF Start, LastNumber
    <2> QED
      BY <1>4, <2>1
  <1>9. ASSUME NEW m \in Builds, Pause(m) \/ Unpause(m) \/ End(m) PROVE Excused(n)'
    <2>1. LastNumber' = LastNumber /\ unnamed' = unnamed
      BY <1>9 DEF Pause, Unpause, End, Move, LastNumber
    <2> QED
      BY <1>4, <2>1
  <1> QED
    BY <1>5, <1>6, <1>7, <1>8, <1>9 DEF ServerNext

\* A step that leaves the job, its events and the removals alone.
LEMMA ExcusedStays ==
    ASSUME UNCHANGED <<jobVars, events, revived>>, NEW n
    PROVE  Excused(n)' = Excused(n)
  BY DEF Excused, GoneAhead, Cancelled, Event, LastNumber, jobVars

\* The two handlers: an update makes nothing known, and a removal forgets.
LEMMA HandlersKnow ==
    ASSUME Sound, Known, HandleUpdate \/ HandleCancelled
    PROVE  Known'
  <1> SUFFICES ASSUME NEW n \in Numbers, store'[n] # "absent" \/ asked'[n] = "served"
               PROVE  Excused(n)'
    BY DEF Known
  <1> DEFINE m == Head(events).num
  <1>1. asked \in [Numbers -> Phases] /\ store \in [Numbers -> Shown \cup {"absent"}]
    BY DEF Sound, TypeOK
  <1>2. LastNumber' = LastNumber /\ unnamed' = unnamed
    BY DEF HandleUpdate, HandleCancelled, LastNumber, jobVars
  <1>3. CASE HandleUpdate
    <2>1. store' = store /\ revived' = revived
      BY <1>3 DEF HandleUpdate, runVars, listVars
    <2>2. asked'[n] = "served" => asked[n] = "served"
      <3>1. asked' = asked \/ FetchActivity(m)
        BY <1>3 DEF HandleUpdate
      <3> HIDE DEF m
      <3> QED
        BY <1>1, <3>1 DEF FetchActivity
    <2>3. Head(events).kind # "queue_cancelled"
      BY <1>3, Delivered DEF HandleUpdate, RunKinds
    <2>4. GoneAhead(n) => GoneAhead(n)'
      <3>1. Head(events) # Cancelled(n)
        BY <2>3 DEF Cancelled, Event
      <3> QED
        BY <1>3, <3>1, GoneStaysBehind DEF HandleUpdate
    <2> QED
      BY <1>2, <2>1, <2>2, <2>4 DEF Known, Excused
  <1>4. CASE HandleCancelled
    <2>1. asked' = asked
      BY <1>4 DEF HandleCancelled, getVars
    <2>2. CASE m = n
      <3>1. n # Unmatched
        BY DEF Numbers, Unmatched
      <3>2. store'[n] = "absent"
        BY <1>1, <1>4, <2>2, <3>1 DEF HandleCancelled
      <3>3. asked[n] = "served"
        BY <2>1, <3>2
      <3>4. n \in revived'
        BY <1>4, <2>2, <3>1, <3>3 DEF HandleCancelled
      <3> QED
        BY <3>4 DEF Excused
    <2>3. CASE m # n
      <3>1. store'[n] = store[n]
        <4>1. store' = store \/ store' = [store EXCEPT ![m] = "absent"]
          BY <1>4 DEF HandleCancelled
        <4> HIDE DEF m
        <4> QED
          BY <1>1, <2>3, <4>1
      <3>2. n \in revived => n \in revived'
        <4>1. revived' = revived \/ revived' = revived \ {m} \/ revived' = revived \cup {m}
          BY <1>4 DEF HandleCancelled
        <4> HIDE DEF m
        <4> QED
          BY <2>3, <4>1
      <3>3. GoneAhead(n) => GoneAhead(n)'
        <4>1. Head(events) # Cancelled(n)
          BY <2>3 DEF Cancelled, Event
        <4> QED
          BY <1>4, <4>1, GoneStaysBehind DEF HandleCancelled
      <3> QED
        BY <1>2, <2>1, <3>1, <3>2, <3>3 DEF Known, Excused
    <2> QED
      BY <2>2, <2>3
  <1> QED
    BY <1>3, <1>4

\* A fetch learns of numbers that exist when the server answers.
LEMMA FetchKnows ==
    ASSUME Sound, Known, NEW m \in Numbers,
           ServeRun(m) \/ FailRun(m) \/ RunArrives(m) \/ RunFails(m)
    PROVE  Known'
  <1>1. /\ asked \in [Numbers -> Phases] /\ store \in [Numbers -> Shown \cup {"absent"}]
    BY DEF Sound, TypeOK
  <1>2. UNCHANGED <<jobVars, events, revived>>
    BY DEF ServeRun, FailRun, RunArrives, RunFails, serverVars, listVars
  <1>3. SUFFICES ASSUME NEW n \in Numbers, store'[n] # "absent" \/ asked'[n] = "served"
                 PROVE  Excused(n)
    BY <1>2, ExcusedStays DEF Known
  <1>4. CASE ServeRun(m)
    <2>1. store' = store /\ \A k \in Numbers \ {m} : asked'[k] = asked[k]
      BY <1>1, <1>4 DEF ServeRun, runVars
    <2>2. CASE n = m /\ asked'[m] = "served"
      <3>1. RestRun(m) # "notfound"
        BY <1>1, <1>4, <2>2 DEF ServeRun
      <3>2. m < next \/ m \in next..(next + qlen - 1)
        BY <3>1 DEF RestRun, Queued
      <3>3. m <= LastNumber
        BY <3>2 DEF LastNumber, Sound, TypeOK, ServerTypeOK, Numbers
      <3> QED
        BY <2>2, <3>3 DEF Excused
    <2> QED
      BY <1>3, <2>1, <2>2 DEF Known
  <1>5. CASE FailRun(m)
    BY <1>1, <1>3, <1>5 DEF FailRun, runVars, Known
  <1>6. CASE RunArrives(m)
    BY <1>1, <1>3, <1>6 DEF RunArrives, Known
  <1>7. CASE RunFails(m)
    BY <1>1, <1>3, <1>7 DEF RunFails, runVars, Known
  <1> QED
    BY <1>4, <1>5, <1>6, <1>7

LEMMA KnownStep == Sound /\ Opened /\ Known /\ [Next]_vars => Known'
  <1> SUFFICES ASSUME Sound, Opened, Known, [Next]_vars PROVE Known'
    OBVIOUS
  <1>1. CASE ServerNext /\ UNCHANGED clientVars
    BY <1>1, JobExcuses DEF Known, clientVars, runVars, getVars, listVars
  <1>2. CASE HandleUpdate \/ HandleCancelled
    BY <1>2, HandlersKnow
  <1>3. ASSUME NEW m \in Numbers, ServeRun(m) \/ FailRun(m) \/ RunArrives(m) \/ RunFails(m)
        PROVE  Known'
    BY <1>3, FetchKnows
  <1>4. ~(AskPipeline \/ ServePipeline \/ PipelineArrives)
    BY DEF Opened, AskPipeline, ServePipeline, PipelineArrives
  <1>5. ~(OpenActivity \/ ShowMore)
    BY Zenon DEF Opened, OpenActivity, ShowMore
  <1>6. ~(ServePage \/ FailPage \/ PageArrives \/ PageFails)
    BY DEF Opened, ServePage, FailPage, PageArrives, PageFails
  <1>7. CASE UNCHANGED vars
    <2>1. UNCHANGED <<jobVars, events, revived, store, asked>>
      BY <1>7 DEF vars, serverVars, clientVars, runVars, getVars, listVars
    <2> QED
      BY <2>1, ExcusedStays DEF Known
  <1> QED
    BY <1>1, <1>2, <1>3, <1>4, <1>5, <1>6, <1>7 DEF Next, ClientNext

\* Once the browser is quiet, an open activity page shows no item that was
\* cancelled, unless the event named another number or a fetch was in flight.
THEOREM CancelledGoneHolds == AlreadyOpen => (Spec => []CancelledGone)
  <1> DEFINE IInv == Sound /\ Opened /\ Known
  <1> SUFFICES ASSUME AlreadyOpen PROVE Spec => []CancelledGone
    OBVIOUS
  <1>1. Init => IInv
    <2> SUFFICES ASSUME Init PROVE IInv
      OBVIOUS
    <2>1. Sound
      BY SoundInit
    <2>2. Opened
      BY OpenedInit
    <2>3. Known
      BY DEF Init, Known
    <2> QED
      BY <2>1, <2>2, <2>3
  <1>2. IInv /\ [Next]_vars => IInv'
    BY SoundStep, OpenedStep, KnownStep
  <1>3. IInv => CancelledGone
    <2> SUFFICES ASSUME Sound, Known, Quiet, NEW n \in Data
                 PROVE  n <= LastNumber \/ n \in unnamed \cup revived
      BY DEF CancelledGone
    <2>1. n \in Numbers /\ store[n] # "absent"
      BY DEF Data, Listed, Sound, TypeOK
    <2>2. ~GoneAhead(n)
      BY DEF Quiet, GoneAhead
    <2> QED
      BY <2>1, <2>2 DEF Known, Excused
  <1> HIDE DEF IInv
  <1> QED
    BY <1>1, <1>2, <1>3, PTL DEF Spec
=============================================================================
