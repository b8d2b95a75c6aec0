------------------------------ MODULE RunServer ------------------------------
(***************************************************************************)
(* One Jenkins job as the REST API and the event channel of Blue Ocean     *)
(* show it: a queue, builds numbered from 1, and a first-in first-out      *)
(* stream of job events to one browser.                                    *)
(*                                                                         *)
(* A queued item has no number of its own.  QueueUtil.getQueuedItems       *)
(* numbers the items by their position after nextBuildNumber, so the       *)
(* number a queued item is known by changes when an item before it is      *)
(* cancelled; the model keeps only the length of the queue.                *)
(***************************************************************************)
EXTENDS Integers, Sequences

CONSTANTS MaxBuild,    \* bound: builds that start
          MaxQueue,    \* bound: items queued at a time
          MaxEnqueue,  \* bound: items ever queued
          MaxCancels,  \* bound: items cancelled
          MaxPauses    \* bound: pauses for an input step

ASSUME ServerAssumption ==
    /\ MaxBuild \in Nat \ {0} /\ MaxQueue \in Nat
    /\ MaxEnqueue \in Nat /\ MaxCancels \in Nat /\ MaxPauses \in Nat

VARIABLES qlen,     \* items in the queue of the job
          leaving,  \* an item has left the queue and its build is not there yet
          next,     \* job.getNextBuildNumber()
          build,    \* build[n]: state of build n
          events,   \* job events on their way to the browser, oldest first
          budget,   \* what is left of the bounds
          unnamed   \* history: numbers nothing has any more, and no event told

jobVars == <<qlen, leaving, next, build, budget, unnamed>>
serverVars == <<jobVars, events>>

Builds == 1..MaxBuild
Numbers == 1..(MaxBuild + MaxQueue)   \* what a run can be called
Unmatched == 0                        \* an event without expected build number

QueueKinds == {"queue_enter", "queue_left", "queue_cancelled"}
RunKinds == {"started", "paused", "unpaused", "ended"}
Event(k, n) == [kind |-> k, num |-> n]
Events == [kind : QueueKinds \cup RunKinds, num : Numbers \cup {Unmatched}]

Budgets == [enqueue : 0..MaxEnqueue, cancel : 0..MaxCancels, pause : 0..MaxPauses]

ServerTypeOK ==
    /\ qlen \in 0..MaxQueue
    /\ leaving \in BOOLEAN
    /\ next \in 1..(MaxBuild + 1)
    /\ build \in [Builds -> {"none", "running", "paused", "finished"}]
    /\ events \in Seq(Events)
    /\ budget \in Budgets
    /\ unnamed \subseteq Numbers

ServerInit ==
    /\ qlen = 0
    /\ leaving = FALSE
    /\ next = 1
    /\ build = [n \in Builds |-> "none"]
    /\ events = <<>>
    /\ budget = [enqueue |-> MaxEnqueue, cancel |-> MaxCancels, pause |-> MaxPauses]
    /\ unnamed = {}

-----------------------------------------------------------------------------
(* What the REST API answers. *)

\* The expected build number of the item at position i of the queue.
Expected(i) == next + i

Queued(n) == n \in next..(next + qlen - 1)

\* The builds, the item that is becoming one and the queued items take the
\* numbers up to this one.
LastNumber == next + qlen - (IF leaving THEN 0 ELSE 1)

\* RunContainerImpl.get: a build, else the queued item that expects number n.
RestRun(n) ==
    IF n < next THEN build[n] ELSE IF Queued(n) THEN "queued" ELSE "notfound"

\* RunContainerImpl.iterator(start, limit): every queued item, newest first,
\* then at most limit builds, newest first, of which start are skipped.
RestPage(start, limit) ==
    LET all == next - 1
        size == IF start >= all THEN 0 ELSE IF all - start < limit THEN all - start ELSE limit
        Run(n) == [num |-> n, state |-> RestRun(n)]
    IN [i \in 1..qlen |-> Run(Expected(qlen - i))]
         \o [i \in 1..size |-> Run(all - start - i + 1)]

\* The latestRun of the pipeline's own resource: its last build.
RestLatest == next - 1

-----------------------------------------------------------------------------
(* What happens to the job, and the events BlueMessageEnricher completes. *)

\* The expected number is sometimes not found; the event goes out without.
Enqueue ==
    /\ qlen < MaxQueue /\ budget.enqueue > 0
    /\ qlen' = qlen + 1
    /\ budget' = [budget EXCEPT !.enqueue = @ - 1]
    /\ \E n \in {Expected(qlen), Unmatched} : events' = Append(events, Event("queue_enter", n))
    /\ unnamed' = unnamed \ {LastNumber + 1}
    /\ UNCHANGED <<leaving, next, build>>

\* The item is out of the queue when the event is completed, so its number is
\* what the event calls its object: the item's, the next build's, or nothing.
\* The items behind it move up, so the number that goes is the last one.
CancelItem(i) ==
    /\ i < qlen /\ budget.cancel > 0
    /\ qlen' = qlen - 1
    /\ budget' = [budget EXCEPT !.cancel = @ - 1]
    /\ \E n \in {Expected(i), next, Unmatched} :
         /\ events' = Append(events, Event("queue_cancelled", n))
         /\ unnamed' = IF n = LastNumber THEN unnamed ELSE unnamed \cup {LastNumber}
    /\ UNCHANGED <<leaving, next, build>>

\* The head of the queue leaves it for an executor; an event without its
\* number is one the handler ignores ...
Leave ==
    /\ qlen > 0 /\ ~leaving /\ next <= MaxBuild
    /\ qlen' = qlen - 1
    /\ leaving' = TRUE
    /\ \E n \in {next, Unmatched} : events' = Append(events, Event("queue_left", n))
    /\ UNCHANGED <<next, build, budget, unnamed>>

\* ... which makes the next build of it.
Start ==
    /\ leaving
    /\ leaving' = FALSE
    /\ next' = next + 1
    /\ build' = [build EXCEPT ![next] = "running"]
    /\ events' = Append(events, Event("started", next))
    /\ UNCHANGED <<qlen, budget, unnamed>>

Move(n, from, to, kind) ==
    /\ build[n] = from
    /\ build' = [build EXCEPT ![n] = to]
    /\ events' = Append(events, Event(kind, n))
    /\ UNCHANGED <<qlen, leaving, next, unnamed>>

Pause(n) ==
    /\ budget.pause > 0
    /\ budget' = [budget EXCEPT !.pause = @ - 1]
    /\ Move(n, "running", "paused", "paused")

Unpause(n) == Move(n, "paused", "running", "unpaused") /\ UNCHANGED budget

End(n) == Move(n, "running", "finished", "ended") /\ UNCHANGED budget

ServerNext ==
    \/ Enqueue
    \/ \E i \in 0..(MaxQueue - 1) : CancelItem(i)
    \/ Leave
    \/ Start
    \/ \E n \in Builds : Pause(n) \/ Unpause(n) \/ End(n)
=============================================================================
