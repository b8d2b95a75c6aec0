----------------------------- MODULE StyleSheets -----------------------------
(***************************************************************************)
(* ResourceLoadTracker: the style sheets of plugins are put on the page    *)
(* when an extension point is mounted, and taken off again.                *)
(***************************************************************************)
EXTENDS Integers, Sequences, SequencesExt

CONSTANTS Sheets,
          Mounts,   \* extension points as they are mounted, once each
          SheetsOf, \* pointCSSs of the extension point that is mounted
          Nobody

ASSUME SheetsAssumption ==
    /\ SheetsOf \in [Mounts -> Seq(Sheets)]
    /\ Nobody \notin Mounts

VARIABLES state,  \* state[m]: what became of mount m
          active, \* activeCSSs[u]; undefined is 0, and true counts down to 0
          link,   \* the link element of sheet u on the page
          onload, \* the mount whose callback is the onload of the element
          called  \* mounts whose callback has been called

trackerVars == <<state, active, link, onload, called>>

TrackerInit ==
    /\ state = [m \in Mounts |-> "new"]
    /\ active = [u \in Sheets |-> 0]
    /\ link = [u \in Sheets |-> "absent"]
    /\ onload = [u \in Sheets |-> Nobody]
    /\ called = {}

\* The sheets _requireCSS adds to the page; an active one is not counted again.
Required(m) == {u \in ToSet(SheetsOf[m]) : active[u] = 0}

\* The callback is called at once: there is no sheet, or an active one.
CalledAtOnce(m) == SheetsOf[m] = <<>> \/ \E u \in ToSet(SheetsOf[m]) : active[u] > 0

\* onMount.
OnMount(m) ==
    LET new == Required(m)
    IN /\ state[m] = "new"
       /\ state' = [state EXCEPT ![m] = "mounted"]
       /\ active' = [u \in Sheets |-> IF u \in new THEN 1 ELSE active[u]]
       /\ link' = [u \in Sheets |-> IF u \in new THEN "loading" ELSE link[u]]
       /\ onload' = [u \in Sheets |-> IF u \in new THEN m ELSE onload[u]]
       /\ called' = IF CalledAtOnce(m) THEN called \cup {m} ELSE called

\* The sheets _unrequireCSS counts down: its warning about one that is not
\* active names a variable that does not exist, which ends onUnmount.
Unrequired(m) ==
    {SheetsOf[m][i] : i \in {j \in 1..Len(SheetsOf[m]) : \A k \in 1..j : active[SheetsOf[m][k]] > 0}}

\* Faulty variant: compared before it is counted down.
RemovedEarly(m) == {u \in Unrequired(m) : active[u] = 0}

\* The sheets _removeCSS takes off the page.
Removed(m) == {u \in Unrequired(m) : active[u] - 1 = 0}

\* onUnmount.
OnUnmount(m) ==
    /\ state[m] = "mounted"
    /\ state' = [state EXCEPT ![m] = "unmounted"]
    /\ active' = [u \in Sheets |-> IF u \in Unrequired(m) THEN active[u] - 1 ELSE active[u]]
    /\ link' = [u \in Sheets |-> IF u \in Removed(m) THEN "absent" ELSE link[u]]
    /\ onload' = [u \in Sheets |-> IF u \in Removed(m) THEN Nobody ELSE onload[u]]
    /\ UNCHANGED called

\* The browser has loaded a sheet, or could not: nobody listens for an error.
LinkLoads(u) ==
    /\ link[u] = "loading"
    /\ link' = [link EXCEPT ![u] = "ready"]
    /\ called' = called \cup {onload[u]}
    /\ UNCHANGED <<state, active, onload>>

LinkFails(u) ==
    /\ link[u] = "loading"
    /\ link' = [link EXCEPT ![u] = "broken"]
    /\ UNCHANGED <<state, active, onload, called>>

TrackerNext ==
    \/ \E m \in Mounts : OnMount(m) \/ OnUnmount(m)
    \/ \E u \in Sheets : LinkLoads(u) \/ LinkFails(u)

TrackerSpec == TrackerInit /\ [][TrackerNext]_trackerVars

-----------------------------------------------------------------------------
(* Properties. *)

\* A sheet is on the page exactly while the tracker holds it active, however
\* mounts, unmounts and failing unmounts follow each other.
OnPageIffActive == \A u \in Sheets : active[u] > 0 <=> link[u] # "absent"
=============================================================================
