----------------------------- MODULE Extensions -----------------------------
(***************************************************************************)
(* The extension points of the user interface: ExtensionStore loads the    *)
(* bundles of the plugins that declare an extension of a point,            *)
(* ClassMetadataStore fetches the classes of a type, and each              *)
(* ExtensionRenderer shows the extensions of its point that its filter     *)
(* lets pass.                                                              *)
(*                                                                         *)
(* What need not wait is done at once: an action is a call, an import or   *)
(* an answer with every callback it runs.                                  *)
(***************************************************************************)
EXTENDS Integers, Sequences, FiniteSets

CONSTANTS Plugins, Points, Types,
          Components,        \* what plugins contribute
          PluginOf, PointOf,
          TypeOf,            \* dataType of a component, or Untyped
          Declared,          \* components in the metadata of the plugins
          Exported,          \* components the bundles register
          Untyped, NoFilter, \* the other filters
          Classes,           \* Classes[t]: t and its parents, nearest first
          Renderers,
          RendersPoint,      \* the extension point of a renderer
          Filters,           \* the filters renderers are given
          MaxCalls,          \* bound: calls of getExtensions
          MaxFailures        \* bound: imports and fetches that fail

ASSUME ExtensionsAssumption ==
    /\ PluginOf \in [Components -> Plugins] /\ PointOf \in [Components -> Points]
    /\ TypeOf \in [Components -> Types \cup {Untyped}]
    /\ Declared \subseteq Components /\ Exported \subseteq Components
    /\ Untyped \notin Types /\ NoFilter \notin Types \cup {Untyped}
    /\ Classes \in [Types -> Seq(Types)]
    /\ RendersPoint \in [Renderers -> Points]
    /\ Filters \subseteq Types \cup {Untyped, NoFilter}
    /\ MaxCalls \in Nat /\ MaxFailures \in Nat

\* _registerComponentInstance adds an undeclared component without a type.
ASSUME UndeclaredAssumption == \A e \in Exported \ Declared : TypeOf[e] = Untyped

VARIABLES bundle,    \* bundle[p]: the import of plugin p
          instances, \* components that have been registered
          extra,     \* undeclared components added to their points
          loaded,    \* points whose extensionPointMetadatas.loaded is set
          class,     \* class[t]: the metadata of type t
          calls,     \* calls of getExtensions so far
          phase,     \* phase[c]: where call c is
          call,      \* call[c]: the renderer that made it and the filter
          waits,     \* waits[c]: what its LoadCountMonitor counts
          got,       \* got[c]: what its callback was given
          view,      \* view[r]: the life of renderer r
          given,     \* given[r]: its filter property
          shown,     \* shown[r]: the call its state.extensions came from
          failures   \* failures left

vars == <<bundle, instances, extra, loaded, class, calls, phase, call, waits, got,
          view, given, shown, failures>>

Calls == 1..MaxCalls
Null == 0

TypeOK ==
    /\ bundle \in [Plugins -> {"none", "loading", "failed", "ran", "loaded"}]
    /\ instances \subseteq Components /\ extra \subseteq Components
    /\ loaded \subseteq Points
    /\ class \in [Types -> {"unknown", "asked", "lost", "known"}]
    /\ calls \in 0..MaxCalls
    /\ phase \in [Calls -> {"free", "bundles", "type", "done"}]
    /\ call \in Seq([by : Renderers, filter : Filters]) /\ Len(call) = calls
    /\ waits \in [Calls -> SUBSET Declared]
    /\ got \in [Calls -> SUBSET Components]
    /\ view \in [Renderers -> {"new", "mounted", "gone"}]
    /\ given \in [Renderers -> Filters]
    /\ shown \in [Renderers -> 0..calls]
    /\ failures \in 0..MaxFailures

Init ==
    /\ bundle = [p \in Plugins |-> "none"]
    /\ instances = {} /\ extra = {} /\ loaded = {}
    /\ class = [t \in Types |-> "unknown"]
    /\ calls = 0
    /\ phase = [c \in Calls |-> "free"]
    /\ call = <<>>
    /\ waits = [c \in Calls |-> {}]
    /\ got = [c \in Calls |-> {}]
    /\ view = [r \in Renderers |-> "new"]
    /\ given \in [Renderers -> Filters]
    /\ shown = [r \in Renderers |-> Null]
    /\ failures = MaxFailures

-----------------------------------------------------------------------------
(* What a callback is given. *)

At(pt, list) == {e \in list : PointOf[e] = pt}

\* e is of the nearest class of t that any of the list is of.
Nearest(e, list, t) ==
    \E i \in 1..Len(Classes[t]) :
        /\ TypeOf[e] = Classes[t][i]
        /\ \A j \in 1..(i - 1), d \in list : TypeOf[d] # Classes[t][j]

\* Faulty variant: every class of the type will do.
PassingAny(list, f) ==
    {e \in list : \/ f = NoFilter
                  \/ f = Untyped /\ TypeOf[e] = Untyped
                  \/ f \in Types /\ \E i \in 1..Len(Classes[f]) : TypeOf[e] = Classes[f][i]}

\* dataType(f), untyped(), or no filter.
Passing(list, f) ==
    {e \in list : \/ f = NoFilter
                  \/ f = Untyped /\ TypeOf[e] = Untyped
                  \/ f \in Types /\ Nearest(e, list, f)}

\* Callbacks of the calls of done run; a later setState of a renderer wins.
CallBack(done, toType, base) ==
    /\ phase' = [c \in Calls |-> IF c \in done THEN "done"
                                 ELSE IF c \in toType THEN "type" ELSE phase[c]]
    /\ got' = [c \in Calls |->
                 IF c \in done
                   THEN Passing(At(RendersPoint[call'[c].by], Declared \cup extra'), call'[c].filter)
                          \cap instances'
                   ELSE got[c]]
    /\ shown' = [r \in Renderers |->
                   LET mine == {c \in done : call'[c].by = r /\ view'[r] = "mounted"}
                   IN IF mine = {} THEN base[r] ELSE CHOOSE c \in mine : \A d \in mine : d <= c]

\* The bundles of the calls of S are there: _filterExtensions.
Proceed(S, base) ==
    LET toType == {c \in S : /\ call'[c].filter \in Types
                             /\ class[call'[c].filter] # "known"
                             /\ At(RendersPoint[call'[c].by], Declared \cup extra') # {}}
    IN /\ class' = [t \in Types |->
                      IF class[t] = "unknown" /\ \E c \in toType : call'[c].filter = t
                        THEN "asked" ELSE class[t]]
       /\ CallBack(S \ toType, toType, base)

-----------------------------------------------------------------------------
(* ExtensionStore and ClassMetadataStore. *)

\* Faulty variant: a plugin that is being loaded is not waited for.
NeededIfNew(pt) ==
    IF pt \in loaded THEN {} ELSE {e \in At(pt, Declared) : bundle[PluginOf[e]] = "none"}

\* The extensions whose plugin _loadBundles has to wait for.
Needed(pt) ==
    IF pt \in loaded THEN {} ELSE {e \in At(pt, Declared) : bundle[PluginOf[e]] # "loaded"}

\* getExtensions by renderer r, whose state is base.
GetExtensions(r, base) ==
    LET c == calls + 1
        pt == RendersPoint[r]
    IN /\ calls < MaxCalls
       /\ calls' = c
       /\ call' = Append(call, [by |-> r, filter |-> given[r]])
       /\ waits' = [waits EXCEPT ![c] = Needed(pt)]
       /\ bundle' = [p \in Plugins |->
                       IF bundle[p] = "none" /\ \E e \in Needed(pt) : PluginOf[e] = p
                         THEN "loading" ELSE bundle[p]]
       /\ \/ /\ Needed(pt) = {}
             /\ loaded' = loaded \cup {pt}
             /\ UNCHANGED <<instances, extra>>
             /\ Proceed({c}, base)
          \/ /\ Needed(pt) # {}
             /\ phase' = [phase EXCEPT ![c] = "bundles"]
             /\ shown' = base
             /\ UNCHANGED <<instances, extra, loaded, class, got>>
       /\ UNCHANGED failures

\* The bundle is evaluated: _registerComponentInstance for each component.  A
\* point nobody declared is loaded at once; later the component joins its list.
BundleRuns(p) ==
    LET mine == {e \in Exported : PluginOf[e] = p}
    IN /\ bundle[p] = "loading"
       /\ bundle' = [bundle EXCEPT ![p] = "ran"]
       /\ instances' = instances \cup mine
       /\ extra' = extra \cup (mine \ Declared)
       /\ loaded' = loaded \cup {PointOf[e] : e \in {d \in mine : At(PointOf[d], Declared) = {}}}
       /\ UNCHANGED <<class, calls, phase, call, waits, got, view, given, shown, failures>>

\* Faulty variant: the last entry of a plugin is not counted down.
CountedDownShort(c, p) ==
    LET mine == {e \in waits[c] : PluginOf[e] = p}
    IN IF Cardinality(mine) < 2 THEN waits[c] \ mine ELSE waits[c] \ {CHOOSE e \in mine : TRUE}

\* The counter of c after the monitors of plugin p were counted down, once for
\* each of its extensions.
CountedDown(c, p) == {e \in waits[c] : PluginOf[e] # p}

\* The import is fulfilled.
BundleLoaded(p) ==
    /\ bundle[p] = "ran"
    /\ bundle' = [bundle EXCEPT ![p] = "loaded"]
    /\ waits' = [c \in Calls |-> CountedDown(c, p)]
    /\ LET S == {c \in Calls : phase[c] = "bundles" /\ waits'[c] = {}}
       IN /\ loaded' = loaded \cup {RendersPoint[call[c].by] : c \in S}
          /\ UNCHANGED <<instances, extra, call, view>>
          /\ Proceed(S, shown)
    /\ UNCHANGED <<calls, given, failures>>

\* Nobody handles the failure of an import, and it is not tried again.
BundleFails(p) ==
    /\ bundle[p] = "loading" /\ failures > 0
    /\ failures' = failures - 1
    /\ bundle' = [bundle EXCEPT ![p] = "failed"]
    /\ UNCHANGED <<instances, extra, loaded, class, calls, phase, call, waits, got>>
    /\ UNCHANGED <<view, given, shown>>

\* The classes of t arrive and every callback that waits for them is called.
TypeArrives(t) ==
    LET S == {c \in Calls : phase[c] = "type" /\ call[c].filter = t}
    IN /\ class[t] = "asked"
       /\ class' = [class EXCEPT ![t] = "known"]
       /\ UNCHANGED <<bundle, instances, extra, loaded, calls, call, waits, view, given, failures>>
       /\ CallBack(S, {}, shown)

\* The provider logs the error; the callbacks stay.
TypeFails(t) ==
    /\ class[t] = "asked" /\ failures > 0
    /\ failures' = failures - 1
    /\ class' = [class EXCEPT ![t] = "lost"]
    /\ UNCHANGED <<bundle, instances, extra, loaded, calls, phase, call, waits, got>>
    /\ UNCHANGED <<view, given, shown>>

-----------------------------------------------------------------------------
(* ExtensionRenderer. *)

\* componentWillMount.
Mount(r) ==
    /\ view[r] = "new"
    /\ view' = [view EXCEPT ![r] = "mounted"]
    /\ UNCHANGED given
    /\ GetExtensions(r, shown)

\* The parent renders it again with filter f.  Without extensions
\* componentWillUpdate asks for them, by the properties it still has.
Update(r, f) ==
    /\ view[r] = "mounted"
    /\ given' = [given EXCEPT ![r] = f]
    /\ UNCHANGED view
    /\ \/ shown[r] = Null /\ GetExtensions(r, shown)
       \/ /\ shown[r] # Null /\ f # given[r]
          /\ UNCHANGED <<bundle, instances, extra, loaded, class, calls, phase, call, waits>>
          /\ UNCHANGED <<got, shown, failures>>

\* Faulty variant: nothing is asked for after the state is cleared.
ReloadOnly(r) ==
    /\ view[r] = "mounted" /\ shown[r] # Null
    /\ shown' = [shown EXCEPT ![r] = Null]
    /\ UNCHANGED <<bundle, instances, extra, loaded, class, calls, phase, call, waits, got>>
    /\ UNCHANGED <<view, given, failures>>

\* reloadExtensions.
Reload(r) ==
    /\ view[r] = "mounted"
    /\ UNCHANGED <<view, given>>
    /\ GetExtensions(r, [shown EXCEPT ![r] = Null])

\* componentWillUnmount; callbacks may still come.
Unmount(r) ==
    /\ view[r] = "mounted"
    /\ view' = [view EXCEPT ![r] = "gone"]
    /\ UNCHANGED <<bundle, instances, extra, loaded, class, calls, phase, call, waits, got>>
    /\ UNCHANGED <<given, shown, failures>>

-----------------------------------------------------------------------------
Next ==
    \/ \E p \in Plugins : BundleRuns(p) \/ BundleLoaded(p) \/ BundleFails(p)
    \/ \E t \in Types : TypeArrives(t) \/ TypeFails(t)
    \/ \E r \in Renderers : Mount(r) \/ Reload(r) \/ Unmount(r) \/ \E f \in Filters : Update(r, f)

\* Imports and fetches come to an end; nobody has to mount or reload anything.
Fairness ==
    /\ \A p \in Plugins : WF_vars(BundleRuns(p) \/ BundleFails(p)) /\ WF_vars(BundleLoaded(p))
    /\ \A t \in Types : WF_vars(TypeArrives(t) \/ TypeFails(t))

Spec == Init /\ [][Next]_vars
FairSpec == Spec /\ Fairness

-----------------------------------------------------------------------------
(* Properties. *)

\* A callback is given every declared extension of its point that a bundle
\* registers and the filter lets pass, whichever call loaded the bundles and
\* in whatever order they and the classes came (getExtensions).
Complete ==
    \A c \in 1..calls : phase[c] = "done" =>
        got[c] \cap Declared
          = Passing(At(RendersPoint[call[c].by], Declared), call[c].filter) \cap Exported

\* A filter by type lets nothing pass for which a more specific extension is
\* declared, registered or not (dataType).
MostSpecific ==
    \A c \in 1..calls : phase[c] = "done" /\ call[c].filter \in Types =>
        \A e \in got[c], d \in At(RendersPoint[call[c].by], Declared) :
            \A i \in 1..Len(Classes[call[c].filter]) :
                TypeOf[d] = Classes[call[c].filter][i]
                    => \E j \in 1..i : TypeOf[e] = Classes[call[c].filter][j]

\* Whoever waits for bundles or classes waits for some that are on their way,
\* or have failed: no callback is forgotten (loadCountMonitors,
\* classMetadataOnloadCallbacks).
NoLostCallback ==
    \A c \in 1..calls :
        /\ phase[c] = "bundles" =>
             waits[c] # {} /\ \A e \in waits[c] : bundle[PluginOf[e]] \in {"loading", "failed", "ran"}
        /\ phase[c] = "type" => class[call[c].filter] \in {"asked", "lost"}

\* A mounted renderer whose calls have all been answered shows an answer: a
\* reload does not leave it blank (componentWillUpdate).
NeverLeftBlank ==
    \A r \in Renderers :
        view[r] = "mounted" /\ (\A c \in 1..calls : call[c].by = r => phase[c] = "done")
            => shown[r] # Null

\* Every call is answered, unless a bundle or the classes it needs fail.
Settles ==
    \A c \in Calls :
        c <= calls ~> \/ phase[c] = "done"
                      \/ \E e \in waits[c] : bundle[PluginOf[e]] = "failed"
                      \/ phase[c] = "type" /\ class[call[c].filter] = "lost"
=============================================================================
