-------------------------- MODULE ExtensionsProofs --------------------------
(***************************************************************************)
(* Theorems about Extensions, for all plugins, points, types and bounds,   *)
(* and about StyleSheets, for all style sheets and extension points.       *)
(***************************************************************************)
EXTENDS Extensions, StyleSheets, DataFacts, SequenceTheorems, TLAPS

PointOfCall(c) == RendersPoint[call[c].by]

\* A call waits exactly while it needs bundles, for extensions of its point,
\* and whatever of its point it does not wait for is loaded.
Counted ==
    \A c \in 1..calls :
        /\ phase[c] \in {"bundles", "type", "done"}
        /\ phase[c] = "bundles" <=> waits[c] # {}
        /\ waits[c] \subseteq At(PointOfCall(c), Declared)
        /\ \A e \in waits[c] : bundle[PluginOf[e]] \in {"loading", "failed", "ran"}
        /\ \A e \in At(PointOfCall(c), Declared) \ waits[c] : bundle[PluginOf[e]] = "loaded"
        /\ phase[c] = "type" =>
             call[c].filter \in Types /\ class[call[c].filter] \in {"asked", "lost"}

\* A call that was not made is nowhere.
Unmade == \A c \in Calls : c > calls => phase[c] = "free" /\ waits[c] = {}

\* What is loaded is loaded altogether.
LoadedPoints == \A e \in Declared : PointOf[e] \in loaded => bundle[PluginOf[e]] = "loaded"

\* What has been registered is what the bundles that were evaluated export.
Registered ==
    /\ instances = {e \in Exported : bundle[PluginOf[e]] \in {"ran", "loaded"}}
    /\ extra = instances \ Declared

IInv == TypeOK /\ Counted /\ Unmade /\ LoadedPoints /\ Registered /\ Complete /\ NeverLeftBlank

-----------------------------------------------------------------------------
(* The filters. *)

\* Undeclared extensions make no difference to what passes of the declared
\* ones: they have no type (ClassMetadataStore.dataType).
LEMMA UndeclaredPass ==
    ASSUME NEW more \in SUBSET (Exported \ Declared), NEW pt \in Points, NEW f \in Filters
    PROVE  Passing(At(pt, Declared \cup more), f) \cap Declared = Passing(At(pt, Declared), f)
  <1> USE ExtensionsAssumption, UndeclaredAssumption
  <1> DEFINE big == At(pt, Declared \cup more)
             small == At(pt, Declared)
  <1>1. small = big \cap Declared /\ \A d \in big : d \in small \/ TypeOf[d] = Untyped
    BY DEF At
  <1>2. ASSUME NEW e \in small, f \in Types PROVE Nearest(e, big, f) <=> Nearest(e, small, f)
    <2>1. \A i \in 1..Len(Classes[f]) : Classes[f][i] # Untyped
      <3>1. Classes[f] \in Seq(Types)
        BY <1>2
      <3>2. \A i \in 1..Len(Classes[f]) : Classes[f][i] \in Types
        BY <3>1
      <3> QED
        BY <3>2
    <2>2. Len(Classes[f]) \in Nat
      BY <1>2
    <2>3. ASSUME NEW i \in 1..Len(Classes[f])
          PROVE (\A j \in 1..(i - 1), d \in big : TypeOf[d] # Classes[f][j])
                  <=> (\A j \in 1..(i - 1), d \in small : TypeOf[d] # Classes[f][j])
      <3>1. \A j \in 1..(i - 1) : Classes[f][j] # Untyped
        BY <2>1, <2>2
      <3> QED
        BY <1>1, <3>1
    <2> HIDE DEF big, small
    <2> QED
      BY <2>3 DEF Nearest
  <1> HIDE DEF big, small
  <1>3. Passing(big, f) \cap Declared = Passing(small, f)
    BY <1>1, <1>2 DEF Passing
  <1> QED
    BY <1>3 DEF big, small

-----------------------------------------------------------------------------
(* What running the callbacks of some calls does. *)

\* The calls made so far stay what they are, and the new ones are calls.
CallsGrow ==
    /\ calls' \in 0..MaxCalls /\ calls <= calls'
    /\ call' \in Seq([by : Renderers, filter : Filters]) /\ Len(call') = calls'
    /\ \A c \in 1..calls : call'[c] = call[c]

\* A call is a number and says who made it (TypeOK).
LEMMA CallType ==
    ASSUME CallsGrow, NEW c \in 1..calls'
    PROVE  /\ c \in Calls
           /\ call'[c] \in [by : Renderers, filter : Filters]
           /\ call'[c].by \in Renderers /\ call'[c].filter \in Filters
  <1>1. c \in Calls
    <2>1. calls' \in 0..MaxCalls
      BY DEF CallsGrow
    <2> QED
      BY <2>1, ExtensionsAssumption DEF Calls
  <1>2. call'[c] \in [by : Renderers, filter : Filters]
    <2>1. call' \in Seq([by : Renderers, filter : Filters]) /\ c \in 1..Len(call')
      BY DEF CallsGrow
    <2> QED
      BY <2>1, ElementOfSeq, Zenon
  <1> QED
    BY <1>1, <1>2

\* The types of what callbacks change, and who shows what (CallBack).
LEMMA CallBackEffect ==
    ASSUME TypeOK, CallsGrow, NEW done \in SUBSET (1..calls'), NEW toType \in SUBSET (1..calls'),
           NEW base \in [Renderers -> 0..calls'], instances' \subseteq Components,
           CallBack(done, toType, base)
    PROVE  /\ phase' \in [Calls -> {"free", "bundles", "type", "done"}]
           /\ got' \in [Calls -> SUBSET Components]
           /\ shown' \in [Renderers -> 0..calls']
           /\ \A r \in Renderers :
                shown'[r] = Null => /\ base[r] = Null
                                    /\ \A c \in done : call'[c].by = r => view'[r] # "mounted"
  <1> USE ExtensionsAssumption
  <1>1. phase' \in [Calls -> {"free", "bundles", "type", "done"}]
    BY DEF CallBack, TypeOK
  <1>2. got' \in [Calls -> SUBSET Components]
    BY DEF CallBack, TypeOK
  <1>3. ASSUME NEW r \in Renderers
        PROVE  /\ shown'[r] \in 0..calls'
               /\ shown'[r] = Null => /\ base[r] = Null
                                      /\ \A c \in done : call'[c].by = r => view'[r] # "mounted"
    <2> DEFINE mine == {c \in done : call'[c].by = r /\ view'[r] = "mounted"}
    <2>1. shown'[r] = IF mine = {} THEN base[r] ELSE CHOOSE c \in mine : \A d \in mine : d <= c
      BY DEF CallBack
    <2>2. calls' \in Nat /\ mine \in SUBSET (1..calls') /\ mine \in SUBSET (0..calls')
      <3>1. calls' \in Nat
        BY DEF CallsGrow
      <3>2. \A c \in mine : c \in 1..calls'
        OBVIOUS
      <3> HIDE DEF mine
      <3> QED
        BY <3>1, <3>2
    <2>3. \A c \in mine : c \in 0..calls' /\ c # Null
      <3> HIDE DEF mine
      <3> QED
        BY <2>2 DEF Null
    <2>4. CASE mine = {}
      BY <2>1, <2>4
    <2>5. CASE mine # {}
      <3> HIDE DEF mine
      <3>1. \E c \in mine : \A d \in mine : d <= c
        BY <2>2, <2>5, GreatestExists
      <3>2. shown'[r] \in mine
        BY <2>1, <2>5, <3>1
      <3> QED
        BY <2>2, <2>3, <3>2
    <2> QED
      BY <2>4, <2>5
  <1>4. shown' \in [Renderers -> 0..calls']
    <2>1. shown' = [r \in Renderers |-> shown'[r]]
      BY DEF CallBack
    <2> QED
      BY <1>3, <2>1
  <1> QED
    BY <1>1, <1>2, <1>3, <1>4

\* Calls whose bundles are there are given what there is to give.
LEMMA CallBackComplete ==
    ASSUME TypeOK, CallsGrow, Complete, Registered',
           NEW done \in SUBSET (1..calls'), NEW toType \in SUBSET (1..calls'), NEW base,
           \A c \in done : \A e \in At(RendersPoint[call'[c].by], Declared) :
               bundle'[PluginOf[e]] = "loaded",
           \A c \in 1..calls' : phase'[c] = "done" => c \in done \/ (c <= calls /\ phase[c] = "done"),
           CallBack(done, toType, base)
    PROVE  Complete'
  <1> USE ExtensionsAssumption
  <1> SUFFICES ASSUME NEW c \in 1..calls', phase'[c] = "done"
               PROVE  got'[c] \cap Declared
                        = Passing(At(RendersPoint[call'[c].by], Declared), call'[c].filter) \cap Exported
    BY DEF Complete, Passing, At, Nearest
  <1>1. c \in Calls /\ call'[c].by \in Renderers /\ call'[c].filter \in Filters
    BY CallType
  <1> DEFINE pt == RendersPoint[call'[c].by]
             f == call'[c].filter
  <1>2. CASE c \in done
    <2>1. pt \in Points /\ f \in Filters
      BY <1>1
    <2>2. got'[c] = Passing(At(pt, Declared \cup extra'), f) \cap instances'
      BY <1>1, <1>2 DEF CallBack
    <2>3. /\ instances' = {e \in Exported : bundle'[PluginOf[e]] \in {"ran", "loaded"}}
          /\ extra' \in SUBSET (Exported \ Declared)
      BY DEF Registered
    <2>4. Passing(At(pt, Declared \cup extra'), f) \cap Declared = Passing(At(pt, Declared), f)
      <3>1. PICK more \in SUBSET (Exported \ Declared), qt \in Points, g \in Filters :
                more = extra' /\ qt = pt /\ g = f
        BY <2>1, <2>3
      <3>2. Passing(At(qt, Declared \cup more), g) \cap Declared = Passing(At(qt, Declared), g)
        <4> HIDE ExtensionsAssumption
        <4> QED
          BY UndeclaredPass, Zenon
      <3> QED
        BY <3>1, <3>2
    <2>5. \A e \in Passing(At(pt, Declared), f) : e \in instances' <=> e \in Exported
      <3>1. \A e \in Passing(At(pt, Declared), f) : e \in At(pt, Declared)
        BY DEF Passing
      <3>2. \A e \in At(pt, Declared) : bundle'[PluginOf[e]] = "loaded"
        BY <1>2
      <3> QED
        BY <2>3, <3>1, <3>2
    <2> HIDE DEF pt, f
    <2>6. got'[c] \cap Declared = Passing(At(pt, Declared), f) \cap Exported
      BY <2>2, <2>4, <2>5
    <2> QED
      BY <2>6 DEF pt, f
  <1>3. CASE c \notin done
    <2>1. c <= calls /\ phase[c] = "done" /\ c \in 1..calls
      BY <1>3 DEF TypeOK, CallsGrow
    <2>2. got'[c] = got[c] /\ call'[c] = call[c]
      BY <1>1, <1>3, <2>1 DEF CallBack, CallsGrow
    <2> QED
      BY <2>1, <2>2 DEF Complete
  <1> QED
    BY <1>2, <1>3

\* What was answered stays answered while nothing else is.
LEMMA CompleteKept ==
    ASSUME Complete,
           \A c \in 1..calls' : phase'[c] = "done" =>
               c \in 1..calls /\ phase[c] = "done" /\ call'[c] = call[c] /\ got'[c] = got[c]
    PROVE  Complete'
  <1> SUFFICES ASSUME NEW c \in 1..calls', phase'[c] = "done"
               PROVE  got'[c] \cap Declared
                        = Passing(At(RendersPoint[call'[c].by], Declared), call'[c].filter) \cap Exported
    BY DEF Complete, Passing, At, Nearest
  <1>1. c \in 1..calls /\ phase[c] = "done" /\ call'[c] = call[c] /\ got'[c] = got[c]
    OBVIOUS
  <1> QED
    BY <1>1 DEF Complete

\* Who asked for classes waits for them, and the others are answered (Proceed).
LEMMA ProceedEffect ==
    ASSUME TypeOK, CallsGrow, NEW S \in SUBSET (1..calls'), NEW base, Proceed(S, base)
    PROVE  /\ class' \in [Types -> {"unknown", "asked", "lost", "known"}]
           /\ \A t \in Types : class[t] \in {"asked", "lost"} => class'[t] \in {"asked", "lost"}
           /\ \E toType \in SUBSET S :
                /\ CallBack(S \ toType, toType, base)
                /\ \A c \in toType : /\ call'[c].filter \in Types
                                     /\ class'[call'[c].filter] \in {"asked", "lost"}
  <1> DEFINE toType == {c \in S : /\ call'[c].filter \in Types
                                  /\ class[call'[c].filter] # "known"
                                  /\ At(RendersPoint[call'[c].by], Declared \cup extra') # {}}
  <1>1. class' = [t \in Types |->
                    IF class[t] = "unknown" /\ \E c \in toType : call'[c].filter = t
                      THEN "asked" ELSE class[t]]
    BY DEF Proceed
  <1>2. CallBack(S \ toType, toType, base)
    BY DEF Proceed
  <1>3. \A c \in toType : call'[c].filter \in Types /\ class[call'[c].filter] # "known"
    OBVIOUS
  <1>4. toType \in SUBSET S
    OBVIOUS
  <1> HIDE DEF toType
  <1>5. \A c \in toType : class'[call'[c].filter] \in {"asked", "lost"}
    BY <1>1, <1>3 DEF TypeOK
  <1> QED
    BY <1>1, <1>2, <1>3, <1>4, <1>5 DEF TypeOK

\* Whoever would be blank was blank before, or has a call that is unanswered or
\* answered now.
Accounted(done, base) ==
    \A r \in Renderers : view'[r] = "mounted" /\ base[r] = Null =>
        \/ view[r] = "mounted" /\ shown[r] = Null
        \/ \E c \in 1..calls' : call'[c].by = r /\ (c \in done \/ phase'[c] # "done")

\* Whoever is blank after callbacks ran has an unanswered call, if it had one
\* or made one now.
LEMMA CallBackShows ==
    ASSUME TypeOK, CallsGrow, NeverLeftBlank, instances' \subseteq Components,
           NEW done \in SUBSET (1..calls'), NEW toType \in SUBSET (1..calls'),
           NEW base \in [Renderers -> 0..calls'], CallBack(done, toType, base),
           Accounted(done, base)
    PROVE  NeverLeftBlank'
  <1> SUFFICES ASSUME NEW r \in Renderers, view'[r] = "mounted", shown'[r] = Null,
                      \A c \in 1..calls' : call'[c].by = r => phase'[c] = "done"
               PROVE  FALSE
    BY DEF NeverLeftBlank, Null
  <1>1. base[r] = Null /\ \A c \in done : call'[c].by # r
    <2>1. shown'[r] = Null => base[r] = Null /\ \A c \in done : call'[c].by = r => view'[r] # "mounted"
      BY CallBackEffect
    <2> QED
      BY <2>1
  <1>2. view[r] = "mounted" /\ shown[r] = Null
    BY <1>1 DEF Accounted
  <1>3. PICK c \in 1..calls : call[c].by = r /\ phase[c] # "done"
    BY <1>2 DEF NeverLeftBlank
  <1>4. c \in 1..calls' /\ c \in Calls /\ call'[c].by = r
    <2>1. calls \in 0..MaxCalls /\ calls' \in 0..MaxCalls /\ calls <= calls'
      BY DEF TypeOK, CallsGrow
    <2>2. c \in 1..calls'
      BY <2>1, ExtensionsAssumption
    <2> QED
      BY <1>3, <2>2, CallType DEF CallsGrow
  <1>5. c \notin done
    BY <1>1, <1>4
  <1>6. phase'[c] # "done"
    BY <1>3, <1>4, <1>5 DEF CallBack
  <1> QED
    BY <1>4, <1>6

-----------------------------------------------------------------------------
(* A call of getExtensions. *)

\* What getExtensions does before a callback can run, whatever the renderer is
\* doing: the new call waits for what is not loaded, and the old ones go on
\* (_loadBundles).
LEMMA Called ==
    ASSUME IInv, NEW r \in Renderers, NEW base, GetExtensions(r, base)
    PROVE  /\ CallsGrow
           /\ calls' = calls + 1 /\ call'[calls'].by = r
           /\ waits' \in [Calls -> SUBSET Declared]
           /\ waits'[calls'] = Needed(RendersPoint[r])
           /\ \A c \in Calls : c # calls' => waits'[c] = waits[c]
           /\ bundle' \in [Plugins -> {"none", "loading", "failed", "ran", "loaded"}]
           /\ \A p \in Plugins : bundle[p] # "none" => bundle'[p] = bundle[p]
           /\ \A p \in Plugins : bundle'[p] \in {"ran", "loaded"} <=> bundle[p] \in {"ran", "loaded"}
           /\ \A e \in Needed(RendersPoint[r]) : bundle'[PluginOf[e]] \in {"loading", "failed", "ran"}
           /\ \A e \in At(RendersPoint[r], Declared) \ Needed(RendersPoint[r]) :
                bundle'[PluginOf[e]] = "loaded"
  <1> USE ExtensionsAssumption
  <1> DEFINE pt == RendersPoint[r]
             new == [by |-> r, filter |-> given[r]]
  <1>1. calls \in Nat /\ calls < MaxCalls /\ calls' = calls + 1 /\ calls' \in Calls
    BY DEF IInv, TypeOK, GetExtensions, Calls
  <1>2. new \in [by : Renderers, filter : Filters]
    BY DEF IInv, TypeOK
  <1>3. call' = Append(call, new) /\ call \in Seq([by : Renderers, filter : Filters]) /\ Len(call) = calls
    BY DEF IInv, TypeOK, GetExtensions
  <1>4. CallsGrow /\ call'[calls'] = new
    <2> HIDE DEF new
    <2>1. call' \in Seq([by : Renderers, filter : Filters]) /\ Len(call') = calls'
      BY <1>1, <1>2, <1>3
    <2>2. call'[calls'] = new /\ \A c \in 1..calls : call'[c] = call[c]
      BY <1>1, <1>2, <1>3
    <2> QED
      BY <1>1, <2>1, <2>2 DEF CallsGrow, Calls
  <1>5. Needed(pt) \in SUBSET Declared /\ \A e \in Needed(pt) : e \in At(pt, Declared) /\ PluginOf[e] \in Plugins
    BY DEF Needed, At
  <1>6. waits' = [waits EXCEPT ![calls'] = Needed(pt)] /\ waits \in [Calls -> SUBSET Declared]
    BY <1>1 DEF IInv, TypeOK, GetExtensions
  <1>7. /\ bundle' = [p \in Plugins |->
                       IF bundle[p] = "none" /\ \E e \in Needed(pt) : PluginOf[e] = p
                         THEN "loading" ELSE bundle[p]]
        /\ bundle \in [Plugins -> {"none", "loading", "failed", "ran", "loaded"}]
    BY DEF IInv, TypeOK, GetExtensions
  <1>8. \A e \in Needed(pt) : bundle[PluginOf[e]] # "loaded"
    BY DEF Needed
  <1>9. \A e \in At(pt, Declared) \ Needed(pt) : bundle[PluginOf[e]] = "loaded" /\ PluginOf[e] \in Plugins
    BY DEF Needed, At, IInv, LoadedPoints
  <1> HIDE DEF pt
  <1>10. /\ waits' \in [Calls -> SUBSET Declared] /\ waits'[calls'] = Needed(pt)
         /\ \A c \in Calls : c # calls' => waits'[c] = waits[c]
    BY <1>1, <1>5, <1>6
  <1>11. \A e \in Needed(pt) : bundle'[PluginOf[e]] \in {"loading", "failed", "ran"}
    BY <1>5, <1>7, <1>8
  <1>12. \A e \in At(pt, Declared) \ Needed(pt) : bundle'[PluginOf[e]] = "loaded"
    BY <1>7, <1>9
  <1>13. /\ bundle' \in [Plugins -> {"none", "loading", "failed", "ran", "loaded"}]
         /\ \A p \in Plugins : bundle[p] # "none" => bundle'[p] = bundle[p]
         /\ \A p \in Plugins : bundle'[p] \in {"ran", "loaded"} <=> bundle[p] \in {"ran", "loaded"}
    BY <1>7
  <1> QED
    BY <1>1, <1>4, <1>10, <1>11, <1>12, <1>13 DEF pt

\* What a call of getExtensions does about its callback.
LEMMA CalledBack ==
    ASSUME IInv, NEW r \in Renderers, NEW base \in [Renderers -> 0..calls], GetExtensions(r, base),
           \A q \in Renderers : q # r => view'[q] = view[q] /\ base[q] = shown[q],
           Registered'
    PROVE  /\ class' \in [Types -> {"unknown", "asked", "lost", "known"}]
           /\ \A t \in Types : class[t] \in {"asked", "lost"} => class'[t] \in {"asked", "lost"}
           /\ phase' \in [Calls -> {"free", "bundles", "type", "done"}]
           /\ \A c \in Calls : c # calls' => phase'[c] = phase[c]
           /\ phase'[calls'] \in {"bundles", "type", "done"}
           /\ phase'[calls'] = "bundles" <=> Needed(RendersPoint[r]) # {}
           /\ phase'[calls'] = "type" => /\ call'[calls'].filter \in Types
                                         /\ class'[call'[calls'].filter] \in {"asked", "lost"}
           /\ got' \in [Calls -> SUBSET Components]
           /\ shown' \in [Renderers -> 0..calls']
           /\ Complete' /\ NeverLeftBlank'
  <1> USE ExtensionsAssumption
  <1>1. TypeOK /\ NeverLeftBlank /\ Complete /\ CallsGrow
    BY Called DEF IInv
  <1>2. /\ calls \in Nat /\ calls' = calls + 1 /\ calls' \in 1..calls' /\ calls' \in Calls
        /\ call'[calls'].by = r /\ 1..calls' \subseteq Calls
    <2>1. calls \in 0..MaxCalls /\ calls' = calls + 1 /\ calls < MaxCalls
      BY <1>1 DEF TypeOK, GetExtensions
    <2> QED
      BY <2>1, Called DEF Calls
  <1>3. base \in [Renderers -> 0..calls'] /\ instances' \subseteq Components
    <2>1. base \in [Renderers -> 0..calls']
      BY <1>2
    <2>2. instances' \subseteq Components
      BY DEF Registered
    <2> QED
      BY <2>1, <2>2
  <1>4. CASE Needed(RendersPoint[r]) = {}
    <2>1. /\ Proceed({calls'}, base)
          /\ \A e \in At(RendersPoint[r], Declared) : bundle'[PluginOf[e]] = "loaded"
      BY <1>2, <1>4, Called DEF GetExtensions
    <2>2. {calls'} \in SUBSET (1..calls')
      BY <1>2
    <2>3. /\ class' \in [Types -> {"unknown", "asked", "lost", "known"}]
          /\ \A t \in Types : class[t] \in {"asked", "lost"} => class'[t] \in {"asked", "lost"}
          /\ \E toType \in SUBSET {calls'} :
               /\ CallBack({calls'} \ toType, toType, base)
               /\ \A c \in toType : /\ call'[c].filter \in Types
                                    /\ class'[call'[c].filter] \in {"asked", "lost"}
      BY <1>1, <2>1, <2>2, ProceedEffect
    <2>4. PICK toType \in SUBSET {calls'} :
             /\ CallBack({calls'} \ toType, toType, base)
             /\ \A c \in toType : /\ call'[c].filter \in Types
                                  /\ class'[call'[c].filter] \in {"asked", "lost"}
      BY <2>3
    <2> DEFINE done == {calls'} \ toType
    <2>5. done \in SUBSET (1..calls') /\ toType \in SUBSET (1..calls') /\ CallBack(done, toType, base)
      BY <1>2, <2>4
    <2>6. /\ \A c \in Calls : c # calls' => phase'[c] = phase[c]
          /\ phase'[calls'] = IF calls' \in done THEN "done" ELSE "type"
      BY <1>2, <2>4 DEF CallBack
    <2>7. calls' \notin done => calls' \in toType
      OBVIOUS
    <2>8. \A c \in done : c = calls'
      OBVIOUS
    <2> HIDE DEF done
    <2>9. /\ phase' \in [Calls -> {"free", "bundles", "type", "done"}]
          /\ got' \in [Calls -> SUBSET Components]
          /\ shown' \in [Renderers -> 0..calls']
      BY <1>1, <1>3, <2>5, CallBackEffect
    <2>10. Complete'
      <3>1. \A c \in done : \A e \in At(RendersPoint[call'[c].by], Declared) :
               bundle'[PluginOf[e]] = "loaded"
        BY <1>2, <2>1, <2>8
      <3>2. \A c \in 1..calls' : phase'[c] = "done" => c \in done \/ (c <= calls /\ phase[c] = "done")
        BY <1>2, <2>6
      <3> QED
        BY <1>1, <2>5, <3>1, <3>2, CallBackComplete
    <2>11. NeverLeftBlank'
      <3>1. ASSUME NEW q \in Renderers, view'[q] = "mounted", base[q] = Null
            PROVE  \/ view[q] = "mounted" /\ shown[q] = Null
                   \/ \E c \in 1..calls' : call'[c].by = q /\ (c \in done \/ phase'[c] # "done")
        <4>1. CASE q = r
          BY <1>2, <2>6, <4>1
        <4>2. CASE q # r
          BY <3>1, <4>2
        <4> QED
          BY <4>1, <4>2
      <3>2. Accounted(done, base)
        BY <3>1 DEF Accounted
      <3> QED
        BY <1>1, <1>3, <2>5, <3>2, CallBackShows
    <2> QED
      BY <1>4, <2>3, <2>4, <2>6, <2>7, <2>9, <2>10, <2>11
  <1>5. CASE Needed(RendersPoint[r]) # {}
    <2>1. /\ phase' = [phase EXCEPT ![calls'] = "bundles"] /\ shown' = base
          /\ UNCHANGED <<instances, extra, loaded, class, got>>
      BY <1>2, <1>5 DEF GetExtensions
    <2>2. /\ phase' \in [Calls -> {"free", "bundles", "type", "done"}]
          /\ \A c \in Calls : c # calls' => phase'[c] = phase[c]
          /\ phase'[calls'] = "bundles"
      BY <1>1, <1>2, <2>1 DEF TypeOK
    <2>3. Complete'
      <3>1. \A c \in 1..calls' : phase'[c] = "done" =>
               c \in 1..calls /\ phase[c] = "done" /\ call'[c] = call[c] /\ got'[c] = got[c]
        BY <1>1, <1>2, <2>1, <2>2 DEF CallsGrow
      <3> QED
        BY <1>1, <3>1, CompleteKept
    <2>4. NeverLeftBlank'
      <3> SUFFICES ASSUME NEW q \in Renderers, view'[q] = "mounted", base[q] = Null,
                          \A c \in 1..calls' : call'[c].by = q => phase'[c] = "done"
                   PROVE  FALSE
        BY <2>1 DEF NeverLeftBlank, Null
      <3>1. q # r
        BY <1>2, <2>2
      <3>2. PICK c \in 1..calls : call[c].by = q /\ phase[c] # "done"
        BY <1>1, <3>1 DEF NeverLeftBlank
      <3>3. c \in 1..calls' /\ c \in Calls /\ c # calls'
        BY <1>2
      <3>4. call'[c].by = q /\ phase'[c] # "done"
        BY <1>1, <2>2, <3>2, <3>3 DEF CallsGrow
      <3> QED
        BY <3>3, <3>4
    <2> QED
      BY <1>1, <1>3, <1>5, <2>1, <2>2, <2>3, <2>4 DEF TypeOK
  <1> QED
    BY <1>4, <1>5

\* A call of getExtensions preserves the invariant, whatever its renderer does.
LEMMA GetExtensionsStep ==
    ASSUME IInv, NEW r \in Renderers, NEW base \in [Renderers -> 0..calls], GetExtensions(r, base),
           view' \in [Renderers -> {"new", "mounted", "gone"}], given' \in [Renderers -> Filters],
           \A q \in Renderers : q # r => view'[q] = view[q] /\ base[q] = shown[q]
    PROVE  IInv'
  <1> USE ExtensionsAssumption
  <1> DEFINE pt == RendersPoint[r]
  <1>1. /\ CallsGrow /\ calls' = calls + 1 /\ call'[calls'].by = r
        /\ waits'[calls'] = Needed(pt)
        /\ \A c \in Calls : c # calls' => waits'[c] = waits[c]
        /\ \A p \in Plugins : bundle[p] # "none" => bundle'[p] = bundle[p]
        /\ \A p \in Plugins : bundle'[p] \in {"ran", "loaded"} <=> bundle[p] \in {"ran", "loaded"}
        /\ \A e \in Needed(pt) : bundle'[PluginOf[e]] \in {"loading", "failed", "ran"}
        /\ \A e \in At(pt, Declared) \ Needed(pt) : bundle'[PluginOf[e]] = "loaded"
    BY Called
  <1>2. /\ waits' \in [Calls -> SUBSET Declared]
        /\ bundle' \in [Plugins -> {"none", "loading", "failed", "ran", "loaded"}]
    BY Called
  <1>3. /\ calls \in Nat /\ calls' \in Calls /\ calls' \in 1..calls'
        /\ \A c \in 1..calls' : c # calls' => c \in 1..calls /\ c \in Calls
        /\ \A c \in Calls : c > calls' => c # calls' /\ c > calls
    BY <1>1 DEF IInv, TypeOK, GetExtensions, Calls
  <1>4. \A e \in Components : PluginOf[e] \in Plugins
    OBVIOUS
  <1>5. Registered'
    <2>1. UNCHANGED <<instances, extra>>
      BY DEF GetExtensions
    <2> QED
      BY <1>1, <1>4, <2>1 DEF IInv, Registered
  <1>6. /\ class' \in [Types -> {"unknown", "asked", "lost", "known"}]
        /\ \A t \in Types : class[t] \in {"asked", "lost"} => class'[t] \in {"asked", "lost"}
        /\ phase' \in [Calls -> {"free", "bundles", "type", "done"}]
        /\ \A c \in Calls : c # calls' => phase'[c] = phase[c]
        /\ phase'[calls'] \in {"bundles", "type", "done"}
        /\ phase'[calls'] = "bundles" <=> Needed(pt) # {}
        /\ phase'[calls'] = "type" => /\ call'[calls'].filter \in Types
                                      /\ class'[call'[calls'].filter] \in {"asked", "lost"}
        /\ got' \in [Calls -> SUBSET Components]
        /\ shown' \in [Renderers -> 0..calls']
        /\ Complete' /\ NeverLeftBlank'
    BY <1>5, CalledBack
  <1>7. TypeOK'
    <2>1. loaded' \subseteq Points /\ instances' = instances /\ extra' = extra /\ failures' = failures
      BY DEF IInv, TypeOK, GetExtensions
    <2> HIDE DEF pt
    <2> QED
      BY <1>1, <1>2, <1>6, <2>1 DEF IInv, TypeOK, CallsGrow
  <1>8. Needed(pt) \subseteq At(pt, Declared)
    BY DEF Needed, At
  <1>9. Counted'
    <2> SUFFICES ASSUME NEW c \in 1..calls'
                 PROVE  /\ phase'[c] \in {"bundles", "type", "done"}
                        /\ phase'[c] = "bundles" <=> waits'[c] # {}
                        /\ waits'[c] \subseteq At(RendersPoint[call'[c].by], Declared)
                        /\ \A e \in waits'[c] : bundle'[PluginOf[e]] \in {"loading", "failed", "ran"}
                        /\ \A e \in At(RendersPoint[call'[c].by], Declared) \ waits'[c] :
                             bundle'[PluginOf[e]] = "loaded"
                        /\ phase'[c] = "type" => /\ call'[c].filter \in Types
                                                 /\ class'[call'[c].filter] \in {"asked", "lost"}
      BY DEF Counted, PointOfCall, At
    <2>1. CASE c = calls'
      BY <1>1, <1>6, <1>8, <2>1
    <2>2. CASE c # calls'
      <3>1. c \in 1..calls /\ c \in Calls
        BY <1>3, <2>2
      <3>2. call'[c] = call[c] /\ phase'[c] = phase[c] /\ waits'[c] = waits[c]
        BY <1>1, <1>6, <2>2, <3>1 DEF CallsGrow
      <3>3. \A e \in At(PointOfCall(c), Declared) : PluginOf[e] \in Plugins
        BY <1>4 DEF At
      <3>4. waits[c] \subseteq At(PointOfCall(c), Declared)
        BY <3>1 DEF IInv, Counted
      <3>5. \A e \in waits[c] : bundle'[PluginOf[e]] \in {"loading", "failed", "ran"}
        <4>1. \A e \in waits[c] : bundle[PluginOf[e]] \in {"loading", "failed", "ran"} /\ PluginOf[e] \in Plugins
          BY <3>1, <3>3, <3>4 DEF IInv, Counted
        <4> HIDE DEF pt
        <4> QED
          BY <1>1, <4>1
      <3>6. \A e \in At(PointOfCall(c), Declared) \ waits[c] : bundle'[PluginOf[e]] = "loaded"
        <4>1. \A e \in At(PointOfCall(c), Declared) \ waits[c] : bundle[PluginOf[e]] = "loaded" /\ PluginOf[e] \in Plugins
          BY <3>1, <3>3 DEF IInv, Counted
        <4> HIDE DEF pt
        <4> QED
          BY <1>1, <4>1
      <3> HIDE DEF pt
      <3>7. phase[c] = "type" => /\ call[c].filter \in Types
                                 /\ class'[call[c].filter] \in {"asked", "lost"}
        BY <1>6, <3>1 DEF IInv, Counted
      <3> QED
        BY <3>1, <3>2, <3>4, <3>5, <3>6, <3>7 DEF IInv, Counted, PointOfCall
    <2> QED
      BY <2>1, <2>2
  <1>10. Unmade'
    <2> SUFFICES ASSUME NEW c \in Calls, c > calls' PROVE phase'[c] = "free" /\ waits'[c] = {}
      BY DEF Unmade, Calls
    <2>1. c # calls' /\ c > calls
      BY <1>3
    <2>2. phase'[c] = phase[c] /\ waits'[c] = waits[c]
      BY <1>1, <1>6, <2>1
    <2> HIDE DEF pt
    <2> QED
      BY <2>1, <2>2 DEF IInv, Unmade
  <1>11. LoadedPoints'
    <2>1. loaded' = loaded \/ (Needed(pt) = {} /\ loaded' = loaded \cup {pt})
      BY DEF GetExtensions
    <2>2. \A e \in Declared : PointOf[e] = pt => e \in At(pt, Declared)
      BY DEF At
    <2> SUFFICES ASSUME NEW e \in Declared, PointOf[e] \in loaded' PROVE bundle'[PluginOf[e]] = "loaded"
      BY DEF LoadedPoints
    <2>3. CASE PointOf[e] \in loaded
      <3>1. bundle[PluginOf[e]] = "loaded" /\ PluginOf[e] \in Plugins
        BY <1>4, <2>3 DEF IInv, LoadedPoints
      <3> QED
        BY <1>1, <3>1
    <2>4. CASE PointOf[e] \notin loaded
      <3>1. Needed(pt) = {} /\ e \in At(pt, Declared)
        BY <2>1, <2>2, <2>4
      <3> QED
        BY <1>1, <3>1
    <2> QED
      BY <2>3, <2>4
  <1> QED
    BY <1>5, <1>6, <1>7, <1>9, <1>10, <1>11 DEF IInv

-----------------------------------------------------------------------------
(* The actions of the renderers. *)

\* componentWillMount, componentWillUpdate, reloadExtensions and
\* componentWillUnmount.
LEMMA RendererStep ==
    ASSUME IInv, NEW r \in Renderers,
           Mount(r) \/ Reload(r) \/ Unmount(r) \/ \E f \in Filters : Update(r, f)
    PROVE  IInv'
  <1> USE ExtensionsAssumption
  <1>0. /\ view \in [Renderers -> {"new", "mounted", "gone"}] /\ given \in [Renderers -> Filters]
        /\ shown \in [Renderers -> 0..calls] /\ calls \in Nat
    BY DEF IInv, TypeOK
  <1>1. CASE Mount(r)
    <2>1. /\ view' = [view EXCEPT ![r] = "mounted"] /\ given' = given /\ GetExtensions(r, shown)
      BY <1>1 DEF Mount
    <2>2. /\ view' \in [Renderers -> {"new", "mounted", "gone"}] /\ given' \in [Renderers -> Filters]
          /\ \A q \in Renderers : q # r => view'[q] = view[q]
      BY <1>0, <2>1
    <2> QED
      BY <1>0, <2>1, <2>2, GetExtensionsStep
  <1>2. CASE Reload(r)
    <2> DEFINE base == [shown EXCEPT ![r] = Null]
    <2>1. /\ view' = view /\ given' = given /\ GetExtensions(r, base)
      BY <1>2 DEF Reload
    <2>2. base \in [Renderers -> 0..calls] /\ \A q \in Renderers : q # r => base[q] = shown[q]
      BY <1>0 DEF Null
    <2> HIDE DEF base
    <2> QED
      BY <1>0, <2>1, <2>2, GetExtensionsStep
  <1>3. ASSUME UNCHANGED <<bundle, instances, extra, loaded, class, calls, phase, call, waits, got>>,
               UNCHANGED <<shown, failures>>,
               view' \in [Renderers -> {"new", "mounted", "gone"}], given' \in [Renderers -> Filters],
               \A q \in Renderers : view'[q] = "mounted" => view[q] = "mounted"
        PROVE  IInv'
    <2>1. TypeOK'
      BY <1>3 DEF IInv, TypeOK
    <2>2. Counted'
      BY <1>3 DEF IInv, Counted, PointOfCall, At
    <2>3. Unmade' /\ LoadedPoints' /\ Registered'
      BY <1>3 DEF IInv, Unmade, LoadedPoints, Registered
    <2>4. Complete'
      BY <1>3 DEF IInv, Complete, Passing, At, Nearest
    <2>5. NeverLeftBlank'
      BY <1>3 DEF IInv, NeverLeftBlank
    <2> QED
      BY <2>1, <2>2, <2>3, <2>4, <2>5 DEF IInv
  <1>4. CASE Unmount(r)
    <2>1. /\ view' \in [Renderers -> {"new", "mounted", "gone"}] /\ given' \in [Renderers -> Filters]
          /\ \A q \in Renderers : view'[q] = "mounted" => view[q] = "mounted"
      BY <1>0, <1>4 DEF Unmount
    <2> QED
      BY <1>3, <1>4, <2>1 DEF Unmount
  <1>5. ASSUME NEW f \in Filters, Update(r, f) PROVE IInv'
    <2>1. given' \in [Renderers -> Filters] /\ view' = view
      BY <1>0, <1>5 DEF Update
    <2>2. CASE GetExtensions(r, shown)
      BY <1>0, <2>1, <2>2, GetExtensionsStep
    <2>3. CASE ~ GetExtensions(r, shown)
      <3>1. /\ UNCHANGED <<bundle, instances, extra, loaded, class, calls, phase, call, waits, got>>
            /\ UNCHANGED <<shown, failures>>
        BY <1>5, <2>3 DEF Update
      <3> QED
        BY <1>0, <1>3, <2>1, <3>1
    <2> QED
      BY <2>2, <2>3
  <1> QED
    BY <1>1, <1>2, <1>4, <1>5

-----------------------------------------------------------------------------
(* The imports and the fetches. *)

\* A bundle that is evaluated or that fails is still one to wait for.
LEMMA ImportStep ==
    ASSUME IInv, NEW p \in Plugins, BundleRuns(p) \/ BundleFails(p)
    PROVE  IInv'
  <1> USE ExtensionsAssumption
  <1> DEFINE mine == {e \in Exported : PluginOf[e] = p}
  <1>1. /\ UNCHANGED <<class, calls, phase, call, waits, got, view, given, shown>>
        /\ bundle[p] = "loading"
    BY DEF BundleRuns, BundleFails
  <1>2. /\ bundle' \in [Plugins -> {"none", "loading", "failed", "ran", "loaded"}]
        /\ \A q \in Plugins : bundle[q] \in {"loading", "failed", "ran"} <=> bundle'[q] \in {"loading", "failed", "ran"}
        /\ \A q \in Plugins : bundle[q] = "loaded" <=> bundle'[q] = "loaded"
    <2>1. bundle \in [Plugins -> {"none", "loading", "failed", "ran", "loaded"}]
      BY DEF IInv, TypeOK
    <2>2. PICK now \in {"ran", "failed"} : bundle' = [bundle EXCEPT ![p] = now]
      BY DEF BundleRuns, BundleFails
    <2> QED
      BY <1>1, <2>1, <2>2
  <1>3. \A e \in Components : PluginOf[e] \in Plugins
    OBVIOUS
  <1>4. Registered'
    <2>1. CASE BundleRuns(p)
      <3>1. /\ bundle' = [bundle EXCEPT ![p] = "ran"] /\ instances' = instances \cup mine
            /\ extra' = extra \cup (mine \ Declared) /\ bundle \in [Plugins -> {"none", "loading", "failed", "ran", "loaded"}]
        BY <2>1 DEF BundleRuns, IInv, TypeOK
      <3>2. \A e \in Exported : bundle'[PluginOf[e]] \in {"ran", "loaded"}
                                 <=> e \in mine \/ bundle[PluginOf[e]] \in {"ran", "loaded"}
        BY <1>3, <3>1
      <3>3. instances' = {e \in Exported : bundle'[PluginOf[e]] \in {"ran", "loaded"}}
        BY <3>1, <3>2 DEF IInv, Registered
      <3> HIDE DEF mine
      <3>4. extra' = instances' \ Declared
        BY <3>1 DEF IInv, Registered
      <3> QED
        BY <3>3, <3>4 DEF Registered
    <2>2. CASE BundleFails(p)
      <3>1. \A q \in Plugins : bundle'[q] \in {"ran", "loaded"} <=> bundle[q] \in {"ran", "loaded"}
        BY <2>2 DEF BundleFails, IInv, TypeOK
      <3> QED
        BY <1>3, <2>2, <3>1 DEF BundleFails, IInv, Registered
    <2> QED
      BY <2>1, <2>2
  <1>5. loaded' \subseteq Points /\ \A e \in Declared : PointOf[e] \in loaded' => PointOf[e] \in loaded
    <2>1. \A e \in Declared : At(PointOf[e], Declared) # {}
      BY DEF At
    <2>2. loaded \subseteq Points
      BY DEF IInv, TypeOK
    <2>3. CASE BundleRuns(p)
      <3>1. \A x \in loaded' : x \in loaded \/ \E d \in mine : x = PointOf[d] /\ At(x, Declared) = {}
        BY <2>3 DEF BundleRuns
      <3>2. \A d \in mine : PointOf[d] \in Points
        OBVIOUS
      <3> HIDE DEF mine
      <3> QED
        BY <2>1, <2>2, <3>1, <3>2
    <2>4. CASE BundleFails(p)
      BY <2>2, <2>4 DEF BundleFails
    <2> QED
      BY <2>3, <2>4
  <1>6. TypeOK'
    <2>1. failures' \in 0..MaxFailures
      BY DEF BundleRuns, BundleFails, IInv, TypeOK
    <2>2. instances' \subseteq Components /\ extra' \subseteq Components
      BY <1>4 DEF Registered
    <2> QED
      BY <1>1, <1>2, <1>5, <2>1, <2>2 DEF IInv, TypeOK
  <1> HIDE DEF mine
  <1>7. Counted'
    <2>1. \A c \in 1..calls : \A e \in At(PointOfCall(c), Declared) : PluginOf[e] \in Plugins
      BY <1>3 DEF At
    <2>2. \A c \in 1..calls : PointOfCall(c)' = PointOfCall(c)
      BY <1>1 DEF PointOfCall
    <2> SUFFICES ASSUME NEW c \in 1..calls
                 PROVE  /\ phase[c] \in {"bundles", "type", "done"}
                        /\ phase[c] = "bundles" <=> waits[c] # {}
                        /\ waits[c] \subseteq At(PointOfCall(c), Declared)
                        /\ \A e \in waits[c] : bundle'[PluginOf[e]] \in {"loading", "failed", "ran"}
                        /\ \A e \in At(PointOfCall(c), Declared) \ waits[c] : bundle'[PluginOf[e]] = "loaded"
                        /\ phase[c] = "type" => /\ call[c].filter \in Types
                                                /\ class[call[c].filter] \in {"asked", "lost"}
      BY <1>1, <2>2 DEF Counted, At, PointOfCall
    <2> QED
      BY <1>2, <2>1 DEF IInv, Counted
  <1>8. Unmade' /\ LoadedPoints'
    BY <1>1, <1>2, <1>3, <1>5 DEF IInv, Unmade, LoadedPoints
  <1>9. Complete' /\ NeverLeftBlank'
    <2>1. Complete'
      BY <1>1, CompleteKept DEF IInv
    <2>2. NeverLeftBlank'
      BY <1>1 DEF IInv, NeverLeftBlank
    <2> QED
      BY <2>1, <2>2
  <1> QED
    BY <1>4, <1>6, <1>7, <1>8, <1>9 DEF IInv

\* Once a bundle is loaded nobody waits for its extensions, and whoever waits
\* for nothing more proceeds.
LEMMA BundleLoadedStep ==
    ASSUME IInv, NEW p \in Plugins, BundleLoaded(p)
    PROVE  IInv'
  <1> USE ExtensionsAssumption
  <1> DEFINE S == {c \in Calls : phase[c] = "bundles" /\ waits'[c] = {}}
  <1>1. TypeOK /\ NeverLeftBlank /\ Complete
    BY DEF IInv
  <1>2. /\ bundle[p] = "ran" /\ bundle' = [bundle EXCEPT ![p] = "loaded"]
        /\ waits' = [c \in Calls |-> CountedDown(c, p)]
        /\ loaded' = loaded \cup {RendersPoint[call[c].by] : c \in S}
        /\ UNCHANGED <<instances, extra, call, view, calls, given, failures>>
        /\ Proceed(S, shown)
    BY DEF BundleLoaded
  <1>3. CallsGrow /\ shown \in [Renderers -> 0..calls'] /\ calls' = calls /\ calls \in Nat
    BY <1>1, <1>2 DEF TypeOK, CallsGrow
  <1>4. \A c \in 1..calls : c \in Calls /\ call[c].by \in Renderers
    <2>1. 1..calls' = 1..calls /\ call' = call
      BY <1>2
    <2> QED
      BY <1>3, <2>1, CallType
  <1>5. \A c \in S : c \in 1..calls /\ phase[c] = "bundles" /\ waits'[c] = {}
    BY <1>3 DEF IInv, Unmade, Calls
  <1>6. /\ bundle' \in [Plugins -> {"none", "loading", "failed", "ran", "loaded"}]
        /\ \A q \in Plugins : bundle'[q] = "loaded" <=> bundle[q] = "loaded" \/ q = p
        /\ \A q \in Plugins : q # p => bundle'[q] = bundle[q]
        /\ \A q \in Plugins : bundle'[q] \in {"ran", "loaded"} <=> bundle[q] \in {"ran", "loaded"}
    BY <1>1, <1>2 DEF TypeOK
  <1>7. \A e \in Components : PluginOf[e] \in Plugins
    OBVIOUS
  <1>8. \A c \in Calls : waits'[c] = {e \in waits[c] : PluginOf[e] # p}
    BY <1>2 DEF CountedDown
  <1>9. waits' \in [Calls -> SUBSET Declared]
    <2>1. \A c \in Calls : CountedDown(c, p) \in SUBSET Declared
      BY <1>1 DEF TypeOK, CountedDown
    <2> QED
      BY <1>2, <2>1
  <1>10. Registered'
    BY <1>2, <1>6, <1>7 DEF IInv, Registered
  <1>11. \A c \in 1..calls :
           /\ waits'[c] \subseteq At(PointOfCall(c), Declared)
           /\ \A e \in waits'[c] : bundle'[PluginOf[e]] \in {"loading", "failed", "ran"}
           /\ \A e \in At(PointOfCall(c), Declared) \ waits'[c] : bundle'[PluginOf[e]] = "loaded"
    <2> SUFFICES ASSUME NEW c \in 1..calls
                 PROVE  /\ waits'[c] \subseteq At(PointOfCall(c), Declared)
                        /\ \A e \in waits'[c] : bundle'[PluginOf[e]] \in {"loading", "failed", "ran"}
                        /\ \A e \in At(PointOfCall(c), Declared) \ waits'[c] : bundle'[PluginOf[e]] = "loaded"
      OBVIOUS
    <2>1. \A e \in At(PointOfCall(c), Declared) : PluginOf[e] \in Plugins
      BY <1>7 DEF At
    <2>2. waits'[c] = {e \in waits[c] : PluginOf[e] # p}
      BY <1>4, <1>8
    <2> HIDE DEF S
    <2>3. /\ waits[c] \subseteq At(PointOfCall(c), Declared)
          /\ \A e \in waits[c] : bundle[PluginOf[e]] \in {"loading", "failed", "ran"}
          /\ \A e \in At(PointOfCall(c), Declared) \ waits[c] : bundle[PluginOf[e]] = "loaded"
      BY DEF IInv, Counted
    <2> QED
      BY <1>6, <2>1, <2>2, <2>3
  <1>12. PICK toType \in SUBSET S :
           /\ CallBack(S \ toType, toType, shown)
           /\ \A c \in toType : call'[c].filter \in Types /\ class'[call'[c].filter] \in {"asked", "lost"}
    <2> HIDE DEF S
    <2>1. S \in SUBSET (1..calls')
      BY <1>3, <1>5
    <2> QED
      BY <1>1, <1>2, <1>3, <2>1, ProceedEffect
  <1>13. /\ class' \in [Types -> {"unknown", "asked", "lost", "known"}]
         /\ \A t \in Types : class[t] \in {"asked", "lost"} => class'[t] \in {"asked", "lost"}
    <2> HIDE DEF S
    <2>1. S \in SUBSET (1..calls')
      BY <1>3, <1>5
    <2> QED
      BY <1>1, <1>2, <1>3, <2>1, ProceedEffect
  <1> DEFINE done == S \ toType
  <1>14. /\ \A c \in Calls : phase'[c] = IF c \in done THEN "done" ELSE IF c \in toType THEN "type" ELSE phase[c]
         /\ \A c \in S : c \in done \/ c \in toType
         /\ \A c \in done : c \in S
    BY <1>12 DEF CallBack
  <1>15. done \in SUBSET (1..calls') /\ toType \in SUBSET (1..calls') /\ CallBack(done, toType, shown)
    BY <1>3, <1>5, <1>12
  <1> HIDE DEF done
  <1>16. Counted'
    <2> SUFFICES ASSUME NEW c \in 1..calls'
                 PROVE  /\ phase'[c] \in {"bundles", "type", "done"}
                        /\ phase'[c] = "bundles" <=> waits'[c] # {}
                        /\ phase'[c] = "type" => /\ call'[c].filter \in Types
                                                 /\ class'[call'[c].filter] \in {"asked", "lost"}
      <3>1. \A c \in 1..calls' : PointOfCall(c)' = PointOfCall(c) /\ call'[c] = call[c] /\ c \in 1..calls
        BY <1>2, <1>3 DEF PointOfCall
      <3> HIDE DEF S
      <3> QED
        BY <1>11, <3>1 DEF Counted, At, PointOfCall
    <2>1. c \in 1..calls /\ c \in Calls
      BY <1>3, <1>4
    <2>2. CASE c \in S
      BY <1>5, <1>12, <1>14, <2>1, <2>2
    <2>3. CASE c \notin S
      <3>1. phase'[c] = phase[c] /\ call'[c] = call[c]
        BY <1>2, <1>12, <1>14, <2>1, <2>3
      <3>2. phase[c] = "bundles" => waits'[c] # {}
        BY <2>1, <2>3
      <3>3. phase[c] # "bundles" => waits'[c] = {}
        BY <1>8, <2>1 DEF IInv, Counted
      <3> HIDE DEF S
      <3> QED
        BY <1>13, <2>1, <3>1, <3>2, <3>3 DEF IInv, Counted
    <2> QED
      BY <2>2, <2>3
  <1>17. Unmade'
    <2> SUFFICES ASSUME NEW c \in Calls, c > calls PROVE phase'[c] = "free" /\ waits'[c] = {}
      BY <1>3 DEF Unmade, Calls
    <2>1. c \notin S
      <3> HIDE DEF S
      <3>1. c \in Nat
        BY DEF Calls
      <3> QED
        BY <1>3, <1>5, <3>1
    <2>2. phase[c] = "free" /\ waits[c] = {}
      BY DEF IInv, Unmade
    <2>3. phase'[c] = phase[c]
      BY <1>12, <1>14, <2>1
    <2> HIDE DEF S
    <2> QED
      BY <1>8, <2>2, <2>3
  <1>18. LoadedPoints'
    <2> SUFFICES ASSUME NEW e \in Declared, PointOf[e] \in loaded' PROVE bundle'[PluginOf[e]] = "loaded"
      BY DEF LoadedPoints
    <2>1. CASE PointOf[e] \in loaded
      BY <1>6, <1>7, <2>1 DEF IInv, LoadedPoints
    <2>2. CASE PointOf[e] \notin loaded
      <3>1. PICK c \in S : PointOf[e] = RendersPoint[call[c].by]
        BY <1>2, <2>2
      <3>2. c \in 1..calls /\ waits'[c] = {} /\ e \in At(PointOfCall(c), Declared)
        BY <1>5, <3>1 DEF PointOfCall, At
      <3> QED
        BY <1>11, <3>2
    <2> QED
      BY <2>1, <2>2
  <1>19. instances' \subseteq Components
    BY <1>1, <1>2 DEF TypeOK
  <1>20. /\ phase' \in [Calls -> {"free", "bundles", "type", "done"}]
         /\ got' \in [Calls -> SUBSET Components]
         /\ shown' \in [Renderers -> 0..calls']
    <2> HIDE DEF S
    <2> QED
      BY <1>1, <1>3, <1>15, <1>19, CallBackEffect
  <1>21. TypeOK'
    <2>1. loaded' \subseteq Points
      <3> HIDE DEF S
      <3>1. \A c \in S : RendersPoint[call[c].by] \in Points
        BY <1>4, <1>5
      <3>2. loaded \subseteq Points
        BY <1>1 DEF TypeOK
      <3> QED
        BY <1>2, <3>1, <3>2
    <2> HIDE DEF S
    <2> QED
      BY <1>1, <1>2, <1>3, <1>6, <1>9, <1>13, <1>20, <2>1 DEF TypeOK, CallsGrow
  <1>22. Complete'
    <2>1. ASSUME NEW c \in done, NEW e \in At(RendersPoint[call'[c].by], Declared)
          PROVE  bundle'[PluginOf[e]] = "loaded"
      <3>1. c \in 1..calls /\ waits'[c] = {} /\ call' = call
        BY <1>2, <1>5, <1>14
      <3>2. e \in At(PointOfCall(c), Declared) \ waits'[c]
        BY <3>1 DEF PointOfCall
      <3> QED
        BY <1>11, <3>1, <3>2
    <2>2. \A c \in 1..calls' : phase'[c] = "done" => c \in done \/ (c <= calls /\ phase[c] = "done")
      BY <1>3, <1>4, <1>14
    <2> HIDE DEF S
    <2> QED
      BY <1>1, <1>3, <1>10, <1>15, <2>1, <2>2, CallBackComplete
  <1>23. NeverLeftBlank'
    <2>1. Accounted(done, shown)
      BY <1>2 DEF Accounted
    <2> HIDE DEF S
    <2> QED
      BY <1>1, <1>3, <1>15, <1>19, <2>1, CallBackShows
  <1> QED
    BY <1>10, <1>16, <1>17, <1>18, <1>21, <1>22, <1>23 DEF IInv

\* The classes of a type arrive, for everybody who waits for them.
LEMMA TypeArrivesStep ==
    ASSUME IInv, NEW t \in Types, TypeArrives(t)
    PROVE  IInv'
  <1> USE ExtensionsAssumption
  <1> DEFINE S == {c \in Calls : phase[c] = "type" /\ call[c].filter = t}
  <1>1. TypeOK /\ NeverLeftBlank /\ Complete
    BY DEF IInv
  <1>2. /\ class[t] = "asked" /\ class' = [class EXCEPT ![t] = "known"]
        /\ UNCHANGED <<bundle, instances, extra, loaded, calls, call, waits, view, given, failures>>
        /\ CallBack(S, {}, shown)
    BY DEF TypeArrives
  <1>3. CallsGrow /\ shown \in [Renderers -> 0..calls'] /\ calls' = calls /\ calls \in 0..MaxCalls
    BY <1>1, <1>2 DEF TypeOK, CallsGrow
  <1>4. \A c \in S : c \in 1..calls /\ phase[c] = "type"
    BY <1>3 DEF IInv, Unmade, Calls
  <1>5. \A c \in Calls : phase'[c] = IF c \in S THEN "done" ELSE phase[c]
    BY <1>2 DEF CallBack
  <1>6. \A c \in 1..calls : c \in Calls
    BY <1>3 DEF Calls
  <1>7. \A c \in Calls : phase[c] = "type" /\ c \notin S => call[c].filter # t
    OBVIOUS
  <1> HIDE DEF S
  <1>8. S \in SUBSET (1..calls') /\ {} \in SUBSET (1..calls') /\ instances' \subseteq Components
    BY <1>1, <1>2, <1>3, <1>4 DEF TypeOK
  <1>9. Registered' /\ LoadedPoints'
    BY <1>2 DEF IInv, Registered, LoadedPoints
  <1>10. Counted'
    <2> SUFFICES ASSUME NEW c \in 1..calls
                 PROVE  /\ phase'[c] \in {"bundles", "type", "done"}
                        /\ phase'[c] = "bundles" <=> waits[c] # {}
                        /\ phase'[c] = "type" => /\ call[c].filter \in Types
                                                 /\ class'[call[c].filter] \in {"asked", "lost"}
      BY <1>2, <1>3 DEF IInv, Counted, PointOfCall, At
    <2>1. /\ phase[c] \in {"bundles", "type", "done"}
          /\ phase[c] = "bundles" <=> waits[c] # {}
          /\ phase[c] = "type" => call[c].filter \in Types /\ class[call[c].filter] \in {"asked", "lost"}
      BY DEF IInv, Counted
    <2>2. phase[c] = "type" /\ c \notin S => class'[call[c].filter] = class[call[c].filter]
      BY <1>1, <1>2, <1>6, <1>7, <2>1 DEF TypeOK
    <2> QED
      BY <1>4, <1>5, <1>6, <2>1, <2>2
  <1>11. Unmade'
    <2> SUFFICES ASSUME NEW c \in Calls, c > calls PROVE phase'[c] = "free" /\ waits'[c] = {}
      BY <1>3 DEF Unmade, Calls
    <2>1. c \notin S
      BY <1>3, <1>4 DEF Calls
    <2> QED
      BY <1>2, <1>5, <2>1 DEF IInv, Unmade
  <1>12. /\ phase' \in [Calls -> {"free", "bundles", "type", "done"}]
         /\ got' \in [Calls -> SUBSET Components]
         /\ shown' \in [Renderers -> 0..calls']
    BY <1>1, <1>2, <1>3, <1>8, CallBackEffect
  <1>13. TypeOK'
    BY <1>1, <1>2, <1>3, <1>12 DEF TypeOK
  <1>14. Complete'
    <2>1. \A c \in S : \A e \in At(RendersPoint[call'[c].by], Declared) : bundle'[PluginOf[e]] = "loaded"
      <3>1. \A c \in S : waits[c] = {}
        BY <1>4 DEF IInv, Counted
      <3> QED
        BY <1>2, <1>4, <3>1 DEF IInv, Counted, PointOfCall
    <2>2. \A c \in 1..calls' : phase'[c] = "done" => c \in S \/ (c <= calls /\ phase[c] = "done")
      BY <1>3, <1>5, <1>6
    <2> QED
      BY <1>1, <1>2, <1>3, <1>8, <1>9, <2>1, <2>2, CallBackComplete
  <1>15. NeverLeftBlank'
    <2>1. Accounted(S, shown)
      BY <1>2 DEF Accounted
    <2> QED
      BY <1>1, <1>2, <1>3, <1>8, <2>1, CallBackShows
  <1> QED
    BY <1>9, <1>10, <1>11, <1>13, <1>14, <1>15 DEF IInv

\* A failed fetch leaves everybody who waits for it waiting.
LEMMA TypeFailsStep ==
    ASSUME IInv, NEW t \in Types, TypeFails(t)
    PROVE  IInv'
  <1> USE ExtensionsAssumption
  <1>1. /\ class' = [class EXCEPT ![t] = "lost"]
        /\ UNCHANGED <<bundle, instances, extra, loaded, calls, phase, call, waits, got>>
        /\ UNCHANGED <<view, given, shown>>
    BY DEF TypeFails
  <1>2. TypeOK'
    BY DEF IInv, TypeOK, TypeFails
  <1>3. Counted'
    <2>1. \A u \in Types : class[u] \in {"asked", "lost"} => class'[u] \in {"asked", "lost"}
      BY <1>1 DEF IInv, TypeOK
    <2>2. \A c \in 1..calls : PointOfCall(c)' = PointOfCall(c)
      BY <1>1 DEF PointOfCall
    <2> QED
      BY <1>1, <2>1, <2>2 DEF IInv, Counted, At
  <1>4. Unmade' /\ LoadedPoints' /\ Registered'
    BY <1>1 DEF IInv, Unmade, LoadedPoints, Registered
  <1>5. Complete' /\ NeverLeftBlank'
    BY <1>1 DEF IInv, Complete, NeverLeftBlank, Passing, At, Nearest
  <1> QED
    BY <1>2, <1>3, <1>4, <1>5 DEF IInv

-----------------------------------------------------------------------------
(* The theorems. *)

\* The invariant is inductive.
LEMMA Inductive == Spec => []IInv
  <1> USE ExtensionsAssumption
  <1>1. Init => IInv
    <2> SUFFICES ASSUME Init PROVE IInv
      OBVIOUS
    <2>1. TypeOK
      BY DEF Init, TypeOK, Calls, Null
    <2>2. Counted /\ Unmade /\ LoadedPoints /\ Registered /\ Complete /\ NeverLeftBlank
      BY DEF Init, Counted, Unmade, LoadedPoints, Registered, Complete, NeverLeftBlank
    <2> QED
      BY <2>1, <2>2 DEF IInv
  <1>2. IInv /\ [Next]_vars => IInv'
    <2> SUFFICES ASSUME IInv, [Next]_vars PROVE IInv'
      OBVIOUS
    <2>1. CASE Next
      BY <2>1, ImportStep, BundleLoadedStep, TypeArrivesStep, TypeFailsStep, RendererStep DEF Next
    <2>2. CASE UNCHANGED vars
      <3>1. TypeOK' /\ Counted'
        BY <2>2 DEF IInv, vars, TypeOK, Counted, PointOfCall, At
      <3>2. Unmade' /\ LoadedPoints' /\ Registered'
        BY <2>2 DEF IInv, vars, Unmade, LoadedPoints, Registered
      <3>3. Complete' /\ NeverLeftBlank'
        BY <2>2 DEF IInv, vars, Complete, NeverLeftBlank, Passing, At, Nearest
      <3> QED
        BY <3>1, <3>2, <3>3 DEF IInv
    <2> QED
      BY <2>1, <2>2
  <1> QED
    BY <1>1, <1>2, PTL DEF Spec

\* Every variable has its type (ExtensionStore, ClassMetadataStore,
\* ExtensionRenderer).
THEOREM TypeCorrect == Spec => []TypeOK
  <1>1. IInv => TypeOK
    BY DEF IInv
  <1> QED
    BY <1>1, Inductive, PTL

\* Whoever calls getExtensions is given every declared extension that is
\* exported and passes, whatever was being loaded when it called.
THEOREM CompleteHolds == Spec => []Complete
  <1>1. IInv => Complete
    BY DEF IInv
  <1> QED
    BY <1>1, Inductive, PTL

\* No callback of _loadBundles or of classMetadataOnloadCallbacks waits for
\* what was never asked for or has already come.
THEOREM NoLostCallbackHolds == Spec => []NoLostCallback
  <1>1. IInv => NoLostCallback
    BY DEF IInv, Counted, NoLostCallback
  <1> QED
    BY <1>1, Inductive, PTL

\* A mounted ExtensionRenderer whose calls have been answered shows an answer.
THEOREM NeverLeftBlankHolds == Spec => []NeverLeftBlank
  <1>1. IInv => NeverLeftBlank
    BY DEF IInv
  <1> QED
    BY <1>1, Inductive, PTL

\* What was given to a call stays what it was; the callback of another one is
\* given what passes of the list its point has now (CallBack).
LEMMA Handed ==
    ASSUME IInv, IInv', [Next]_vars, NEW c \in 1..calls', phase'[c] = "done"
    PROVE  \/ c \in 1..calls /\ phase[c] = "done" /\ got'[c] = got[c] /\ call'[c] = call[c]
           \/ got'[c] \subseteq Passing(At(RendersPoint[call'[c].by], Declared \cup extra'), call'[c].filter)
  <1> DEFINE new == Passing(At(RendersPoint[call'[c].by], Declared \cup extra'), call'[c].filter)
  <1>1. /\ c \in Calls /\ calls \in Nat /\ calls' \in Nat
        /\ phase[c] = "done" => c \in 1..calls
        /\ phase \in [Calls -> {"free", "bundles", "type", "done"}]
    BY ExtensionsAssumption DEF IInv, TypeOK, Unmade, Calls
  <1>2. ASSUME NEW D, NEW T, NEW base, CallBack(D, T, base)
        PROVE  (phase[c] = "done" /\ got'[c] = got[c]) \/ got'[c] \subseteq new
    <2>1. CASE c \in D
      <3>1. got'[c] = new \cap instances'
        BY <1>1, <1>2, <2>1 DEF CallBack
      <3> QED
        BY <3>1
    <2>2. CASE c \notin D
      BY <1>1, <1>2, <2>2 DEF CallBack
    <2> QED
      BY <2>1, <2>2
  <1>3. ASSUME NEW S, NEW base, Proceed(S, base)
        PROVE  (phase[c] = "done" /\ got'[c] = got[c]) \/ got'[c] \subseteq new
    BY <1>2, <1>3 DEF Proceed
  <1>4. ASSUME NEW r \in Renderers, NEW base, GetExtensions(r, base)
        PROVE  (phase[c] = "done" /\ got'[c] = got[c]) \/ got'[c] \subseteq new
    <2>1. CASE Needed(RendersPoint[r]) = {}
      BY <1>3, <1>4, <2>1 DEF GetExtensions
    <2>2. CASE Needed(RendersPoint[r]) # {}
      <3>1. phase' = [phase EXCEPT ![calls + 1] = "bundles"] /\ got' = got
        BY <1>4, <2>2 DEF GetExtensions
      <3> QED
        BY <1>1, <3>1
    <2> QED
      BY <2>1, <2>2
  <1>5. (phase[c] = "done" /\ got'[c] = got[c]) \/ got'[c] \subseteq new
    <2>1. CASE UNCHANGED <<phase, got>>
      BY <2>1
    <2>2. CASE \E p \in Plugins : BundleRuns(p) \/ BundleFails(p)
      BY <2>1, <2>2 DEF BundleRuns, BundleFails
    <2>3. CASE \E p \in Plugins : BundleLoaded(p)
      BY <1>3, <2>3 DEF BundleLoaded
    <2>4. CASE \E t \in Types : TypeArrives(t)
      BY <1>2, <2>4 DEF TypeArrives
    <2>5. CASE \E t \in Types : TypeFails(t)
      BY <2>1, <2>5 DEF TypeFails
    <2>6. CASE \E r \in Renderers : Mount(r) \/ Reload(r) \/ Unmount(r) \/ \E f \in Filters : Update(r, f)
      BY <1>4, <2>1, <2>6 DEF Mount, Reload, Unmount, Update
    <2> QED
      BY <2>1, <2>2, <2>3, <2>4, <2>5, <2>6 DEF Next, vars
  <1>6. c \in 1..calls => call'[c] = call[c]
    <2>1. CASE UNCHANGED call
      BY <2>1
    <2>2. ASSUME NEW r \in Renderers, NEW base, GetExtensions(r, base)
          PROVE  c \in 1..calls => call'[c] = call[c]
      <3>1. /\ call \in Seq([by : Renderers, filter : Filters]) /\ Len(call) = calls
            /\ [by |-> r, filter |-> given[r]] \in [by : Renderers, filter : Filters]
        BY DEF IInv, TypeOK
      <3>2. call' = Append(call, [by |-> r, filter |-> given[r]])
        BY <2>2 DEF GetExtensions
      <3> QED
        BY <3>1, <3>2, AppendProperties
    <2>3. CASE \E p \in Plugins : BundleRuns(p) \/ BundleFails(p) \/ BundleLoaded(p)
      BY <2>1, <2>3 DEF BundleRuns, BundleFails, BundleLoaded
    <2>4. CASE \E t \in Types : TypeArrives(t) \/ TypeFails(t)
      BY <2>1, <2>4 DEF TypeArrives, TypeFails
    <2>5. CASE \E r \in Renderers : Mount(r) \/ Reload(r) \/ Unmount(r) \/ \E f \in Filters : Update(r, f)
      BY <2>1, <2>2, <2>5 DEF Mount, Reload, Unmount, Update
    <2> QED
      BY <2>1, <2>3, <2>4, <2>5 DEF Next, vars
  <1> QED
    BY <1>1, <1>5, <1>6

\* ClassMetadataStore.dataType: a filter by type lets nothing pass for which a
\* more specific extension is declared, for any tree of types and whatever was
\* registered when the callback ran.
THEOREM MostSpecificHolds == Spec => []MostSpecific
  <1>1. Init => MostSpecific
    BY DEF Init, MostSpecific
  <1>2. IInv /\ IInv' /\ MostSpecific /\ [Next]_vars => MostSpecific'
    <2> SUFFICES ASSUME IInv, IInv', MostSpecific, [Next]_vars,
                        NEW c \in 1..calls', phase'[c] = "done", call'[c].filter \in Types,
                        NEW e \in got'[c], NEW d \in At(RendersPoint[call'[c].by], Declared),
                        NEW i \in 1..Len(Classes[call'[c].filter]),
                        TypeOf[d] = Classes[call'[c].filter][i]
                 PROVE  \E j \in 1..i : TypeOf[e] = Classes[call'[c].filter][j]
      BY DEF MostSpecific, At
    <2> DEFINE t == call'[c].filter
               list == At(RendersPoint[call'[c].by], Declared \cup extra')
    <2>1. CASE c \in 1..calls /\ phase[c] = "done" /\ got'[c] = got[c] /\ call'[c] = call[c]
      BY <2>1 DEF MostSpecific
    <2>2. CASE got'[c] \subseteq Passing(list, t)
      <3>1. t # NoFilter /\ t # Untyped /\ Len(Classes[t]) \in Nat
        BY ExtensionsAssumption, LenProperties
      <3>2. Nearest(e, list, t)
        BY <2>2, <3>1 DEF Passing
      <3>3. PICK k \in 1..Len(Classes[t]) :
              TypeOf[e] = Classes[t][k] /\ \A j \in 1..(k - 1), x \in list : TypeOf[x] # Classes[t][j]
        BY <3>2 DEF Nearest
      <3>4. d \in list
        BY DEF At
      <3>5. i \notin 1..(k - 1)
        BY <3>3, <3>4
      <3>6. k \in 1..i
        BY <3>1, <3>5
      <3> QED
        BY <3>3, <3>6
    <2> QED
      BY <2>1, <2>2, Handed
  <1> QED
    BY <1>1, <1>2, Inductive, PTL DEF Spec

-----------------------------------------------------------------------------
\* The tracker of style sheets: a sheet is active once or not at all.
SheetsTracked ==
    /\ active \in [Sheets -> 0..1]
    /\ link \in [Sheets -> {"absent", "loading", "ready", "broken"}]
    /\ OnPageIffActive

LEMMA TrackerInitHolds == TrackerInit => SheetsTracked
  BY DEF TrackerInit, SheetsTracked, OnPageIffActive

\* Only who requires a sheet first, and who lets it go last, puts or takes its link.
LEMMA TrackerStepHolds == SheetsTracked /\ [TrackerNext]_trackerVars => SheetsTracked'
  <1> SUFFICES ASSUME SheetsTracked, [TrackerNext]_trackerVars PROVE SheetsTracked'
    OBVIOUS
  <1> USE DEF SheetsTracked, OnPageIffActive
  <1>1. CASE UNCHANGED trackerVars
    BY <1>1 DEF trackerVars
  <1>2. ASSUME NEW m \in Mounts, OnMount(m) PROVE SheetsTracked'
    <2> DEFINE new == Required(m)
    <2>1. /\ active' = [u \in Sheets |-> IF u \in new THEN 1 ELSE active[u]]
          /\ link' = [u \in Sheets |-> IF u \in new THEN "loading" ELSE link[u]]
      BY <1>2, Zenon DEF OnMount
    <2> HIDE DEF new
    <2> QED
      BY <2>1
  <1>3. ASSUME NEW m \in Mounts, OnUnmount(m) PROVE SheetsTracked'
    <2>1. \A u \in Unrequired(m) : active[u] > 0
      BY DEF Unrequired
    <2>2. \A u \in Sheets : u \in Removed(m) <=> u \in Unrequired(m)
      BY <2>1 DEF Removed
    <2>3. /\ active' = [u \in Sheets |-> IF u \in Unrequired(m) THEN active[u] - 1 ELSE active[u]]
          /\ link' = [u \in Sheets |-> IF u \in Removed(m) THEN "absent" ELSE link[u]]
      BY <1>3, Zenon DEF OnUnmount
    <2> QED
      BY <2>1, <2>2, <2>3
  <1>4. ASSUME NEW u \in Sheets, LinkLoads(u) \/ LinkFails(u) PROVE SheetsTracked'
    <2>1. /\ active' = active /\ link[u] = "loading"
          /\ link' = [link EXCEPT ![u] = "ready"] \/ link' = [link EXCEPT ![u] = "broken"]
      BY <1>4 DEF LinkLoads, LinkFails
    <2> QED
      BY <2>1
  <1> HIDE DEF SheetsTracked, OnPageIffActive
  <1> QED
    BY <1>1, <1>2, <1>3, <1>4 DEF TrackerNext

\* ResourceLoadTracker: whatever extension points share which sheets, a sheet is
\* on the page exactly while the tracker holds it active.
THEOREM OnPageIffActiveHolds == TrackerSpec => []OnPageIffActive
  <1>1. SheetsTracked => OnPageIffActive
    BY DEF SheetsTracked
  <1> QED
    BY <1>1, TrackerInitHolds, TrackerStepHolds, PTL DEF TrackerSpec
=============================================================================
