--------------------------- MODULE CreationProofs ---------------------------
(***************************************************************************)
(* Theorems about Creation, for any flows, organizations, lists of pages   *)
(* and bounds: the steps keep the order of the flow, the repositories on   *)
(* the page are those of the chosen organization, and a flow of Bitbucket  *)
(* that has succeeded knows its pipeline.                                  *)
(***************************************************************************)
EXTENDS Creation, FiniteSetTheorems, SequenceTheorems, TLAPS

(* The steps of creates, the request that was answered has no name.        *)
Stages == {"sent", "validated", "created", "success", "name", "refused", "error", "lost", "answered"}

Creates == [name : Names \cup {None}, at : Stages]

ListTypes ==
  /\ org \in Orgs \cup {None}
  /\ repos \in Seq(Repositories)
  /\ cache \in [Orgs -> Seq(Repositories)]
  /\ pages \in Seq(Pages \cup {None})
  /\ \A i \in UnderWay : pages[i].next = 0 \/ pages[i].next \in 1..PagesOf[pages[i].org]
  /\ loading \in BOOLEAN /\ orderly \in BOOLEAN

NameTypes ==
  /\ flow \in Flows
  /\ repo \in Repositories \cup {None} /\ name \in Names \cup {None}
  /\ repo # None => name # None
  /\ pipeline \in Names \cup {None}
  /\ branchGets \in Nat
  /\ creates \in Seq(Creates)
  /\ \A i \in DOMAIN creates : creates[i].at # "answered" => creates[i].name # None
  /\ exists \subseteq Names /\ busy \subseteq Names

StepsOK == steps \in Seq(States) /\ StepsInOrder

(* The page on its way: the list that was kept, which is complete, or the  *)
(* next page of the list on the page.                                      *)
NextPage(page) ==
  /\ page.org = org
  /\ IF page.cached
     THEN repos = <<>> /\ page.items = cache[org] /\ page.next = 0 /\ Len(cache[org]) = PagesOf[org]
     ELSE repos = cache[org] /\ Len(repos) < PagesOf[org] /\ page = PageOf(org, Len(repos) + 1)

(* RepositoriesOfOrg and why: only the page asked for last is on its way,  *)
(* a list that was kept is complete but while its pages arrive, and the    *)
(* list on the page is the one that is kept for the chosen organization.   *)
ListsOK ==
  /\ \A i \in UnderWay : i = Len(pages)
  /\ org = None => pages = <<>> /\ \A o \in Orgs : cache[o] = <<>>
  /\ \A o \in Orgs :
       /\ IsListed(cache[o], o)
       /\ cache[o] # <<>> /\ (o # org \/ UnderWay = {}) => Len(cache[o]) = PagesOf[o]
  /\ org # None =>
       /\ loading <=> UnderWay # {}
       /\ UnderWay = {} => repos = cache[org] /\ repos # <<>>
       /\ \A i \in UnderWay : NextPage(pages[i])

Shown(st) == \E i \in DOMAIN steps : steps[i] = st

SuccessKnown ==
  /\ branchGets > 0 => flow = "git"
  /\ flow \in Bitbucket /\ Shown("success") => pipeline # None

IInv ==
  /\ StepsOK
  /\ ListTypes /\ (orderly => ListsOK)
  /\ NameTypes /\ SuccessKnown

-----------------------------------------------------------------------------
(* The stack of steps.                                                     *)

InOrder(s) == \A i, j \in DOMAIN s : i < j => Ranks[s[i]] < Ranks[s[j]]

LEMMA RankOfState ==
  /\ \A st \in States : Ranks[st] \in 1..7
  /\ \A st \in {"loading", "server", "connect", "unknown"} : st \in States /\ Ranks[st] = 1
  /\ "credential" \in States /\ Ranks["credential"] = 2
  /\ "organization" \in States /\ Ranks["organization"] = 3
  /\ "pending" \in States /\ Ranks["pending"] = 4
  /\ "repository" \in States /\ Ranks["repository"] = 5
  /\ "rename" \in States /\ Ranks["rename"] = 6
  /\ \A st \in Complete : st \in States /\ Ranks[st] = 7
  BY DEF Ranks, States, Complete

(* The place of a state that was added.                                    *)
LEMMA AtAdded ==
  ASSUME NEW s \in Seq(States), NEW st
  PROVE  /\ At(s, st) \in 0..Len(s)
         /\ Added(s, st) => At(s, st) \in 1..Len(s) /\ s[At(s, st)] = st
  <1> DEFINE places == {i \in DOMAIN s : s[i] = st}
  <1>1. DOMAIN s = 1..Len(s) /\ Len(s) \in Nat
    BY LenProperties
  <1>2. At(s, st) = IF Cardinality(places) = 1 THEN CHOOSE i \in places : TRUE ELSE 0
    BY DEF At
  <1>3. Cardinality({}) = 0
    BY FS_EmptySet
  <1>4. CASE Cardinality(places) = 1
    <2> HIDE DEF places
    <2>1. ASSUME places = {}
          PROVE  FALSE
      <3>1. Cardinality(places) = 0
        BY <1>3, <2>1, Zenon
      <3> QED
        BY <1>4, <3>1
    <2>2. At(s, st) \in places
      BY <1>2, <1>4, <2>1
    <2> QED
      BY <1>1, <2>2 DEF Added, places
  <1>5. CASE Cardinality(places) # 1
    BY <1>1, <1>2, <1>5 DEF Added
  <1> QED
    BY <1>4, <1>5

LEMMA NoneNotAdded ==
  ASSUME NEW s \in Seq(States)
  PROVE  At(s, None) = 0
  <1>1. \A i \in DOMAIN s : s[i] \in States
    BY LenProperties
  <1>2. {i \in DOMAIN s : s[i] = None} = {}
    BY <1>1, NoneAssumption
  <1>3. Cardinality({i \in DOMAIN s : s[i] = None}) = 0
    BY <1>2, FS_EmptySet
  <1> QED
    BY <1>3 DEF At

LEMMA Prefix ==
  ASSUME NEW s \in Seq(States), NEW n \in 0..Len(s), InOrder(s)
  PROVE  /\ SubSeq(s, 1, n) \in Seq(States) /\ Len(SubSeq(s, 1, n)) = n
         /\ \A i \in 1..n : SubSeq(s, 1, n)[i] = s[i]
         /\ InOrder(SubSeq(s, 1, n))
  <1>1. Len(s) \in Nat /\ DOMAIN s = 1..Len(s) /\ \A i \in 1..Len(s) : s[i] \in States
    BY LenProperties
  <1>2. 1 \in Int /\ n \in Int /\ \A i \in 1..n : s[i] \in States
    BY <1>1
  <1> DEFINE t == SubSeq(s, 1, n)
  <1>3. /\ t \in Seq(States)
        /\ Len(t) = IF 1 <= n THEN n - 1 + 1 ELSE 0
        /\ \A i \in 1..(n - 1 + 1) : t[i] = s[1 + i - 1]
    BY <1>2, SubSeqProperties
  <1> HIDE DEF t
  <1>4. Len(t) = n /\ \A i \in 1..n : t[i] = s[i]
    BY <1>1, <1>3
  <1>5. DOMAIN t = 1..n
    BY <1>3, <1>4, LenProperties
  <1>6. InOrder(t)
    BY <1>1, <1>4, <1>5 DEF InOrder
  <1> QED
    BY <1>3, <1>4, <1>6 DEF t

(* FlowManager.renderStep keeps the order if the step comes later in the   *)
(* flow than the one it is put after.                                      *)
LEMMA RenderInOrder ==
  ASSUME NEW s \in Seq(States), InOrder(s), NEW st \in States, NEW after \in States \cup {None},
         after # None => Ranks[after] < Ranks[st]
  PROVE  /\ Render(s, st, after) \in Seq(States) /\ InOrder(Render(s, st, after))
         /\ \A i \in DOMAIN Render(s, st, after) :
              \/ Render(s, st, after)[i] = st
              \/ \E j \in DOMAIN s : s[j] = Render(s, st, after)[i]
  <1>1. Len(s) \in Nat /\ DOMAIN s = 1..Len(s) /\ \A i \in 1..Len(s) : s[i] \in States
    BY LenProperties
  <1>2. CASE after # None /\ ~Added(s, after)
    BY <1>2 DEF Render
  <1>3. CASE ~(after # None /\ ~Added(s, after)) /\ Added(s, st)
    <2> DEFINE t == SubSeq(s, 1, At(s, st))
    <2>1. At(s, st) \in 0..Len(s)
      BY AtAdded
    <2>2. /\ t \in Seq(States) /\ Len(t) = At(s, st) /\ InOrder(t)
          /\ \A i \in 1..At(s, st) : t[i] = s[i]
      BY <2>1, Prefix
    <2>3. Render(s, st, after) = t
      BY <1>3 DEF Render
    <2> HIDE DEF t
    <2>4. DOMAIN t = 1..At(s, st)
      BY <2>2, LenProperties
    <2> QED
      BY <1>1, <2>1, <2>2, <2>3, <2>4
  <1>4. CASE ~(after # None /\ ~Added(s, after)) /\ ~Added(s, st)
    <2> DEFINE n == At(s, after)
               t == SubSeq(s, 1, n)
               u == Append(t, st)
    <2>1. n \in 0..Len(s) /\ (n > 0 => after # None /\ s[n] = after)
      BY <1>1, <1>4, AtAdded, NoneNotAdded
    <2>2. /\ t \in Seq(States) /\ Len(t) = n /\ InOrder(t)
          /\ \A i \in 1..n : t[i] = s[i]
      BY <2>1, Prefix
    <2>3. Render(s, st, after) = u
      BY <1>4 DEF Render
    <2> HIDE DEF n, t
    <2>4. /\ u \in Seq(States) /\ Len(u) = n + 1 /\ DOMAIN t = 1..n
          /\ (\A i \in 1..n : u[i] = s[i]) /\ u[n + 1] = st
      BY <2>2, AppendProperties, LenProperties
    <2> HIDE DEF u
    <2>5. DOMAIN u = 1..n + 1
      BY <2>4, LenProperties
    <2>6. ASSUME NEW i \in DOMAIN u, NEW j \in DOMAIN u, i < j
          PROVE  Ranks[u[i]] < Ranks[u[j]]
      <3>1. CASE j <= n
        BY <1>1, <2>1, <2>4, <2>5, <2>6, <3>1 DEF InOrder
      <3>2. CASE j = n + 1
        <4>1. i \in 1..n /\ n > 0 /\ u[i] = s[i] /\ u[j] = st /\ s[n] = after
          BY <2>1, <2>4, <2>5, <2>6, <3>2
        <4>2. Ranks[after] < Ranks[st]
          BY <2>1, <4>1
        <4>3. i = n \/ Ranks[s[i]] < Ranks[s[n]]
          BY <1>1, <2>1, <4>1 DEF InOrder
        <4>4. Ranks[s[i]] \in Int /\ Ranks[after] \in Int /\ Ranks[st] \in Int
          BY <1>1, <2>1, <4>1, RankOfState
        <4> QED
          BY <4>1, <4>2, <4>3, <4>4
      <3> QED
        BY <2>1, <2>5, <3>1, <3>2
    <2>7. InOrder(u)
      BY <2>6 DEF InOrder
    <2>8. ASSUME NEW i \in DOMAIN u
          PROVE  u[i] = st \/ \E j \in DOMAIN s : s[j] = u[i]
      BY <1>1, <2>1, <2>4, <2>5
    <2> QED
      BY <2>3, <2>4, <2>7, <2>8
  <1> QED
    BY <1>2, <1>3, <1>4

LEMMA ChangeInOrder ==
  ASSUME NEW s \in Seq(States), InOrder(s), NEW st \in Complete
  PROVE  /\ Change(s, st) \in Seq(States) /\ InOrder(Change(s, st))
         /\ \A i \in DOMAIN Change(s, st) :
              Change(s, st)[i] = st \/ \E j \in DOMAIN s : s[j] = Change(s, st)[i]
  <1>1. Len(s) \in Nat /\ DOMAIN s = 1..Len(s) /\ \A i \in 1..Len(s) : s[i] \in States
    BY LenProperties
  <1>2. CASE Len(s) = 0
    <2>1. Change(s, st) = s
      BY <1>1, <1>2, EmptySeq DEF Change
    <2> QED
      BY <2>1
  <1>3. CASE Len(s) # 0
    <2> DEFINE t == Change(s, st)
    <2>1. /\ t \in Seq(States) /\ Len(t) = Len(s)
          /\ \A i \in 1..Len(s) : t[i] = IF i = Len(s) THEN st ELSE s[i]
      <3>1. Len(s) \in 1..Len(s) /\ st \in States
        BY <1>1, <1>3, RankOfState
      <3> QED
        BY <3>1, ExceptSeq DEF Change
    <2> HIDE DEF t
    <2>2. DOMAIN t = 1..Len(s)
      BY <2>1, LenProperties
    <2>3. ASSUME NEW i \in DOMAIN t, NEW j \in DOMAIN t, i < j
          PROVE  Ranks[t[i]] < Ranks[t[j]]
      <3>1. i \in DOMAIN s /\ j \in DOMAIN s /\ i # Len(s)
        BY <1>1, <2>2, <2>3
      <3>2. Ranks[s[i]] < Ranks[s[j]] /\ t[i] = s[i]
        BY <1>1, <2>1, <2>3, <3>1 DEF InOrder
      <3>3. Ranks[s[i]] \in 1..7 /\ Ranks[s[j]] \in 1..7 /\ Ranks[st] = 7
        BY <1>1, <2>2, RankOfState
      <3> QED
        <4>1. t[i] = s[i] /\ (t[j] = st \/ t[j] = s[j])
          BY <1>1, <2>1, <3>1, <3>2
        <4> QED
          BY <3>2, <3>3, <4>1
    <2> QED
      BY <1>1, <2>1, <2>2, <2>3 DEF t, InOrder
  <1> QED
    BY <1>2, <1>3

(* What a step can do to the stack: render or change to one of S, or go    *)
(* back to connect.                                                        *)
Shows(S) ==
  \/ UNCHANGED steps
  \/ \E st \in S, after \in States \cup {None} :
       /\ after # None => Ranks[after] < Ranks[st]
       /\ steps' = Render(steps, st, after)
  \/ \E st \in S \cap Complete : steps' = Change(steps, st)
  \/ steps' = SubSeq(steps, 1, At(steps, "connect"))

LEMMA ShowsKeeps ==
  ASSUME StepsOK, NEW S \in SUBSET States, Shows(S)
  PROVE  /\ StepsOK'
         /\ \A i \in DOMAIN steps' : steps'[i] \in S \/ \E j \in DOMAIN steps : steps[j] = steps'[i]
  <1>1. steps \in Seq(States) /\ InOrder(steps)
    BY DEF StepsOK, StepsInOrder, InOrder
  <1>2. /\ steps' \in Seq(States) /\ InOrder(steps')
        /\ \A i \in DOMAIN steps' : steps'[i] \in S \/ \E j \in DOMAIN steps : steps[j] = steps'[i]
    <2>1. CASE UNCHANGED steps
      BY <1>1, <2>1
    <2>2. CASE \E st \in S, after \in States \cup {None} :
                 /\ after # None => Ranks[after] < Ranks[st]
                 /\ steps' = Render(steps, st, after)
      BY <1>1, <2>2, RenderInOrder
    <2>3. CASE \E st \in S \cap Complete : steps' = Change(steps, st)
      BY <1>1, <2>3, ChangeInOrder
    <2>4. CASE steps' = SubSeq(steps, 1, At(steps, "connect"))
      <3>1. At(steps, "connect") \in 0..Len(steps) /\ Len(steps) \in Nat
        BY <1>1, AtAdded, LenProperties
      <3>2. /\ steps' \in Seq(States) /\ InOrder(steps') /\ Len(steps') = At(steps, "connect")
            /\ \A i \in 1..At(steps, "connect") : steps'[i] = steps[i]
        BY <1>1, <2>4, <3>1, Prefix
      <3>3. DOMAIN steps' = 1..At(steps, "connect") /\ DOMAIN steps = 1..Len(steps)
        BY <1>1, <3>2, LenProperties
      <3> QED
        BY <3>1, <3>2, <3>3
    <2> QED
      BY <2>1, <2>2, <2>3, <2>4 DEF Shows
  <1> QED
    BY <1>2 DEF StepsOK, StepsInOrder, InOrder

Unsuccessful == States \ {"success"}

(* Every step renders later steps after earlier ones, and only the two     *)
(* that end the wait show a success.                                       *)
LEMMA NextShows ==
  ASSUME [Next]_vars
  PROVE  \/ Shows(Unsuccessful)
         \/ (RunEvent \/ GitFetched) /\ Shows(States)
  <1>1. /\ "credential" \in Unsuccessful /\ "organization" \in Unsuccessful
        /\ "pending" \in Unsuccessful /\ "repository" \in Unsuccessful
        /\ "rename" \in Unsuccessful /\ "saving" \in Unsuccessful /\ "error" \in Unsuccessful
        /\ "server" \in Unsuccessful /\ "connect" \in Unsuccessful /\ "unknown" \in Unsuccessful
        /\ "events" \in Unsuccessful /\ "event-error" \in Unsuccessful
        /\ "timeout" \in Unsuccessful /\ "missing" \in Unsuccessful
        /\ "events" \in Complete /\ "event-error" \in Complete /\ "timeout" \in Complete
        /\ "missing" \in Complete /\ Unsuccessful \subseteq States
    BY DEF Unsuccessful, States, Complete
  <1>2. /\ Ranks["server"] = 1 /\ Ranks["connect"] = 1 /\ Ranks["credential"] = 2
        /\ Ranks["organization"] = 3 /\ Ranks["pending"] = 4 /\ Ranks["repository"] = 5
        /\ Ranks["rename"] = 6 /\ Ranks["saving"] = 7 /\ Ranks["error"] = 7
    BY RankOfState DEF Complete
  <1>3. \A selected : AfterCredential(selected) \in {"credential", "server", None}
    BY DEF AfterCredential
  <1>4. ASSUME NEW st \in Unsuccessful, NEW after \in States \cup {None},
               after # None => Ranks[after] < Ranks[st], steps' = Render(steps, st, after)
        PROVE  Shows(Unsuccessful)
    BY <1>4 DEF Shows
  <1>5. ASSUME NEW st \in Unsuccessful \cap Complete, steps' = Change(steps, st)
        PROVE  Shows(Unsuccessful)
    BY <1>5 DEF Shows
  <1>6. CASE Loaded
    BY <1>1, <1>2, <1>4, <1>6 DEF Loaded
  <1>7. CASE SelectServer
    BY <1>1, <1>2, <1>4, <1>7 DEF SelectServer
  <1>8. CASE SelectCredential
    BY <1>1, <1>2, <1>3, <1>4, <1>8 DEF SelectCredential
  <1>9. CASE OrganizationsArrive
    BY <1>1, <1>2, <1>3, <1>4, <1>9 DEF OrganizationsArrive
  <1>10. CASE OrganizationsFail
    <2>1. UNCHANGED steps => Shows(Unsuccessful)
      BY DEF Shows
    <2> QED
      BY <1>1, <1>2, <1>4, <1>10, <2>1 DEF OrganizationsFail
  <1>11. CASE \E o \in Orgs : SelectOrganization(o)
    BY <1>1, <1>2, <1>4, <1>11 DEF SelectOrganization
  <1>12. CASE \E i \in UnderWay : PageArrives(i)
    <2>1. UNCHANGED steps => Shows(Unsuccessful)
      BY DEF Shows
    <2>2. \/ steps' = Render(steps, "repository", "organization")
          \/ UNCHANGED steps
      BY <1>12 DEF PageArrives
    <2> QED
      BY <1>1, <1>2, <1>4, <2>1, <2>2
  <1>13. ASSUME NEW n, Ask(n)
         PROVE  Shows(Unsuccessful)
    <2>1. PICK after \in {"rename", "connect", "repository"} : steps' = Render(steps, "saving", after)
      BY <1>13 DEF Ask
    <2> QED
      BY <1>1, <1>2, <1>4, <2>1
  <1>14. CASE SaveRepo \/ SaveRenamed \/ GitConnect
    BY <1>13, <1>14 DEF SaveRepo, SaveRenamed, GitConnect
  <1>15. CASE \E i \in DOMAIN creates : CreateAnswered(i)
    <2>1. PICK i \in DOMAIN creates : CreateAnswered(i)
      BY <1>15
    <2>2. UNCHANGED steps => Shows(Unsuccessful)
      BY DEF Shows
    <2>3. CASE Created(creates[i].name)
      <3>1. UNCHANGED steps \/ steps' = Change(steps, "events")
        BY <2>3 DEF Created
      <3> QED
        BY <1>1, <1>2, <1>5, <2>2, <3>1
    <2>4. CASE Refused(creates[i].at)
      <3>1. \/ \E after \in {"connect", "repository"} : steps' = Render(steps, "rename", after)
            \/ steps' = SubSeq(steps, 1, At(steps, "connect"))
            \/ steps' = Render(steps, "error", "connect")
            \/ steps' = steps
        BY <2>4 DEF Refused
      <3>2. steps' = SubSeq(steps, 1, At(steps, "connect")) => Shows(Unsuccessful)
        BY DEF Shows
      <3>3. ASSUME NEW after \in {"connect", "repository"}, steps' = Render(steps, "rename", after)
            PROVE  Shows(Unsuccessful)
        BY <1>1, <1>2, <1>4, <3>3
      <3>4. ASSUME steps' = Render(steps, "error", "connect")
            PROVE  Shows(Unsuccessful)
        BY <1>1, <1>2, <1>4, <3>4
      <3> QED
        BY <2>2, <3>1, <3>2, <3>3, <3>4
    <2> QED
      BY <2>1, <2>3, <2>4 DEF CreateAnswered
  <1>16. ASSUME NEW st \in {"missing", "event-error", "timeout"}, Finish(st)
         PROVE  Shows(Unsuccessful)
    BY <1>1, <1>2, <1>5, <1>16 DEF Finish
  <1>17. CASE (\E n \in Names : IndexingEnds(n)) \/ OtherIndexingFails
    <2>1. PICK n \in Names \cup {None}, failed \in BOOLEAN : IndexingEvent(n, failed)
      BY <1>17 DEF IndexingEnds, OtherIndexingFails
    <2>2. UNCHANGED steps => Shows(Unsuccessful)
      BY DEF Shows
    <2> QED
      BY <1>16, <2>1, <2>2 DEF IndexingEvent
  <1>18. CASE (\E n \in Names : MissingEvent(n)) \/ TimerFires
    <2>1. UNCHANGED steps => Shows(Unsuccessful)
      BY DEF Shows
    <2> QED
      BY <1>16, <1>18, <2>1 DEF MissingEvent, TimerFires
  <1>19. CASE RunEvent \/ GitFetched
    <2>1. PICK st \in {"missing", "success", "event-error"} : Finish(st)
      BY <1>19 DEF RunEvent, GitFetched
    <2>2. st \in States \cap Complete
      BY DEF States, Complete
    <2> QED
      BY <1>19, <2>1, <2>2 DEF Finish, Shows
  <1>20. CASE UNCHANGED steps
    BY <1>20 DEF Shows
  <1>21. CASE \/ \E i \in UnderWay : PageFails(i)
              \/ \E r \in Repositories : SelectRepository(r)
              \/ Server
              \/ \E n \in Names : OtherCreates(n) \/ BranchFound(n)
              \/ Leave \/ UNCHANGED vars
    BY <1>20, <1>21
    DEF PageFails, SelectRepository, Server, CreateRefused, CreateValidated, ProjectCreated,
        ProjectFinished, OtherCreates, BranchFound, Leave, ClientUnchanged, vars, stepVars
  <1>22. CASE \E n \in Names : OtherCreates(n) \/ BranchFound(n) \/ IndexingEnds(n) \/ MissingEvent(n)
    BY <1>17, <1>18, <1>21, <1>22
  <1>23. CASE \E i \in UnderWay : PageArrives(i) \/ PageFails(i)
    BY <1>12, <1>21, <1>23
  <1>24. CASE Next
    BY <1>6, <1>7, <1>8, <1>9, <1>10, <1>11, <1>14, <1>15, <1>17, <1>18, <1>19, <1>21, <1>22,
       <1>23, <1>24 DEF Next
  <1> QED
    BY <1>21, <1>24

-----------------------------------------------------------------------------
(* The request for a pipeline, and the wait for it.                        *)

(* The pipeline that was noted is never forgotten, and only git fetches it *)
(* after its indexing.                                                     *)
NamesStep ==
  /\ NameTypes'
  /\ UNCHANGED flow /\ (pipeline' = pipeline \/ pipeline' # None)
  /\ branchGets' > 0 => branchGets > 0 \/ flow = "git"

LEMMA CreatesType ==
  ASSUME NameTypes, NEW i \in DOMAIN creates
  PROVE  /\ i \in 1..Len(creates) /\ Len(creates) \in Nat
         /\ creates[i] \in Creates
         /\ creates[i].name \in Names \cup {None}
         /\ creates[i].at # "answered" => creates[i].name \in Names
  <1>1. creates \in Seq(Creates) /\ (creates[i].at # "answered" => creates[i].name # None)
    BY DEF NameTypes
  <1>2. i \in 1..Len(creates) /\ Len(creates) \in Nat /\ creates[i] \in Creates
    BY <1>1, LenProperties
  <1>3. creates[i].name \in Names \cup {None}
    BY <1>2 DEF Creates
  <1> QED
    BY <1>1, <1>2, <1>3

LEMMA AskNames ==
  ASSUME NameTypes, NEW n \in Names, Ask(n), UNCHANGED repo
  PROVE  NamesStep
  <1> DEFINE new == [name |-> n, at |-> "sent"]
  <1>1. creates' = Append(creates, new) /\ new \in Creates /\ creates \in Seq(Creates)
    BY DEF Ask, NameTypes, Creates, Stages
  <1>2. new.name = n /\ n # None
    BY NoneAssumption
  <1> HIDE DEF new
  <1>3. /\ creates' \in Seq(Creates) /\ DOMAIN creates' = 1..Len(creates) + 1
        /\ DOMAIN creates = 1..Len(creates) /\ Len(creates) \in Nat
        /\ \A i \in 1..Len(creates) : creates'[i] = creates[i]
        /\ creates'[Len(creates) + 1] = new
    BY <1>1, AppendProperties, LenProperties
  <1>4. \A i \in DOMAIN creates' : creates'[i].at # "answered" => creates'[i].name # None
    BY <1>2, <1>3 DEF NameTypes
  <1>5. /\ name' = n /\ UNCHANGED <<flow, pipeline, branchGets, exists, busy, repo>>
    BY DEF Ask, serverVars
  <1> QED
    BY <1>2, <1>3, <1>4, <1>5 DEF NamesStep, NameTypes

LEMMA GoesNames ==
  ASSUME NameTypes, NEW i \in DOMAIN creates, NEW at \in Stages \ {"answered"}, Goes(i, at),
         creates[i].at # "answered", ClientUnchanged,
         exists' \subseteq Names, busy' \subseteq Names
  PROVE  NamesStep
  <1> DEFINE new == [creates[i] EXCEPT !.at = at]
  <1>1. i \in 1..Len(creates) /\ creates[i] \in Creates /\ creates[i].name # None
    BY CreatesType DEF NameTypes
  <1>2. new \in Creates /\ new.name = creates[i].name
    BY <1>1 DEF Creates
  <1>3. creates' = [creates EXCEPT ![i] = new] /\ creates \in Seq(Creates)
    BY DEF Goes, NameTypes
  <1> HIDE DEF new
  <1>4. /\ creates' \in Seq(Creates) /\ Len(creates') = Len(creates)
        /\ \A j \in 1..Len(creates) : creates'[j] = IF j = i THEN new ELSE creates[j]
    BY <1>1, <1>2, <1>3, ExceptSeq
  <1>5. DOMAIN creates' = 1..Len(creates) /\ DOMAIN creates = 1..Len(creates)
    BY <1>3, <1>4, LenProperties
  <1>6. \A j \in DOMAIN creates' : creates'[j].at # "answered" => creates'[j].name # None
    BY <1>1, <1>2, <1>4, <1>5 DEF NameTypes
  <1> QED
    BY <1>4, <1>6 DEF NamesStep, NameTypes, ClientUnchanged, waitVars

LEMMA ServerNames ==
  ASSUME NameTypes, Server
  PROVE  NamesStep
  <1>1. PICK i \in DOMAIN creates :
          CreateRefused(i) \/ CreateValidated(i) \/ ProjectCreated(i) \/ ProjectFinished(i)
    BY DEF Server
  <1>2. PICK at \in {"refused", "error", "lost", "name", "validated", "created", "success"} : Goes(i, at)
    BY <1>1 DEF CreateRefused, CreateValidated, ProjectCreated, ProjectFinished
  <1>3. creates[i].at # "answered" /\ ClientUnchanged
    BY <1>1 DEF CreateRefused, CreateValidated, ProjectCreated, ProjectFinished
  <1>4. exists' \subseteq Names /\ busy' \subseteq Names
    <2>1. creates[i].name \in Names
      BY <1>3, CreatesType
    <2>2. exists' \in {exists, exists \cup {creates[i].name}} /\ busy' = busy
      BY <1>1 DEF CreateRefused, CreateValidated, ProjectCreated, ProjectFinished, serverVars
    <2> QED
      BY <2>1, <2>2 DEF NameTypes
  <1>5. at \in Stages \ {"answered"}
    BY DEF Stages
  <1> QED
    BY <1>2, <1>3, <1>4, <1>5, GoesNames

LEMMA AnsweredNames ==
  ASSUME NameTypes, NEW i \in DOMAIN creates, CreateAnswered(i)
  PROVE  NamesStep
  <1> DEFINE new == [name |-> None, at |-> "answered"]
  <1>1. /\ i \in 1..Len(creates) /\ creates[i].name \in Names /\ creates[i].name # None
        /\ creates \in Seq(Creates)
    BY CreatesType, NoneAssumption DEF CreateAnswered, NameTypes
  <1>2. new \in Creates /\ new.at = "answered"
    BY DEF Creates, Stages
  <1>3. creates' = [creates EXCEPT ![i] = new]
    BY DEF CreateAnswered
  <1> HIDE DEF new
  <1>4. /\ creates' \in Seq(Creates) /\ Len(creates') = Len(creates)
        /\ \A j \in 1..Len(creates) : creates'[j] = IF j = i THEN new ELSE creates[j]
    BY <1>1, <1>2, <1>3, ExceptSeq
  <1>5. DOMAIN creates' = 1..Len(creates) /\ DOMAIN creates = 1..Len(creates)
    BY <1>1, <1>4, LenProperties
  <1>6. \A j \in DOMAIN creates' : creates'[j].at # "answered" => creates'[j].name # None
    BY <1>2, <1>4, <1>5 DEF NameTypes
  <1>7. name' \in {name, creates[i].name} /\ pipeline' \in {pipeline, creates[i].name}
    BY DEF CreateAnswered, Created, Refused
  <1>8. UNCHANGED <<flow, repo, branchGets, exists, busy>>
    BY DEF CreateAnswered, serverVars
  <1> QED
    BY <1>1, <1>4, <1>6, <1>7, <1>8 DEF NamesStep, NameTypes

(* The events and the wait.                                                *)
LEMMA WaitNames ==
  ASSUME NameTypes,
         \/ RunEvent \/ OtherIndexingFails \/ GitFetched \/ TimerFires
         \/ \E n \in Names : IndexingEnds(n) \/ MissingEvent(n)
  PROVE  NamesStep
  <1>1. UNCHANGED <<flow, repo, name, creates, exists, busy>>
    BY DEF RunEvent, OtherIndexingFails, GitFetched, TimerFires, IndexingEnds, MissingEvent,
           OnlyWaits, serverVars
  <1>2. pipeline' = pipeline \/ pipeline' \in Names
    <2>1. CASE RunEvent
      BY <2>1 DEF RunEvent, NameTypes
    <2>2. CASE OtherIndexingFails \/ \E n \in Names : IndexingEnds(n)
      BY <2>2 DEF OtherIndexingFails, IndexingEnds, IndexingEvent, waitVars
    <2>3. CASE GitFetched \/ TimerFires \/ \E n \in Names : MissingEvent(n)
      BY <2>3 DEF GitFetched, TimerFires, MissingEvent
    <2> QED
      BY <2>1, <2>2, <2>3
  <1>3. branchGets' \in Nat /\ (branchGets' > 0 => branchGets > 0 \/ flow = "git")
    <2>1. branchGets \in Nat
      BY DEF NameTypes
    <2>2. CASE OtherIndexingFails \/ \E n \in Names : IndexingEnds(n)
      BY <2>1, <2>2 DEF OtherIndexingFails, IndexingEnds, IndexingEvent, waitVars
    <2>3. CASE RunEvent \/ GitFetched \/ TimerFires \/ \E n \in Names : MissingEvent(n)
      BY <2>1, <2>3 DEF RunEvent, GitFetched, TimerFires, MissingEvent
    <2> QED
      BY <2>2, <2>3
  <1> QED
    BY <1>1, <1>2, <1>3, NoneAssumption DEF NamesStep, NameTypes

LEMMA NextNames ==
  ASSUME NameTypes, [Next]_vars
  PROVE  NamesStep
  <1>1. ASSUME UNCHANGED <<flow, repo, name, creates, pipeline, branchGets, exists, busy>>
        PROVE  NamesStep
    BY <1>1 DEF NamesStep, NameTypes
  <1>2. CASE Loaded \/ SelectServer \/ SelectCredential \/ OrganizationsArrive \/ OrganizationsFail
    BY <1>1, <1>2
    DEF Loaded, SelectServer, SelectCredential, OrganizationsArrive, OrganizationsFail,
        saveVars, waitVars, serverVars
  <1>3. CASE \/ \E o \in Orgs : SelectOrganization(o)
             \/ \E i \in UnderWay : PageArrives(i) \/ PageFails(i)
    BY <1>1, <1>3 DEF SelectOrganization, PageArrives, PageFails, saveVars, waitVars, serverVars
  <1>4. CASE \E r \in Repositories : SelectRepository(r)
    <2>1. PICK r \in Repositories : SelectRepository(r)
      BY <1>4
    <2>2. NameOf(r) \in Names /\ NameOf(r) # None /\ r # None
      BY NoneAssumption DEF Names
    <2> QED
      BY <2>1, <2>2 DEF SelectRepository, waitVars, serverVars, NamesStep, NameTypes
  <1>5. CASE SaveRepo \/ SaveRenamed \/ GitConnect
    <2>1. CASE SaveRepo
      BY <2>1, AskNames DEF SaveRepo, NameTypes
    <2>2. CASE SaveRenamed
      BY <2>2, AskNames DEF SaveRenamed, Names
    <2>3. CASE GitConnect
      BY <2>3, AskNames DEF GitConnect
    <2> QED
      BY <1>5, <2>1, <2>2, <2>3
  <1>6. CASE \E n \in Names : OtherCreates(n) \/ BranchFound(n)
    BY <1>6 DEF OtherCreates, BranchFound, ClientUnchanged, waitVars, NamesStep, NameTypes
  <1>7. CASE Leave \/ UNCHANGED vars
    BY <1>1, <1>7 DEF Leave, vars, saveVars, waitVars, serverVars
  <1>8. CASE \E n \in Names : IndexingEnds(n) \/ MissingEvent(n)
    BY <1>8, WaitNames
  <1>9. CASE RunEvent \/ OtherIndexingFails \/ GitFetched \/ TimerFires
    BY <1>9, WaitNames
  <1>10. CASE Server \/ \E i \in DOMAIN creates : CreateAnswered(i)
    BY <1>10, ServerNames, AnsweredNames
  <1> QED
    BY <1>2, <1>3, <1>4, <1>5, <1>6, <1>7, <1>8, <1>9, <1>10 DEF Next

-----------------------------------------------------------------------------
(* The repositories.                                                       *)

(* Only choosing an organization and the pages of its list touch what the  *)
(* flow keeps of repositories.                                             *)
LEMMA OnlyLists ==
  ASSUME [Next]_vars
  PROVE  \/ \E o \in Orgs : SelectOrganization(o)
         \/ \E i \in UnderWay : PageArrives(i) \/ PageFails(i)
         \/ UNCHANGED repoVars
  <1>1. CASE Loaded \/ SelectServer \/ SelectCredential \/ OrganizationsArrive \/ OrganizationsFail
    BY <1>1 DEF Loaded, SelectServer, SelectCredential, OrganizationsArrive, OrganizationsFail
  <1>2. CASE \E r \in Repositories : SelectRepository(r)
    BY <1>2 DEF SelectRepository
  <1>3. CASE SaveRepo \/ SaveRenamed \/ GitConnect
    BY <1>3 DEF SaveRepo, SaveRenamed, GitConnect, Ask
  <1>4. CASE Server \/ \E n \in Names : OtherCreates(n) \/ BranchFound(n)
    BY <1>4 DEF Server, CreateRefused, CreateValidated, ProjectCreated, ProjectFinished,
                OtherCreates, BranchFound, ClientUnchanged
  <1>5. CASE \E i \in DOMAIN creates : CreateAnswered(i)
    BY <1>5 DEF CreateAnswered
  <1>6. CASE \/ RunEvent \/ OtherIndexingFails \/ GitFetched \/ TimerFires
             \/ \E n \in Names : IndexingEnds(n) \/ MissingEvent(n)
    BY <1>6 DEF RunEvent, OtherIndexingFails, GitFetched, TimerFires, IndexingEnds, MissingEvent, OnlyWaits
  <1>7. CASE Leave \/ UNCHANGED vars
    BY <1>7 DEF Leave, vars
  <1> QED
    BY <1>1, <1>2, <1>3, <1>4, <1>5, <1>6, <1>7 DEF Next

LEMMA PageOfType ==
  ASSUME NEW o \in Orgs, NEW p \in 1..PagesOf[o]
  PROVE  /\ PageOf(o, p) \in Pages /\ PageOf(o, p).org = o /\ ~PageOf(o, p).cached
         /\ PageOf(o, p).items = <<<<o, p>>>>
         /\ PageOf(o, p).next = IF p < PagesOf[o] THEN p + 1 ELSE 0
         /\ PageOf(o, p).next = 0 \/ PageOf(o, p).next \in 1..PagesOf[o]
  <1>1. PagesOf[o] \in Nat /\ p \in Nat
    BY PagesAssumption
  <1>2. <<o, p>> \in Repositories
    BY DEF Repositories
  <1>3. <<<<o, p>>>> \in Seq(Repositories)
    BY <1>2
  <1> QED
    BY <1>1, <1>3 DEF PageOf, Pages

(* A list that grows by its next repository.                               *)
LEMMA ListedNext ==
  ASSUME NEW s \in Seq(Repositories), NEW o \in Orgs, IsListed(s, o), Len(s) + 1 \in 1..PagesOf[o]
  PROVE  /\ s \o <<<<o, Len(s) + 1>>>> \in Seq(Repositories)
         /\ Len(s \o <<<<o, Len(s) + 1>>>>) = Len(s) + 1
         /\ IsListed(s \o <<<<o, Len(s) + 1>>>>, o)
  <1> DEFINE t == <<<<o, Len(s) + 1>>>>
             u == s \o t
  <1>1. <<o, Len(s) + 1>> \in Repositories
    BY DEF Repositories
  <1>2. t \in Seq(Repositories) /\ Len(t) = 1 /\ t[1] = <<o, Len(s) + 1>>
    BY <1>1
  <1>3. Len(s) \in Nat /\ DOMAIN s = 1..Len(s)
    BY LenProperties
  <1> HIDE DEF t
  <1>4. /\ u \in Seq(Repositories) /\ Len(u) = Len(s) + 1
        /\ \A i \in 1..Len(s) + 1 : u[i] = IF i <= Len(s) THEN s[i] ELSE t[i - Len(s)]
    <2>1. /\ s \o t \in Seq(Repositories) /\ Len(s \o t) = Len(s) + Len(t)
          /\ \A i \in 1..Len(s) + Len(t) :
               (s \o t)[i] = IF i <= Len(s) THEN s[i] ELSE t[i - Len(s)]
      BY <1>2, ConcatProperties
    <2> QED
      BY <1>2, <2>1
  <1> HIDE DEF u
  <1>5. DOMAIN u = 1..Len(s) + 1
    BY <1>4, LenProperties
  <1>6. \A i \in DOMAIN u : u[i] = <<o, i>>
    BY <1>2, <1>3, <1>4, <1>5 DEF IsListed
  <1> QED
    BY <1>4, <1>6 DEF u, t, IsListed

LEMMA PagesType ==
  ASSUME ListTypes, NEW i \in UnderWay
  PROVE  /\ i \in 1..Len(pages) /\ Len(pages) \in Nat /\ pages[i] \in Pages
         /\ pages[i].org \in Orgs /\ pages[i].items \in Seq(Repositories)
         /\ pages[i].cached \in BOOLEAN
         /\ pages[i].next = 0 \/ pages[i].next \in 1..PagesOf[pages[i].org]
         /\ pages[i] # None
  <1>1. pages \in Seq(Pages \cup {None}) /\ i \in DOMAIN pages /\ pages[i] # None
    BY DEF ListTypes, UnderWay
  <1>2. i \in 1..Len(pages) /\ Len(pages) \in Nat /\ pages[i] \in Pages
    BY <1>1, LenProperties
  <1> QED
    BY <1>1, <1>2 DEF ListTypes, Pages

(* A list whose pages are asked for: it is kept, and then complete, or its *)
(* first page is asked for.                                                *)
LEMMA SelectKeeps ==
  ASSUME ListTypes, orderly => ListsOK, NEW o \in Orgs, SelectOrganization(o)
  PROVE  ListTypes' /\ (orderly' => ListsOK')
  <1> DEFINE kept == [org |-> o, items |-> cache[o], cached |-> TRUE, next |-> 0]
             new == IF cache[o] # <<>> THEN kept ELSE PageOf(o, 1)
  <1>1. /\ org' = o /\ repos' = <<>> /\ loading' = TRUE /\ UNCHANGED cache
        /\ pages' = Append(pages, new) /\ orderly' = (orderly /\ UnderWay = {})
    BY DEF SelectOrganization
  <1>2. 1 \in 1..PagesOf[o] /\ PagesOf[o] \in Nat
    BY PagesAssumption
  <1>3. /\ kept \in Pages /\ kept.org = o /\ kept.cached /\ kept.items = cache[o] /\ kept.next = 0
        /\ PageOf(o, 1) \in Pages /\ PageOf(o, 1).org = o
        /\ PageOf(o, 1).next = 0 \/ PageOf(o, 1).next \in 1..PagesOf[o]
        /\ ~PageOf(o, 1).cached
    <2>1. cache[o] \in Seq(Repositories)
      BY DEF ListTypes
    <2> QED
      BY <1>2, <2>1, PageOfType DEF Pages
  <1> HIDE DEF kept
  <1>4. /\ new \in Pages /\ new.org = o /\ (new.next = 0 \/ new.next \in 1..PagesOf[o])
        /\ new = kept \/ new = PageOf(o, 1)
        /\ cache[o] # <<>> => new = kept
        /\ cache[o] = <<>> => new = PageOf(o, 1)
    BY <1>3
  <1> HIDE DEF new
  <1>5. /\ pages' \in Seq(Pages \cup {None}) /\ Len(pages') = Len(pages) + 1
        /\ Len(pages) \in Nat /\ DOMAIN pages = 1..Len(pages) /\ DOMAIN pages' = 1..Len(pages) + 1
        /\ (\A i \in 1..Len(pages) : pages'[i] = pages[i]) /\ pages'[Len(pages) + 1] = new
    <2>1. pages \in Seq(Pages \cup {None}) /\ new \in Pages \cup {None}
      BY <1>4 DEF ListTypes
    <2> QED
      BY <1>1, <2>1, AppendProperties, LenProperties
  <1>6. \A i \in UnderWay' : (i \in UnderWay /\ pages'[i] = pages[i]) \/ i = Len(pages')
    BY <1>5 DEF UnderWay
  <1>7. ListTypes'
    <2>1. ASSUME NEW i \in UnderWay'
          PROVE  pages'[i].next = 0 \/ pages'[i].next \in 1..PagesOf[pages'[i].org]
      BY <1>4, <1>5, <1>6 DEF ListTypes
    <2>2. <<>> \in Seq(Repositories)
      BY EmptySeq
    <2> QED
      BY <1>1, <1>5, <2>1, <2>2 DEF ListTypes
  <1>8. ASSUME orderly'
        PROVE  ListsOK'
    <2>1. orderly /\ UnderWay = {} /\ ListsOK
      BY <1>1, <1>8
    <2>2. \A i \in UnderWay' : i = Len(pages') /\ pages'[i] = new
      BY <1>5, <1>6, <2>1
    <2>3. UnderWay' # {}
      <3>1. Len(pages) + 1 \in DOMAIN pages'
        BY <1>5
      <3>2. new # None
        BY <1>4, NoneAssumption
      <3> QED
        BY <1>5, <3>1, <3>2 DEF UnderWay
    <2>4. \A d \in Orgs : /\ IsListed(cache[d], d)
                          /\ cache[d] # <<>> => Len(cache[d]) = PagesOf[d]
      BY <2>1 DEF ListsOK
    <2>5. ASSUME NEW i \in UnderWay'
          PROVE  NextPage(pages[i])'
      <3>1. pages'[i] = new
        BY <2>2
      <3>2. CASE cache[o] # <<>>
        <4>1. /\ pages'[i].org = o /\ pages'[i].cached /\ pages'[i].items = cache[o]
              /\ pages'[i].next = 0
          BY <1>3, <1>4, <3>1, <3>2
        <4>2. Len(cache[o]) = PagesOf[o]
          BY <2>4, <3>2
        <4> QED
          BY <1>1, <4>1, <4>2 DEF NextPage
      <3>3. CASE cache[o] = <<>>
        <4>1. Len(repos') = 0 /\ PageOf(o, Len(repos') + 1) = PageOf(o, 1)
          BY <1>1, EmptySeq
        <4> QED
          BY <1>1, <1>2, <1>3, <1>4, <3>1, <3>3, <4>1 DEF NextPage, PageOf
      <3> QED
        BY <3>2, <3>3
    <2>6. UnderWay' # {} /\ org' # None /\ loading' = TRUE
      BY <1>1, <2>3, NoneAssumption
    <2>7. \A d \in Orgs : /\ IsListed(cache'[d], d)
                          /\ cache'[d] # <<>> => Len(cache'[d]) = PagesOf[d]
      BY <1>1, <2>4
    <2>8. \A i \in UnderWay' : i = Len(pages') /\ NextPage(pages[i])'
      BY <2>2, <2>5
    <2> QED
      BY <2>6, <2>7, <2>8 DEF ListsOK
  <1> QED
    BY <1>7, <1>8

(* What becomes of the places of pages when one of them arrives or fails.  *)
LEMMA PlaceTaken ==
  ASSUME ListTypes, NEW i \in UnderWay, NEW new \in Pages \cup {None},
         pages' = [pages EXCEPT ![i] = new]
  PROVE  /\ pages' \in Seq(Pages \cup {None}) /\ Len(pages') = Len(pages)
         /\ DOMAIN pages' = DOMAIN pages
         /\ pages'[i] = new /\ \A j \in DOMAIN pages : j # i => pages'[j] = pages[j]
  <1>1. i \in 1..Len(pages) /\ pages \in Seq(Pages \cup {None})
    BY PagesType DEF ListTypes
  <1>2. /\ pages' \in Seq(Pages \cup {None}) /\ Len(pages') = Len(pages)
        /\ \A j \in 1..Len(pages) : pages'[j] = IF j = i THEN new ELSE pages[j]
    BY <1>1, ExceptSeq
  <1>3. DOMAIN pages = 1..Len(pages) /\ DOMAIN pages' = 1..Len(pages)
    BY <1>1, <1>2, LenProperties
  <1> QED
    BY <1>1, <1>2, <1>3

LEMMA PageFailsKeeps ==
  ASSUME ListTypes, NEW i \in UnderWay, PageFails(i)
  PROVE  ListTypes' /\ ~orderly'
  <1>1. pages' = [pages EXCEPT ![i] = None] /\ orderly' = FALSE /\ UNCHANGED <<org, repos, loading, cache>>
    BY DEF PageFails
  <1>2. /\ pages' \in Seq(Pages \cup {None}) /\ DOMAIN pages' = DOMAIN pages /\ pages'[i] = None
        /\ \A j \in DOMAIN pages : j # i => pages'[j] = pages[j]
    BY <1>1, PlaceTaken
  <1>3. \A j \in UnderWay' : j \in UnderWay /\ pages'[j] = pages[j]
    BY <1>2 DEF UnderWay
  <1>4. \A j \in UnderWay' : pages'[j].next = 0 \/ pages'[j].next \in 1..PagesOf[pages'[j].org]
    BY <1>3 DEF ListTypes
  <1> QED
    BY <1>1, <1>2, <1>4 DEF ListTypes

LEMMA PageArrivesTypes ==
  ASSUME ListTypes, NEW i \in UnderWay, PageArrives(i)
  PROVE  /\ ListTypes'
         /\ Len(pages') = Len(pages)
         /\ \A j \in UnderWay' : j \in UnderWay /\ (j # i => pages'[j] = pages[j])
         /\ IF pages[i].next > 0
            THEN i \in UnderWay' /\ pages'[i] = PageOf(pages[i].org, pages[i].next)
            ELSE i \notin UnderWay'
  <1> DEFINE page == pages[i]
             new == IF page.next > 0 THEN PageOf(page.org, page.next) ELSE None
  <1>1. /\ i \in UnderWay /\ i \in DOMAIN pages /\ page.org \in Orgs /\ page.items \in Seq(Repositories)
        /\ page.next = 0 \/ page.next \in 1..PagesOf[page.org]
    BY PagesType DEF UnderWay
  <1>2. /\ repos' = repos \o page.items
        /\ cache' = [cache EXCEPT ![page.org] = repos']
        /\ pages' = [pages EXCEPT ![i] = new]
        /\ loading' = (page.next > 0 /\ loading)
        /\ UNCHANGED <<org, orderly>>
    BY DEF PageArrives
  <1>3. new \in Pages \cup {None}
    BY <1>1, PageOfType
  <1>4. /\ page.next > 0 => new \in Pages /\ new.org = page.org /\ new # None
        /\ page.next > 0 => new.next = 0 \/ new.next \in 1..PagesOf[page.org]
        /\ ~(page.next > 0) => new = None
    BY <1>1, PageOfType, NoneAssumption
  <1> HIDE DEF page
  <1>5. /\ pages' \in Seq(Pages \cup {None}) /\ Len(pages') = Len(pages)
        /\ DOMAIN pages' = DOMAIN pages /\ pages'[i] = new
        /\ \A j \in DOMAIN pages : j # i => pages'[j] = pages[j]
    BY <1>2, <1>3, PlaceTaken
  <1>6. IF page.next > 0 THEN i \in UnderWay' /\ pages'[i] = PageOf(page.org, page.next) ELSE i \notin UnderWay'
    BY <1>1, <1>4, <1>5 DEF UnderWay
  <1> HIDE DEF new
  <1>7. \A j \in UnderWay' : j \in UnderWay /\ (j # i => pages'[j] = pages[j])
    BY <1>1, <1>5 DEF UnderWay
  <1>8. ASSUME NEW j \in UnderWay'
        PROVE  pages'[j].next = 0 \/ pages'[j].next \in 1..PagesOf[pages'[j].org]
    <2>1. CASE j = i
      BY <1>4, <1>5, <1>6, <2>1
    <2>2. CASE j # i
      BY <1>7, <2>2 DEF ListTypes
    <2> QED
      BY <2>1, <2>2
  <1>9. repos' \in Seq(Repositories)
    BY <1>1, <1>2, ConcatProperties DEF ListTypes
  <1>10. ListTypes'
    BY <1>1, <1>2, <1>5, <1>8, <1>9 DEF ListTypes
  <1> QED
    BY <1>5, <1>6, <1>7, <1>10 DEF page

(* The list that was kept, or one more page of the list.                   *)
LEMMA PageArrivesKeeps ==
  ASSUME ListTypes, ListsOK, NEW i \in UnderWay, PageArrives(i)
  PROVE  ListsOK'
  <1>1. /\ ListTypes' /\ Len(pages') = Len(pages)
        /\ \A j \in UnderWay' : j \in UnderWay
        /\ IF pages[i].next > 0
           THEN i \in UnderWay' /\ pages'[i] = PageOf(pages[i].org, pages[i].next)
           ELSE i \notin UnderWay'
    BY PageArrivesTypes
  <1>2. i = Len(pages) /\ \A j \in UnderWay' : j = i
    BY <1>1 DEF ListsOK
  <1>3. org \in Orgs /\ org # None /\ NextPage(pages[i]) /\ loading = TRUE
    <2>1. org # None
      <3>1. pages # <<>>
        BY PagesType, EmptySeq
      <3> QED
        BY <3>1 DEF ListsOK
    <2> QED
      BY <2>1 DEF ListsOK, ListTypes
  <1>4. /\ repos' = repos \o pages[i].items
        /\ cache' = [cache EXCEPT ![org] = repos']
        /\ loading' = (pages[i].next > 0) /\ UNCHANGED org
    BY <1>3 DEF PageArrives, NextPage
  <1>5. /\ cache'[org] = repos' /\ \A d \in Orgs : d # org => cache'[d] = cache[d]
        /\ \A d \in Orgs : d # org => IsListed(cache'[d], d) /\ (cache'[d] # <<>> => Len(cache'[d]) = PagesOf[d])
    BY <1>3, <1>4 DEF ListTypes, ListsOK
  <1>6. PagesOf[org] \in Nat \ {0}
    BY <1>3, PagesAssumption
  <1>7. UnderWay' = {} <=> ~(pages[i].next > 0)
    BY <1>1, <1>2
  <1>8. /\ IsListed(repos', org) /\ repos' # <<>>
        /\ UnderWay' = {} => Len(repos') = PagesOf[org]
        /\ \A j \in UnderWay' : NextPage(pages[j])'
    <2>1. CASE pages[i].cached
      <3>1. /\ repos = <<>> /\ pages[i].items = cache[org] /\ pages[i].next = 0
            /\ Len(cache[org]) = PagesOf[org]
        BY <1>3, <2>1 DEF NextPage
      <3>2. repos' = cache[org]
        BY <1>3, <1>4, <3>1, ConcatEmptySeq DEF ListTypes
      <3>3. IsListed(repos', org) /\ repos' # <<>>
        BY <1>3, <1>6, <3>1, <3>2, EmptySeq DEF ListsOK
      <3> QED
        BY <1>7, <3>1, <3>2, <3>3
    <2>2. CASE ~pages[i].cached
      <3> DEFINE p == Len(repos) + 1
      <3>1. /\ repos = cache[org] /\ Len(repos) < PagesOf[org] /\ pages[i] = PageOf(org, p)
        BY <1>3, <2>2 DEF NextPage
      <3>2. Len(repos) \in Nat /\ repos \in Seq(Repositories) /\ IsListed(repos, org)
        BY <1>3, <3>1, LenProperties DEF ListTypes, ListsOK
      <3>3. p \in 1..PagesOf[org]
        BY <1>6, <3>1, <3>2
      <3>4. /\ pages[i].items = <<<<org, p>>>>
            /\ pages[i].next = IF p < PagesOf[org] THEN p + 1 ELSE 0
            /\ pages[i].org = org
        BY <1>3, <3>1, <3>3, PageOfType
      <3>5. repos' = repos \o <<<<org, p>>>>
        BY <1>4, <3>4
      <3>6. IsListed(repos', org) /\ Len(repos') = p
        BY <1>3, <3>2, <3>3, <3>5, ListedNext
      <3>7. repos' # <<>>
        BY <3>2, <3>6, EmptySeq
      <3>8. UnderWay' = {} => p = PagesOf[org]
        BY <1>6, <1>7, <3>2, <3>3, <3>4
      <3>9. ASSUME NEW j \in UnderWay'
            PROVE  NextPage(pages[j])'
        <4>1. j = i /\ pages[i].next > 0
          BY <1>2, <1>7
        <4>2. p < PagesOf[org] /\ pages[i].next = p + 1
          BY <3>4, <4>1
        <4>3. pages'[j] = PageOf(org, Len(repos') + 1)
          BY <1>1, <3>4, <3>6, <4>1, <4>2
        <4>4. pages'[j].org = org /\ ~pages'[j].cached
          BY <4>3 DEF PageOf
        <4> QED
          BY <1>4, <1>5, <3>6, <4>2, <4>3, <4>4 DEF NextPage, PageOf
      <3> QED
        BY <3>6, <3>7, <3>8, <3>9
    <2> QED
      BY <1>3, <2>1, <2>2
  <1>9. ASSUME NEW d \in Orgs
        PROVE  /\ IsListed(cache'[d], d)
               /\ cache'[d] # <<>> /\ (d # org' \/ UnderWay' = {}) => Len(cache'[d]) = PagesOf[d]
    BY <1>4, <1>5, <1>8
  <1>10. loading' <=> UnderWay' # {}
    BY <1>4, <1>7
  <1>11. UnderWay' = {} => repos' = cache'[org'] /\ repos' # <<>>
    BY <1>4, <1>5, <1>8
  <1>12. org' # None
    BY <1>3, <1>4
  <1> QED
    BY <1>1, <1>2, <1>8, <1>9, <1>10, <1>11, <1>12 DEF ListsOK

LEMMA NextLists ==
  ASSUME ListTypes, orderly => ListsOK, [Next]_vars
  PROVE  ListTypes' /\ (orderly' => ListsOK')
  <1>1. CASE \E o \in Orgs : SelectOrganization(o)
    BY <1>1, SelectKeeps
  <1>2. CASE \E i \in UnderWay : PageFails(i)
    BY <1>2, PageFailsKeeps
  <1>3. CASE \E i \in UnderWay : PageArrives(i)
    <2>1. PICK i \in UnderWay : PageArrives(i)
      BY <1>3
    <2>2. orderly' = orderly
      BY <2>1 DEF PageArrives
    <2> QED
      BY <2>1, <2>2, PageArrivesTypes, PageArrivesKeeps
  <1>4. CASE UNCHANGED repoVars
    <2>1. UNCHANGED <<org, repos, loading, cache, pages, orderly>> /\ UnderWay' = UnderWay
      BY <1>4 DEF repoVars, UnderWay
    <2> QED
      BY <2>1 DEF ListTypes, ListsOK, NextPage
  <1> QED
    BY <1>1, <1>2, <1>3, <1>4, OnlyLists

-----------------------------------------------------------------------------
(* The invariant and the theorems.                                         *)

LEMMA InitHolds ==
  Init => IInv
  <1> SUFFICES ASSUME Init
               PROVE  IInv
    OBVIOUS
  <1>1. StepsOK
    <2>1. PICK st \in {"credential", "loading"} : steps = <<st>>
      BY DEF Init
    <2>2. st \in States
      BY RankOfState
    <2>3. steps \in Seq(States) /\ DOMAIN steps = 1..1
      BY <2>1, <2>2
    <2> QED
      BY <2>3 DEF StepsOK, StepsInOrder
  <1>2. /\ <<>> \in Seq(Repositories) /\ <<>> \in Seq(Pages \cup {None}) /\ <<>> \in Seq(Creates)
        /\ DOMAIN <<>> = {}
    BY EmptySeq
  <1>3. UnderWay = {}
    BY <1>2 DEF Init, UnderWay
  <1>4. ListTypes /\ ListsOK
    BY <1>2, <1>3 DEF Init, ListTypes, ListsOK, IsListed
  <1>5. NameTypes
    <2>1. exists \subseteq Names
      BY DEF Init
    <2> QED
      BY <1>2, <2>1 DEF Init, NameTypes
  <1>6. SuccessKnown
    <2>1. \A j \in DOMAIN steps : steps[j] # "success"
      BY DEF Init
    <2> QED
      BY <2>1 DEF Init, SuccessKnown, Shown
  <1> QED
    BY <1>1, <1>4, <1>5, <1>6 DEF IInv

(* "success" is shown by the event of a run of a pipeline of the name the  *)
(* page waits for, which notes the pipeline, or when git has fetched it.   *)
LEMMA NextSuccess ==
  ASSUME IInv, [Next]_vars
  PROVE  StepsOK' /\ SuccessKnown'
  <1>1. /\ StepsOK /\ NameTypes /\ None \notin Names
        /\ branchGets > 0 => flow = "git"
        /\ flow \in Bitbucket /\ Shown("success") => pipeline # None
    BY NoneAssumption DEF IInv, SuccessKnown
  <1>2. NamesStep
    BY <1>1, NextNames
  <1>3. branchGets' > 0 => flow' = "git"
    BY <1>1, <1>2 DEF NamesStep
  <1>4. CASE Shows(Unsuccessful)
    <2>1. Unsuccessful \in SUBSET States /\ "success" \notin Unsuccessful
      BY DEF Unsuccessful
    <2>2. StepsOK' /\ \A i \in DOMAIN steps' :
                        steps'[i] \in Unsuccessful \/ \E j \in DOMAIN steps : steps[j] = steps'[i]
      BY <1>1, <1>4, <2>1, ShowsKeeps
    <2>3. Shown("success")' => Shown("success")
      BY <2>1, <2>2 DEF Shown
    <2> QED
      BY <1>1, <1>2, <1>3, <2>2, <2>3 DEF NamesStep, SuccessKnown
  <1>5. CASE RunEvent /\ Shows(States)
    <2>1. StepsOK'
      BY <1>1, <1>5, ShowsKeeps
    <2>2. flow' \in Bitbucket => pipeline' = name /\ name \in Names
      BY <1>1, <1>2, <1>5 DEF RunEvent, NamesStep, NameTypes
    <2> QED
      BY <1>1, <1>3, <2>1, <2>2 DEF SuccessKnown
  <1>6. CASE GitFetched /\ Shows(States)
    <2>1. StepsOK'
      BY <1>1, <1>6, ShowsKeeps
    <2>2. flow' = "git" /\ "git" \notin Bitbucket
      BY <1>1, <1>2, <1>6 DEF GitFetched, NamesStep, Bitbucket
    <2> QED
      BY <1>3, <2>1, <2>2 DEF SuccessKnown
  <1> QED
    BY <1>4, <1>5, <1>6, NextShows

LEMMA NextHolds ==
  IInv /\ [Next]_vars => IInv'
  <1> SUFFICES ASSUME IInv, [Next]_vars
               PROVE  IInv'
    OBVIOUS
  <1>1. StepsOK' /\ SuccessKnown'
    BY NextSuccess
  <1>2. ListTypes' /\ (orderly' => ListsOK')
    BY NextLists DEF IInv
  <1>3. NameTypes'
    BY NextNames DEF IInv, NamesStep
  <1> QED
    BY <1>1, <1>2, <1>3 DEF IInv

LEMMA Invariant ==
  Spec => []IInv
  BY InitHolds, NextHolds, PTL DEF Spec

(* FlowManager.renderStep: the steps on the page are in the order of the   *)
(* flow, each at most once.                                                *)
THEOREM StepsInOrderHolds ==
  Spec => []StepsInOrder
  <1>1. IInv => StepsInOrder
    BY DEF IInv, StepsOK
  <1> QED
    BY <1>1, Invariant, PTL

(* _updateRepositories: the list on the page holds the repositories of the *)
(* chosen organization and each once, all of them when it stops loading,   *)
(* and so does every list that was kept: for any number of organizations   *)
(* and pages, chosen any number of times.                                  *)
THEOREM RepositoriesOfOrgHolds ==
  Spec => []RepositoriesOfOrg
  <1>1. IInv => RepositoriesOfOrg
    <2> SUFFICES ASSUME IInv, orderly, org # None
                 PROVE  /\ IsListed(repos, org)
                        /\ ~loading => Len(repos) = PagesOf[org]
                        /\ \A o \in Orgs : IsListed(cache[o], o)
      BY DEF RepositoriesOfOrg
    <2>1. ListsOK /\ org \in Orgs
      BY DEF IInv, ListTypes
    <2>2. \A o \in Orgs : IsListed(cache[o], o)
      BY <2>1 DEF ListsOK
    <2>3. CASE UnderWay = {}
      <3>1. repos = cache[org] /\ repos # <<>> /\ Len(cache[org]) = PagesOf[org]
        BY <2>1, <2>3 DEF ListsOK
      <3> QED
        BY <2>1, <2>2, <3>1
    <2>4. CASE UnderWay # {}
      <3>1. PICK i \in UnderWay : NextPage(pages[i])
        BY <2>1, <2>4 DEF ListsOK
      <3>2. repos = <<>> \/ repos = cache[org]
        BY <3>1 DEF NextPage
      <3>3. IsListed(<<>>, org)
        BY EmptySeq DEF IsListed
      <3>4. loading
        BY <2>1, <2>4 DEF ListsOK
      <3>5. IsListed(repos, org)
        BY <2>1, <2>2, <3>2, <3>3
      <3> QED
        BY <2>2, <3>4, <3>5
    <2> QED
      BY <2>3, <2>4
  <1> QED
    BY <1>1, Invariant, PTL

(* BbCompleteStep.navigatePipeline: a flow of Bitbucket that has succeeded *)
(* knows the pipeline it is to show, whatever came first, the answer of    *)
(* the server or the event of the run.                                     *)
THEOREM KnowsWhereToGoHolds ==
  Spec => []KnowsWhereToGo
  <1>1. IInv => KnowsWhereToGo
    <2> SUFFICES ASSUME IInv, flow \in Bitbucket, Added(steps, "success")
                 PROVE  pipeline # None
      BY DEF KnowsWhereToGo
    <2>1. steps \in Seq(States) /\ DOMAIN steps = 1..Len(steps)
      BY LenProperties DEF IInv, StepsOK
    <2>2. At(steps, "success") \in DOMAIN steps /\ steps[At(steps, "success")] = "success"
      BY <2>1, AtAdded
    <2> QED
      BY <2>2 DEF IInv, SuccessKnown, Shown
  <1> QED
    BY <1>1, Invariant, PTL
=============================================================================
