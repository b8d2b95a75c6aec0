-------------------------- MODULE FavoritesProofs --------------------------
(***************************************************************************)
(* Theorems about Favorites, for any jobs and buttons and any bounds: the  *)
(* names are the user's favorites, the cards are those of the favorites    *)
(* and show how their runs stand.                                          *)
(***************************************************************************)
EXTENDS Favorites, DataFacts, FiniteSetTheorems

Lists == [Jobs -> Shown \cup {None}]
News == [job : Jobs, what : Shown]
Puts == [id : Nat, job : Jobs, favorite : BOOLEAN, phase : {"asked", "served"}]
Gets == [phase : {"idle", "asked", "served"}, told : Seq(Shown), state : Shown]
Promises == [phase : {"idle", "asked", "served"}, callers : Nat, data : Lists \cup {None}]
Live == {"running", "paused", "finished"}

Types ==
    /\ favorites \in SUBSET Jobs
    /\ run \in [Jobs -> Shown]
    /\ events \in Seq(News)
    /\ names \in Seq(Jobs)
    /\ cards \in Lists
    /\ mounted => fetched
    /\ prefetched \in Lists \cup {None}
    /\ list \in Promises
    /\ list.phase = "served" => list.data \in Lists
    /\ list.phase # "idle" => list.callers > 0
    /\ arrived \in Seq(Lists)
    /\ runGet \in [Jobs -> Gets]
    /\ \A j \in Jobs : runGet[j].phase # "idle" => runGet[j].told # <<>>
    /\ heard \in Seq(News)
    /\ puts \in SUBSET Puts
    /\ \A p, q \in puts : p.id = q.id => p = q

\* A click on j has reached Jenkins, and the page has not heard of it.
Served(j) == \E p \in puts : p.job = j /\ p.phase = "served"

\* One request at a time for a job, unless clicks on it overlapped.
PutsOK == \A p, q \in puts : p.job = q.job /\ p.job \notin overlapped => p = q

\* Jenkins has done what a served request asked for, and knows no favorite that
\* the page will not know once the requests are answered.
KnownOK ==
    "put" \notin failed =>
        \A j \in Jobs \ overlapped :
            /\ \A p \in puts : p.job = j /\ p.phase = "served" =>
                 p.favorite = (j \in favorites)
            /\ j \in favorites /\ ~Served(j) => j \in Range(names)

\* Without overlaps every request changes the names.
NamesOK ==
    "put" \notin failed /\ overlapped = {} =>
        /\ IsInjective(names)
        /\ \A p \in puts : p.favorite = (p.job \notin Range(names))
        /\ \A j \in Jobs : ~Served(j) => (j \in favorites) = (j \in Range(names))

\* The list that the page shows, or one of those it is going to show.
InSight(c) ==
    \/ ~ListUnderWay /\ c = cards
    \/ list.phase = "served" /\ c = list.data
    \/ \E i \in DOMAIN arrived : c = arrived[i]

Agrees(c, j) == (c[j] # None) = (j \in favorites)

CardsOK ==
    mounted /\ ~crossed /\ failed \cap {"put", "list"} = {} =>
        \A j \in Jobs, c \in Lists : ~Served(j) /\ InSight(c) => Agrees(c, j)

LastOf(s, i) == \A k \in DOMAIN s : s[k].job = s[i].job => k <= i
NewsOf(s, j) == \E i \in DOMAIN s : s[i].job = j

\* The last event of a job tells how its run stands.
EventsOK == \A i \in DOMAIN events : LastOf(events, i) => events[i].what = run[events[i].job]

\* When no more events of a job are to come, the last of those who read its
\* run was told how it stands.
ReadsOK ==
    "run" \notin failed =>
        \A j \in Jobs \ shuffled : ~NewsOf(events, j) /\ run[j] \in Live =>
            /\ runGet[j].told # <<>> => Last(runGet[j].told) = run[j]
            /\ runGet[j].told = <<>> =>
                 \A i \in DOMAIN heard :
                     heard[i].job = j /\ LastOf(heard, i) => heard[i].what = run[j]

\* And when they are done, every list in sight shows how it stands.
StatesOK ==
    mounted /\ ~crossed /\ failed = {} =>
        \A j \in Jobs \ (missed \cup shuffled \cup overlapped), c \in Lists :
            /\ ~Served(j) /\ ~NewsOf(events, j) /\ ~BeingRead(j) /\ run[j] \in Live
            /\ InSight(c)
            => c[j] \in {None, run[j]}

IInv ==
    /\ Types /\ PutsOK /\ KnownOK /\ NamesOK /\ CardsOK
    /\ EventsOK /\ ReadsOK /\ StatesOK

-----------------------------------------------------------------------------
(* Names and news. *)

\* A sequence of names and the set of them.
LEMMA Names ==
    ASSUME NEW ns \in Seq(Jobs)
    PROVE  /\ Len(ns) \in Nat /\ DOMAIN ns = 1..Len(ns)
           /\ \A i \in 1..Len(ns) : ns[i] \in Jobs /\ ns[i] \in Range(ns)
           /\ \A j \in Range(ns) : j \in Jobs /\ \E i \in 1..Len(ns) : ns[i] = j
  BY LenProperties, ElementOfSeq DEF Range

\* Append: a name that is new stays single.
LEMMA NameAdded ==
    ASSUME NEW ns \in Seq(Jobs), NEW j \in Jobs
    PROVE  /\ Append(ns, j) \in Seq(Jobs)
           /\ \A k \in Jobs : k \in Range(Append(ns, j)) <=> k \in Range(ns) \/ k = j
           /\ IsInjective(ns) /\ j \notin Range(ns) => IsInjective(Append(ns, j))
  <1> DEFINE t == Append(ns, j)
             n == Len(ns)
  <1>1. /\ t \in Seq(Jobs) /\ Len(t) = n + 1
        /\ \A i \in 1..n : t[i] = ns[i]
        /\ t[n + 1] = j
    BY AppendProperties
  <1> HIDE DEF t
  <1>2. n \in Nat /\ DOMAIN ns = 1..n /\ DOMAIN t = 1..(n + 1)
    BY <1>1, LenProperties
  <1>3. \A i \in 1..(n + 1) : i \in 1..n \/ i = n + 1
    BY <1>2
  <1>4. \A i \in 1..n : i \in 1..(n + 1)
    BY <1>2
  <1>5. n + 1 \in 1..(n + 1)
    BY <1>2
  <1> HIDE DEF n
  <1>6. \A k \in Jobs : k \in Range(t) <=> k \in Range(ns) \/ k = j
    BY <1>1, <1>2, <1>3, <1>4, <1>5 DEF Range
  <1>7. ASSUME IsInjective(ns), j \notin Range(ns) PROVE IsInjective(t)
    <2>1. \A i \in 1..n : ns[i] # j
      BY <1>2, <1>7 DEF Range
    <2> SUFFICES ASSUME NEW a \in 1..(n + 1), NEW b \in 1..(n + 1), t[a] = t[b]
                 PROVE  a = b
      BY <1>2 DEF IsInjective
    <2> QED
      BY <1>1, <1>2, <1>3, <1>7, <2>1 DEF IsInjective
  <1> QED
    BY <1>1, <1>6, <1>7 DEF t

\* removeFavorite (Without) takes no other name away; and takes the name away,
\* when every name is there once.
LEMMA NameTaken ==
    ASSUME NEW ns \in Seq(Jobs), NEW j \in Jobs
    PROVE  /\ Without(ns, j) \in Seq(Jobs)
           /\ \A k \in Jobs : k \in Range(ns) /\ k # j => k \in Range(Without(ns, j))
           /\ j \in Range(ns) /\ IsInjective(ns) =>
                /\ IsInjective(Without(ns, j))
                /\ \A k \in Jobs : k \in Range(Without(ns, j)) <=> k \in Range(ns) /\ k # j
  <1> DEFINE n == Len(ns)
             t == Without(ns, j)
  <1>1. n \in Nat /\ DOMAIN ns = 1..n
    BY LenProperties
  <1>2. CASE j \in Range(ns)
    <2> DEFINE I == {i \in 1..n : ns[i] = j}
               m == Min(I)
    <2>1. I \in SUBSET Nat /\ I # {}
      BY <1>1, <1>2 DEF Range
    <2>2. m \in I
      <3> HIDE DEF I
      <3>1. \E i \in I : \A k \in I : i <= k
        BY <2>1, LeastExists
      <3> QED
        BY <3>1 DEF Min
    <2>3. m \in 1..n /\ ns[m] = j
      BY <2>2
    <2>4. t = SubSeq(ns, 1, m - 1) \o SubSeq(ns, m + 1, n)
      BY <1>2, <2>1 DEF Without, SelectInSeq, RemoveAt
    <2> HIDE DEF m, I, t
    <2>5. /\ t \in Seq(Jobs) /\ Len(t) = n - 1
          /\ \A i \in 1..(n - 1) : t[i] = IF i < m THEN ns[i] ELSE ns[i + 1]
      BY <2>3, <2>4, WithoutPlace
    <2>6. DOMAIN t = 1..(n - 1)
      BY <2>5, LenProperties
    <2>7. ASSUME NEW k \in Jobs, k \in Range(ns), k # j PROVE k \in Range(t)
      <3>1. PICK i \in 1..n : ns[i] = k
        BY <1>1, <2>7 DEF Range
      <3>2. CASE i < m
        <4>1. i \in 1..(n - 1) /\ t[i] = k
          BY <1>1, <2>3, <2>5, <3>1, <3>2
        <4> QED
          BY <2>6, <4>1 DEF Range
      <3>3. CASE i > m
        <4>1. i - 1 \in 1..(n - 1) /\ ~(i - 1 < m) /\ (i - 1) + 1 = i
          BY <1>1, <2>3, <3>1, <3>3
        <4>2. t[i - 1] = k
          BY <2>5, <3>1, <4>1
        <4> QED
          BY <2>6, <4>1, <4>2 DEF Range
      <3>4. i # m
        BY <2>3, <2>7, <3>1
      <3> QED
        BY <1>1, <2>3, <3>2, <3>3, <3>4
    <2>8. ASSUME IsInjective(ns)
          PROVE  /\ IsInjective(t)
                 /\ \A k \in Jobs : k \in Range(t) => k \in Range(ns) /\ k # j
      <3>1. \A i \in 1..(n - 1) : i \in 1..n /\ i + 1 \in 1..n
        BY <1>1
      <3>2. \A a, b \in 1..n : ns[a] = ns[b] => a = b
        BY <1>1, <2>8 DEF IsInjective
      <3>3. ASSUME NEW a \in 1..(n - 1), NEW b \in 1..(n - 1), t[a] = t[b]
            PROVE  a = b
        <4>1. (IF a < m THEN a ELSE a + 1) = (IF b < m THEN b ELSE b + 1)
          BY <2>5, <3>1, <3>2, <3>3
        <4> QED
          BY <1>1, <2>3, <4>1
      <3>4. IsInjective(t)
        BY <2>6, <3>3 DEF IsInjective
      <3>5. ASSUME NEW i \in 1..(n - 1)
            PROVE  \E k \in 1..n : k # m /\ t[i] = ns[k]
        <4>1. i \in 1..n /\ i + 1 \in 1..n /\ t[i] = IF i < m THEN ns[i] ELSE ns[i + 1]
          BY <2>5, <3>1
        <4>2. IF i < m THEN i # m ELSE i + 1 # m
          BY <1>1, <2>3
        <4> QED
          BY <4>1, <4>2
      <3>6. \A k \in Range(t) : k \in Range(ns) /\ k # j
        <4> SUFFICES ASSUME NEW i \in 1..(n - 1)
                     PROVE  t[i] \in Range(ns) /\ t[i] # j
          BY <2>6 DEF Range
        <4> QED
          BY <1>1, <2>3, <3>2, <3>5 DEF Range
      <3> QED
        BY <3>4, <3>6
    <2> QED
      BY <2>5, <2>7, <2>8 DEF t
  <1>3. CASE j \notin Range(ns)
    <2> DEFINE f == Front(ns)
    <2>1. t = f \o ns
      BY <1>3 DEF Without
    <2>2. f \in Seq(Jobs) /\ Len(f) \in Nat
      <3>1. 1 \in Int /\ n - 1 \in Int /\ \A i \in 1..(n - 1) : ns[i] \in Jobs
        BY <1>1, ElementOfSeq
      <3>2. f \in Seq(Jobs)
        BY <3>1, SubSeqProperties DEF Front
      <3> QED
        BY <3>2, LenProperties
    <2> HIDE DEF f, t
    <2>3. /\ t \in Seq(Jobs) /\ Len(t) = Len(f) + n
          /\ \A i \in 1..(Len(f) + n) : t[i] = IF i <= Len(f) THEN f[i] ELSE ns[i - Len(f)]
      BY <2>1, <2>2, ConcatProperties
    <2>4. DOMAIN t = 1..(Len(f) + n)
      BY <2>3, LenProperties
    <2>5. ASSUME NEW k \in Jobs, k \in Range(ns) PROVE k \in Range(t)
      <3>1. PICK i \in 1..n : ns[i] = k
        BY <1>1, <2>5 DEF Range
      <3>2. /\ Len(f) + i \in 1..(Len(f) + n) /\ ~(Len(f) + i <= Len(f))
            /\ (Len(f) + i) - Len(f) = i
        BY <1>1, <2>2, <3>1
      <3>3. t[Len(f) + i] = k
        BY <2>3, <3>1, <3>2
      <3> QED
        BY <2>4, <3>2, <3>3 DEF Range
    <2> QED
      BY <1>3, <2>3, <2>5 DEF t
  <1> QED
    BY <1>2, <1>3

\* A sequence of news and its places.
LEMMA NewsPlaces ==
    ASSUME NEW s \in Seq(News)
    PROVE  /\ Len(s) \in Nat /\ DOMAIN s = 1..Len(s)
           /\ \A i \in 1..Len(s) : s[i] \in News /\ s[i].job \in Jobs /\ s[i].what \in Shown
  <1>1. \A i \in 1..Len(s) : s[i] \in News
    BY ElementOfSeq
  <1> QED
    BY <1>1, LenProperties DEF News

\* News that are added come last.
LEMMA NewsAdded ==
    ASSUME NEW s \in Seq(News), NEW e \in News
    PROVE  /\ Append(s, e) \in Seq(News)
           /\ NewsOf(Append(s, e), e.job)
           /\ \A j : NewsOf(Append(s, e), j) => NewsOf(s, j) \/ j = e.job
           /\ \A j : NewsOf(s, j) => NewsOf(Append(s, e), j)
           /\ \A i \in DOMAIN Append(s, e) : LastOf(Append(s, e), i) =>
                \/ Append(s, e)[i] = e
                \/ /\ i \in DOMAIN s /\ LastOf(s, i)
                   /\ Append(s, e)[i] = s[i] /\ s[i].job # e.job
  <1> DEFINE t == Append(s, e)
             n == Len(s)
  <1>1. /\ t \in Seq(News) /\ Len(t) = n + 1
        /\ \A i \in 1..n : t[i] = s[i]
        /\ t[n + 1] = e
    BY AppendProperties
  <1> HIDE DEF t
  <1>2. n \in Nat /\ DOMAIN s = 1..n /\ DOMAIN t = 1..(n + 1)
    BY <1>1, LenProperties
  <1> HIDE DEF n
  <1>3. /\ \A i \in 1..(n + 1) : i \in 1..n \/ i = n + 1
        /\ \A i \in 1..n : i \in 1..(n + 1) /\ ~(n + 1 <= i)
        /\ n + 1 \in 1..(n + 1)
    BY <1>2
  <1>4. NewsOf(t, e.job) /\ \A j : NewsOf(t, j) => NewsOf(s, j) \/ j = e.job
    BY <1>1, <1>2, <1>3 DEF NewsOf
  <1>5. \A j : NewsOf(s, j) => NewsOf(t, j)
    BY <1>1, <1>2, <1>3 DEF NewsOf
  <1>6. ASSUME NEW i \in 1..(n + 1), LastOf(t, i), i # n + 1
        PROVE  i \in 1..n /\ LastOf(s, i) /\ t[i] = s[i] /\ s[i].job # e.job
    <2>1. i \in 1..n /\ t[i] = s[i] /\ ~(n + 1 <= i)
      BY <1>1, <1>3, <1>6
    <2>2. s[i].job # e.job
      BY <1>1, <1>2, <1>3, <1>6, <2>1 DEF LastOf
    <2>3. LastOf(s, i)
      BY <1>1, <1>2, <1>3, <1>6, <2>1 DEF LastOf
    <2> QED
      BY <2>1, <2>2, <2>3
  <1> QED
    BY <1>1, <1>2, <1>4, <1>5, <1>6 DEF t

\* The first news are taken.
LEMMA NewsTaken ==
    ASSUME NEW s \in Seq(News), s # <<>>
    PROVE  /\ Tail(s) \in Seq(News) /\ Head(s) \in News /\ Head(s) = s[1] /\ 1 \in DOMAIN s
           /\ \A j : NewsOf(s, j) => NewsOf(Tail(s), j) \/ j = Head(s).job
           /\ \A j : NewsOf(Tail(s), j) => NewsOf(s, j)
           /\ ~NewsOf(Tail(s), Head(s).job) => LastOf(s, 1)
           /\ \A i \in DOMAIN Tail(s) : LastOf(Tail(s), i) =>
                i + 1 \in DOMAIN s /\ LastOf(s, i + 1) /\ Tail(s)[i] = s[i + 1]
  <1> DEFINE t == Tail(s)
             n == Len(s)
  <1>1. /\ t \in Seq(News) /\ Len(t) = n - 1 /\ Head(s) \in News /\ Head(s) = s[1]
        /\ n \in Nat \ {0}
        /\ \A i \in 1..Len(t) : t[i] = s[i + 1]
    BY HeadTailProperties, EmptySeq
  <1> HIDE DEF t
  <1>2. DOMAIN s = 1..n /\ DOMAIN t = 1..(n - 1)
    BY <1>1, LenProperties
  <1> HIDE DEF n
  <1>3. /\ \A i \in 1..(n - 1) : i + 1 \in 1..n /\ t[i] = s[i + 1]
        /\ \A i \in 1..n : i = 1 \/ (i - 1 \in 1..(n - 1) /\ (i - 1) + 1 = i)
        /\ 1 \in 1..n
    BY <1>1
  <1>4. \A i \in 1..n : i = 1 \/ (i - 1 \in 1..(n - 1) /\ t[i - 1] = s[i])
    BY <1>3
  <1>5. \A j : NewsOf(s, j) => NewsOf(t, j) \/ j = Head(s).job
    BY <1>1, <1>2, <1>4 DEF NewsOf
  <1>6. \A j : NewsOf(t, j) => NewsOf(s, j)
    BY <1>2, <1>3 DEF NewsOf
  <1>7. ~NewsOf(t, Head(s).job) => LastOf(s, 1)
    <2> SUFFICES ASSUME ~NewsOf(t, Head(s).job), NEW k \in 1..n, s[k].job = s[1].job
                 PROVE  k <= 1
      BY <1>2 DEF LastOf
    <2>1. k # 1 => k - 1 \in 1..(n - 1) /\ t[k - 1].job = Head(s).job
      BY <1>1, <1>4
    <2>2. k = 1
      BY <1>2, <2>1 DEF NewsOf
    <2> QED
      BY <2>2
  <1>8. ASSUME NEW i \in 1..(n - 1), LastOf(t, i)
        PROVE  i + 1 \in 1..n /\ LastOf(s, i + 1) /\ t[i] = s[i + 1]
    <2> SUFFICES ASSUME NEW k \in 1..n, s[k].job = s[i + 1].job
                 PROVE  k <= i + 1
      BY <1>2, <1>3 DEF LastOf
    <2>1. CASE k = 1
      BY <1>1, <2>1
    <2>2. CASE k # 1
      <3>1. k - 1 \in 1..(n - 1) /\ t[k - 1].job = t[i].job
        BY <1>3, <1>4, <2>2
      <3>2. k - 1 <= i
        BY <1>2, <1>8, <3>1 DEF LastOf
      <3> QED
        BY <1>1, <3>2
    <2> QED
      BY <2>1, <2>2
  <1> QED
    BY <1>1, <1>2, <1>3, <1>5, <1>6, <1>7, <1>8 DEF t

\* News are taken out of their turn.
LEMMA NewsRemoved ==
    ASSUME NEW s \in Seq(News), NEW i \in DOMAIN s
    PROVE  /\ RemoveAt(s, i) \in Seq(News)
           /\ \A j : NewsOf(s, j) => NewsOf(RemoveAt(s, i), j) \/ j = s[i].job
           /\ \A j : NewsOf(RemoveAt(s, i), j) => NewsOf(s, j)
           /\ ~NewsOf(RemoveAt(s, i), s[i].job) => LastOf(s, i)
           /\ \A k \in DOMAIN RemoveAt(s, i) : LastOf(RemoveAt(s, i), k) =>
                \E m \in DOMAIN s :
                    /\ RemoveAt(s, i)[k] = s[m]
                    /\ LastOf(s, m) \/ (s[m].job = s[i].job /\ m \in 1..(i - 1))
  <1> DEFINE t == RemoveAt(s, i)
             n == Len(s)
  <1>1. n \in Nat /\ DOMAIN s = 1..n /\ i \in 1..n
    BY LenProperties
  <1>2. /\ t \in Seq(News) /\ Len(t) = n - 1
        /\ \A k \in 1..(n - 1) : t[k] = IF k < i THEN s[k] ELSE s[k + 1]
    BY <1>1, WithoutPlace DEF RemoveAt
  <1> HIDE DEF t
  <1>3. DOMAIN t = 1..(n - 1)
    BY <1>2, LenProperties
  <1> HIDE DEF n
  <1>4. \A k \in 1..(n - 1) :
          \E m \in 1..n : m # i /\ t[k] = s[m] /\ m = (IF k < i THEN k ELSE k + 1)
    <2> SUFFICES ASSUME NEW k \in 1..(n - 1)
                 PROVE  \E m \in 1..n : m # i /\ t[k] = s[m] /\ m = (IF k < i THEN k ELSE k + 1)
      OBVIOUS
    <2>1. CASE k < i
      <3>1. k \in 1..n /\ k # i /\ t[k] = s[k]
        BY <1>1, <1>2, <2>1
      <3> QED
        BY <2>1, <3>1
    <2>2. CASE ~(k < i)
      <3>1. k + 1 \in 1..n /\ k + 1 # i /\ t[k] = s[k + 1]
        BY <1>1, <1>2, <2>2
      <3> QED
        BY <2>2, <3>1
    <2> QED
      BY <2>1, <2>2
  <1>5. \A m \in 1..n : m # i =>
          \E k \in 1..(n - 1) : t[k] = s[m] /\ k = (IF m < i THEN m ELSE m - 1)
    <2> SUFFICES ASSUME NEW m \in 1..n, m # i
                 PROVE  \E k \in 1..(n - 1) : t[k] = s[m] /\ k = (IF m < i THEN m ELSE m - 1)
      OBVIOUS
    <2>1. CASE m < i
      <3>1. m \in 1..(n - 1) /\ t[m] = s[m]
        BY <1>1, <1>2, <2>1
      <3> QED
        BY <2>1, <3>1
    <2>2. CASE ~(m < i)
      <3>1. m - 1 \in 1..(n - 1) /\ ~(m - 1 < i) /\ (m - 1) + 1 = m
        BY <1>1, <2>2
      <3>2. t[m - 1] = s[m]
        BY <1>2, <3>1
      <3> QED
        BY <2>2, <3>1, <3>2
    <2> QED
      BY <2>1, <2>2
  <1>6. \A j : NewsOf(s, j) => NewsOf(t, j) \/ j = s[i].job
    BY <1>1, <1>3, <1>5 DEF NewsOf
  <1>7. \A j : NewsOf(t, j) => NewsOf(s, j)
    BY <1>1, <1>3, <1>4 DEF NewsOf
  <1>8. ~NewsOf(t, s[i].job) => LastOf(s, i)
    <2> SUFFICES ASSUME ~NewsOf(t, s[i].job), NEW k \in 1..n, s[k].job = s[i].job
                 PROVE  k <= i
      BY <1>1 DEF LastOf
    <2>1. k = i
      BY <1>3, <1>5 DEF NewsOf
    <2> QED
      BY <1>1, <2>1
  <1>9. ASSUME NEW k \in 1..(n - 1), LastOf(t, k)
        PROVE  \E m \in 1..n :
                 t[k] = s[m] /\ (LastOf(s, m) \/ (s[m].job = s[i].job /\ m \in 1..(i - 1)))
    <2>1. PICK m \in 1..n : m # i /\ t[k] = s[m] /\ m = (IF k < i THEN k ELSE k + 1)
      BY <1>4
    <2>2. ASSUME ~LastOf(s, m)
          PROVE  s[m].job = s[i].job /\ m \in 1..(i - 1)
      <3>1. PICK l \in 1..n : s[l].job = s[m].job /\ ~(l <= m)
        BY <1>1, <2>2 DEF LastOf
      <3>2. l = i
        <4> SUFFICES ASSUME l # i PROVE FALSE
          OBVIOUS
        <4>1. PICK h \in 1..(n - 1) : t[h] = s[l] /\ h = (IF l < i THEN l ELSE l - 1)
          BY <1>5
        <4>2. t[h].job = t[k].job
          BY <2>1, <3>1, <4>1
        <4>3. h <= k
          BY <1>3, <1>9, <4>2 DEF LastOf
        <4> QED
          BY <1>1, <2>1, <3>1, <4>1, <4>3
      <3> QED
        BY <1>1, <3>1, <3>2
    <2> QED
      BY <2>1, <2>2
  <1> QED
    BY <1>1, <1>2, <1>3, <1>6, <1>7, <1>8, <1>9 DEF t

\* Everyone who read a run waits for a lookup: what told them comes last.
LEMMA NewsOfReaders ==
    ASSUME NEW s \in Seq(News), NEW j \in Jobs, NEW told \in Seq(Shown), told # <<>>
    PROVE  LET t == s \o [i \in DOMAIN told |-> [job |-> j, what |-> told[i]]]
           IN /\ t \in Seq(News)
              /\ NewsOf(t, j)
              /\ \A k : NewsOf(t, k) => NewsOf(s, k) \/ k = j
              /\ \A k : NewsOf(s, k) => NewsOf(t, k)
              /\ \A i \in DOMAIN t : LastOf(t, i) =>
                   \/ t[i].job = j /\ t[i].what = Last(told)
                   \/ i \in DOMAIN s /\ LastOf(s, i) /\ t[i] = s[i] /\ s[i].job # j
  <1> DEFINE n == Len(s)
             m == Len(told)
             r == [i \in DOMAIN told |-> [job |-> j, what |-> told[i]]]
             t == s \o r
  <1>1. m \in Nat \ {0} /\ DOMAIN told = 1..m /\ \A i \in 1..m : told[i] \in Shown
    BY EmptySeq, LenProperties, ElementOfSeq
  <1>2. n \in Nat /\ DOMAIN s = 1..n
    BY LenProperties
  <1>3. \A i \in 1..m : r[i] = [job |-> j, what |-> told[i]]
    BY <1>1
  <1>4. r \in Seq(News) /\ Len(r) = m
    <2>1. r \in [1..m -> News]
      BY <1>1, <1>3 DEF News
    <2>2. r \in Seq(News)
      BY <1>1, <2>1, SeqDef
    <2>3. DOMAIN r = 1..m
      BY <2>1
    <2>4. Len(r) \in Nat /\ DOMAIN r = 1..Len(r)
      BY <2>2, LenProperties
    <2> QED
      BY <1>1, <2>2, <2>3, <2>4
  <1> HIDE DEF r
  <1>5. /\ t \in Seq(News) /\ Len(t) = n + m
        /\ \A i \in 1..(n + m) : t[i] = IF i <= n THEN s[i] ELSE r[i - n]
    <2>1. /\ s \o r \in Seq(News) /\ Len(s \o r) = Len(s) + Len(r)
          /\ \A i \in 1..(Len(s) + Len(r)) :
               (s \o r)[i] = IF i <= Len(s) THEN s[i] ELSE r[i - Len(s)]
      <3> HIDE DEF m
      <3> QED
        BY <1>4, ConcatProperties
    <2> QED
      BY <1>4, <2>1, Zenon
  <1> HIDE DEF t
  <1>6. DOMAIN t = 1..(n + m)
    BY <1>5, LenProperties
  <1>7. Last(told) = told[m]
    BY DEF Last
  <1> HIDE DEF n, m
  <1>8. ASSUME NEW i \in 1..n
        PROVE  i \in 1..(n + m) /\ t[i] = s[i] /\ ~(n + m <= i)
    <2>1. i \in 1..(n + m) /\ i <= n /\ ~(n + m <= i)
      BY <1>1, <1>2
    <2> QED
      BY <1>5, <2>1
  <1>9. ASSUME NEW i \in 1..(n + m), i \notin 1..n
        PROVE  i - n \in 1..m /\ t[i] = [job |-> j, what |-> told[i - n]]
    <2>1. i - n \in 1..m /\ ~(i <= n)
      BY <1>1, <1>2, <1>9
    <2> QED
      BY <1>3, <1>5, <2>1
  <1>10. /\ n + m \in 1..(n + m) /\ n + m \notin 1..n
         /\ t[n + m].job = j /\ t[n + m].what = Last(told)
    <2>1. n + m \in 1..(n + m) /\ n + m \notin 1..n /\ (n + m) - n = m
      BY <1>1, <1>2
    <2>2. t[n + m] = [job |-> j, what |-> told[(n + m) - n]]
      BY <1>9, <2>1
    <2>3. t[n + m] = [job |-> j, what |-> Last(told)]
      BY <1>7, <2>1, <2>2
    <2> QED
      BY <2>1, <2>3
  <1>11. NewsOf(t, j) /\ (\A k : NewsOf(t, k) => NewsOf(s, k) \/ k = j)
    <2>1. NewsOf(t, j)
      BY <1>6, <1>10 DEF NewsOf
    <2>2. ASSUME NEW k, NEW i \in DOMAIN t, t[i].job = k
          PROVE  NewsOf(s, k) \/ k = j
      <3>1. CASE i \in 1..n
        BY <1>2, <1>8, <2>2, <3>1 DEF NewsOf
      <3>2. CASE i \notin 1..n
        BY <1>6, <1>9, <2>2, <3>2
      <3> QED
        BY <3>1, <3>2
    <2> QED
      BY <2>1, <2>2 DEF NewsOf
  <1>12. \A k : NewsOf(s, k) => NewsOf(t, k)
    BY <1>2, <1>6, <1>8 DEF NewsOf
  <1>13. ASSUME NEW i \in 1..(n + m), LastOf(t, i)
         PROVE  \/ t[i].job = j /\ t[i].what = Last(told)
                \/ i \in 1..n /\ LastOf(s, i) /\ t[i] = s[i] /\ s[i].job # j
    <2>1. CASE i \in 1..n
      <3>1. t[i] = s[i] /\ ~(n + m <= i)
        BY <1>8, <2>1
      <3>2. s[i].job # j
        BY <1>6, <1>10, <1>13, <3>1 DEF LastOf
      <3>3. LastOf(s, i)
        BY <1>2, <1>6, <1>8, <1>13, <3>1 DEF LastOf
      <3> QED
        BY <2>1, <3>1, <3>2, <3>3
    <2>2. CASE i \notin 1..n
      <3>1. t[i].job = j
        <4>1. t[i] = [job |-> j, what |-> told[i - n]]
          BY <1>9, <2>2
        <4> QED
          BY <4>1
      <3>2. n + m <= i
        BY <1>6, <1>10, <1>13, <3>1 DEF LastOf
      <3>3. i = n + m
        BY <1>1, <1>2, <3>2
      <3> QED
        BY <1>10, <3>3
    <2> QED
      BY <2>1, <2>2
  <1> QED
    BY <1>2, <1>5, <1>6, <1>11, <1>12, <1>13 DEF t, r

-----------------------------------------------------------------------------
(* Types, and what the operations on the cards and the list do. *)

\* The list the server answers has a card for every favorite.
LEMMA ListOfUser ==
    ASSUME Types
    PROVE  /\ FavoritesOfUser \in Lists
           /\ \A j \in Jobs : Agrees(FavoritesOfUser, j)
           /\ \A j \in Jobs : run[j] \in Live => FavoritesOfUser[j] \in {None, run[j]}
  <1>1. \A j \in Jobs : LatestRun(j) \in Shown /\ (run[j] \in Live => LatestRun(j) = run[j])
    BY DEF Types, LatestRun, Shown, Live
  <1>2. FavoritesOfUser \in Lists
    BY <1>1 DEF FavoritesOfUser, Lists
  <1>3. \A j \in Jobs : FavoritesOfUser[j] = IF j \in favorites THEN LatestRun(j) ELSE None
    BY DEF FavoritesOfUser
  <1> HIDE DEF FavoritesOfUser
  <1> QED
    BY <1>1, <1>2, <1>3, NoneAssumption DEF Agrees

\* AskList: nothing but the list of now is in sight, if it crossed nothing.
LEMMA Asked ==
    ASSUME Types, AskList
    PROVE  /\ fetched' = TRUE
           /\ prefetched' \in Lists \cup {None}
           /\ list' \in Promises
           /\ list'.phase # "idle" /\ list'.callers > 0
           /\ list'.phase = "served" => list'.data \in Lists
           /\ arrived' = arrived
           /\ ~crossed' => arrived = <<>> /\ (list'.phase = "served" => list'.data = FavoritesOfUser)
           /\ "put" \in failed' <=> "put" \in failed
           /\ "run" \in failed' <=> "run" \in failed
  <1>1. fetched' = TRUE /\ arrived' = arrived
    BY DEF AskList
  <1>2. failed' = failed \/ failed' = failed \ {"list"}
    BY DEF AskList
  <1>3. ~crossed' => ~ListUnderWay /\ (prefetched = None \/ prefetched = FavoritesOfUser)
    BY Zenon DEF AskList
  <1>4. ~ListUnderWay => list.phase = "idle" /\ arrived = <<>>
    BY DEF ListUnderWay
  <1>5. list \in Promises /\ (list.phase = "served" => list.data \in Lists)
        /\ prefetched \in Lists \cup {None}
    BY DEF Types
  <1>6. CASE list.phase # "idle"
    <2>1. list' = [list EXCEPT !.callers = @ + 1] /\ prefetched' = prefetched
      BY <1>6 DEF AskList
    <2>2. /\ list' \in Promises /\ list'.phase = list.phase /\ list'.data = list.data
          /\ list'.callers > 0
      BY <1>5, <2>1 DEF Promises
    <2> QED
      BY <1>1, <1>2, <1>3, <1>4, <1>5, <1>6, <2>1, <2>2
  <1>7. CASE list.phase = "idle"
    <2>1. /\ list' = [phase |-> IF prefetched = None THEN "asked" ELSE "served",
                      callers |-> 1, data |-> prefetched]
          /\ prefetched' = None
      BY <1>7 DEF AskList
    <2>2. /\ list' \in Promises /\ list'.phase # "idle" /\ list'.data = prefetched
          /\ list'.callers > 0
          /\ list'.phase = "served" => prefetched # None
      BY <1>5, <2>1 DEF Promises
    <2> QED
      BY <1>1, <1>2, <1>3, <1>4, <1>5, <2>1, <2>2
  <1> QED
    BY <1>6, <1>7

\* What is in sight after AskList.
LEMMA AskedInSight ==
    ASSUME Types, AskList, ~crossed', NEW c, InSight(c)'
    PROVE  c = FavoritesOfUser
  <1>1. /\ list'.phase # "idle" /\ arrived' = <<>>
        /\ list'.phase = "served" => list'.data = FavoritesOfUser
    BY Asked
  <1>2. ListUnderWay'
    BY <1>1 DEF ListUnderWay
  <1>3. (list'.phase = "served" /\ c = list'.data) \/ (\E i \in DOMAIN arrived' : c = arrived'[i])
    BY <1>2 DEF InSight
  <1> QED
    BY <1>1, <1>3

\* onPipelineRun keeps the cards of the others, and makes no card.
LEMMA CardUpdated ==
    ASSUME NEW c \in Lists, NEW j \in Jobs, NEW what \in Shown
    PROVE  /\ Updated(c, j, what) \in Lists
           /\ \A k \in Jobs : k # j => Updated(c, j, what)[k] = c[k]
           /\ Updated(c, j, what)[j] # None <=> c[j] # None
           /\ fetched => Updated(c, j, what)[j] \in {None, what}
  <1>1. what # None
    BY NoneAssumption
  <1>2. CASE fetched /\ c[j] # None
    <2>1. Updated(c, j, what) = [c EXCEPT ![j] = what]
      BY <1>2 DEF Updated
    <2> QED
      BY <1>1, <1>2, <2>1 DEF Lists
  <1>3. CASE ~(fetched /\ c[j] # None)
    <2>1. Updated(c, j, what) = c
      BY <1>3 DEF Updated
    <2> QED
      BY <1>3, <2>1
  <1> QED
    BY <1>2, <1>3

\* A request for a run that changes.
LEMMA GetChanged ==
    ASSUME NEW g \in [Jobs -> Gets], NEW j \in Jobs, NEW get \in Gets,
           NEW h, h = [g EXCEPT ![j] = get]
    PROVE  h \in [Jobs -> Gets] /\ h[j] = get /\ \A k \in Jobs : k # j => h[k] = g[k]
  OBVIOUS

\* _updateJob: one more is told.
LEMMA RunAsked ==
    ASSUME Types, NEW j \in Jobs, NEW what \in Shown, UpdateJob(j, what)
    PROVE  /\ runGet' \in [Jobs -> Gets]
           /\ runGet'[j].told # <<>>
           /\ Last(runGet'[j].told) = what
           /\ \A k \in Jobs : k # j => runGet'[k] = runGet[k]
  <1> DEFINE g == runGet[j]
             told == Append(g.told, what)
             get == [phase |-> IF g.phase = "idle" THEN "asked" ELSE g.phase,
                     told |-> told, state |-> g.state]
  <1>1. g \in Gets /\ runGet \in [Jobs -> Gets]
    BY DEF Types
  <1>2. /\ g.told \in Seq(Shown) /\ g.state \in Shown
        /\ g.phase \in {"idle", "asked", "served"}
    BY <1>1 DEF Gets
  <1>3. /\ told \in Seq(Shown) /\ told # <<>> /\ Len(told) = Len(g.told) + 1
        /\ told[Len(g.told) + 1] = what
    BY <1>2, AppendProperties
  <1>4. Last(told) = what
    BY <1>3 DEF Last
  <1> HIDE DEF told
  <1>5. get \in Gets
    BY <1>2, <1>3 DEF Gets
  <1>6. runGet' = [runGet EXCEPT ![j] = get]
    <2>1. runGet' = [runGet EXCEPT ![j].told = told,
                                   ![j].phase = IF @ = "idle" THEN "asked" ELSE @]
      BY DEF UpdateJob, told
    <2>2. runGet' = [runGet EXCEPT ![j] =
                       [[g EXCEPT !.told = told] EXCEPT !.phase = IF @ = "idle" THEN "asked" ELSE @]]
      BY <1>1, <2>1
    <2>3. [[g EXCEPT !.told = told] EXCEPT !.phase = IF @ = "idle" THEN "asked" ELSE @] = get
      <3> HIDE DEF g
      <3>1. PICK p, t, r : g = [phase |-> p, told |-> t, state |-> r]
        BY <1>1 DEF Gets
      <3>2. [g EXCEPT !.told = told] = [phase |-> p, told |-> told, state |-> r]
        BY <3>1
      <3>3. [[phase |-> p, told |-> told, state |-> r] EXCEPT !.phase = IF @ = "idle" THEN "asked" ELSE @]
              = [phase |-> IF p = "idle" THEN "asked" ELSE p, told |-> told, state |-> r]
        OBVIOUS
      <3> QED
        BY <3>1, <3>2, <3>3
    <2> QED
      BY <2>2, <2>3
  <1> HIDE DEF get, g
  <1>7. /\ runGet' \in [Jobs -> Gets] /\ runGet'[j] = get
        /\ \A k \in Jobs : k # j => runGet'[k] = runGet[k]
    BY <1>1, <1>5, <1>6, GetChanged
  <1> QED
    BY <1>3, <1>4, <1>7 DEF get

\* A list that waited for a lookup is done.
LEMMA ListTaken ==
    ASSUME NEW s \in Seq(Lists), NEW i \in DOMAIN s
    PROVE  /\ RemoveAt(s, i) \in Seq(Lists) /\ s[i] \in Lists
           /\ \A k \in DOMAIN RemoveAt(s, i) : \E m \in DOMAIN s : RemoveAt(s, i)[k] = s[m]
  <1> DEFINE n == Len(s)
             t == RemoveAt(s, i)
  <1>1. n \in Nat /\ DOMAIN s = 1..n /\ i \in 1..n /\ s[i] \in Lists
    BY LenProperties, ElementOfSeq
  <1>2. /\ t \in Seq(Lists) /\ Len(t) = n - 1
        /\ \A k \in 1..(n - 1) : t[k] = IF k < i THEN s[k] ELSE s[k + 1]
    BY <1>1, WithoutPlace DEF RemoveAt
  <1> HIDE DEF t
  <1>3. DOMAIN t = 1..(n - 1)
    BY <1>2, LenProperties
  <1>4. \A k \in 1..(n - 1) : k \in 1..n /\ k + 1 \in 1..n
    BY <1>1
  <1> QED
    BY <1>1, <1>2, <1>3, <1>4 DEF t

\* Everyone who asked for the list waits for a lookup.
LEMMA ListAdded ==
    ASSUME NEW s \in Seq(Lists), NEW c \in Lists, NEW n \in Nat
    PROVE  LET t == s \o [i \in 1..n |-> c]
           IN /\ t \in Seq(Lists)
              /\ \A k \in DOMAIN t : t[k] = c \/ \E m \in DOMAIN s : t[k] = s[m]
              /\ n > 0 => t # <<>>
  <1> DEFINE r == [i \in 1..n |-> c]
             t == s \o r
  <1>1. r \in Seq(Lists) /\ \A i \in 1..n : r[i] = c
    <2>1. r \in [1..n -> Lists]
      OBVIOUS
    <2> QED
      BY <2>1, SeqDef
  <1>2. Len(r) = n
    <2>1. Len(r) \in Nat /\ DOMAIN r = 1..Len(r)
      BY <1>1, LenProperties
    <2>2. DOMAIN r = 1..n
      OBVIOUS
    <2> QED
      BY <2>1, <2>2
  <1>3. Len(s) \in Nat /\ DOMAIN s = 1..Len(s)
    BY LenProperties
  <1> HIDE DEF r
  <1>4. /\ t \in Seq(Lists) /\ Len(t) = Len(s) + Len(r)
        /\ \A k \in 1..(Len(s) + Len(r)) : t[k] = IF k <= Len(s) THEN s[k] ELSE r[k - Len(s)]
    BY <1>1, ConcatProperties
  <1> HIDE DEF t
  <1>5. DOMAIN t = 1..(Len(s) + n)
    BY <1>2, <1>4, LenProperties
  <1>6. ASSUME NEW k \in 1..(Len(s) + n)
        PROVE  t[k] = c \/ \E m \in DOMAIN s : t[k] = s[m]
    <2>1. CASE k <= Len(s)
      <3>1. k \in 1..Len(s)
        BY <1>3, <2>1
      <3> QED
        BY <1>2, <1>3, <1>4, <2>1, <3>1
    <2>2. CASE ~(k <= Len(s))
      <3>1. k - Len(s) \in 1..n
        BY <1>3, <2>2
      <3> QED
        BY <1>1, <1>2, <1>4, <2>2, <3>1
    <2> QED
      BY <2>1, <2>2
  <1>7. n > 0 => t # <<>>
    BY <1>2, <1>3, <1>4, EmptySeq
  <1> QED
    BY <1>4, <1>5, <1>6, <1>7 DEF t, r

\* A click adds a request of its own.
LEMMA ClickAdds ==
    ASSUME NEW i, Click(i)
    PROVE  \E n \in Nat :
             /\ IsFree(n)
             /\ puts' = puts \cup {[id |-> n, job |-> JobOf[i], favorite |-> ~IsFavorite(i),
                                    phase |-> "asked"]}
  <1>1. 1..MaxActs \subseteq Nat
    OBVIOUS
  <1> QED
    BY <1>1 DEF Click

\* The run of a job goes on (Enqueue, Start, Pause, Unpause, End).
RunStep(j) == \E from, to \in Shown : RunGoesOn(j, from, to)

LEMMA RunSteps ==
    ASSUME Types, NEW j \in Jobs, Enqueue(j) \/ Start(j) \/ Pause(j) \/ Unpause(j) \/ End(j)
    PROVE  RunStep(j)
  <1>1. \E from, to \in Shown : RunGoesOn(j, from, to)
    <2>1. {"none", "queued", "running", "paused", "finished"} \subseteq Shown
      BY DEF Shown
    <2>2. /\ "none" \in Shown /\ "queued" \in Shown /\ "running" \in Shown
          /\ "paused" \in Shown /\ "finished" \in Shown
      BY DEF Shown
    <2> QED
      BY <2>2, Zenon DEF Enqueue, Start, Pause, Unpause, End
  <1> QED
    BY <1>1 DEF RunStep

\* The server has read a run: whoever was told stays told.
LEMMA RunServed ==
    ASSUME Types, NEW j \in Jobs, ServeRun(j)
    PROVE  /\ runGet' \in [Jobs -> Gets]
           /\ \A k \in Jobs : runGet'[k].told = runGet[k].told
           /\ \A k \in Jobs : runGet'[k].phase # "idle" => runGet'[k].told # <<>>
  <1> DEFINE r == LatestRun(j)
             get == [[runGet[j] EXCEPT !.phase = "served"] EXCEPT !.state = r]
  <1>1. r \in Shown
    BY DEF Types, LatestRun, Shown
  <1>2. /\ runGet \in [Jobs -> Gets] /\ runGet[j] \in Gets
        /\ \A k \in Jobs : runGet[k].phase # "idle" => runGet[k].told # <<>>
    BY DEF Types
  <1>3. runGet[j].phase = "asked" /\ runGet' = [runGet EXCEPT ![j] = get]
    BY <1>2 DEF ServeRun
  <1> HIDE DEF r
  <1>4. PICK t \in Seq(Shown), q \in Shown :
          runGet[j] = [phase |-> "asked", told |-> t, state |-> q]
    BY <1>2, <1>3 DEF Gets
  <1>5. [runGet[j] EXCEPT !.phase = "served"] = [phase |-> "served", told |-> t, state |-> q]
    BY <1>4
  <1>6. [[phase |-> "served", told |-> t, state |-> q] EXCEPT !.state = r]
          = [phase |-> "served", told |-> t, state |-> r]
    OBVIOUS
  <1>7. get = [phase |-> "served", told |-> t, state |-> r]
    BY <1>5, <1>6
  <1> HIDE DEF get
  <1>8. get \in Gets /\ get.told = t /\ runGet[j].told = t /\ t # <<>>
    BY <1>1, <1>2, <1>3, <1>4, <1>7 DEF Gets
  <1>9. runGet' \in [Jobs -> Gets] /\ runGet'[j] = get /\ \A k \in Jobs : k # j => runGet'[k] = runGet[k]
    BY <1>2, <1>3, <1>8, GetChanged
  <1> QED
    BY <1>2, <1>8, <1>9

\* The last who reads a run.
LEMMA ToldLast ==
    ASSUME Types, NEW j \in Jobs, runGet[j].phase # "idle"
    PROVE  /\ runGet[j].told \in Seq(Shown) /\ runGet[j].told # <<>>
           /\ Last(runGet[j].told) \in Shown
  <1>1. runGet[j].told \in Seq(Shown) /\ runGet[j].told # <<>>
    BY DEF Types, Gets
  <1>2. Len(runGet[j].told) \in 1..Len(runGet[j].told)
    BY <1>1, EmptySeq
  <1>3. Last(runGet[j].told) \in Shown
    BY <1>1, <1>2, ElementOfSeq DEF Last
  <1> QED
    BY <1>1, <1>3

\* Whoever read the run of j is done with it.
LEMMA RunDone ==
    ASSUME Types, NEW j \in Jobs, runGet' = [runGet EXCEPT ![j] = NoRun]
    PROVE  /\ runGet' \in [Jobs -> Gets]
           /\ runGet'[j].told = <<>> /\ \A k \in Jobs : k # j => runGet'[k] = runGet[k]
           /\ \A k \in Jobs : runGet'[k].phase # "idle" => runGet'[k].told # <<>>
  <1>1. NoRun \in Gets /\ NoRun.told = <<>> /\ NoRun.phase = "idle"
    BY DEF Gets, NoRun, Shown
  <1>2. runGet \in [Jobs -> Gets] /\ \A k \in Jobs : runGet[k].phase # "idle" => runGet[k].told # <<>>
    BY DEF Types
  <1> HIDE DEF NoRun
  <1>3. runGet' \in [Jobs -> Gets] /\ runGet'[j] = NoRun /\ \A k \in Jobs : k # j => runGet'[k] = runGet[k]
    BY <1>1, <1>2, GetChanged
  <1> QED
    BY <1>1, <1>2, <1>3

\* The types hold for good.
LEMMA NextTypes ==
    ASSUME Types, [Next]_vars
    PROVE  Types'
  <1>1. ASSUME NEW j \in Jobs, Enqueue(j) \/ Start(j) \/ Pause(j) \/ Unpause(j) \/ End(j)
        PROVE  Types'
    <2>1. PICK from \in Shown, to \in Shown : RunGoesOn(j, from, to)
      BY <1>1, RunSteps DEF RunStep
    <2>2. events' \in Seq(News)
      <3>1. [job |-> j, what |-> to] \in News
        BY DEF News
      <3> QED
        BY <2>1, <3>1, AppendProperties DEF RunGoesOn, Types
    <2>3. run' \in [Jobs -> Shown]
      BY <2>1 DEF RunGoesOn, Types
    <2> QED
      BY <2>1, <2>2, <2>3
      DEF RunGoesOn, Types, storeVars, listVars, runVars
  <1>2. ASSUME HandleJobEvent PROVE Types'
    <2>1. /\ events' = Tail(events) /\ events # <<>>
          /\ UNCHANGED <<favorites, run, names, fetched, mounted, listVars, heard, known,
                         puts, countVars, overlapped, failed, crossed, missed>>
      BY <1>2 DEF HandleJobEvent
    <2>2. /\ Delivered \in News /\ Delivered.job \in Jobs /\ Delivered.what \in Shown
          /\ events' \in Seq(News)
      <3>1. events \in Seq(News)
        BY DEF Types
      <3>2. Head(events) \in News /\ Tail(events) \in Seq(News)
        BY <2>1, <3>1, NewsTaken
      <3> QED
        BY <2>1, <3>2 DEF Delivered, News
    <2>3. cards' \in Lists /\ runGet' \in [Jobs -> Gets]
          /\ \A k \in Jobs : runGet'[k].phase # "idle" => runGet'[k].told # <<>>
      <3>1. CASE Unheard(Delivered.job)
        BY <3>1 DEF Unheard, Types
      <3>2. CASE EnqueueJob(Delivered.job)
        <4>1. "queued" \in Shown
          BY DEF Shown
        <4> QED
          BY <2>2, <3>2, <4>1, CardUpdated DEF EnqueueJob, Types
      <3>3. CASE UpdateJob(Delivered.job, Delivered.what)
        <4>1. /\ runGet' \in [Jobs -> Gets] /\ runGet'[Delivered.job].told # <<>>
              /\ \A k \in Jobs : k # Delivered.job => runGet'[k] = runGet[k]
          BY <2>2, <3>3, RunAsked
        <4>2. cards' = cards
          BY <3>3 DEF UpdateJob
        <4> QED
          BY <4>1, <4>2 DEF Types
      <3> QED
        BY <1>2, <3>1, <3>2, <3>3 DEF HandleJobEvent
    <2> QED
      BY <2>1, <2>2, <2>3 DEF Types, listVars, countVars
  <1>3. ASSUME NEW j \in Jobs, ServeRun(j) \/ RunResolves(j) \/ RunFails(j) PROVE Types'
    <2>1. CASE ServeRun(j)
      BY <2>1, RunServed DEF ServeRun, Types, serverVars, storeVars, listVars, countVars
    <2>2. CASE RunResolves(j)
      <3>1. /\ runGet' \in [Jobs -> Gets]
            /\ \A k \in Jobs : runGet'[k].phase # "idle" => runGet'[k].told # <<>>
        BY <2>2, RunDone DEF RunResolves
      <3>2. /\ runGet[j].told \in Seq(Shown) /\ runGet[j].told # <<>>
            /\ Last(runGet[j].told) \in Shown
        BY <2>2, ToldLast DEF RunResolves
      <3>3. cards' \in Lists /\ heard' \in Seq(News)
        <4>1. CASE "run" \in known
          BY <2>2, <3>2, <4>1, CardUpdated DEF RunResolves, StateTold, Types
        <4>2. CASE "run" \notin known
          <5>1. heard \in Seq(News)
            BY DEF Types
          <5> DEFINE told == runGet[j].told
          <5>2. heard' = heard \o [i \in DOMAIN told |-> [job |-> j, what |-> told[i]]]
            BY <2>2, <4>2 DEF RunResolves, StateTold
          <5>3. told \in Seq(Shown) /\ told # <<>>
            BY <3>2
          <5> HIDE DEF told
          <5>4. heard' \in Seq(News)
            BY <5>1, <5>2, <5>3, NewsOfReaders
          <5> QED
            BY <2>2, <4>2, <5>4 DEF RunResolves, Types
        <4> QED
          BY <4>1, <4>2
      <3> QED
        BY <2>2, <3>1, <3>3 DEF RunResolves, Types, serverVars, listVars, countVars
    <2>3. CASE RunFails(j)
      BY <2>3, RunDone DEF RunFails, Types, serverVars, storeVars, listVars, Failure
    <2> QED
      BY <1>3, <2>1, <2>2, <2>3
  <1>4. ASSUME NEW i \in DOMAIN heard, RunLookedUp(i) \/ RunLookupFails(i) PROVE Types'
    <2>1. heard[i].job \in Jobs /\ heard[i].what \in Shown
      BY NewsPlaces DEF Types
    <2>2. heard' \in Seq(News)
      <3>1. heard \in Seq(News)
        BY DEF Types
      <3>2. RemoveAt(heard, i) \in Seq(News)
        BY <1>4, <3>1, NewsRemoved
      <3> QED
        BY <1>4, <3>2 DEF RunLookedUp, RunLookupFails
    <2>3. CASE RunLookedUp(i)
      <3>1. cards' \in Lists
        BY <2>1, <2>3, CardUpdated DEF RunLookedUp, Types
      <3> QED
        BY <2>2, <2>3, <3>1 DEF RunLookedUp, Types, serverVars, listVars, countVars
    <2>4. CASE RunLookupFails(i)
      BY <2>2, <2>4 DEF RunLookupFails, Types, serverVars, storeVars, listVars, Failure
    <2> QED
      BY <1>4, <2>3, <2>4
  <1>5. CASE ServeList
    <2>1. list \in Promises
      BY DEF Types
    <2>2. list' = [[list EXCEPT !.phase = "served"] EXCEPT !.data = FavoritesOfUser]
      BY <1>5 DEF ServeList
    <2>3. list' \in Promises /\ list'.data = FavoritesOfUser /\ list'.callers = list.callers
      BY <2>1, <2>2, ListOfUser DEF Promises
    <2> QED
      BY <1>5, <2>3, ListOfUser DEF ServeList, Types, serverVars, storeVars, runVars, countVars
  <1>6. NoList \in Promises /\ NoList.phase = "idle"
    BY DEF NoList, Promises
  <1>7. CASE ListResolves
    <2>1. list.data \in Lists /\ list.callers \in Nat
      BY <1>7 DEF ListResolves, Types, Promises
    <2>2. cards' \in Lists /\ arrived' \in Seq(Lists)
      <3>1. arrived \in Seq(Lists) /\ cards \in Lists
        BY DEF Types
      <3>2. arrived \o [i \in 1..list.callers |-> list.data] \in Seq(Lists)
        BY <2>1, <3>1, ListAdded
      <3> QED
        BY <1>7, <2>1, <3>1, <3>2 DEF ListResolves
    <2> QED
      BY <1>6, <1>7, <2>2 DEF ListResolves, Types, serverVars, runVars, countVars
  <1>8. CASE ListFails
    BY <1>6, <1>8 DEF ListFails, Types, serverVars, storeVars, runVars, Failure
  <1>9. ASSUME NEW i \in DOMAIN arrived, ListLookedUp(i) \/ ListLookupFails(i) PROVE Types'
    <2>1. RemoveAt(arrived, i) \in Seq(Lists) /\ arrived[i] \in Lists
      BY ListTaken DEF Types
    <2> QED
      BY <1>9, <2>1 DEF ListLookedUp, ListLookupFails, Types, serverVars, storeVars, runVars,
                        countVars, Failure
  <1>10. CASE Mount
    BY <1>10, Asked DEF Mount, Types, serverVars, runVars
  <1>11. CASE Unmount
    BY <1>11 DEF Unmount, Types, serverVars, listVars, runVars, countVars
  <1>12. ASSUME NEW i \in Items, Click(i) PROVE Types'
    <2>1. PICK n \in Nat :
            /\ IsFree(n)
            /\ puts' = puts \cup {[id |-> n, job |-> JobOf[i], favorite |-> ~IsFavorite(i),
                                   phase |-> "asked"]}
      BY <1>12, ClickAdds
    <2> DEFINE p == [id |-> n, job |-> JobOf[i], favorite |-> ~IsFavorite(i), phase |-> "asked"]
    <2>2. p \in Puts /\ p.id = n
      BY <2>1, JobOfAssumption DEF Puts
    <2>3. puts' = puts \cup {p} /\ \A q \in puts : q.id # n
      BY <2>1 DEF IsFree
    <2> HIDE DEF p
    <2>4. /\ puts' \in SUBSET Puts
          /\ \A q, r \in puts' : q.id = r.id => q = r
      BY <2>2, <2>3 DEF Types
    <2> QED
      BY <1>12, <2>4 DEF Click, Types, serverVars, storeVars, listVars, runVars
  <1>13. ASSUME NEW p \in puts, ServePut(p) \/ PutFails(p) \/ PutAnswered(p) \/ PutRefused(p)
         PROVE  Types'
    <2>1. p \in Puts /\ p.job \in Jobs
      BY DEF Types, Puts
    <2>2. CASE ServePut(p)
      <3> DEFINE q == [p EXCEPT !.phase = "served"]
      <3>1. q \in Puts /\ q.id = p.id
        BY <2>1 DEF Puts
      <3>2. puts' = (puts \ {p}) \cup {q}
        BY <2>2 DEF ServePut
      <3> HIDE DEF q
      <3>3. /\ puts' \in SUBSET Puts
            /\ \A r, t \in puts' : r.id = t.id => r = t
        BY <3>1, <3>2 DEF Types
      <3>4. favorites' \in SUBSET Jobs
        BY <2>1, <2>2 DEF ServePut, Types
      <3> QED
        BY <2>2, <3>3, <3>4 DEF ServePut, Types, storeVars, listVars, runVars, countVars
    <2>3. CASE PutFails(p)
      BY <2>3 DEF PutFails, Types, serverVars, storeVars, listVars, runVars, Failure
    <2>4. CASE PutRefused(p)
      BY <2>4 DEF PutRefused, Types, serverVars, storeVars, listVars, runVars, countVars
    <2>5. CASE PutAnswered(p)
      <3>1. names' \in Seq(Jobs)
        BY <2>1, <2>5, NameAdded, NameTaken DEF PutAnswered, Types
      <3>2. CASE mounted
        <4>1. AskList
          BY <2>5, <3>2 DEF PutAnswered, ClearCache
        <4> QED
          BY <2>5, <3>1, <4>1, Asked DEF PutAnswered, Types, serverVars, runVars, countVars
      <3>3. CASE ~mounted
        BY <2>5, <3>1, <3>3
        DEF PutAnswered, ClearCache, Types, serverVars, listVars, runVars, countVars
      <3> QED
        BY <3>2, <3>3
    <2> QED
      BY <1>13, <2>2, <2>3, <2>4, <2>5
  <1>14. CASE UNCHANGED vars
    BY <1>14 DEF Types, vars, serverVars, storeVars, listVars, runVars, countVars
  <1> QED
    BY <1>1, <1>2, <1>3, <1>4, <1>5, <1>7, <1>8, <1>9, <1>10, <1>11, <1>12, <1>13, <1>14 DEF Next

-----------------------------------------------------------------------------
(* The names and the requests that change them. *)

LEMMA NamesKept ==
    ASSUME PutsOK, KnownOK, NamesOK, UNCHANGED <<favorites, names, puts, overlapped>>,
           "put" \in failed => "put" \in failed'
    PROVE  PutsOK' /\ KnownOK' /\ NamesOK'
  <1>1. \A j : Served(j)' <=> Served(j)
    BY DEF Served
  <1> QED
    BY <1>1 DEF PutsOK, KnownOK, NamesOK

\* A click asks for the opposite of what the names say.
LEMMA ClickNames ==
    ASSUME Types, PutsOK, KnownOK, NamesOK, NEW i \in Items, Click(i)
    PROVE  PutsOK' /\ KnownOK' /\ NamesOK'
  <1>0. PICK n \in Nat :
          /\ IsFree(n)
          /\ puts' = puts \cup {[id |-> n, job |-> JobOf[i], favorite |-> ~IsFavorite(i),
                                 phase |-> "asked"]}
    BY ClickAdds
  <1> DEFINE j == JobOf[i]
             p == [id |-> n, job |-> j, favorite |-> ~IsFavorite(i), phase |-> "asked"]
  <1>1. /\ puts' = puts \cup {p}
        /\ overlapped' = IF \E q \in puts : q.job = j THEN overlapped \cup {j} ELSE overlapped
        /\ UNCHANGED <<favorites, names, failed>>
    BY <1>0 DEF Click, serverVars, storeVars
  <1>2. /\ p.job = j /\ p.phase # "served" /\ p.favorite = (p.job \notin Range(names))
        /\ j \in Jobs
    BY JobOfAssumption DEF IsFavorite
  <1> HIDE DEF p, j
  <1>3. /\ \A k : k \notin overlapped' => k \notin overlapped
        /\ j \notin overlapped' => \A q \in puts : q.job # j
    BY <1>1
  <1>4. PutsOK'
    BY <1>1, <1>2, <1>3 DEF PutsOK
  <1>5. \A k : Served(k)' <=> Served(k)
    BY <1>1, <1>2 DEF Served
  <1>6. KnownOK'
    <2>1. \A q \in puts' : q.phase = "served" => q \in puts
      BY <1>1, <1>2
    <2> QED
      BY <1>1, <1>3, <1>5, <2>1 DEF KnownOK
  <1>7. NamesOK'
    <2>1. overlapped' = {} => overlapped = {}
      BY <1>1
    <2> QED
      BY <1>1, <1>2, <1>5, <2>1 DEF NamesOK
  <1> QED
    BY <1>4, <1>6, <1>7

\* FavoriteUtil.toggle: Jenkins knows before the page does.
LEMMA ServePutNames ==
    ASSUME Types, PutsOK, KnownOK, NamesOK, NEW p \in puts, ServePut(p)
    PROVE  PutsOK' /\ KnownOK' /\ NamesOK'
  <1> DEFINE j == p.job
             q == [p EXCEPT !.phase = "served"]
  <1>1. /\ puts' = (puts \ {p}) \cup {q}
        /\ favorites' = IF p.favorite THEN favorites \cup {j} ELSE favorites \ {j}
        /\ UNCHANGED <<names, overlapped, failed>>
        /\ p.phase = "asked"
    BY DEF ServePut, storeVars, noteVars
  <1>2. /\ p \in Puts /\ j \in Jobs /\ p.favorite \in BOOLEAN
        /\ q.job = j /\ q.phase = "served" /\ q.favorite = p.favorite
    BY DEF Types, Puts
  <1> HIDE DEF q, j
  <1>3. j = p.job
    BY DEF j
  <1>4. ASSUME j \notin overlapped, NEW r \in puts', r.job = j PROVE r = q
    BY <1>1, <1>3, <1>4 DEF PutsOK
  <1>5. PutsOK'
    <2> SUFFICES ASSUME NEW r \in puts', NEW t \in puts', r.job = t.job, r.job \notin overlapped
                 PROVE  r = t
      BY <1>1 DEF PutsOK
    <2>1. CASE r.job = j
      BY <1>4, <2>1
    <2>2. CASE r.job # j
      BY <1>1, <1>2, <2>2 DEF PutsOK
    <2> QED
      BY <2>1, <2>2
  <1>6. Served(j)'
    BY <1>1, <1>2 DEF Served
  <1>7. \A k : k # j => (Served(k)' <=> Served(k))
    BY <1>1, <1>2, <1>3 DEF Served
  <1>8. \A k : k # j => (k \in favorites' <=> k \in favorites)
    BY <1>1
  <1>9. (j \in favorites') = p.favorite
    BY <1>1, <1>2
  <1>10. KnownOK'
    <2> SUFFICES ASSUME "put" \notin failed, NEW k \in Jobs \ overlapped
                 PROVE  /\ \A r \in puts' : r.job = k /\ r.phase = "served" =>
                             r.favorite = (k \in favorites')
                        /\ k \in favorites' /\ ~Served(k)' => k \in Range(names)
      BY <1>1 DEF KnownOK
    <2>1. CASE k = j
      BY <1>2, <1>4, <1>6, <1>9, <2>1
    <2>2. CASE k # j
      <3>1. \A r \in puts' : r.job = k => r \in puts
        BY <1>1, <1>2, <2>2
      <3>2. (k \in favorites') = (k \in favorites) /\ (Served(k)' <=> Served(k))
        BY <1>7, <1>8, <2>2
      <3> QED
        BY <3>1, <3>2 DEF KnownOK
    <2> QED
      BY <2>1, <2>2
  <1>11. NamesOK'
    <2> SUFFICES ASSUME "put" \notin failed, overlapped = {}
                 PROVE  /\ IsInjective(names)
                        /\ \A r \in puts' : r.favorite = (r.job \notin Range(names))
                        /\ \A k \in Jobs : ~Served(k)' => (k \in favorites') = (k \in Range(names))
      BY <1>1 DEF NamesOK
    <2>1. /\ IsInjective(names)
          /\ \A r \in puts : r.favorite = (r.job \notin Range(names))
          /\ \A k \in Jobs : ~Served(k) => (k \in favorites) = (k \in Range(names))
      BY DEF NamesOK
    <2>2. q.favorite = (q.job \notin Range(names))
      BY <1>2, <1>3, <2>1
    <2>3. \A r \in puts' : r.favorite = (r.job \notin Range(names))
      BY <1>1, <2>1, <2>2
    <2>4. \A k \in Jobs : ~Served(k)' => (k \in favorites') = (k \in Range(names))
      BY <1>6, <1>7, <1>8, <2>1
    <2> QED
      BY <2>1, <2>3, <2>4
  <1> QED
    BY <1>5, <1>10, <1>11

\* The answer: the page does to the names what Jenkins did to the favorites.
LEMMA AnsweredNames ==
    ASSUME Types, PutsOK, KnownOK, NamesOK, NEW p \in puts, PutAnswered(p)
    PROVE  PutsOK' /\ KnownOK' /\ NamesOK'
  <1> DEFINE j == p.job
  <1>1. /\ puts' = puts \ {p} /\ p.phase = "served"
        /\ names' = IF p.favorite THEN Append(names, j) ELSE Without(names, j)
        /\ UNCHANGED <<favorites, overlapped>>
    BY DEF PutAnswered, serverVars
  <1>2. "put" \in failed' <=> "put" \in failed
    <2>1. CASE mounted
      BY <2>1, Asked DEF PutAnswered, ClearCache
    <2>2. CASE ~mounted
      BY <2>2 DEF PutAnswered, ClearCache
    <2> QED
      BY <2>1, <2>2
  <1>3. /\ j \in Jobs /\ p.favorite \in BOOLEAN /\ names \in Seq(Jobs)
        /\ \A q \in puts : q.job \in Jobs
    BY DEF Types, Puts
  <1>4. Served(j)
    BY <1>1 DEF Served
  <1>5. \A k \in Jobs : k # j => (Served(k)' <=> Served(k))
    BY <1>1 DEF Served
  <1>6. j \notin overlapped => \A q \in puts' : q.job # j
    BY <1>1 DEF PutsOK
  <1>7. \A k \in Jobs : k # j /\ k \in Range(names) => k \in Range(names')
    BY <1>1, <1>3, NameAdded, NameTaken
  <1>8. p.favorite => j \in Range(names')
    BY <1>1, <1>3, NameAdded
  <1>9. j = p.job
    OBVIOUS
  <1> HIDE DEF j
  <1>10. PutsOK'
    BY <1>1 DEF PutsOK
  <1>11. KnownOK'
    <2> SUFFICES ASSUME "put" \notin failed, NEW k \in Jobs \ overlapped
                 PROVE  /\ \A r \in puts' : r.job = k /\ r.phase = "served" =>
                             r.favorite = (k \in favorites)
                        /\ k \in favorites /\ ~Served(k)' => k \in Range(names')
      BY <1>1, <1>2 DEF KnownOK
    <2>1. /\ \A r \in puts : r.job = k /\ r.phase = "served" => r.favorite = (k \in favorites)
          /\ k \in favorites /\ ~Served(k) => k \in Range(names)
      BY DEF KnownOK
    <2>2. CASE k = j
      BY <1>1, <1>8, <1>9, <2>1, <2>2
    <2>3. CASE k # j
      BY <1>1, <1>5, <1>7, <2>1, <2>3
    <2> QED
      BY <2>2, <2>3
  <1>12. NamesOK'
    <2> SUFFICES ASSUME "put" \notin failed, overlapped = {}
                 PROVE  /\ IsInjective(names')
                        /\ \A r \in puts' : r.favorite = (r.job \notin Range(names'))
                        /\ \A k \in Jobs : ~Served(k)' => (k \in favorites) = (k \in Range(names'))
      BY <1>1, <1>2 DEF NamesOK
    <2>1. /\ IsInjective(names)
          /\ \A r \in puts : r.favorite = (r.job \notin Range(names))
          /\ \A k \in Jobs : ~Served(k) => (k \in favorites) = (k \in Range(names))
      BY DEF NamesOK
    <2>2. p.favorite = (j \in favorites)
      BY <1>1, <1>3, <1>9 DEF KnownOK
    <2>3. /\ IsInjective(names')
          /\ \A k \in Jobs : k # j => (k \in Range(names') <=> k \in Range(names))
          /\ (j \in Range(names')) = p.favorite
      <3>1. CASE p.favorite
        <4>1. j \notin Range(names) /\ names' = Append(names, j)
          BY <1>1, <1>9, <2>1, <3>1
        <4> QED
          BY <1>3, <2>1, <3>1, <4>1, NameAdded
      <3>2. CASE ~p.favorite
        <4>1. j \in Range(names) /\ names' = Without(names, j)
          BY <1>1, <1>9, <2>1, <3>2
        <4>2. /\ IsInjective(Without(names, j))
              /\ \A k \in Jobs : k \in Range(Without(names, j)) <=> k \in Range(names) /\ k # j
          <5> HIDE DEF j
          <5> QED
            BY <1>3, <2>1, <4>1, NameTaken
        <4> QED
          BY <1>3, <3>2, <4>1, <4>2
      <3> QED
        BY <3>1, <3>2
    <2>4. \A r \in puts' : r \in puts /\ r.job \in Jobs /\ r.job # j
      BY <1>1, <1>3, <1>6
    <2>5. \A r \in puts' : r.favorite = (r.job \notin Range(names'))
      BY <2>1, <2>3, <2>4
    <2>6. \A k \in Jobs : ~Served(k)' => (k \in favorites) = (k \in Range(names'))
      BY <1>5, <2>1, <2>2, <2>3
    <2> QED
      BY <2>3, <2>5, <2>6
  <1> QED
    BY <1>10, <1>11, <1>12

\* A request is refused, because nothing would change, or fails.
LEMMA DroppedNames ==
    ASSUME Types, PutsOK, KnownOK, NamesOK, NEW p \in puts, PutRefused(p) \/ PutFails(p)
    PROVE  PutsOK' /\ KnownOK' /\ NamesOK'
  <1>1. puts' = puts \ {p} /\ UNCHANGED <<favorites, names, overlapped>>
    BY DEF PutRefused, PutFails, Failure, serverVars, storeVars, noteVars
  <1>2. PutsOK'
    BY <1>1 DEF PutsOK
  <1>3. CASE PutFails(p)
    <2>1. "put" \in failed'
      BY <1>3 DEF PutFails, Failure
    <2> QED
      BY <1>2, <2>1 DEF KnownOK, NamesOK
  <1>4. CASE PutRefused(p)
    <2>1. failed' = failed /\ p.phase = "asked"
      BY <1>4 DEF PutRefused, noteVars
    <2>2. \A k : Served(k)' <=> Served(k)
      BY <1>1, <2>1 DEF Served
    <2>3. KnownOK' /\ NamesOK'
      BY <1>1, <2>1, <2>2 DEF KnownOK, NamesOK
    <2> QED
      BY <1>2, <2>3
  <1> QED
    BY <1>3, <1>4

LEMMA NextNames ==
    ASSUME Types, PutsOK, KnownOK, NamesOK, [Next]_vars
    PROVE  PutsOK' /\ KnownOK' /\ NamesOK'
  <1>1. ASSUME NEW i \in Items, Click(i) PROVE PutsOK' /\ KnownOK' /\ NamesOK'
    BY <1>1, ClickNames
  <1>2. ASSUME NEW p \in puts, ServePut(p) \/ PutFails(p) \/ PutAnswered(p) \/ PutRefused(p)
        PROVE  PutsOK' /\ KnownOK' /\ NamesOK'
    BY <1>2, ServePutNames, AnsweredNames, DroppedNames
  <1>3. ASSUME UNCHANGED <<favorites, names, puts, overlapped>> /\ ("put" \in failed => "put" \in failed')
        PROVE  PutsOK' /\ KnownOK' /\ NamesOK'
    BY <1>3, NamesKept
  <1>4. ASSUME NEW j \in Jobs, Enqueue(j) \/ Start(j) \/ Pause(j) \/ Unpause(j) \/ End(j)
        PROVE  UNCHANGED <<favorites, names, puts, overlapped, failed>>
    BY <1>4, RunSteps DEF RunStep, RunGoesOn, storeVars, noteVars
  <1>5. ASSUME NEW j \in Jobs, ServeRun(j) \/ RunResolves(j) \/ RunFails(j)
        PROVE  UNCHANGED <<favorites, names, puts, overlapped>> /\ failed \subseteq failed'
    BY <1>5 DEF ServeRun, RunResolves, RunFails, Failure, serverVars, storeVars, noteVars
  <1>6. HandleJobEvent => UNCHANGED <<favorites, names, puts, overlapped, failed>>
    BY DEF HandleJobEvent
  <1>7. ASSUME NEW i \in DOMAIN heard, RunLookedUp(i) \/ RunLookupFails(i)
        PROVE  UNCHANGED <<favorites, names, puts, overlapped>> /\ failed \subseteq failed'
    BY <1>7 DEF RunLookedUp, RunLookupFails, Failure, serverVars, storeVars
  <1>8. ASSUME ServeList \/ ListResolves \/ ListFails
        PROVE  UNCHANGED <<favorites, names, puts, overlapped>> /\ failed \subseteq failed'
    BY <1>8 DEF ServeList, ListResolves, ListFails, Failure, serverVars, storeVars, noteVars
  <1>9. ASSUME NEW i \in DOMAIN arrived, ListLookedUp(i) \/ ListLookupFails(i)
        PROVE  UNCHANGED <<favorites, names, puts, overlapped>> /\ failed \subseteq failed'
    BY <1>9 DEF ListLookedUp, ListLookupFails, Failure, serverVars, storeVars, noteVars
  <1>10. Mount => UNCHANGED <<favorites, names, puts, overlapped>> /\ ("put" \in failed => "put" \in failed')
    BY Asked DEF Mount, serverVars
  <1>11. Unmount \/ UNCHANGED vars => UNCHANGED <<favorites, names, puts, overlapped, failed>>
    BY DEF Unmount, vars, serverVars, storeVars, noteVars
  <1> QED
    BY <1>1, <1>2, <1>3, <1>4, <1>5, <1>6, <1>7, <1>8, <1>9, <1>10, <1>11 DEF Next

-----------------------------------------------------------------------------
(* The cards. *)

ListStep ==
    \/ ServeList \/ ListResolves \/ ListFails
    \/ \E i \in DOMAIN arrived : ListLookedUp(i) \/ ListLookupFails(i)

\* What becomes of a list: nothing new comes in sight but the list of now.
LEMMA ListSteps ==
    ASSUME Types, ListStep
    PROVE  /\ UNCHANGED <<favorites, run, events, mounted, crossed, missed, shuffled,
                         overlapped, runGet, heard, puts>>
           /\ failed \subseteq failed'
           /\ "list" \notin failed' =>
                \A c : InSight(c)' => InSight(c) \/ c = FavoritesOfUser
  <1>1. CASE ServeList
    <2>1. /\ UNCHANGED <<serverVars, storeVars, arrived, runVars, puts, noteVars>>
          /\ list' = [list EXCEPT !.phase = "served", !.data = FavoritesOfUser]
      BY <1>1 DEF ServeList
    <2>2. list'.phase = "served" /\ list'.data = FavoritesOfUser
      BY <2>1 DEF Types, Promises
    <2>3. \A c : InSight(c)' => InSight(c) \/ c = FavoritesOfUser
      BY <2>1, <2>2 DEF InSight, ListUnderWay
    <2> QED
      BY <2>1, <2>3 DEF serverVars, storeVars, runVars, noteVars
  <1>2. CASE ListResolves
    <2>1. /\ UNCHANGED <<serverVars, mounted, runVars, puts, noteVars>>
          /\ list.phase = "served" /\ list'.phase = "idle"
      BY <1>2 DEF ListResolves, NoList
    <2>2. /\ list.data \in Lists /\ list.callers \in Nat /\ list.callers > 0
          /\ arrived \in Seq(Lists)
      BY <2>1 DEF Types, Promises
    <2>3. CASE "list" \in known
      <3>1. cards' = list.data /\ arrived' = arrived
        BY <1>2, <2>3 DEF ListResolves
      <3>2. \A c : InSight(c)' => InSight(c)
        BY <2>1, <3>1 DEF InSight
      <3> QED
        BY <2>1, <3>2 DEF serverVars, runVars, noteVars
    <2>4. CASE "list" \notin known
      <3>1. arrived' = arrived \o [i \in 1..list.callers |-> list.data]
        BY <1>2, <2>4 DEF ListResolves
      <3>2. /\ \A k \in DOMAIN arrived' : arrived'[k] = list.data
                                         \/ \E m \in DOMAIN arrived : arrived'[k] = arrived[m]
            /\ arrived' # <<>>
        BY <2>2, <3>1, ListAdded
      <3>3. \A c : InSight(c)' => InSight(c)
        BY <2>1, <3>2 DEF InSight, ListUnderWay
      <3> QED
        BY <2>1, <3>3 DEF serverVars, runVars, noteVars
    <2> QED
      BY <2>3, <2>4
  <1>3. CASE ListFails
    BY <1>3 DEF ListFails, Failure, serverVars, storeVars, runVars
  <1>4. ASSUME NEW i \in DOMAIN arrived, ListLookedUp(i) \/ ListLookupFails(i)
        PROVE  /\ UNCHANGED <<favorites, run, events, mounted, crossed, missed, shuffled,
                             overlapped, runGet, heard, puts>>
               /\ failed \subseteq failed'
               /\ "list" \notin failed' =>
                    \A c : InSight(c)' => InSight(c) \/ c = FavoritesOfUser
    <2>1. CASE ListLookedUp(i)
      <3>1. cards' = arrived[i] /\ list' = list /\ arrived' = RemoveAt(arrived, i)
        BY <2>1 DEF ListLookedUp
      <3>2. \A k \in DOMAIN arrived' : \E m \in DOMAIN arrived : arrived'[k] = arrived[m]
        <4>1. arrived \in Seq(Lists)
          BY DEF Types
        <4> QED
          BY <3>1, <4>1, ListTaken
      <3>3. \A c : InSight(c)' => InSight(c)
        BY <3>1, <3>2 DEF InSight
      <3> QED
        BY <2>1, <3>3 DEF ListLookedUp, serverVars, runVars, noteVars
    <2>2. CASE ListLookupFails(i)
      BY <2>2 DEF ListLookupFails, Failure, serverVars, storeVars, runVars
    <2> QED
      BY <1>4, <2>1, <2>2
  <1> QED
    BY <1>1, <1>2, <1>3, <1>4 DEF ListStep

\* What is told of a run changes the card that is there.
CardStep ==
    \E j \in Jobs, what \in Shown : cards' = Updated(cards, j, what)

LEMMA CardStepAgrees ==
    ASSUME Types, CardStep, UNCHANGED <<favorites, list, arrived>>, NEW j \in Jobs, NEW c,
           InSight(c)', \A d \in Lists : InSight(d) => Agrees(d, j)
    PROVE  Agrees(c, j)'
  <1>1. cards \in Lists
    BY DEF Types
  <1>2. cards'[j] # None <=> cards[j] # None
    <2>1. PICK k \in Jobs, what \in Shown : cards' = Updated(cards, k, what)
      BY DEF CardStep
    <2> QED
      BY <1>1, <2>1, CardUpdated
  <1>3. ListUnderWay' <=> ListUnderWay
    BY DEF ListUnderWay
  <1>4. CASE ~ListUnderWay /\ c = cards'
    <2>1. Agrees(cards, j)
      BY <1>1, <1>4 DEF InSight
    <2> QED
      BY <1>2, <1>4, <2>1 DEF Agrees
  <1>5. CASE list.phase = "served" /\ c = list.data
    <2>1. c \in Lists /\ InSight(c)
      BY <1>5 DEF InSight, Types
    <2> QED
      BY <2>1 DEF Agrees
  <1>6. CASE \E i \in DOMAIN arrived : c = arrived[i]
    <2>1. c \in Lists /\ InSight(c)
      BY <1>6, LenProperties, ElementOfSeq DEF InSight, Types
    <2> QED
      BY <2>1 DEF Agrees
  <1> QED
    BY <1>3, <1>4, <1>5, <1>6 DEF InSight

LEMMA NextCards ==
    ASSUME Types, CardsOK, [Next]_vars
    PROVE  CardsOK'
  <1>1. ASSUME ListStep PROVE CardsOK'
    <2> SUFFICES ASSUME mounted', ~crossed', failed' \cap {"put", "list"} = {},
                        NEW j \in Jobs, NEW c \in Lists, ~Served(j)', InSight(c)'
                 PROVE  Agrees(c, j)'
      BY DEF CardsOK
    <2>1. /\ UNCHANGED <<favorites, mounted, crossed, puts>> /\ failed \subseteq failed'
          /\ InSight(c) \/ c = FavoritesOfUser
      BY <1>1, ListSteps
    <2>2. ~Served(j) /\ mounted /\ ~crossed /\ failed \cap {"put", "list"} = {}
      BY <2>1 DEF Served
    <2>3. Agrees(c, j)
      BY <2>1, <2>2, ListOfUser DEF CardsOK
    <2> QED
      BY <2>1, <2>3 DEF Agrees
  <1>2. ASSUME AskList, UNCHANGED favorites PROVE CardsOK'
    <2> SUFFICES ASSUME ~crossed', NEW j \in Jobs, NEW c \in Lists, InSight(c)'
                 PROVE  Agrees(c, j)'
      BY DEF CardsOK
    <2>1. c = FavoritesOfUser
      BY <1>2, AskedInSight
    <2> QED
      BY <1>2, <2>1, ListOfUser DEF Agrees
  <1>3. ASSUME CardStep \/ cards' = cards, UNCHANGED <<favorites, list, arrived, mounted, crossed>>,
               failed \subseteq failed', \A j : Served(j) => Served(j)'
        PROVE  CardsOK'
    <2> SUFFICES ASSUME mounted, ~crossed, failed \cap {"put", "list"} = {},
                        NEW j \in Jobs, NEW c \in Lists, ~Served(j), InSight(c)'
                 PROVE  Agrees(c, j)'
      BY <1>3 DEF CardsOK
    <2>1. \A d \in Lists : InSight(d) => Agrees(d, j)
      BY DEF CardsOK
    <2>2. CASE cards' = cards
      <3>1. InSight(c)
        BY <1>3, <2>2 DEF InSight, ListUnderWay
      <3>2. Agrees(c, j)
        BY <2>1, <3>1
      <3> QED
        BY <1>3, <3>2 DEF Agrees
    <2>3. CASE CardStep
      BY <1>3, <2>1, <2>3, CardStepAgrees
    <2> QED
      BY <1>3, <2>2, <2>3
  <1>4. ASSUME NEW p \in puts, ServePut(p) PROVE CardsOK'
    <2>1. /\ UNCHANGED <<cards, list, arrived, mounted, crossed, failed>>
          /\ puts' = (puts \ {p}) \cup {[p EXCEPT !.phase = "served"]}
          /\ favorites' = IF p.favorite THEN favorites \cup {p.job} ELSE favorites \ {p.job}
          /\ p.phase = "asked"
      BY <1>4 DEF ServePut, storeVars, listVars, noteVars
    <2>2. p \in Puts
      BY DEF Types
    <2>3. Served(p.job)'
      <3>1. /\ [p EXCEPT !.phase = "served"].job = p.job
            /\ [p EXCEPT !.phase = "served"].phase = "served"
        BY <2>2 DEF Puts
      <3> QED
        BY <2>1, <3>1 DEF Served
    <2>4. \A k : Served(k) => Served(k)'
      BY <2>1 DEF Served
    <2> SUFFICES ASSUME mounted, ~crossed, failed \cap {"put", "list"} = {},
                        NEW j \in Jobs, NEW c \in Lists, ~Served(j)', InSight(c)'
                 PROVE  Agrees(c, j)'
      BY <2>1 DEF CardsOK
    <2>5. InSight(c) /\ ~Served(j) /\ j # p.job
      BY <2>1, <2>3, <2>4 DEF InSight, ListUnderWay
    <2>6. Agrees(c, j)
      BY <2>5 DEF CardsOK
    <2>7. (j \in favorites') = (j \in favorites)
      BY <2>1, <2>5
    <2> QED
      BY <2>6, <2>7 DEF Agrees
  <1>5. ASSUME NEW j \in Jobs, Enqueue(j) \/ Start(j) \/ Pause(j) \/ Unpause(j) \/ End(j)
        PROVE  CardsOK'
    <2>1. UNCHANGED <<favorites, cards, list, arrived, mounted, crossed, failed, puts>>
      BY <1>5, RunSteps DEF RunStep, RunGoesOn, storeVars, listVars, noteVars
    <2> QED
      BY <1>3, <2>1 DEF Served
  <1>6. ASSUME NEW j \in Jobs, ServeRun(j) \/ RunResolves(j) \/ RunFails(j) PROVE CardsOK'
    <2>1. UNCHANGED <<favorites, list, arrived, mounted, crossed, puts>> /\ failed \subseteq failed'
      BY <1>6 DEF ServeRun, RunResolves, RunFails, Failure, serverVars, storeVars, listVars, noteVars
    <2>2. CardStep \/ cards' = cards
      <3>1. CASE RunResolves(j)
        <4>1. Last(runGet[j].told) \in Shown
          BY <3>1, ToldLast DEF RunResolves
        <4> QED
          BY <3>1, <4>1 DEF RunResolves, StateTold, CardStep
      <3> QED
        BY <1>6, <3>1 DEF ServeRun, RunFails, storeVars
    <2> QED
      BY <1>3, <2>1, <2>2 DEF Served
  <1>7. ASSUME HandleJobEvent PROVE CardsOK'
    <2>1. UNCHANGED <<favorites, list, arrived, mounted, crossed, puts, failed>>
      BY <1>7 DEF HandleJobEvent, listVars
    <2>2. CardStep \/ cards' = cards
      <3>1. Delivered.job \in Jobs /\ "queued" \in Shown
        <4>1. events \in Seq(News) /\ events # <<>>
          BY <1>7 DEF Types, HandleJobEvent
        <4>2. Head(events) \in News
          BY <4>1, NewsTaken
        <4> QED
          BY <4>2 DEF Delivered, News, Shown
      <3> QED
        BY <1>7, <3>1 DEF HandleJobEvent, Unheard, EnqueueJob, UpdateJob, CardStep
    <2> QED
      BY <1>3, <2>1, <2>2 DEF Served
  <1>8. ASSUME NEW i \in DOMAIN heard, RunLookedUp(i) \/ RunLookupFails(i) PROVE CardsOK'
    <2>1. UNCHANGED <<favorites, list, arrived, mounted, crossed, puts>> /\ failed \subseteq failed'
      BY <1>8 DEF RunLookedUp, RunLookupFails, Failure, serverVars, storeVars, listVars
    <2>2. CardStep \/ cards' = cards
      <3>1. heard[i].job \in Jobs /\ heard[i].what \in Shown
        BY NewsPlaces DEF Types
      <3> QED
        BY <1>8, <3>1 DEF RunLookedUp, RunLookupFails, CardStep, storeVars
    <2> QED
      BY <1>3, <2>1, <2>2 DEF Served
  <1>9. CASE Mount
    BY <1>2, <1>9 DEF Mount, serverVars
  <1>10. CASE Unmount
    BY <1>10 DEF Unmount, CardsOK
  <1>11. ASSUME NEW i \in Items, Click(i) PROVE CardsOK'
    <2>1. /\ UNCHANGED <<favorites, cards, list, arrived, mounted, crossed, failed>>
          /\ puts \subseteq puts'
      BY <1>11 DEF Click, serverVars, storeVars, listVars
    <2> QED
      BY <1>3, <2>1 DEF Served
  <1>12. ASSUME NEW p \in puts, PutAnswered(p) PROVE CardsOK'
    <2>1. CASE mounted
      BY <1>2, <1>12, <2>1 DEF PutAnswered, ClearCache, serverVars
    <2>2. CASE ~mounted
      <3>1. mounted' = mounted
        BY <1>12 DEF PutAnswered
      <3> QED
        BY <2>2, <3>1 DEF CardsOK
    <2> QED
      BY <2>1, <2>2
  <1>13. ASSUME NEW p \in puts, PutRefused(p) PROVE CardsOK'
    <2>1. /\ UNCHANGED <<favorites, cards, list, arrived, mounted, crossed, failed>>
          /\ puts' = puts \ {p} /\ p.phase = "asked"
      BY <1>13 DEF PutRefused, serverVars, storeVars, listVars, noteVars
    <2>2. \A j : Served(j) => Served(j)'
      BY <2>1 DEF Served
    <2> QED
      BY <1>3, <2>1, <2>2
  <1>14. ASSUME NEW p \in puts, PutFails(p) PROVE CardsOK'
    BY <1>14 DEF PutFails, Failure, CardsOK
  <1>15. CASE UNCHANGED vars
    <2>1. UNCHANGED <<favorites, cards, list, arrived, mounted, crossed, failed, puts>>
      BY <1>15 DEF vars, serverVars, storeVars, listVars, noteVars
    <2> QED
      BY <1>3, <2>1 DEF Served
  <1> QED
    BY <1>1, <1>4, <1>5, <1>6, <1>7, <1>8, <1>9, <1>10, <1>11, <1>12, <1>13, <1>14, <1>15
    DEF Next, ListStep

-----------------------------------------------------------------------------
(* The events, and what is told of the runs. *)

LEMMA NextEvents ==
    ASSUME Types, EventsOK, [Next]_vars
    PROVE  EventsOK'
  <1>1. events \in Seq(News) /\ run \in [Jobs -> Shown]
    BY DEF Types
  <1>2. ASSUME NEW j \in Jobs, Enqueue(j) \/ Start(j) \/ Pause(j) \/ Unpause(j) \/ End(j)
        PROVE  EventsOK'
    <2>1. PICK to \in Shown : /\ run' = [run EXCEPT ![j] = to]
                              /\ events' = Append(events, [job |-> j, what |-> to])
      BY <1>2, RunSteps DEF RunStep, RunGoesOn
    <2> DEFINE e == [job |-> j, what |-> to]
    <2>2. e \in News /\ e.job = j /\ e.what = to /\ events' = Append(events, e)
      BY <2>1 DEF News
    <2> HIDE DEF e
    <2>3. ASSUME NEW i \in DOMAIN events', LastOf(events', i)
          PROVE  events'[i].what = run'[events'[i].job]
      <3>1. \/ events'[i] = e
            \/ /\ i \in DOMAIN events /\ LastOf(events, i)
               /\ events'[i] = events[i] /\ events[i].job # j
        BY <1>1, <2>2, <2>3, NewsAdded
      <3>2. CASE events'[i] = e
        BY <1>1, <2>1, <2>2, <3>2
      <3>3. CASE /\ i \in DOMAIN events /\ LastOf(events, i)
                 /\ events'[i] = events[i] /\ events[i].job # j
        <4>1. events[i].job \in Jobs /\ events[i].what = run[events[i].job]
          BY <1>1, <3>3, NewsPlaces DEF EventsOK
        <4> QED
          BY <1>1, <2>1, <3>3, <4>1
      <3> QED
        BY <3>1, <3>2, <3>3
    <2> QED
      BY <2>3 DEF EventsOK
  <1>3. ASSUME HandleJobEvent PROVE EventsOK'
    <2>1. events' = Tail(events) /\ events # <<>> /\ run' = run
      BY <1>3 DEF HandleJobEvent
    <2>2. \A i \in DOMAIN events' : LastOf(events', i) =>
             i + 1 \in DOMAIN events /\ LastOf(events, i + 1) /\ events'[i] = events[i + 1]
      BY <1>1, <2>1, NewsTaken
    <2> QED
      BY <2>1, <2>2 DEF EventsOK
  <1>4. UNCHANGED <<run, events>> => EventsOK'
    BY DEF EventsOK, LastOf
  <1>5. ListStep => UNCHANGED <<run, events>>
    BY ListSteps
  <1>6. ASSUME NEW j \in Jobs, ServeRun(j) \/ RunResolves(j) \/ RunFails(j)
        PROVE  UNCHANGED <<run, events>>
    BY <1>6 DEF ServeRun, RunResolves, RunFails, serverVars
  <1>7. ASSUME NEW i \in DOMAIN heard, RunLookedUp(i) \/ RunLookupFails(i)
        PROVE  UNCHANGED <<run, events>>
    BY <1>7 DEF RunLookedUp, RunLookupFails, serverVars
  <1>8. Mount \/ Unmount \/ UNCHANGED vars => UNCHANGED <<run, events>>
    BY DEF Mount, Unmount, vars, serverVars
  <1>9. ASSUME NEW i \in Items, Click(i) PROVE UNCHANGED <<run, events>>
    BY <1>9 DEF Click, serverVars
  <1>10. ASSUME NEW p \in puts, ServePut(p) \/ PutFails(p) \/ PutAnswered(p) \/ PutRefused(p)
         PROVE  UNCHANGED <<run, events>>
    BY <1>10 DEF ServePut, PutFails, PutAnswered, PutRefused, serverVars
  <1> QED
    BY <1>2, <1>3, <1>4, <1>5, <1>6, <1>7, <1>8, <1>9, <1>10 DEF Next, ListStep

\* The event that is delivered, when it is the last of its job.
LEMMA LastDelivered ==
    ASSUME Types, EventsOK, HandleJobEvent
    PROVE  /\ Delivered.job \in Jobs /\ Delivered.what \in Shown
           /\ \A j : ~NewsOf(events', j) /\ j # Delivered.job => ~NewsOf(events, j)
           /\ ~NewsOf(events', Delivered.job) => Delivered.what = run[Delivered.job]
  <1>1. events \in Seq(News) /\ events # <<>> /\ events' = Tail(events)
    BY DEF Types, HandleJobEvent
  <1>2. /\ Delivered \in News /\ Delivered = events[1] /\ 1 \in DOMAIN events
        /\ \A j : NewsOf(events, j) => NewsOf(events', j) \/ j = Delivered.job
        /\ ~NewsOf(events', Delivered.job) => LastOf(events, 1)
    BY <1>1, NewsTaken DEF Delivered
  <1>3. Delivered.job \in Jobs /\ Delivered.what \in Shown
    BY <1>2 DEF News
  <1> QED
    BY <1>2, <1>3 DEF EventsOK

LEMMA ReadsKept ==
    ASSUME ReadsOK, UNCHANGED <<run, events, heard, shuffled>>,
           \A j \in Jobs : runGet'[j].told = runGet[j].told,
           "run" \in failed => "run" \in failed'
    PROVE  ReadsOK'
  BY DEF ReadsOK, NewsOf, LastOf

LEMMA EventReads ==
    ASSUME Types, EventsOK, ReadsOK, HandleJobEvent
    PROVE  ReadsOK'
  <1> DEFINE k == Delivered.job
  <1>1. /\ k \in Jobs /\ Delivered.what \in Shown
        /\ \A j : ~NewsOf(events', j) /\ j # k => ~NewsOf(events, j)
        /\ ~NewsOf(events', k) => Delivered.what = run[k]
    BY LastDelivered
  <1>2. UNCHANGED <<run, heard, failed>>
    BY DEF HandleJobEvent
  <1>3. \/ Unheard(k)
        \/ Delivered.what = "queued" /\ EnqueueJob(k)
        \/ UpdateJob(k, Delivered.what)
    BY DEF HandleJobEvent
  <1> HIDE DEF k
  <1>4. /\ shuffled \subseteq shuffled'
        /\ \A j \in Jobs : j # k => runGet'[j] = runGet[j]
    BY <1>1, <1>3, RunAsked DEF Unheard, EnqueueJob, UpdateJob
  <1> SUFFICES ASSUME "run" \notin failed, NEW j \in Jobs \ shuffled', ~NewsOf(events', j),
                      run[j] \in Live
               PROVE  /\ runGet'[j].told # <<>> => Last(runGet'[j].told) = run[j]
                      /\ runGet'[j].told = <<>> =>
                           \A i \in DOMAIN heard :
                              heard[i].job = j /\ LastOf(heard, i) => heard[i].what = run[j]
    BY <1>2 DEF ReadsOK
  <1>5. CASE j # k
    BY <1>1, <1>4, <1>5 DEF ReadsOK
  <1>6. CASE j = k
    <2>1. Delivered.what = run[j]
      BY <1>1, <1>6
    <2>2. CASE Unheard(k)
      <3>1. ~BeingRead(j) /\ runGet' = runGet
        BY <1>6, <2>2 DEF Unheard
      <3> QED
        BY <3>1 DEF BeingRead
    <2>3. CASE Delivered.what = "queued"
      BY <2>1, <2>3 DEF Live
    <2>4. CASE UpdateJob(k, Delivered.what)
      BY <1>1, <1>6, <2>1, <2>4, RunAsked
    <2> QED
      BY <1>3, <2>2, <2>3, <2>4
  <1> QED
    BY <1>5, <1>6

\* RunResolves with a lookup to come.
LEMMA ResolvedNews ==
    ASSUME Types, NEW k \in Jobs, RunResolves(k), "run" \notin known
    PROVE  /\ NewsOf(heard', k)
           /\ \A j : NewsOf(heard, j) => NewsOf(heard', j)
           /\ \A i \in DOMAIN heard' : LastOf(heard', i) =>
                \/ heard'[i].job = k /\ heard'[i].what = Last(runGet[k].told)
                \/ i \in DOMAIN heard /\ LastOf(heard, i) /\ heard'[i] = heard[i] /\ heard[i].job # k
  <1> DEFINE told == runGet[k].told
  <1>1. heard \in Seq(News)
    BY DEF Types
  <1>2. heard' = heard \o [i \in DOMAIN told |-> [job |-> k, what |-> told[i]]]
    BY DEF RunResolves, StateTold
  <1>3. told \in Seq(Shown) /\ told # <<>>
    BY ToldLast DEF RunResolves
  <1> HIDE DEF told
  <1>4. /\ NewsOf(heard', k)
        /\ \A j : NewsOf(heard, j) => NewsOf(heard', j)
        /\ \A i \in DOMAIN heard' : LastOf(heard', i) =>
             \/ heard'[i].job = k /\ heard'[i].what = Last(told)
             \/ i \in DOMAIN heard /\ LastOf(heard, i) /\ heard'[i] = heard[i] /\ heard[i].job # k
    BY <1>1, <1>2, <1>3, NewsOfReaders
  <1> QED
    BY <1>4 DEF told

LEMMA ResolveReads ==
    ASSUME Types, ReadsOK, NEW k \in Jobs, RunResolves(k)
    PROVE  ReadsOK'
  <1>1. /\ UNCHANGED <<run, events, failed>> /\ shuffled \subseteq shuffled'
        /\ runGet' = [runGet EXCEPT ![k] = NoRun] /\ runGet[k].told # <<>>
    BY ToldLast DEF RunResolves, serverVars
  <1>2. runGet'[k].told = <<>> /\ \A j \in Jobs : j # k => runGet'[j] = runGet[j]
    BY <1>1, RunDone
  <1> SUFFICES ASSUME "run" \notin failed, NEW j \in Jobs \ shuffled', ~NewsOf(events, j),
                      run[j] \in Live
               PROVE  /\ runGet'[j].told # <<>> => Last(runGet'[j].told) = run[j]
                      /\ runGet'[j].told = <<>> =>
                           \A i \in DOMAIN heard' :
                              heard'[i].job = j /\ LastOf(heard', i) => heard'[i].what = run[j]
    BY <1>1 DEF ReadsOK, NewsOf
  <1>3. /\ runGet[j].told # <<>> => Last(runGet[j].told) = run[j]
        /\ runGet[j].told = <<>> =>
             \A i \in DOMAIN heard :
                heard[i].job = j /\ LastOf(heard, i) => heard[i].what = run[j]
    BY <1>1 DEF ReadsOK
  <1>4. CASE "run" \in known
    <2>1. /\ heard' = heard
          /\ shuffled' = IF \E i \in DOMAIN heard : heard[i].job = k
                           THEN shuffled \cup {k} ELSE shuffled
      BY <1>4 DEF RunResolves
    <2>2. CASE j = k
      BY <1>2, <2>1, <2>2
    <2>3. CASE j # k
      BY <1>2, <1>3, <2>1, <2>3
    <2> QED
      BY <2>2, <2>3
  <1>5. CASE "run" \notin known
    <2>1. \A i \in DOMAIN heard' : LastOf(heard', i) =>
            \/ heard'[i].job = k /\ heard'[i].what = Last(runGet[k].told)
            \/ i \in DOMAIN heard /\ LastOf(heard, i) /\ heard'[i] = heard[i] /\ heard[i].job # k
      BY <1>5, ResolvedNews
    <2>2. CASE j = k
      BY <1>1, <1>2, <1>3, <2>1, <2>2
    <2>3. CASE j # k
      BY <1>2, <1>3, <2>1, <2>3
    <2> QED
      BY <2>2, <2>3
  <1> QED
    BY <1>4, <1>5

LEMMA LookedUpReads ==
    ASSUME Types, ReadsOK, NEW i \in DOMAIN heard, RunLookedUp(i)
    PROVE  ReadsOK'
  <1> DEFINE k == heard[i].job
  <1>1. /\ UNCHANGED <<run, events, failed, runGet>>
        /\ heard' = RemoveAt(heard, i)
        /\ shuffled' = IF \E m \in 1..(i - 1) : heard[m].job = k THEN shuffled \cup {k} ELSE shuffled
    BY DEF RunLookedUp, serverVars
  <1>2. \A l \in DOMAIN heard' : LastOf(heard', l) =>
          \E m \in DOMAIN heard :
             /\ heard'[l] = heard[m]
             /\ LastOf(heard, m) \/ (heard[m].job = k /\ m \in 1..(i - 1))
    <2>1. heard \in Seq(News)
      BY DEF Types
    <2> QED
      BY <1>1, <2>1, NewsRemoved
  <1> HIDE DEF k
  <1> SUFFICES ASSUME "run" \notin failed, NEW j \in Jobs \ shuffled', ~NewsOf(events, j),
                      run[j] \in Live, runGet[j].told = <<>>,
                      NEW l \in DOMAIN heard', heard'[l].job = j, LastOf(heard', l)
               PROVE  heard'[l].what = run[j]
    BY <1>1 DEF ReadsOK, NewsOf
  <1>3. PICK m \in DOMAIN heard :
             /\ heard'[l] = heard[m]
             /\ LastOf(heard, m) \/ (heard[m].job = k /\ m \in 1..(i - 1))
    BY <1>2
  <1>4. ~(heard[m].job = k /\ m \in 1..(i - 1)) /\ j \notin shuffled
    BY <1>1, <1>3
  <1>5. LastOf(heard, m) /\ heard[m].job = j
    BY <1>3, <1>4
  <1> QED
    BY <1>3, <1>4, <1>5 DEF ReadsOK

LEMMA NextReads ==
    ASSUME Types, EventsOK, ReadsOK, [Next]_vars
    PROVE  ReadsOK'
  <1>1. ASSUME NEW k \in Jobs, Enqueue(k) \/ Start(k) \/ Pause(k) \/ Unpause(k) \/ End(k)
        PROVE  ReadsOK'
    <2>1. PICK to \in Shown :
             /\ run' = [run EXCEPT ![k] = to]
             /\ events' = Append(events, [job |-> k, what |-> to])
             /\ UNCHANGED <<runGet, heard, failed, shuffled>>
      BY <1>1, RunSteps DEF RunStep, RunGoesOn, runVars, noteVars
    <2>2. /\ [job |-> k, what |-> to] \in News /\ [job |-> k, what |-> to].job = k
          /\ events \in Seq(News) /\ run \in [Jobs -> Shown]
      BY DEF News, Types
    <2>3. NewsOf(events', k) /\ \A j : NewsOf(events, j) => NewsOf(events', j)
      BY <2>1, <2>2, NewsAdded
    <2>4. \A j \in Jobs : ~NewsOf(events', j) => run'[j] = run[j] /\ ~NewsOf(events, j)
      BY <2>1, <2>2, <2>3
    <2> QED
      BY <2>1, <2>4 DEF ReadsOK, LastOf
  <1>2. HandleJobEvent => ReadsOK'
    BY EventReads
  <1>3. ASSUME NEW k \in Jobs, ServeRun(k) PROVE ReadsOK'
    BY <1>3, RunServed, ReadsKept DEF ServeRun, serverVars, noteVars
  <1>4. ASSUME NEW k \in Jobs, RunResolves(k) PROVE ReadsOK'
    BY <1>4, ResolveReads
  <1>5. ASSUME NEW k \in Jobs, RunFails(k) PROVE ReadsOK'
    BY <1>5 DEF RunFails, Failure, ReadsOK
  <1>6. ASSUME NEW i \in DOMAIN heard, RunLookedUp(i) PROVE ReadsOK'
    BY <1>6, LookedUpReads
  <1>7. ASSUME NEW i \in DOMAIN heard, RunLookupFails(i) PROVE ReadsOK'
    BY <1>7 DEF RunLookupFails, Failure, ReadsOK
  <1>8. ListStep => ReadsOK'
    BY ListSteps, ReadsKept
  <1>9. CASE Mount
    <2>1. UNCHANGED <<run, events, heard, shuffled, runGet>> /\ ("run" \in failed => "run" \in failed')
      BY <1>9, Asked DEF Mount, serverVars, runVars
    <2> QED
      BY <2>1, ReadsKept
  <1>10. Unmount \/ UNCHANGED vars => ReadsOK'
    BY ReadsKept DEF Unmount, vars, serverVars, runVars, noteVars
  <1>11. ASSUME NEW i \in Items, Click(i) PROVE ReadsOK'
    BY <1>11, ReadsKept DEF Click, serverVars, runVars
  <1>12. ASSUME NEW p \in puts, ServePut(p) \/ PutFails(p) \/ PutAnswered(p) \/ PutRefused(p)
         PROVE  ReadsOK'
    <2>1. UNCHANGED <<run, events, heard, shuffled, runGet>>
      BY <1>12 DEF ServePut, PutFails, PutAnswered, PutRefused, Failure, serverVars, runVars, noteVars
    <2>2. "run" \in failed => "run" \in failed'
      <3>1. CASE PutAnswered(p)
        BY <3>1, Asked DEF PutAnswered, ClearCache
      <3> QED
        BY <1>12, <3>1 DEF ServePut, PutFails, PutRefused, Failure, noteVars
    <2> QED
      BY <2>1, <2>2, ReadsKept
  <1> QED
    BY <1>1, <1>2, <1>3, <1>4, <1>5, <1>6, <1>7, <1>8, <1>9, <1>10, <1>11, <1>12
    DEF Next, ListStep

-----------------------------------------------------------------------------
(* The states that the cards show. *)

\* What is in sight after one card was changed.
LEMMA CardShown ==
    ASSUME Types, NEW k \in Jobs, NEW what \in Shown, cards' = Updated(cards, k, what),
           UNCHANGED <<list, arrived>>, NEW c \in Lists, InSight(c)'
    PROVE  /\ \A j \in Jobs : j # k => \E d \in Lists : InSight(d) /\ d[j] = c[j]
           /\ fetched /\ ~ListUnderWay => c[k] \in {None, what}
  <1>1. /\ cards \in Lists
        /\ \A j \in Jobs : j # k => cards'[j] = cards[j]
        /\ fetched => cards'[k] \in {None, what}
    <2>1. cards \in Lists
      BY DEF Types
    <2> QED
      BY <2>1, CardUpdated
  <1>2. ListUnderWay' <=> ListUnderWay
    BY DEF ListUnderWay
  <1>3. \/ ~ListUnderWay /\ c = cards'
        \/ ListUnderWay /\ InSight(c)
    <2>1. ListUnderWay \/ (list.phase = "idle" /\ arrived = <<>>)
      BY DEF ListUnderWay
    <2> QED
      BY <1>2, <2>1 DEF InSight
  <1>4. ~ListUnderWay => InSight(cards)
    BY DEF InSight
  <1> QED
    BY <1>1, <1>3, <1>4

\* The cases in which the list and its cards stay as they are.
LEMMA StatesKept ==
    ASSUME StatesOK, UNCHANGED <<cards, list, arrived, mounted, crossed>>,
           failed \subseteq failed',
           \A j \in Jobs \ (missed' \cup shuffled' \cup overlapped') :
              ~Served(j)' /\ ~NewsOf(events', j) /\ ~BeingRead(j)' =>
                /\ j \notin missed \cup shuffled \cup overlapped
                /\ ~Served(j) /\ ~NewsOf(events, j) /\ ~BeingRead(j)
                /\ run'[j] = run[j]
    PROVE  StatesOK'
  <1> SUFFICES ASSUME mounted, ~crossed, failed' = {},
                      NEW j \in Jobs \ (missed' \cup shuffled' \cup overlapped'), NEW c \in Lists,
                      ~Served(j)', ~NewsOf(events', j), ~BeingRead(j)', run'[j] \in Live,
                      InSight(c)'
               PROVE  c[j] \in {None, run'[j]}
    BY DEF StatesOK, NewsOf
  <1>1. /\ j \in Jobs \ (missed \cup shuffled \cup overlapped)
        /\ ~Served(j) /\ ~NewsOf(events, j) /\ ~BeingRead(j) /\ run[j] \in Live
        /\ run'[j] = run[j] /\ failed = {}
    OBVIOUS
  <1>2. InSight(c)
    BY DEF InSight, ListUnderWay
  <1>3. c[j] \in {None, run[j]}
    BY <1>1, <1>2 DEF StatesOK
  <1> QED
    BY <1>1, <1>3

\* HandleJobEvent: the last event of a job is read, or the job has no card.
LEMMA EventStates ==
    ASSUME Types, KnownOK, CardsOK, EventsOK, StatesOK, HandleJobEvent
    PROVE  StatesOK'
  <1> DEFINE k == Delivered.job
  <1>1. /\ k \in Jobs /\ Delivered.what \in Shown
        /\ \A j : ~NewsOf(events', j) /\ j # k => ~NewsOf(events, j)
        /\ ~NewsOf(events', k) => Delivered.what = run[k]
    BY LastDelivered
  <1>2. UNCHANGED <<favorites, run, names, mounted, list, arrived, heard, puts, overlapped,
                    failed, crossed, missed>>
    BY DEF HandleJobEvent, listVars
  <1>3. \/ ~Interested(k) /\ Unheard(k)
        \/ Delivered.what = "queued" /\ EnqueueJob(k)
        \/ UpdateJob(k, Delivered.what)
    BY DEF HandleJobEvent
  <1> HIDE DEF k
  <1>4. /\ shuffled \subseteq shuffled'
        /\ \A j \in Jobs : j # k => runGet'[j] = runGet[j]
    BY <1>1, <1>3, RunAsked DEF Unheard, EnqueueJob, UpdateJob
  <1> SUFFICES ASSUME mounted, ~crossed, failed = {},
                      NEW j \in Jobs \ (missed \cup shuffled' \cup overlapped), NEW c \in Lists,
                      ~Served(j), ~NewsOf(events', j), ~BeingRead(j)', run[j] \in Live,
                      InSight(c)'
               PROVE  c[j] \in {None, run[j]}
    BY <1>2 DEF StatesOK, NewsOf, Served
  <1>5. CASE j # k
    <2>1. ~NewsOf(events, j) /\ ~BeingRead(j) /\ j \in Jobs \ (missed \cup shuffled \cup overlapped)
      BY <1>1, <1>2, <1>4, <1>5 DEF BeingRead
    <2>2. PICK d \in Lists : InSight(d) /\ d[j] = c[j]
      <3>1. CASE EnqueueJob(k)
        <4>1. "queued" \in Shown /\ cards' = Updated(cards, k, "queued")
          BY <3>1 DEF EnqueueJob, Shown
        <4> QED
          BY <1>1, <1>2, <1>5, <4>1, CardShown
      <3>2. CASE cards' = cards
        BY <1>2, <3>2 DEF InSight, ListUnderWay
      <3> QED
        BY <1>3, <3>1, <3>2 DEF Unheard, UpdateJob
    <2>3. d[j] \in {None, run[j]}
      BY <2>1, <2>2 DEF StatesOK
    <2> QED
      BY <2>2, <2>3
  <1>6. CASE j = k
    <2>1. Delivered.what = run[j]
      BY <1>1, <1>6
    <2>2. CASE ~Interested(k) /\ Unheard(k)
      <3>1. cards' = cards
        BY <2>2 DEF Unheard
      <3>2. InSight(c)
        BY <1>2, <3>1 DEF InSight, ListUnderWay
      <3>3. j \notin Range(names)
        BY <1>6, <2>2, JobOfAssumption DEF Interested, IsFavorite
      <3>4. j \notin favorites
        BY <3>3 DEF KnownOK
      <3>5. Agrees(c, j)
        BY <3>2 DEF CardsOK
      <3> QED
        BY <3>4, <3>5 DEF Agrees
    <2>3. CASE Delivered.what = "queued"
      BY <2>1, <2>3 DEF Live
    <2>4. CASE UpdateJob(k, Delivered.what)
      <3>1. runGet'[k].told # <<>>
        BY <1>1, <2>4, RunAsked
      <3> QED
        BY <1>6, <3>1 DEF BeingRead
    <2> QED
      BY <1>3, <2>2, <2>3, <2>4
  <1> QED
    BY <1>5, <1>6

\* RunResolves: the one who was told last tells how the run stands.
LEMMA ResolveStates ==
    ASSUME Types, ReadsOK, StatesOK, NEW k \in Jobs, RunResolves(k)
    PROVE  StatesOK'
  <1>1. /\ UNCHANGED <<run, events, mounted, list, arrived, puts, overlapped, failed, crossed>>
        /\ shuffled \subseteq shuffled'
        /\ runGet' = [runGet EXCEPT ![k] = NoRun]
        /\ runGet[k].told # <<>> /\ Last(runGet[k].told) \in Shown
    BY ToldLast DEF RunResolves, serverVars, listVars
  <1>2. \A j \in Jobs : j # k => runGet'[j] = runGet[j]
    BY <1>1, RunDone
  <1> SUFFICES ASSUME mounted, ~crossed, failed = {},
                      NEW j \in Jobs \ (missed' \cup shuffled' \cup overlapped), NEW c \in Lists,
                      ~Served(j), ~NewsOf(events, j), ~BeingRead(j)', run[j] \in Live,
                      InSight(c)'
               PROVE  c[j] \in {None, run[j]}
    BY <1>1 DEF StatesOK, NewsOf, Served
  <1>3. CASE "run" \in known
    <2>1. /\ cards' = Updated(cards, k, Last(runGet[k].told)) /\ heard' = heard
          /\ missed' = IF ListUnderWay THEN missed \cup {k} ELSE missed \ {k}
      BY <1>3 DEF RunResolves, StateTold, Reported
    <2>2. CASE j = k
      <3>1. ~ListUnderWay
        BY <2>1, <2>2
      <3>2. fetched
        BY DEF Types
      <3>3. c[k] \in {None, Last(runGet[k].told)}
        BY <1>1, <2>1, <3>1, <3>2, CardShown
      <3>4. Last(runGet[k].told) = run[k]
        BY <1>1, <2>2 DEF ReadsOK
      <3> QED
        BY <2>2, <3>3, <3>4
    <2>3. CASE j # k
      <3>1. PICK d \in Lists : InSight(d) /\ d[j] = c[j]
        BY <1>1, <2>1, <2>3, CardShown
      <3>2. j \in Jobs \ (missed \cup shuffled \cup overlapped) /\ ~BeingRead(j)
        BY <1>1, <1>2, <2>1, <2>3 DEF BeingRead
      <3> QED
        BY <3>1, <3>2 DEF StatesOK
    <2> QED
      BY <2>2, <2>3
  <1>4. CASE "run" \notin known
    <2>1. cards' = cards /\ missed' = missed
      BY <1>4 DEF RunResolves
    <2>2. NewsOf(heard', k) /\ \A i : NewsOf(heard, i) => NewsOf(heard', i)
      BY <1>4, ResolvedNews
    <2>3. j # k
      BY <2>2 DEF BeingRead, NewsOf
    <2>4. j \in Jobs \ (missed \cup shuffled \cup overlapped) /\ ~BeingRead(j)
      BY <1>1, <1>2, <2>1, <2>2, <2>3 DEF BeingRead, NewsOf
    <2>5. InSight(c)
      BY <1>1, <2>1 DEF InSight, ListUnderWay
    <2> QED
      BY <2>4, <2>5 DEF StatesOK
  <1> QED
    BY <1>3, <1>4

LEMMA LookedUpStates ==
    ASSUME Types, ReadsOK, StatesOK, NEW i \in DOMAIN heard, RunLookedUp(i)
    PROVE  StatesOK'
  <1> DEFINE k == heard[i].job
             what == heard[i].what
  <1>1. /\ UNCHANGED <<run, events, mounted, list, arrived, puts, overlapped, failed, crossed, runGet>>
        /\ heard' = RemoveAt(heard, i) /\ cards' = Updated(cards, k, what)
        /\ shuffled \subseteq shuffled'
        /\ missed' = IF ListUnderWay THEN missed \cup {k} ELSE missed \ {k}
    BY DEF RunLookedUp, Reported, serverVars, listVars
  <1>2. heard \in Seq(News) /\ k \in Jobs /\ what \in Shown
    BY NewsPlaces DEF Types
  <1>3. /\ \A j : NewsOf(heard, j) => NewsOf(heard', j) \/ j = k
        /\ ~NewsOf(heard', k) => LastOf(heard, i)
    BY <1>1, <1>2, NewsRemoved
  <1>4. k = heard[i].job /\ what = heard[i].what
    OBVIOUS
  <1> HIDE DEF k, what
  <1> SUFFICES ASSUME mounted, ~crossed, failed = {},
                      NEW j \in Jobs \ (missed' \cup shuffled' \cup overlapped), NEW c \in Lists,
                      ~Served(j), ~NewsOf(events, j), ~BeingRead(j)', run[j] \in Live,
                      InSight(c)'
               PROVE  c[j] \in {None, run[j]}
    BY <1>1 DEF StatesOK, NewsOf, Served
  <1>5. CASE j = k
    <2>1. ~ListUnderWay /\ fetched
      BY <1>1, <1>5 DEF Types
    <2>2. c[k] \in {None, what}
      BY <1>1, <1>2, <2>1, CardShown
    <2>3. ~NewsOf(heard', k) /\ runGet[j].told = <<>>
      BY <1>1, <1>5 DEF BeingRead, NewsOf
    <2>4. what = run[k]
      BY <1>1, <1>3, <1>4, <1>5, <2>3 DEF ReadsOK
    <2> QED
      BY <1>5, <2>2, <2>4
  <1>6. CASE j # k
    <2>1. PICK d \in Lists : InSight(d) /\ d[j] = c[j]
      BY <1>1, <1>2, <1>6, CardShown
    <2>2. j \in Jobs \ (missed \cup shuffled \cup overlapped)
      BY <1>1, <1>6
    <2>3. ~BeingRead(j)
      BY <1>1, <1>3, <1>6 DEF BeingRead, NewsOf
    <2> QED
      BY <2>1, <2>2, <2>3 DEF StatesOK
  <1> QED
    BY <1>5, <1>6

LEMMA NextStates ==
    ASSUME Types, KnownOK, CardsOK, EventsOK, ReadsOK, StatesOK, [Next]_vars
    PROVE  StatesOK'
  <1>1. ASSUME ListStep PROVE StatesOK'
    <2>1. /\ UNCHANGED <<run, events, mounted, crossed, missed, shuffled, overlapped,
                         runGet, heard, puts>>
          /\ failed \subseteq failed'
          /\ "list" \notin failed' => \A c : InSight(c)' => InSight(c) \/ c = FavoritesOfUser
      BY <1>1, ListSteps
    <2> SUFFICES ASSUME mounted, ~crossed, failed' = {},
                        NEW j \in Jobs \ (missed \cup shuffled \cup overlapped), NEW c \in Lists,
                        ~Served(j), ~NewsOf(events, j), ~BeingRead(j), run[j] \in Live,
                        InSight(c)'
                 PROVE  c[j] \in {None, run[j]}
      BY <2>1 DEF StatesOK, NewsOf, Served, BeingRead
    <2>2. failed = {} /\ (InSight(c) \/ c = FavoritesOfUser)
      BY <2>1
    <2>3. CASE InSight(c)
      BY <2>2, <2>3 DEF StatesOK
    <2>4. CASE c = FavoritesOfUser
      BY <2>4, ListOfUser
    <2> QED
      BY <2>2, <2>3, <2>4
  <1>2. ASSUME AskList, UNCHANGED run PROVE StatesOK'
    <2> SUFFICES ASSUME ~crossed', NEW j \in Jobs, NEW c \in Lists, run[j] \in Live, InSight(c)'
                 PROVE  c[j] \in {None, run[j]}
      BY <1>2 DEF StatesOK
    <2>1. c = FavoritesOfUser
      BY <1>2, AskedInSight
    <2> QED
      BY <2>1, ListOfUser
  <1>3. ASSUME UNCHANGED <<cards, list, arrived, mounted, crossed, run, events, runGet, heard>>,
               failed \subseteq failed', missed \subseteq missed', shuffled \subseteq shuffled',
               overlapped \subseteq overlapped', \A j : Served(j) => Served(j)'
        PROVE  StatesOK'
    BY <1>3, StatesKept DEF NewsOf, BeingRead
  <1>4. ASSUME NEW k \in Jobs, Enqueue(k) \/ Start(k) \/ Pause(k) \/ Unpause(k) \/ End(k)
        PROVE  StatesOK'
    <2>1. PICK to \in Shown :
             /\ run' = [run EXCEPT ![k] = to]
             /\ events' = Append(events, [job |-> k, what |-> to])
             /\ UNCHANGED <<cards, list, arrived, mounted, crossed, runGet, heard, puts, failed,
                            missed, shuffled, overlapped>>
      BY <1>4, RunSteps DEF RunStep, RunGoesOn, storeVars, listVars, runVars, noteVars
    <2>2. /\ [job |-> k, what |-> to] \in News /\ [job |-> k, what |-> to].job = k
          /\ events \in Seq(News) /\ run \in [Jobs -> Shown]
      BY DEF News, Types
    <2>3. NewsOf(events', k) /\ \A j : NewsOf(events, j) => NewsOf(events', j)
      BY <2>1, <2>2, NewsAdded
    <2>4. \A j \in Jobs : ~NewsOf(events', j) => run'[j] = run[j] /\ ~NewsOf(events, j)
      BY <2>1, <2>2, <2>3
    <2> QED
      BY <2>1, <2>4, StatesKept DEF BeingRead, Served
  <1>5. HandleJobEvent => StatesOK'
    BY EventStates
  <1>6. ASSUME NEW k \in Jobs, ServeRun(k) PROVE StatesOK'
    <2>1. /\ UNCHANGED <<cards, list, arrived, mounted, crossed, run, events, heard, puts, failed,
                         missed, shuffled, overlapped>>
          /\ \A j \in Jobs : runGet'[j].told = runGet[j].told
      BY <1>6, RunServed DEF ServeRun, serverVars, storeVars, listVars, noteVars
    <2> QED
      BY <2>1, StatesKept DEF BeingRead, Served
  <1>7. ASSUME NEW k \in Jobs, RunResolves(k) PROVE StatesOK'
    BY <1>7, ResolveStates
  <1>8. ASSUME failed' # {} PROVE StatesOK'
    BY <1>8 DEF StatesOK
  <1>9. ASSUME NEW k \in Jobs, RunFails(k) PROVE failed' # {}
    BY <1>9 DEF RunFails, Failure
  <1>10. ASSUME NEW i \in DOMAIN heard, RunLookedUp(i) PROVE StatesOK'
    BY <1>10, LookedUpStates
  <1>11. ASSUME NEW i \in DOMAIN heard, RunLookupFails(i) PROVE failed' # {}
    BY <1>11 DEF RunLookupFails, Failure
  <1>12. CASE Mount
    BY <1>2, <1>12 DEF Mount, serverVars
  <1>13. CASE Unmount
    BY <1>13 DEF Unmount, StatesOK
  <1>14. ASSUME NEW i \in Items, Click(i) PROVE StatesOK'
    <2>1. /\ UNCHANGED <<cards, list, arrived, mounted, crossed, run, events, runGet, heard,
                         failed, missed, shuffled>>
          /\ overlapped \subseteq overlapped' /\ puts \subseteq puts'
      BY <1>14 DEF Click, serverVars, storeVars, listVars, runVars
    <2> QED
      BY <1>3, <2>1 DEF Served
  <1>15. ASSUME NEW p \in puts, ServePut(p) PROVE StatesOK'
    <2>1. /\ UNCHANGED <<cards, list, arrived, mounted, crossed, run, events, runGet, heard,
                         failed, missed, shuffled, overlapped>>
          /\ puts' = (puts \ {p}) \cup {[p EXCEPT !.phase = "served"]} /\ p.phase = "asked"
      BY <1>15 DEF ServePut, storeVars, listVars, runVars, noteVars
    <2>2. \A j : Served(j) => Served(j)'
      BY <2>1 DEF Served
    <2> QED
      BY <1>3, <2>1, <2>2
  <1>16. ASSUME NEW p \in puts, PutAnswered(p) PROVE StatesOK'
    <2>1. CASE mounted
      BY <1>2, <1>16, <2>1 DEF PutAnswered, ClearCache, serverVars
    <2>2. CASE ~mounted
      <3>1. mounted' = mounted
        BY <1>16 DEF PutAnswered
      <3> QED
        BY <2>2, <3>1 DEF StatesOK
    <2> QED
      BY <2>1, <2>2
  <1>17. ASSUME NEW p \in puts, PutRefused(p) PROVE StatesOK'
    <2>1. /\ UNCHANGED <<cards, list, arrived, mounted, crossed, run, events, runGet, heard,
                         failed, missed, shuffled, overlapped>>
          /\ puts' = puts \ {p} /\ p.phase = "asked"
      BY <1>17 DEF PutRefused, serverVars, storeVars, listVars, runVars, noteVars
    <2>2. \A j : Served(j) => Served(j)'
      BY <2>1 DEF Served
    <2> QED
      BY <1>3, <2>1, <2>2
  <1>18. ASSUME NEW p \in puts, PutFails(p) PROVE failed' # {}
    BY <1>18 DEF PutFails, Failure
  <1>19. CASE UNCHANGED vars
    <2>1. UNCHANGED <<cards, list, arrived, mounted, crossed, run, events, runGet, heard,
                      failed, missed, shuffled, overlapped, puts>>
      BY <1>19 DEF vars, serverVars, storeVars, listVars, runVars, noteVars
    <2> QED
      BY <1>3, <2>1 DEF Served
  <1> QED
    BY <1>1, <1>4, <1>5, <1>6, <1>7, <1>8, <1>9, <1>10, <1>11, <1>12, <1>13, <1>14, <1>15,
       <1>16, <1>17, <1>18, <1>19
    DEF Next, ListStep

-----------------------------------------------------------------------------
(* The invariant and the theorems. *)

LEMMA InitHolds ==
    Init => IInv
  <1> SUFFICES ASSUME Init PROVE IInv
    OBVIOUS
  <1>1. favorites \in SUBSET Jobs /\ IsFiniteSet(favorites)
    BY FS_Subset, JobsAssumption DEF Init
  <1>2. /\ names \in [1..Cardinality(favorites) -> Jobs] /\ Range(names) = favorites
        /\ Cardinality(favorites) \in Nat
    BY <1>1, FS_CardinalityType DEF Init
  <1>3. names \in Seq(Jobs)
    BY <1>2, SeqDef
  <1>4. IsInjective(names)
    <2>1. names \in Surjection(1..Cardinality(favorites), favorites)
      BY <1>2 DEF Surjection, Range
    <2>2. /\ IsFiniteSet(1..Cardinality(favorites))
          /\ Cardinality(1..Cardinality(favorites)) = Cardinality(favorites)
      BY <1>2, FS_Interval
    <2>3. names \in Injection(1..Cardinality(favorites), favorites)
      BY <2>1, <2>2, FS_Surjection
    <2> QED
      BY <2>3 DEF Injection
  <1>5. /\ events = <<>> /\ arrived = <<>> /\ heard = <<>> /\ puts = {} /\ mounted = FALSE
        /\ list = NoList /\ runGet = [j \in Jobs |-> NoRun]
    BY DEF Init
  <1>6. Types
    <2>1. "none" \in Shown
      BY DEF Shown
    <2>2. run \in [Jobs -> Shown] /\ cards \in Lists
      BY <2>1 DEF Init, Lists
    <2>3. /\ NoRun \in Gets /\ NoRun.phase = "idle"
          /\ NoList \in Promises /\ NoList.phase = "idle"
      BY <2>1 DEF NoRun, NoList, Gets, Promises
    <2>4. FavoritesOfUser \in Lists
      <3>1. \A j \in Jobs : LatestRun(j) \in Shown
        BY <2>1, <2>2 DEF LatestRun
      <3> QED
        BY <3>1 DEF FavoritesOfUser, Lists
    <2>5. prefetched \in Lists \cup {None}
      BY <2>4 DEF Init
    <2>6. events \in Seq(News) /\ arrived \in Seq(Lists) /\ heard \in Seq(News)
      BY <1>5
    <2> HIDE DEF NoRun, NoList
    <2>7. runGet \in [Jobs -> Gets] /\ \A j \in Jobs : runGet[j].phase = "idle"
      BY <1>5, <2>3
    <2> QED
      BY <1>1, <1>3, <1>5, <2>2, <2>3, <2>5, <2>6, <2>7 DEF Types
  <1>7. PutsOK /\ KnownOK /\ NamesOK
    BY <1>1, <1>2, <1>4, <1>5 DEF PutsOK, KnownOK, NamesOK, Served
  <1>8. CardsOK /\ StatesOK
    BY <1>5 DEF CardsOK, StatesOK
  <1>9. EventsOK /\ ReadsOK
    <2>1. \A j \in Jobs : run[j] \notin Live
      BY DEF Init, Live
    <2> QED
      BY <1>5, <2>1 DEF EventsOK, ReadsOK
  <1> QED
    BY <1>6, <1>7, <1>8, <1>9 DEF IInv

LEMMA Invariant ==
    Spec => []IInv
  <1>1. IInv /\ [Next]_vars => IInv'
    BY NextTypes, NextNames, NextCards, NextEvents, NextReads, NextStates DEF IInv
  <1> QED
    BY <1>1, InitHolds, PTL DEF Spec

\* FavoriteStore.setFavorite: when every click is answered, the names are the
\* user's favorites, each once, for any number of jobs and clicks.
THEOREM NamesMatchHolds ==
    Spec => []NamesMatch
  <1>1. IInv => NamesMatch
    <2> SUFFICES ASSUME IInv, puts = {}, "put" \notin failed, overlapped = {}
                 PROVE  IsInjective(names) /\ Range(names) = favorites
      BY DEF NamesMatch
    <2>1. /\ IsInjective(names)
          /\ \A j \in Jobs : (j \in favorites) = (j \in Range(names))
      BY DEF IInv, NamesOK, Served
    <2>2. favorites \subseteq Jobs /\ Range(names) \subseteq Jobs
      BY Names DEF IInv, Types
    <2> QED
      BY <2>1, <2>2
  <1> QED
    BY <1>1, Invariant, PTL

\* FavoriteStore.favorites, DashboardCards: on an open dashboard where nothing
\* is under way the cards are those of the user's favorites, unless two lists
\* were asked for at once or a request failed.
THEOREM CardsMatchHolds ==
    Spec => []CardsMatch
  <1>1. IInv => CardsMatch
    <2> SUFFICES ASSUME IInv, Quiet, mounted, ~crossed, failed \cap {"put", "list"} = {}
                 PROVE  {j \in Jobs : cards[j] # None} = favorites
      BY DEF CardsMatch
    <2>1. cards \in Lists /\ InSight(cards) /\ favorites \subseteq Jobs
      BY DEF IInv, Types, InSight, Quiet
    <2>2. \A j \in Jobs : Agrees(cards, j)
      BY <2>1 DEF IInv, CardsOK, Served, Quiet
    <2> QED
      BY <2>1, <2>2 DEF Agrees
  <1> QED
    BY <1>1, Invariant, PTL

\* SseBus._updateJob, onPipelineRun: there every card shows how its run stands,
\* as the state is forced to the one of the event, for any number of jobs, runs
\* and readers, if the events were answered and heard in order.
THEOREM StatesShownHolds ==
    Spec => []StatesShown
  <1>1. IInv => StatesShown
    <2> SUFFICES ASSUME IInv, Quiet, mounted, ~crossed, failed = {},
                        NEW j \in Jobs \ (missed \cup shuffled \cup overlapped),
                        cards[j] # None, run[j] \in {"running", "paused", "finished"}
                 PROVE  cards[j] = run[j]
      BY DEF StatesShown
    <2>1. cards \in Lists /\ InSight(cards)
      BY DEF IInv, Types, InSight, Quiet
    <2>2. ~Served(j) /\ ~NewsOf(events, j) /\ ~BeingRead(j) /\ run[j] \in Live
      BY DEF Quiet, Served, NewsOf, Live
    <2>3. cards[j] \in {None, run[j]}
      BY <2>1, <2>2 DEF IInv, StatesOK
    <2> QED
      BY <2>3
  <1> QED
    BY <1>1, Invariant, PTL
=============================================================================
