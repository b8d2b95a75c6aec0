----------------------------- MODULE DataFacts -----------------------------
(***************************************************************************)
(* Facts about data that the proofs of several components need: extreme    *)
(* elements of sets of numbers, sequences without one of their places, and *)
(* the lists that folds and recursive functions over lists make.           *)
(***************************************************************************)
EXTENDS Integers, Sequences, SequencesExt, FiniteSetTheorems, SequenceTheorems,
        WellFoundedInduction, TLAPS

\* A set of numbers that is not empty has a least element.
LEMMA LeastExists ==
    ASSUME NEW S \in SUBSET Nat, S # {}
    PROVE  \E j \in S : \A k \in S : j <= k
  <1> DEFINE R == OpToRel(<, Nat)
  <1>1. \E j \in S : \A k \in S : ~ (<<k, j>> \in R)
    <2> HIDE DEF R
    <2>1. IsWellFoundedOn(R, Nat)
      BY NatLessThanWellFounded DEF R
    <2> QED
      BY <2>1, WFMin
  <1>2. \A j, k \in Nat : k < j => <<k, j>> \in R
    BY DEF OpToRel
  <1>3. \E j \in S : \A k \in S : ~ (k < j)
    <2>1. PICK j \in S : \A k \in S : ~ (<<k, j>> \in R)
      BY <1>1, Zenon
    <2>2. \A k \in S : k < j => <<k, j>> \in R
      BY <1>2, Zenon
    <2> QED
      BY <2>1, <2>2, Zenon
  <1> HIDE DEF R
  <1> QED
    BY <1>3

\* A set of numbers that is bounded and not empty has a greatest element.
LEMMA GreatestExists ==
    ASSUME NEW n \in Nat, NEW S \in SUBSET (0..n), S # {}
    PROVE  \E j \in S : \A k \in S : k <= j
  <1> DEFINE T == {n - j : j \in S}
  <1>1. T \in SUBSET Nat /\ T # {}
    <2>1. \A j \in S : n - j \in Nat
      OBVIOUS
    <2>2. \E j \in S : n - j \in T
      BY Zenon
    <2> QED
      BY <2>1, <2>2
  <1>2. PICK i \in T : \A k \in T : i <= k
    <2> HIDE DEF T
    <2> QED
      BY <1>1, LeastExists
  <1>3. PICK j \in S : i = n - j
    OBVIOUS
  <1>4. \A k \in S : n - j <= n - k
    BY <1>2, <1>3
  <1> HIDE DEF T
  <1>5. ASSUME NEW k \in S PROVE k <= j
    <2>1. j \in Nat /\ k \in Nat /\ n - j <= n - k
      BY <1>4
    <2> QED
      BY <2>1
  <1> QED
    BY <1>5

\* A sequence without its place i (RemoveAt of SequencesExt).
LEMMA WithoutPlace ==
    ASSUME NEW S, NEW s \in Seq(S), NEW i \in 1..Len(s)
    PROVE  LET t == SubSeq(s, 1, i - 1) \o SubSeq(s, i + 1, Len(s))
           IN /\ t \in Seq(S) /\ Len(t) = Len(s) - 1
              /\ \A j \in 1..(Len(s) - 1) : t[j] = IF j < i THEN s[j] ELSE s[j + 1]
  <1> DEFINE n == Len(s)
             a == SubSeq(s, 1, i - 1)
             b == SubSeq(s, i + 1, n)
             t == a \o b
  <1>1. n \in Nat /\ i \in 1..n /\ \A j \in 1..n : s[j] \in S
    BY LenProperties, ElementOfSeq
  <1>2. /\ a \in Seq(S) /\ Len(a) = i - 1
        /\ \A j \in 1..(i - 1) : a[j] = s[j]
    <2>1. 1 \in Int /\ i - 1 \in Int /\ \A j \in 1..(i - 1) : s[j] \in S
      BY <1>1
    <2>2. /\ a \in Seq(S)
          /\ Len(a) = IF 1 <= i - 1 THEN (i - 1) - 1 + 1 ELSE 0
          /\ \A j \in 1..((i - 1) - 1 + 1) : a[j] = s[1 + j - 1]
      BY <2>1, SubSeqProperties
    <2> HIDE DEF a
    <2>3. (i - 1) - 1 + 1 = i - 1 /\ \A j \in 1..(i - 1) : 1 + j - 1 = j
      BY <1>1
    <2> QED
      BY <1>1, <2>2, <2>3
  <1>3. /\ b \in Seq(S) /\ Len(b) = n - i
        /\ \A j \in 1..(n - i) : b[j] = s[i + j]
    <2>1. i + 1 \in Int /\ n \in Int /\ \A j \in (i + 1)..n : s[j] \in S
      BY <1>1
    <2>2. /\ b \in Seq(S)
          /\ Len(b) = IF i + 1 <= n THEN n - (i + 1) + 1 ELSE 0
          /\ \A j \in 1..(n - (i + 1) + 1) : b[j] = s[(i + 1) + j - 1]
      BY <2>1, SubSeqProperties
    <2> HIDE DEF b
    <2>3. n - (i + 1) + 1 = n - i /\ \A j \in 1..(n - i) : (i + 1) + j - 1 = i + j
      BY <1>1
    <2>4. Len(b) = n - i
      BY <1>1, <2>2
    <2>5. ASSUME NEW j \in 1..(n - i) PROVE b[j] = s[i + j]
      <3>1. b[j] = s[(i + 1) + j - 1] /\ (i + 1) + j - 1 = i + j
        BY <2>2, <2>3
      <3> QED
        BY <3>1
    <2> QED
      BY <2>2, <2>4, <2>5
  <1>4. t = a \o b
    OBVIOUS
  <1> HIDE DEF a, b, t
  <1>5. /\ t \in Seq(S) /\ Len(t) = Len(a) + Len(b)
        /\ \A j \in 1..(Len(a) + Len(b)) : t[j] = IF j <= Len(a) THEN a[j] ELSE b[j - Len(a)]
    BY <1>2, <1>3, <1>4, ConcatProperties
  <1>6. Len(a) + Len(b) = n - 1
    BY <1>1, <1>2, <1>3
  <1>7. ASSUME NEW j \in 1..(n - 1)
        PROVE  t[j] = IF j < i THEN s[j] ELSE s[j + 1]
    <2>1. t[j] = IF j <= i - 1 THEN a[j] ELSE b[j - (i - 1)]
      BY <1>2, <1>5, <1>6
    <2>2. CASE j < i
      <3>1. j \in 1..(i - 1) /\ j <= i - 1
        BY <1>1, <2>2
      <3> QED
        BY <1>2, <2>1, <2>2, <3>1
    <2>3. CASE ~(j < i)
      <3>1. j - (i - 1) \in 1..(n - i) /\ ~(j <= i - 1) /\ i + (j - (i - 1)) = j + 1
        BY <1>1, <2>3
      <3>2. b[j - (i - 1)] = s[i + (j - (i - 1))]
        BY <1>3, <3>1
      <3> QED
        BY <2>1, <2>3, <3>1, <3>2
    <2> QED
      BY <2>2, <2>3
  <1> QED
    BY <1>5, <1>6, <1>7 DEF t, a, b

-----------------------------------------------------------------------------
\* What folds and recursive functions make of lists.

\* A list with one element more in front.
LEMMA InFront ==
  ASSUME NEW T, NEW a \in T, NEW t \in Seq(T)
  PROVE  /\ <<a>> \o t \in Seq(T) /\ Len(<<a>> \o t) = Len(t) + 1 /\ (<<a>> \o t)[1] = a
         /\ \A y \in 1..Len(t) : (<<a>> \o t)[y + 1] = t[y]
  <1> DEFINE h == <<a>>
             u == h \o t
  <1>1. h \in Seq(T) /\ Len(h) = 1 /\ h[1] = a
    OBVIOUS
  <1>2. Len(t) \in Nat
    BY LenProperties
  <1> HIDE DEF h
  <1>3. /\ u \in Seq(T) /\ Len(u) = Len(h) + Len(t)
        /\ \A y \in 1..(Len(h) + Len(t)) : u[y] = IF y <= Len(h) THEN h[y] ELSE t[y - Len(h)]
    BY <1>1, ConcatProperties
  <1> HIDE DEF u
  <1>4. u[1] = a
    BY <1>1, <1>2, <1>3
  <1>5. ASSUME NEW y \in 1..Len(t) PROVE u[y + 1] = t[y]
    <2>1. y + 1 \in 1..(Len(h) + Len(t)) /\ ~(y + 1 <= Len(h)) /\ y + 1 - Len(h) = y
      BY <1>1, <1>2
    <2> QED
      BY <1>3, <2>1
  <1> QED
    BY <1>1, <1>2, <1>3, <1>4, <1>5 DEF u, h

\* A list with two elements more in front.
LEMMA PairInFront ==
  ASSUME NEW T, NEW a \in T, NEW b \in T, NEW t \in Seq(T)
  PROVE  (<<a, b>> \o t)[1] = a /\ (<<a, b>> \o t)[2] = b
  <1>1. <<a, b>> \in Seq(T) /\ Len(<<a, b>>) = 2 /\ Len(t) \in Nat
    BY LenProperties
  <1>2. 1 \in 1..(2 + Len(t)) /\ 2 \in 1..(2 + Len(t))
    BY <1>1
  <1>3. /\ (<<a, b>> \o t)[1] = <<a, b>>[1]
        /\ (<<a, b>> \o t)[2] = <<a, b>>[2]
    BY <1>1, <1>2, ConcatProperties
  <1> QED
    BY <1>3

\* A list of c elements, made from the last one on.
MadeInTurn(row, at, c) ==
  \A k \in 1..c : row[k] = <<at[k]>> \o (IF k = c THEN <<>> ELSE row[k + 1])

\* Such a list is what its elements are, in their order.
LEMMA ListedInTurn ==
  ASSUME NEW T, NEW c \in Nat \ {0}, NEW at \in [1..c -> T], NEW row, MadeInTurn(row, at, c)
  PROVE  row[1] = at
  <1> DEFINE Holds(k) == /\ row[k] \in Seq(T) /\ Len(row[k]) = c + 1 - k
                         /\ \A y \in 1..(c + 1 - k) : row[k][y] = at[k + y - 1]
             Bad == {m \in 0..(c - 1) : ~Holds(c - m)}
  <1>1. Bad = {}
    <2> SUFFICES ASSUME Bad # {} PROVE FALSE
      OBVIOUS
    <2>1. PICK m \in Bad : \A l \in Bad : m <= l
      <3>1. Bad \in SUBSET Nat
        OBVIOUS
      <3> HIDE DEF Bad
      <3> QED
        BY <3>1, LeastExists
    <2>2. m \in 0..(c - 1) /\ ~Holds(c - m)
      BY Zenon
    <2> DEFINE k == c - m
               t == IF k = c THEN <<>> ELSE row[k + 1]
               u == <<at[k]>> \o t
    <2>3. k \in 1..c /\ k \in Nat /\ k = c - m
      BY <2>2
    <2>4. t \in Seq(T) /\ Len(t) = c - k /\ \A y \in 1..(c - k) : t[y] = at[k + y]
      <3>1. CASE k = c
        <4>1. t = <<>>
          BY <3>1
        <4>2. <<>> \in Seq(T) /\ Len(<<>>) = 0
          BY EmptySeq
        <4>3. c - k = 0
          BY <2>3, <3>1
        <4> HIDE DEF t, k
        <4>4. t \in Seq(T) /\ Len(t) = c - k
          BY <4>1, <4>2, <4>3
        <4>5. \A y \in 1..(c - k) : t[y] = at[k + y]
          BY <4>3
        <4> QED
          BY <4>4, <4>5
      <3>2. CASE k # c
        <4>1. m - 1 \in 0..(c - 1) /\ ~(m <= m - 1) /\ c - (m - 1) = k + 1
          BY <2>2, <3>2
        <4>2. Holds(c - (m - 1))
          <5>1. m - 1 \notin Bad
            <6> HIDE DEF Bad
            <6> QED
              BY <2>1, <4>1
          <5> HIDE DEF Holds
          <5> QED
            BY <4>1, <5>1
        <4>3. t = row[k + 1]
          BY <3>2
        <4> HIDE DEF t, k, Bad
        <4>4. /\ t \in Seq(T) /\ Len(t) = c + 1 - (k + 1)
              /\ \A y \in 1..(c + 1 - (k + 1)) : t[y] = at[k + 1 + y - 1]
          BY <4>1, <4>2, <4>3
        <4>5. c + 1 - (k + 1) = c - k /\ \A y \in 1..(c - k) : k + 1 + y - 1 = k + y
          BY <2>3
        <4> QED
          BY <4>4, <4>5
      <3> QED
        BY <3>1, <3>2
    <2>5. row[k] = u
      BY <2>3 DEF MadeInTurn
    <2> HIDE DEF t, k, Bad
    <2>6. /\ u \in Seq(T) /\ Len(u) = Len(t) + 1 /\ u[1] = at[k]
          /\ \A y \in 1..Len(t) : u[y + 1] = t[y]
      BY <2>3, <2>4, InFront
    <2> HIDE DEF u
    <2>7. ASSUME NEW y \in 1..(c + 1 - k) PROVE u[y] = at[k + y - 1]
      <3>1. CASE y = 1
        <4>1. k + y - 1 = k
          BY <2>3, <3>1
        <4> QED
          BY <2>6, <3>1, <4>1
      <3>2. CASE y # 1
        <4>1. y - 1 \in 1..(c - k) /\ y - 1 + 1 = y /\ k + (y - 1) = k + y - 1
          BY <2>3, <3>2
        <4>2. u[y - 1 + 1] = t[y - 1] /\ t[y - 1] = at[k + (y - 1)]
          BY <2>4, <2>6, <4>1
        <4> QED
          BY <4>1, <4>2
      <3> QED
        BY <3>1, <3>2
    <2>8. Len(u) = c + 1 - k
      BY <2>3, <2>4, <2>6
    <2>9. Holds(k)
      BY <2>5, <2>6, <2>7, <2>8
    <2> HIDE DEF Holds
    <2> QED
      BY <2>2, <2>3, <2>9
  <1>2. Holds(1)
    <2>1. c - 1 \in 0..(c - 1) /\ c - (c - 1) = 1
      OBVIOUS
    <2> HIDE DEF Holds
    <2> QED
      BY <1>1, <2>1
  <1> DEFINE r == row[1]
  <1>3. r \in Seq(T) /\ Len(r) = c /\ \A y \in 1..c : r[y] = at[y]
    <2>1. /\ r \in Seq(T) /\ Len(r) = c + 1 - 1
          /\ \A y \in 1..(c + 1 - 1) : r[y] = at[1 + y - 1]
      BY <1>2
    <2>2. c + 1 - 1 = c /\ \A y \in 1..c : 1 + y - 1 = y
      OBVIOUS
    <2> HIDE DEF r
    <2> QED
      BY <2>1, <2>2
  <1> HIDE DEF r
  <1>4. DOMAIN r = 1..c /\ r = [y \in DOMAIN r |-> r[y]]
    BY <1>3, LenProperties
  <1>5. r = at
    BY <1>3, <1>4
  <1> QED
    BY <1>5 DEF r

\* f lists, from each a in S on, what comes along the trail of nxt.
Trail(f, S, head, nxt) ==
  f = [a \in S |-> head[a] \o (IF nxt[a] \in S THEN f[nxt[a]] ELSE <<>>)]

\* Every step of a trail leads on to a higher rank.
LeadsUp(S, nxt, rank) == \A a \in S : nxt[a] \in S => rank[a] < rank[nxt[a]]

\* Where every step of a trail leads on to a higher rank, and ranks are
\* bounded, what a trail lists is well defined.
LEMMA TrailExists ==
  ASSUME NEW S, NEW rank \in [S -> Nat], NEW B \in Nat, \A a \in S : rank[a] <= B,
         NEW head, NEW nxt, LeadsUp(S, nxt, rank)
  PROVE  \E f : Trail(f, S, head, nxt)
  <1> DEFINE Low(m) == {a \in S : B - m <= rank[a]}
             IsTrail(f, m) == \A a \in Low(m) :
                                f[a] = head[a] \o (IF nxt[a] \in S THEN f[nxt[a]] ELSE <<>>)
             Bad == {m \in Nat : ~\E f : f = [a \in S |-> f[a]] /\ IsTrail(f, m)}
  <1>1. Bad = {}
    <2> SUFFICES ASSUME Bad # {} PROVE FALSE
      OBVIOUS
    <2>1. PICK m \in Bad : \A k \in Bad : m <= k
      <3>1. Bad \in SUBSET Nat
        OBVIOUS
      <3> HIDE DEF Bad
      <3> QED
        BY <3>1, LeastExists
    <2>2. m \in Nat /\ ~\E f : f = [a \in S |-> f[a]] /\ IsTrail(f, m)
      OBVIOUS
    <2>3. \E h : h = [a \in S |-> h[a]] /\ \A a \in Low(m) : nxt[a] \in S =>
                   h[nxt[a]] = head[nxt[a]] \o
                     (IF nxt[nxt[a]] \in S THEN h[nxt[nxt[a]]] ELSE <<>>)
      <3>1. CASE m = 0
        <4> DEFINE h == [a \in S |-> <<>>]
        <4>1. h = [a \in S |-> h[a]]
          OBVIOUS
        <4>2. \A a \in Low(m) : nxt[a] \notin S
          BY <3>1 DEF LeadsUp
        <4> QED
          BY <4>1, <4>2
      <3>2. CASE m # 0
        <4>1. m - 1 \in Nat /\ ~(m <= m - 1)
          BY <2>2, <3>2
        <4>2. m - 1 \notin Bad
          <5> HIDE DEF Bad
          <5> QED
            BY <2>1, <4>1
        <4>3. PICK h : h = [a \in S |-> h[a]] /\ IsTrail(h, m - 1)
          BY <4>1, <4>2, Zenon
        <4>4. ASSUME NEW a \in Low(m), nxt[a] \in S PROVE nxt[a] \in Low(m - 1)
          <5>1. rank[a] \in Nat /\ rank[nxt[a]] \in Nat /\ rank[a] < rank[nxt[a]]
            BY <4>4 DEF LeadsUp
          <5>2. B - m <= rank[a]
            BY <4>4
          <5>3. B - (m - 1) <= rank[nxt[a]]
            BY <2>2, <5>1, <5>2
          <5> QED
            BY <4>4, <5>3
        <4> HIDE DEF Low
        <4> QED
          BY <4>3, <4>4
      <3> QED
        BY <3>1, <3>2
    <2>4. PICK h : /\ h = [a \in S |-> h[a]]
                   /\ \A a \in Low(m) : nxt[a] \in S =>
                        h[nxt[a]] = head[nxt[a]] \o
                          (IF nxt[nxt[a]] \in S THEN h[nxt[nxt[a]]] ELSE <<>>)
      BY <2>3
    <2> DEFINE g == [a \in S |-> head[a] \o (IF nxt[a] \in S THEN h[nxt[a]] ELSE <<>>)]
    <2>5. g = [a \in S |-> g[a]]
      OBVIOUS
    <2>6. IsTrail(g, m)
      <3>1. ASSUME NEW a \in Low(m)
            PROVE  g[a] = head[a] \o (IF nxt[a] \in S THEN g[nxt[a]] ELSE <<>>)
        <4>1. a \in S
          OBVIOUS
        <4>2. CASE nxt[a] \notin S
          BY <4>1, <4>2
        <4>3. CASE nxt[a] \in S
          <5>1. g[nxt[a]] = h[nxt[a]]
            <6>1. h[nxt[a]] = head[nxt[a]] \o
                          (IF nxt[nxt[a]] \in S THEN h[nxt[nxt[a]]] ELSE <<>>)
              <7> HIDE DEF Low
              <7> QED
                BY <2>4, <3>1, <4>3
            <6> QED
              BY <4>3, <6>1
          <5>2. g[a] = head[a] \o h[nxt[a]]
            BY <4>1, <4>3
          <5> HIDE DEF g
          <5> QED
            BY <4>3, <5>1, <5>2
        <4> QED
          BY <4>2, <4>3
      <3> QED
        BY <3>1
    <2> HIDE DEF g, IsTrail
    <2> QED
      BY <2>2, <2>5, <2>6, Zenon
  <1>2. PICK f : f = [a \in S |-> f[a]] /\ IsTrail(f, B)
    <2>1. B \notin Bad
      BY <1>1
    <2> HIDE DEF IsTrail
    <2> QED
      BY <2>1
  <1>3. ASSUME NEW a \in S
        PROVE  f[a] = head[a] \o (IF nxt[a] \in S THEN f[nxt[a]] ELSE <<>>)
    <2>1. rank[a] \in Nat
      OBVIOUS
    <2>2. a \in Low(B)
      BY <2>1
    <2> HIDE DEF Low
    <2> QED
      BY <1>2, <2>2
  <1>4. f = [a \in S |-> head[a] \o (IF nxt[a] \in S THEN f[nxt[a]] ELSE <<>>)]
    BY <1>2, <1>3
  <1> QED
    BY <1>4 DEF Trail

\* A trail of lists is a list.
LEMMA TrailTyped ==
  ASSUME NEW S, NEW rank \in [S -> Nat], NEW B \in Nat, \A a \in S : rank[a] <= B,
         NEW T, NEW head, \A a \in S : head[a] \in Seq(T),
         NEW nxt, LeadsUp(S, nxt, rank), NEW f, Trail(f, S, head, nxt)
  PROVE  \A a \in S : f[a] \in Seq(T)
  <1> SUFFICES ASSUME NEW a0 \in S, f[a0] \notin Seq(T) PROVE FALSE
    OBVIOUS
  <1> DEFINE Bad == {m \in Nat : \E a \in S : f[a] \notin Seq(T) /\ m = B - rank[a]}
  <1>1. Bad # {} /\ Bad \in SUBSET Nat
    <2>1. rank[a0] \in Nat /\ rank[a0] <= B
      OBVIOUS
    <2>2. B - rank[a0] \in Nat
      BY <2>1
    <2> QED
      BY <2>2
  <1>2. PICK m \in Bad : \A k \in Bad : m <= k
    <2> HIDE DEF Bad
    <2> QED
      BY <1>1, LeastExists
  <1>3. PICK a \in S : f[a] \notin Seq(T) /\ m = B - rank[a]
    BY <1>2
  <1>4. CASE nxt[a] \notin S
    <2>1. f[a] = head[a] \o <<>> /\ head[a] \in Seq(T) /\ <<>> \in Seq(T)
      <3>1. f[a] = head[a] \o <<>>
        BY <1>4, Zenon DEF Trail
      <3>2. <<>> \in Seq(T)
        BY EmptySeq
      <3> QED
        BY <3>1, <3>2
    <2>2. head[a] \o <<>> \in Seq(T)
      BY <2>1, ConcatProperties
    <2> QED
      BY <1>3, <2>1, <2>2
  <1>5. CASE nxt[a] \in S
    <2>1. /\ rank[a] \in Nat /\ rank[nxt[a]] \in Nat
          /\ rank[nxt[a]] <= B /\ rank[a] < rank[nxt[a]]
      BY <1>5 DEF LeadsUp
    <2>2. B - rank[nxt[a]] \in Nat /\ ~(m <= B - rank[nxt[a]])
      BY <1>3, <2>1
    <2>3. f[nxt[a]] \in Seq(T)
      <3>1. B - rank[nxt[a]] \notin Bad
        <4> HIDE DEF Bad
        <4> QED
          BY <1>2, <2>2
      <3> QED
        BY <1>5, <2>2, <3>1
    <2>4. f[a] = head[a] \o f[nxt[a]] /\ head[a] \in Seq(T)
      BY <1>5 DEF Trail
    <2>5. head[a] \o f[nxt[a]] \in Seq(T)
      BY <2>3, <2>4, ConcatProperties
    <2> QED
      BY <1>3, <2>4, <2>5
  <1> QED
    BY <1>4, <1>5

\* SequencesExt!FlattenSeq: what follows from what, up to the i-th list.
LEMMA FlattenSteps ==
  ASSUME NEW S, NEW seqs \in Seq(Seq(S)), Len(seqs) # 0
  PROVE  \E f : /\ FlattenSeq(seqs) = f[Len(seqs)]
                /\ f[1] = seqs[1]
                /\ \A i \in 2..Len(seqs) : f[i] = f[i - 1] \o seqs[i]
  <1> DEFINE n == Len(seqs)
             IsPart(g, m) == g[1] = seqs[1] /\ \A i \in 2..m : g[i] = g[i - 1] \o seqs[i]
             Bad == {m \in 1..n : ~\E g : g = [i \in 1..m |-> g[i]] /\ IsPart(g, m)}
  <1>1. n \in Nat /\ n # 0
    BY LenProperties
  <1>2. Bad = {}
    <2> SUFFICES ASSUME Bad # {} PROVE FALSE
      OBVIOUS
    <2>1. Bad \in SUBSET Nat
      <3>1. Bad \subseteq 1..n
        BY Zenon
      <3> HIDE DEF Bad
      <3> QED
        BY <1>1, <3>1
    <2>2. PICK m \in Bad : \A k \in Bad : m <= k
      <3> HIDE DEF Bad
      <3> QED
        BY <2>1, LeastExists
    <2>3. m \in 1..n /\ ~\E g : g = [i \in 1..m |-> g[i]] /\ IsPart(g, m)
      OBVIOUS
    <2>4. CASE m = 1
      <3> DEFINE g == [i \in 1..1 |-> seqs[1]]
      <3>1. g = [i \in 1..1 |-> g[i]] /\ IsPart(g, 1)
        OBVIOUS
      <3> HIDE DEF g
      <3> QED
        BY <2>3, <2>4, <3>1, Zenon
    <2>5. CASE m # 1
      <3>1. m - 1 \in 1..n /\ m - 1 \notin Bad
        <4>1. m \in Nat /\ m - 1 \in 1..n /\ ~(m <= m - 1)
          BY <1>1, <2>3, <2>5
        <4> HIDE DEF Bad
        <4> QED
          BY <2>2, <4>1
      <3>2. PICK h : h = [i \in 1..(m - 1) |-> h[i]] /\ IsPart(h, m - 1)
        BY <3>1, Zenon
      <3> DEFINE g == [i \in 1..m |-> IF i = m THEN h[m - 1] \o seqs[m] ELSE h[i]]
      <3>3. g = [i \in 1..m |-> g[i]]
        OBVIOUS
      <3>4. IsPart(g, m)
        <4>1. g[1] = seqs[1]
          BY <1>1, <2>3, <2>5, <3>2
        <4>2. ASSUME NEW i \in 2..m PROVE g[i] = g[i - 1] \o seqs[i]
          <5>1. i \in 1..m /\ i - 1 \in 1..m /\ i - 1 # m /\ (i # m => i \in 2..(m - 1))
            BY <1>1, <2>3
          <5>2. g[i - 1] = h[i - 1]
            BY <5>1
          <5>3. CASE i = m
            BY <5>1, <5>2, <5>3
          <5>4. CASE i # m
            BY <5>1, <5>2, <5>4, <3>2
          <5> QED
            BY <5>3, <5>4
        <4> QED
          BY <4>1, <4>2
      <3> HIDE DEF g
      <3> QED
        BY <2>3, <3>3, <3>4, Zenon
    <2> QED
      BY <2>4, <2>5
  <1>3. PICK g : g = [i \in 1..n |-> g[i]] /\ IsPart(g, n)
    <2>1. n \notin Bad
      BY <1>2, Zenon
    <2>2. n \in 1..n
      BY <1>1
    <2> QED
      BY <2>1, <2>2, Zenon
  <1> DEFINE flatten[i \in 1..Len(seqs)] == IF i = 1 THEN seqs[i] ELSE flatten[i - 1] \o seqs[i]
  <1>4. g = [i \in 1..n |-> IF i = 1 THEN seqs[i] ELSE g[i - 1] \o seqs[i]]
    <2>1. ASSUME NEW i \in 1..n PROVE g[i] = IF i = 1 THEN seqs[i] ELSE g[i - 1] \o seqs[i]
      <3>1. CASE i = 1
        BY <1>3, <3>1
      <3>2. CASE i # 1
        <4>1. i \in 2..n
          BY <1>1, <3>2
        <4> QED
          BY <1>3, <3>2, <4>1
      <3> QED
        BY <3>1, <3>2
    <2> HIDE DEF IsPart
    <2> QED
      BY <1>3, <2>1
  <1>5. flatten = [i \in 1..n |-> IF i = 1 THEN seqs[i] ELSE flatten[i - 1] \o seqs[i]]
    BY <1>4, Zenon
  <1>6. FlattenSeq(seqs) = flatten[n]
    BY Zenon DEF FlattenSeq
  <1> HIDE DEF flatten
  <1>7. flatten[1] = seqs[1]
    <2>1. 1 \in 1..n
      BY <1>1
    <2> QED
      BY <1>5, <2>1
  <1>8. ASSUME NEW i \in 2..n PROVE flatten[i] = flatten[i - 1] \o seqs[i]
    <2>1. i \in 1..n /\ i # 1
      BY <1>1
    <2> QED
      BY <1>5, <2>1
  <1> QED
    BY <1>6, <1>7, <1>8, Zenon

\* SequencesExt!FlattenSeq: what is in a list is in the whole, from the
\* first element of the first list on, and nothing else.
LEMMA FlattenKeeps ==
  ASSUME NEW S, NEW seqs \in Seq(Seq(S))
  PROVE  LET t == FlattenSeq(seqs)
         IN  /\ t \in Seq(S)
             /\ \A i \in 1..Len(seqs) : \A x \in 1..Len(seqs[i]) :
                  \E y \in 1..Len(t) : t[y] = seqs[i][x]
             /\ \A y \in 1..Len(t) :
                  \E i \in 1..Len(seqs) : \E x \in 1..Len(seqs[i]) : t[y] = seqs[i][x]
             /\ Len(seqs) # 0 /\ Len(seqs[1]) # 0 => Len(t) # 0 /\ t[1] = seqs[1][1]
  <1> DEFINE n == Len(seqs)
             t == FlattenSeq(seqs)
  <1>1. n \in Nat /\ DOMAIN seqs = 1..n /\ \A i \in 1..n : seqs[i] \in Seq(S)
    BY LenProperties, ElementOfSeq
  <1>2. CASE n = 0
    <2>1. seqs = <<>>
      BY <1>2, EmptySeq
    <2>2. t = <<>>
      BY <1>2, <2>1 DEF FlattenSeq
    <2>3. t \in Seq(S) /\ Len(t) = 0
      BY <2>2, EmptySeq
    <2> HIDE DEF t, n
    <2> QED
      BY <1>2, <2>3 DEF n, t
  <1>3. CASE n # 0
    <2>1. PICK f : /\ t = f[n] /\ f[1] = seqs[1]
                   /\ \A i \in 2..n : f[i] = f[i - 1] \o seqs[i]
      BY <1>3, FlattenSteps
    <2> DEFINE Holds(m) ==
                 /\ f[m] \in Seq(S)
                 /\ \A i \in 1..m : \A x \in 1..Len(seqs[i]) :
                      \E y \in 1..Len(f[m]) : f[m][y] = seqs[i][x]
                 /\ \A y \in 1..Len(f[m]) :
                      \E i \in 1..m : \E x \in 1..Len(seqs[i]) : f[m][y] = seqs[i][x]
                 /\ Len(seqs[1]) # 0 => Len(f[m]) # 0 /\ f[m][1] = seqs[1][1]
               Bad == {m \in 1..n : ~Holds(m)}
    <2> HIDE DEF t
    <2>2. Bad = {}
      <3> SUFFICES ASSUME Bad # {} PROVE FALSE
        OBVIOUS
      <3>1. PICK m \in Bad : \A k \in Bad : m <= k
        <4>1. Bad \in SUBSET Nat
          <5>1. Bad \subseteq 1..n
            BY Zenon
          <5> HIDE DEF Bad
          <5> QED
            BY <1>1, <5>1
        <4> HIDE DEF Bad
        <4> QED
          BY <4>1, LeastExists
      <3>2. m \in 1..n /\ ~Holds(m)
        BY Zenon
      <3>3. CASE m = 1
        <4>1. f[m] = seqs[1] /\ seqs[1] \in Seq(S)
          BY <1>1, <1>3, <2>1, <3>3
        <4> QED
          BY <3>2, <3>3, <4>1
      <3>4. CASE m # 1
        <4>1. m - 1 \in 1..n /\ m \in 2..n /\ ~(m <= m - 1)
          BY <1>1, <3>2, <3>4
        <4>2. Holds(m - 1)
          <5>1. m - 1 \notin Bad
            <6> HIDE DEF Bad
            <6> QED
              BY <3>1, <4>1
          <5> HIDE DEF Holds
          <5> QED
            BY <4>1, <5>1
        <4> DEFINE a == f[m - 1]
                   b == seqs[m]
                   c == f[m]
        <4>3. c = a \o b /\ a \in Seq(S) /\ b \in Seq(S)
          BY <1>1, <2>1, <4>1, <4>2
        <4>4. /\ \A i \in 1..(m - 1) : \A x \in 1..Len(seqs[i]) :
                   \E y \in 1..Len(a) : a[y] = seqs[i][x]
              /\ \A y \in 1..Len(a) :
                   \E i \in 1..(m - 1) : \E x \in 1..Len(seqs[i]) : a[y] = seqs[i][x]
              /\ Len(seqs[1]) # 0 => Len(a) # 0 /\ a[1] = seqs[1][1]
          BY <4>2
        <4> HIDE DEF a, b, c, Bad
        <4>5. /\ c \in Seq(S) /\ Len(c) = Len(a) + Len(b)
              /\ \A y \in 1..(Len(a) + Len(b)) :
                   c[y] = IF y <= Len(a) THEN a[y] ELSE b[y - Len(a)]
              /\ Len(a) \in Nat /\ Len(b) \in Nat
          BY <4>3, ConcatProperties, LenProperties
        <4>6. ASSUME NEW i \in 1..m, NEW x \in 1..Len(seqs[i])
              PROVE  \E y \in 1..Len(c) : c[y] = seqs[i][x]
          <5>1. CASE i = m
            <6>1. b = seqs[i] /\ x \in 1..Len(b)
              BY <5>1 DEF b
            <6>2. Len(a) + x \in 1..Len(c) /\ ~(Len(a) + x <= Len(a)) /\ Len(a) + x - Len(a) = x
              BY <4>5, <6>1
            <6>3. c[Len(a) + x] = b[x]
              BY <4>5, <6>2
            <6> QED
              BY <6>1, <6>2, <6>3
          <5>2. CASE i # m
            <6>1. i \in 1..(m - 1)
              BY <3>2, <5>2
            <6>2. PICK y \in 1..Len(a) : a[y] = seqs[i][x]
              BY <4>4, <6>1
            <6>3. y \in 1..Len(c) /\ y \in 1..(Len(a) + Len(b)) /\ y <= Len(a)
              BY <4>5
            <6>4. c[y] = a[y]
              BY <4>5, <6>3
            <6> QED
              BY <6>2, <6>3, <6>4
          <5> QED
            BY <5>1, <5>2
        <4>7. ASSUME NEW y \in 1..Len(c)
              PROVE  \E i \in 1..m : \E x \in 1..Len(seqs[i]) : c[y] = seqs[i][x]
          <5>1. CASE y <= Len(a)
            <6>1. y \in 1..Len(a) /\ c[y] = a[y]
              BY <4>5, <5>1
            <6>2. PICK i \in 1..(m - 1) : \E x \in 1..Len(seqs[i]) : a[y] = seqs[i][x]
              BY <4>4, <6>1
            <6>3. i \in 1..m
              BY <3>2
            <6> QED
              BY <6>1, <6>2, <6>3
          <5>2. CASE ~(y <= Len(a))
            <6>1. y - Len(a) \in 1..Len(b) /\ c[y] = b[y - Len(a)]
              BY <4>5, <5>2
            <6>2. m \in 1..m
              BY <3>2
            <6> QED
              BY <6>1, <6>2 DEF b
          <5> QED
            BY <5>1, <5>2
        <4>8. ASSUME Len(seqs[1]) # 0 PROVE Len(c) # 0 /\ c[1] = seqs[1][1]
          <5>1. Len(a) # 0 /\ a[1] = seqs[1][1]
            BY <4>4, <4>8
          <5> QED
            BY <4>5, <5>1
        <4>9. Holds(m)
          BY <4>5, <4>6, <4>7, <4>8 DEF c
        <4> QED
          BY <3>2, <4>9
      <3> QED
        BY <3>3, <3>4
    <2>3. Holds(n)
      <3> HIDE DEF Holds
      <3> QED
        BY <1>1, <1>3, <2>2
    <2> QED
      BY <2>1, <2>3 DEF t
  <1> QED
    BY <1>2, <1>3

\* Sequences of records of which no two have one id.
Distinct(s) == \A y, z \in 1..Len(s) : s[y].id = s[z].id => y = z

\* Sequences with no id in common.
Apart(s, t) == \A y \in 1..Len(s), z \in 1..Len(t) : s[y].id # t[z].id

\* Lists of nodes without an id in common go behind each other.
LEMMA ConcatDistinct ==
  ASSUME NEW S, NEW s \in Seq(S), NEW t \in Seq(S), Distinct(s), Distinct(t), Apart(s, t)
  PROVE  /\ s \o t \in Seq(S) /\ Distinct(s \o t)
         /\ \A y \in 1..Len(s \o t) : \/ \E x \in 1..Len(s) : (s \o t)[y] = s[x]
                                      \/ \E x \in 1..Len(t) : (s \o t)[y] = t[x]
  <1> DEFINE u == s \o t
  <1>1. /\ u \in Seq(S) /\ Len(u) = Len(s) + Len(t)
        /\ \A y \in 1..(Len(s) + Len(t)) : u[y] = IF y <= Len(s) THEN s[y] ELSE t[y - Len(s)]
    BY ConcatProperties
  <1>2. Len(s) \in Nat /\ Len(t) \in Nat
    BY LenProperties
  <1> HIDE DEF u
  <1>3. ASSUME NEW y \in 1..Len(u)
        PROVE  \/ y \in 1..Len(s) /\ u[y] = s[y]
               \/ y - Len(s) \in 1..Len(t) /\ u[y] = t[y - Len(s)]
    <2>1. CASE y <= Len(s)
      BY <1>1, <1>2, <2>1
    <2>2. CASE ~(y <= Len(s))
      <3>1. y - Len(s) \in 1..Len(t)
        BY <1>1, <1>2, <2>2
      <3> QED
        BY <1>1, <1>2, <2>2, <3>1
    <2> QED
      BY <2>1, <2>2
  <1>4. ASSUME NEW y \in 1..Len(u), NEW z \in 1..Len(u), u[y].id = u[z].id PROVE y = z
    <2>1. y \in Int /\ z \in Int
      BY <1>1, <1>2
    <2>2. CASE y \in 1..Len(s) /\ u[y] = s[y] /\ z \in 1..Len(s) /\ u[z] = s[z]
      BY <1>4, <2>2 DEF Distinct
    <2>3. CASE /\ y - Len(s) \in 1..Len(t) /\ u[y] = t[y - Len(s)]
               /\ z - Len(s) \in 1..Len(t) /\ u[z] = t[z - Len(s)]
      <3>1. y - Len(s) = z - Len(s)
        BY <1>4, <2>3 DEF Distinct
      <3> QED
        BY <1>2, <2>1, <3>1
    <2>4. CASE /\ y \in 1..Len(s) /\ u[y] = s[y]
               /\ z - Len(s) \in 1..Len(t) /\ u[z] = t[z - Len(s)]
      BY <1>4, <2>4 DEF Apart
    <2>5. CASE /\ y - Len(s) \in 1..Len(t) /\ u[y] = t[y - Len(s)]
               /\ z \in 1..Len(s) /\ u[z] = s[z]
      BY <1>4, <2>5 DEF Apart
    <2> QED
      BY <1>3, <2>2, <2>3, <2>4, <2>5
  <1>5. Distinct(u)
    BY <1>4 DEF Distinct
  <1>6. ASSUME NEW y \in 1..Len(u)
        PROVE  (\E x \in 1..Len(s) : u[y] = s[x]) \/ (\E x \in 1..Len(t) : u[y] = t[x])
    BY <1>3
  <1> QED
    BY <1>1, <1>5, <1>6 DEF u

\* Of lists that share no id, and repeat none, FlattenSeq makes one.
LEMMA FlattenDistinct ==
  ASSUME NEW S, NEW seqs \in Seq(Seq(S)),
         \A i \in 1..Len(seqs) : Distinct(seqs[i]),
         \A i, k \in 1..Len(seqs) : i # k => Apart(seqs[i], seqs[k])
  PROVE  /\ FlattenSeq(seqs) \in Seq(S) /\ Distinct(FlattenSeq(seqs))
         /\ \A y \in 1..Len(FlattenSeq(seqs)) :
              \E i \in 1..Len(seqs) : \E x \in 1..Len(seqs[i]) : FlattenSeq(seqs)[y] = seqs[i][x]
  <1> DEFINE n == Len(seqs)
  <1>1. n \in Nat
    BY LenProperties
  <1>2. \A i \in 1..n : seqs[i] \in Seq(S)
    BY ElementOfSeq
  <1>3. CASE n = 0
    <2>1. FlattenSeq(seqs) = seqs /\ seqs = <<>>
      BY <1>3, EmptySeq DEF FlattenSeq
    <2>2. <<>> \in Seq(S) /\ Len(<<>>) = 0 /\ 1..0 = {}
      BY EmptySeq
    <2> QED
      BY <2>1, <2>2 DEF Distinct
  <1>4. CASE n # 0
    <2>1. PICK f : /\ FlattenSeq(seqs) = f[n] /\ f[1] = seqs[1]
                   /\ \A i \in 2..n : f[i] = f[i - 1] \o seqs[i]
      BY <1>4, FlattenSteps
    <2> DEFINE Taken(m) == \A y \in 1..Len(f[m]) :
                             \E i \in 1..m : \E x \in 1..Len(seqs[i]) : f[m][y] = seqs[i][x]
               Flat(m) == f[m] \in Seq(S) /\ Distinct(f[m]) /\ Taken(m)
               Bad == {m \in 1..n : ~Flat(m)}
    <2>2. Flat(1)
      BY <1>1, <1>2, <1>4, <2>1
    <2>3. ASSUME NEW m \in 2..n, Flat(m - 1) PROVE Flat(m)
      <3>1. m \in 1..n /\ m - 1 \in 1..n /\ f[m] = f[m - 1] \o seqs[m]
        <4>1. m \in 1..n /\ m - 1 \in 1..n
          BY <1>1
        <4>2. f[m] = f[m - 1] \o seqs[m]
          BY <2>1, Zenon
        <4> QED
          BY <4>1, <4>2
      <3>2. Apart(f[m - 1], seqs[m])
        <4>1. SUFFICES ASSUME NEW y \in 1..Len(f[m - 1]), NEW z \in 1..Len(seqs[m])
                       PROVE  f[m - 1][y].id # seqs[m][z].id
          BY DEF Apart
        <4>2. PICK i \in 1..(m - 1) : \E x \in 1..Len(seqs[i]) : f[m - 1][y] = seqs[i][x]
          BY <2>3
        <4>3. i \in 1..n /\ i # m
          BY <1>1, <3>1
        <4> QED
          BY <3>1, <4>2, <4>3 DEF Apart
      <3>3. /\ f[m] \in Seq(S) /\ Distinct(f[m])
            /\ \A y \in 1..Len(f[m]) : \/ \E x \in 1..Len(f[m - 1]) : f[m][y] = f[m - 1][x]
                                      \/ \E x \in 1..Len(seqs[m]) : f[m][y] = seqs[m][x]
        <4>1. seqs[m] \in Seq(S) /\ Distinct(seqs[m]) /\ f[m - 1] \in Seq(S) /\ Distinct(f[m - 1])
          BY <1>2, <2>3, <3>1
        <4> HIDE DEF Flat
        <4> DEFINE s == f[m - 1]
                   t == seqs[m]
        <4>2. s \in Seq(S) /\ t \in Seq(S) /\ Distinct(s) /\ Distinct(t) /\ Apart(s, t)
          BY <3>2, <4>1
        <4>3. f[m] = s \o t
          BY <3>1
        <4> HIDE DEF s, t
        <4>4. /\ s \o t \in Seq(S) /\ Distinct(s \o t)
              /\ \A y \in 1..Len(s \o t) : \/ \E x \in 1..Len(s) : (s \o t)[y] = s[x]
                                           \/ \E x \in 1..Len(t) : (s \o t)[y] = t[x]
          BY <4>2, ConcatDistinct
        <4>5. /\ f[m] \in Seq(S) /\ Distinct(f[m])
              /\ \A y \in 1..Len(f[m]) : \/ \E x \in 1..Len(s) : f[m][y] = s[x]
                                        \/ \E x \in 1..Len(t) : f[m][y] = t[x]
          BY <4>3, <4>4, Zenon
        <4> QED
          BY <4>5 DEF s, t
      <3>4. Taken(m)
        <4>1. SUFFICES ASSUME NEW y \in 1..Len(f[m])
                       PROVE  \E i \in 1..m : \E x \in 1..Len(seqs[i]) : f[m][y] = seqs[i][x]
          OBVIOUS
        <4>2. CASE \E x \in 1..Len(f[m - 1]) : f[m][y] = f[m - 1][x]
          <5>1. PICK x \in 1..Len(f[m - 1]) : f[m][y] = f[m - 1][x]
            BY <4>2
          <5>2. PICK i \in 1..(m - 1) : \E w \in 1..Len(seqs[i]) : f[m - 1][x] = seqs[i][w]
            BY <2>3
          <5>3. i \in 1..m
            BY <3>1, <1>1
          <5> QED
            BY <5>1, <5>2, <5>3
        <4>3. CASE \E x \in 1..Len(seqs[m]) : f[m][y] = seqs[m][x]
          <5>1. m \in 1..m
            BY <1>1, <3>1
          <5> QED
            BY <4>3, <5>1
        <4> QED
          BY <3>3, <4>2, <4>3
      <3> QED
        BY <3>3, <3>4
    <2>4. Bad = {}
      <3> HIDE DEF Flat
      <3>1. SUFFICES ASSUME Bad # {} PROVE FALSE
        OBVIOUS
      <3>2. Bad \in SUBSET Nat
        BY <1>1
      <3>3. PICK m \in Bad : \A k \in Bad : m <= k
        <4> HIDE DEF Bad
        <4> QED
          BY <3>1, <3>2, LeastExists
      <3>4. m \in 2..n /\ m - 1 \in 1..n
        BY <1>1, <2>2
      <3>5. m - 1 \in Bad
        BY <2>3, <3>4
      <3> QED
        BY <1>1, <3>3, <3>4, <3>5
    <2>5. Flat(n)
      <3>1. n \in 1..n
        BY <1>1, <1>4
      <3> HIDE DEF Flat
      <3> QED
        BY <2>4, <3>1
    <2> QED
      BY <2>1, <2>5
  <1> QED
    BY <1>3, <1>4

\* Where no id is there twice, there are as many as elements.
LEMMA DistinctCount ==
  ASSUME NEW S, NEW s \in Seq(S), Distinct(s)
  PROVE  Cardinality({n.id : n \in ToSet(s)}) = Len(s)
  <1> DEFINE n == Len(s)
             ids == {m.id : m \in ToSet(s)}
             id == [y \in 1..n |-> s[y].id]
  <1>1. n \in Nat /\ DOMAIN s = 1..n
    BY LenProperties
  <1>2. id \in Bijection(1..n, ids)
    <2>1. id \in [1..n -> ids]
      BY <1>1 DEF ToSet
    <2>2. \A y, z \in 1..n : id[y] = id[z] => y = z
      BY DEF Distinct
    <2>3. \A x \in ids : \E y \in 1..n : id[y] = x
      BY <1>1 DEF ToSet
    <2> HIDE DEF id, ids
    <2> QED
      BY <2>1, <2>2, <2>3 DEF Bijection, Injection, Surjection, IsInjective
  <1> HIDE DEF ids
  <1>3. IsFiniteSet(1..n) /\ Cardinality(1..n) = n
    <2>1. IsFiniteSet(1..n) /\ Cardinality(1..n) = IF 1 > n THEN 0 ELSE n - 1 + 1
      BY <1>1, FS_Interval
    <2> QED
      BY <1>1, <2>1
  <1>4. ExistsBijection(1..n, ids)
    BY <1>2 DEF ExistsBijection
  <1>5. Cardinality(ids) = n
    BY <1>3, <1>4, FS_Bijection
  <1> QED
    BY <1>5 DEF ids
=============================================================================
