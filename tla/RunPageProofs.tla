---------------------------- MODULE RunPageProofs ----------------------------
(***************************************************************************)
(* Theorems about the page of a run.  LogFollow, for any size of the tail   *)
(* and any bounds: the types, which count the chains of requests that       *)
(* follow a log, and that the log on the page is one stretch of the log on  *)
(* the server.  Karaoke, for any number of stages and any bounds: what the  *)
(* page shows once nothing is under way.  RunGraph, for any pipelines and   *)
(* any bounds: that the graph of a run shows what has started as it is,     *)
(* and is drawn as the Jenkinsfile has it.                                 *)
(***************************************************************************)
EXTENDS LogFollow, Karaoke, RunGraph, DataFacts, FiniteSetTheorems, SequenceTheorems, TLAPS

Logs == [pieces : Seq(Nat), hasMore : BOOLEAN]

Requests ==
  [type : {"fetch", "follow"}, start : Nat \cup {None}, log : Logs \cup {<<>>},
   follow : BOOLEAN, at : {"waits", "sent"}, from : Nat, wasDone : BOOLEAN]

(* A log that ends at the piece n, from its beginning or with more before. *)
Stretch(log, n) ==
  /\ log \in Logs
  /\ \E a \in 1..n : log.pieces = Pieces(a, n) /\ (~log.hasMore => a = 1)

(* A request reads the log after it is sent, and one that follows asks for *)
(* what comes after the log it holds.                                      *)
GetOK(get, n) ==
  /\ get.from <= n
  /\ get.type = "fetch" => get.start \in {None, 0}
  /\ get.type = "follow" => get.start \in 1..n /\ get.follow /\ Stretch(get.log, get.start)
  /\ get.at = "sent" /\ get.type = "follow" => get.start <= get.from

TimerOK(t, n) == t.start \in 1..n /\ Stretch(t.log, t.start)

Types ==
  /\ kind \in {"step", "general"}
  /\ len \in 0..MaxLen /\ opens \in Nat
  /\ done \in BOOLEAN /\ finished \in BOOLEAN /\ karaoke \in BOOLEAN /\ away \in BOOLEAN
  /\ full \in BOOLEAN /\ stopped \in BOOLEAN /\ cut \in BOOLEAN
  /\ gets \in Seq(Requests)

GetsOK == \A i \in DOMAIN gets : GetOK(gets[i], len)

TimersOK ==
  /\ timer # None => TimerOK(timer, len)
  /\ \A t \in lost : t # None /\ TimerOK(t, len)

ShownOK == shown # None => \E n \in 1..len : Stretch(shown, n)

(* The requests that start or continue a chain.                            *)
Followed(s) == {i \in DOMAIN s : s[i].follow}

LogStarted == IF kind = "general" THEN 1 ELSE opens

(* A chain is a request that follows, or will, or a timer; each was        *)
(* started by a fetch of its own, and a timer was only forgotten by        *)
(* another chain.                                                          *)
ChainsOK ==
  /\ IsFiniteSet(lost)
  /\ Cardinality(lost) + (IF timer = None THEN 0 ELSE 1) + Cardinality(Followed(gets)) <= LogStarted
  /\ lost # {} => Cardinality(lost) < LogStarted

IInv == Types /\ GetsOK /\ TimersOK /\ ShownOK /\ ChainsOK

-----------------------------------------------------------------------------
(* Stretches of a log.                                                     *)

LEMMA SameRange ==
  ASSUME NEW k \in Nat, NEW l \in Nat, 1..k = 1..l
  PROVE  k = l
  <1>1. k \in 1..k \/ k = 0
    OBVIOUS
  <1>2. l \in 1..l \/ l = 0
    OBVIOUS
  <1>3. (k \in 1..l \/ k = 0) /\ (l \in 1..k \/ l = 0)
    BY <1>1, <1>2
  <1> QED
    BY <1>3

LEMMA PiecesProperties ==
  ASSUME NEW n \in Nat, NEW a \in 1..n
  PROVE  /\ Pieces(a, n) \in Seq(Nat) /\ Len(Pieces(a, n)) = n - a + 1
         /\ \A i \in 1..(n - a + 1) : Pieces(a, n)[i] = a + i - 1
         /\ Pieces(a, n) # <<>> /\ Pieces(a, n)[1] = a /\ Last(Pieces(a, n)) = n
  <1> DEFINE p == Pieces(a, n)
  <1>1. p = [i \in 1..(n - a + 1) |-> a + i - 1]
    BY DEF Pieces
  <1>2. n - a + 1 \in Nat /\ \A i \in 1..(n - a + 1) : a + i - 1 \in Nat
    OBVIOUS
  <1>3. p \in Seq(Nat) /\ Len(p) = n - a + 1
    <2>1. p \in [1..(n - a + 1) -> Nat]
      BY <1>1, <1>2
    <2> HIDE DEF p
    <2>2. p \in Seq(Nat)
      BY <1>2, <2>1, SeqDef
    <2>3. DOMAIN p = 1..(n - a + 1) /\ DOMAIN p = 1..Len(p) /\ Len(p) \in Nat
      BY <2>1, <2>2, LenProperties
    <2>4. Len(p) = n - a + 1
      BY <1>2, <2>3, SameRange
    <2> QED
      BY <2>2, <2>4
  <1>4. \A i \in 1..(n - a + 1) : p[i] = a + i - 1
    BY <1>1
  <1>5. p # <<>>
    BY <1>3, EmptySeq
  <1> HIDE DEF p
  <1>6. p[1] = a /\ p[Len(p)] = n
    BY <1>3, <1>4
  <1> QED
    BY <1>3, <1>4, <1>5, <1>6 DEF p, Last

(* What comes after a stretch makes it longer.                             *)
LEMMA JoinPieces ==
  ASSUME NEW n \in Nat, NEW a \in 1..n, NEW m \in Nat, n <= m
  PROVE  Pieces(a, n) \o Pieces(n + 1, m) = Pieces(a, m)
  <1>1. CASE n = m
    <2> DEFINE q == Pieces(n + 1, m)
    <2>1. q \in [1..0 -> Nat]
      BY <1>1 DEF Pieces
    <2> HIDE DEF q
    <2>2. q = <<>>
      <3>1. q \in Seq(Nat)
        BY <2>1, SeqDef
      <3>2. 1..Len(q) = 1..0 /\ Len(q) \in Nat
        BY <2>1, <3>1, LenProperties
      <3>3. Len(q) = 0
        BY <3>2, SameRange
      <3> QED
        BY <3>1, <3>3, EmptySeq
    <2> QED
      BY <1>1, <2>2, PiecesProperties, ConcatEmptySeq DEF q
  <1>2. CASE n < m
    <2> DEFINE p == Pieces(a, n)
               q == Pieces(n + 1, m)
               r == Pieces(a, m)
    <2>1. p \in Seq(Nat) /\ Len(p) = n - a + 1 /\ \A i \in 1..(n - a + 1) : p[i] = a + i - 1
      BY PiecesProperties
    <2>2. q \in Seq(Nat) /\ Len(q) = m - n /\ \A i \in 1..(m - n) : q[i] = n + i
      <3>1. n + 1 \in 1..m /\ m - (n + 1) + 1 = m - n /\ \A i \in 1..(m - n) : (n + 1) + i - 1 = n + i
        BY <1>2
      <3>2. /\ q \in Seq(Nat) /\ Len(q) = m - (n + 1) + 1
            /\ \A i \in 1..(m - (n + 1) + 1) : q[i] = (n + 1) + i - 1
        BY <3>1, PiecesProperties
      <3> HIDE DEF q
      <3> QED
        BY <3>1, <3>2
    <2>3. r \in Seq(Nat) /\ Len(r) = m - a + 1 /\ \A i \in 1..(m - a + 1) : r[i] = a + i - 1
      <3>1. a \in 1..m
        BY <1>2
      <3> QED
        BY <3>1, PiecesProperties
    <2> HIDE DEF p, q, r
    <2>4. /\ p \o q \in Seq(Nat) /\ Len(p \o q) = m - a + 1
          /\ \A i \in 1..(m - a + 1) : (p \o q)[i] = IF i <= n - a + 1 THEN p[i] ELSE q[i - (n - a + 1)]
      <3>1. (n - a + 1) + (m - n) = m - a + 1
        BY <1>2
      <3>2. /\ p \o q \in Seq(Nat) /\ Len(p \o q) = Len(p) + Len(q)
            /\ \A i \in 1..(Len(p) + Len(q)) : (p \o q)[i] = IF i <= Len(p) THEN p[i] ELSE q[i - Len(p)]
        BY <2>1, <2>2, ConcatProperties
      <3>3. Len(p) + Len(q) = m - a + 1 /\ Len(p) = n - a + 1
        BY <2>1, <2>2, <3>1
      <3> QED
        BY <3>2, <3>3
    <2>5. ASSUME NEW i \in 1..(m - a + 1)
          PROVE  (p \o q)[i] = r[i]
      <3>1. CASE i <= n - a + 1
        BY <2>1, <2>3, <2>4, <3>1
      <3>2. CASE ~(i <= n - a + 1)
        <4>1. i - (n - a + 1) \in 1..(m - n)
          BY <1>2, <3>2
        <4>2. q[i - (n - a + 1)] = n + (i - (n - a + 1))
          BY <2>2, <4>1
        <4>3. (p \o q)[i] = q[i - (n - a + 1)]
          BY <2>4, <3>2
        <4>4. r[i] = a + i - 1
          BY <2>3
        <4> QED
          BY <4>2, <4>3, <4>4
      <3> QED
        BY <3>1, <3>2
    <2>6. p \o q = r
      BY <2>3, <2>4, <2>5, SeqEqual
    <2> QED
      BY <2>6 DEF p, q, r
  <1> QED
    BY <1>1, <1>2

LEMMA StretchIsLog ==
  ASSUME NEW n \in Nat, NEW log, Stretch(log, n)
  PROVE  /\ IsLog(log) /\ log.pieces # <<>>
         /\ Last(log.pieces) = n /\ (~log.hasMore => log.pieces[1] = 1)
  <1>1. PICK a \in 1..n : log.pieces = Pieces(a, n) /\ (~log.hasMore => a = 1)
    BY DEF Stretch
  <1>2. /\ log.pieces # <<>> /\ log.pieces[1] = a
        /\ Last(log.pieces) = n
    BY <1>1, PiecesProperties
  <1>3. log.hasMore \in BOOLEAN
    BY DEF Stretch, Logs
  <1> QED
    BY <1>1, <1>2, <1>3 DEF IsLog

LEMMA FetchStretch ==
  ASSUME NEW n \in Nat \ {0}, NEW start \in {None, 0}
  PROVE  LET first == IF start = 0 \/ n <= TailSize THEN 1 ELSE n - TailSize + 1
         IN Stretch([pieces |-> Pieces(first, n), hasMore |-> start # 0 /\ n > TailSize], n)
  <1> DEFINE first == IF start = 0 \/ n <= TailSize THEN 1 ELSE n - TailSize + 1
             more == start # 0 /\ n > TailSize
             log == [pieces |-> Pieces(first, n), hasMore |-> more]
  <1>1. TailSize \in Nat \ {0}
    BY BoundsAssumption
  <1>2. first \in 1..n /\ (~more => first = 1)
    BY <1>1
  <1>3. more \in BOOLEAN /\ Pieces(first, n) \in Seq(Nat)
    BY <1>2, PiecesProperties
  <1> HIDE DEF first, more
  <1>4. Stretch(log, n)
    BY <1>2, <1>3 DEF Stretch, Logs
  <1> QED
    BY <1>4 DEF first, more

LEMMA FollowStretch ==
  ASSUME NEW n \in Nat, NEW log, Stretch(log, n), NEW m \in Nat, n <= m
  PROVE  Stretch([log EXCEPT !.pieces = @ \o Pieces(n + 1, m)], m)
  <1>1. PICK a \in 1..n : log.pieces = Pieces(a, n) /\ (~log.hasMore => a = 1)
    BY DEF Stretch
  <1>2. log.pieces \o Pieces(n + 1, m) = Pieces(a, m)
    BY <1>1, JoinPieces
  <1>3. a \in 1..m /\ Pieces(a, m) \in Seq(Nat)
    <2>1. a \in 1..m
      OBVIOUS
    <2> QED
      BY <2>1, PiecesProperties
  <1>4. log \in Logs
    BY DEF Stretch
  <1>5. [log EXCEPT !.pieces = @ \o Pieces(n + 1, m)] = [pieces |-> Pieces(a, m), hasMore |-> log.hasMore]
    <2>1. [log EXCEPT !.pieces = @ \o Pieces(n + 1, m)] = [log EXCEPT !.pieces = Pieces(a, m)]
      BY <1>2
    <2>2. \A p : [log EXCEPT !.pieces = p] = [pieces |-> p, hasMore |-> log.hasMore]
      BY <1>4 DEF Logs
    <2> QED
      BY <2>1, <2>2
  <1>6. log.hasMore \in BOOLEAN
    BY <1>4 DEF Logs
  <1> QED
    BY <1>1, <1>3, <1>5, <1>6 DEF Stretch, Logs

-----------------------------------------------------------------------------
(* The requests under way, and those of them that follow.                  *)

LEMMA FollowedFinite ==
  ASSUME NEW s \in Seq(Requests)
  PROVE  /\ IsFiniteSet(Followed(s)) /\ Cardinality(Followed(s)) \in Nat
         /\ \A T \in SUBSET Followed(s) :
              IsFiniteSet(T) /\ Cardinality(T) \in Nat /\ Cardinality(T) <= Cardinality(Followed(s))
  <1>1. Followed(s) \subseteq 1..Len(s) /\ Len(s) \in Nat
    BY LenProperties DEF Followed
  <1>2. IsFiniteSet(1..Len(s))
    BY <1>1, FS_Interval
  <1>3. IsFiniteSet(Followed(s))
    BY <1>1, <1>2, FS_Subset
  <1> QED
    BY <1>3, FS_Subset, FS_CardinalityType

(* A request that is done is dropped.                                      *)
LEMMA RequestRemoved ==
  ASSUME NEW s \in Seq(Requests), NEW i \in DOMAIN s
  PROVE  /\ RemoveAt(s, i) \in Seq(Requests)
         /\ \A j \in DOMAIN RemoveAt(s, i) : \E k \in DOMAIN s : RemoveAt(s, i)[j] = s[k]
         /\ Cardinality(Followed(RemoveAt(s, i))) \in Nat
         /\ Cardinality(Followed(RemoveAt(s, i))) <=
              Cardinality(Followed(s)) - (IF s[i].follow THEN 1 ELSE 0)
  <1> DEFINE n == Len(s)
             t == RemoveAt(s, i)
             f == [j \in Followed(t) |-> IF j < i THEN j ELSE j + 1]
  <1>1. n \in Nat /\ DOMAIN s = 1..n /\ i \in 1..n /\ \A j \in 1..n : s[j] \in Requests
    BY LenProperties
  <1>2. /\ t \in Seq(Requests) /\ Len(t) = n - 1
        /\ \A j \in 1..(n - 1) : t[j] = IF j < i THEN s[j] ELSE s[j + 1]
    BY <1>1, WithoutPlace DEF RemoveAt
  <1> HIDE DEF t
  <1>3. DOMAIN t = 1..(n - 1)
    BY <1>2, LenProperties
  <1>4. \A j \in DOMAIN t : \E k \in DOMAIN s : t[j] = s[k]
    <2> SUFFICES ASSUME NEW j \in DOMAIN t
                 PROVE  \E k \in DOMAIN s : t[j] = s[k]
      OBVIOUS
    <2>1. j \in DOMAIN s /\ j + 1 \in DOMAIN s
      BY <1>1, <1>3
    <2> QED
      BY <1>2, <1>3, <2>1
  <1>5. f \in Injection(Followed(t), Followed(s) \ {i})
    <2>1. ASSUME NEW j \in Followed(t)
          PROVE  f[j] \in Followed(s) \ {i}
      <3>1. j \in 1..(n - 1) /\ t[j].follow
        BY <1>3 DEF Followed
      <3>2. f[j] \in 1..n /\ f[j] # i /\ t[j] = s[f[j]]
        BY <1>1, <1>2, <3>1
      <3> QED
        BY <1>1, <3>1, <3>2 DEF Followed
    <2>2. ASSUME NEW j \in Followed(t), NEW k \in Followed(t), f[j] = f[k]
          PROVE  j = k
      <3>1. j \in 1..(n - 1) /\ k \in 1..(n - 1)
        BY <1>3 DEF Followed
      <3> QED
        BY <1>1, <2>2, <3>1
    <2>3. f \in [Followed(t) -> Followed(s) \ {i}]
      BY <2>1
    <2> HIDE DEF f
    <2> QED
      BY <2>2, <2>3 DEF Injection, IsInjective
  <1>6. IsFiniteSet(Followed(s)) /\ Cardinality(Followed(s)) \in Nat
    BY FollowedFinite
  <1>7. /\ IsFiniteSet(Followed(s) \ {i})
        /\ Cardinality(Followed(s) \ {i}) = Cardinality(Followed(s)) - (IF s[i].follow THEN 1 ELSE 0)
    <2>1. i \in Followed(s) <=> s[i].follow
      BY DEF Followed
    <2> QED
      BY <1>6, <2>1, FS_RemoveElement
  <1> HIDE DEF f
  <1>8. Cardinality(Followed(t)) <= Cardinality(Followed(s) \ {i})
    BY <1>5, <1>7, FS_Injection
  <1>9. Cardinality(Followed(t)) \in Nat
    BY <1>2, FollowedFinite
  <1>10. Cardinality(Followed(t)) <= Cardinality(Followed(s)) - (IF s[i].follow THEN 1 ELSE 0)
    BY <1>7, <1>8
  <1>11. t \in Seq(Requests)
    BY <1>2
  <1> QED
    BY <1>4, <1>9, <1>10, <1>11 DEF t

(* A request that is made.                                                 *)
LEMMA RequestAdded ==
  ASSUME NEW s \in Seq(Requests), NEW get \in Requests
  PROVE  /\ Append(s, get) \in Seq(Requests)
         /\ \A j \in DOMAIN Append(s, get) :
              Append(s, get)[j] = get \/ \E k \in DOMAIN s : Append(s, get)[j] = s[k]
         /\ Cardinality(Followed(Append(s, get))) \in Nat
         /\ Cardinality(Followed(Append(s, get))) <=
              Cardinality(Followed(s)) + (IF get.follow THEN 1 ELSE 0)
  <1> DEFINE n == Len(s)
             t == Append(s, get)
  <1>1. n \in Nat /\ DOMAIN s = 1..n
    BY LenProperties
  <1>2. /\ t \in Seq(Requests) /\ Len(t) = n + 1
        /\ \A j \in 1..n : t[j] = s[j]
        /\ t[n + 1] = get
    BY AppendProperties
  <1> HIDE DEF t
  <1>3. DOMAIN t = 1..(n + 1)
    BY <1>2, LenProperties
  <1>4. \A j \in 1..(n + 1) : j \in 1..n \/ j = n + 1
    BY <1>1
  <1>5. \A j \in DOMAIN t : t[j] = get \/ \E k \in DOMAIN s : t[j] = s[k]
    BY <1>1, <1>2, <1>3, <1>4
  <1>6. Followed(t) \subseteq Followed(s) \cup (IF get.follow THEN {n + 1} ELSE {})
    BY <1>1, <1>2, <1>3, <1>4 DEF Followed
  <1>7. IsFiniteSet(Followed(s)) /\ Cardinality(Followed(s)) \in Nat
    BY FollowedFinite
  <1>8. Cardinality(Followed(t)) \in Nat
    BY <1>2, FollowedFinite
  <1>9. CASE get.follow
    <2>1. /\ IsFiniteSet(Followed(s) \cup {n + 1})
          /\ Cardinality(Followed(s) \cup {n + 1}) <= Cardinality(Followed(s)) + 1
      <3>1. /\ IsFiniteSet(Followed(s) \cup {n + 1})
            /\ Cardinality(Followed(s) \cup {n + 1}) =
                 IF n + 1 \in Followed(s) THEN Cardinality(Followed(s)) ELSE Cardinality(Followed(s)) + 1
        BY <1>7, FS_AddElement
      <3> QED
        BY <1>7, <3>1
    <2>2. Followed(t) \in SUBSET (Followed(s) \cup {n + 1})
      BY <1>6, <1>9
    <2>3. Cardinality(Followed(t)) <= Cardinality(Followed(s) \cup {n + 1})
      BY <2>1, <2>2, FS_Subset
    <2>4. Cardinality(Followed(s) \cup {n + 1}) \in Nat
      BY <2>1, FS_CardinalityType
    <2> QED
      BY <1>2, <1>5, <1>7, <1>8, <1>9, <2>1, <2>3, <2>4 DEF t
  <1>10. CASE ~get.follow
    <2>1. Followed(t) \in SUBSET Followed(s)
      BY <1>6, <1>10
    <2>2. Cardinality(Followed(t)) <= Cardinality(Followed(s))
      BY <1>7, <2>1, FS_Subset
    <2> QED
      BY <1>2, <1>5, <1>7, <1>8, <1>10, <2>2 DEF t
  <1> QED
    BY <1>9, <1>10

LEMMA Grows ==
  ASSUME NEW n \in Nat, NEW m \in Nat, n <= m
  PROVE  /\ \A get \in Requests : GetOK(get, n) => GetOK(get, m)
         /\ \A t : TimerOK(t, n) => TimerOK(t, m)
  <1>1. \A get \in Requests : get.from \in Nat
    BY DEF Requests
  <1> QED
    BY <1>1 DEF GetOK, TimerOK

LEMMA Dropped ==
  ASSUME Types, GetsOK, NEW i \in DOMAIN gets, gets' = RemoveAt(gets, i), UNCHANGED len
  PROVE  /\ gets' \in Seq(Requests) /\ GetsOK'
         /\ Cardinality(Followed(gets')) \in Nat
         /\ Cardinality(Followed(gets')) <= Cardinality(Followed(gets)) - (IF gets[i].follow THEN 1 ELSE 0)
  <1>1. gets \in Seq(Requests)
    BY DEF Types
  <1>2. /\ gets' \in Seq(Requests)
        /\ \A j \in DOMAIN gets' : \E k \in DOMAIN gets : gets'[j] = gets[k]
        /\ Cardinality(Followed(gets')) \in Nat
        /\ Cardinality(Followed(gets')) <= Cardinality(Followed(gets)) - (IF gets[i].follow THEN 1 ELSE 0)
    BY <1>1, RequestRemoved
  <1>3. \A j \in DOMAIN gets' : GetOK(gets'[j], len')
    BY <1>2 DEF GetsOK
  <1> QED
    BY <1>2, <1>3 DEF GetsOK

LEMMA Asked ==
  ASSUME Types, GetsOK, NEW get \in Requests, GetOK(get, len), gets' = Append(gets, get), UNCHANGED len
  PROVE  /\ gets' \in Seq(Requests) /\ GetsOK'
         /\ Cardinality(Followed(gets')) \in Nat
         /\ Cardinality(Followed(gets')) <= Cardinality(Followed(gets)) + (IF get.follow THEN 1 ELSE 0)
  <1>1. gets \in Seq(Requests)
    BY DEF Types
  <1>2. /\ gets' \in Seq(Requests)
        /\ \A j \in DOMAIN gets' : gets'[j] = get \/ \E k \in DOMAIN gets : gets'[j] = gets[k]
        /\ Cardinality(Followed(gets')) \in Nat
        /\ Cardinality(Followed(gets')) <= Cardinality(Followed(gets)) + (IF get.follow THEN 1 ELSE 0)
    BY <1>1, RequestAdded
  <1>3. \A j \in DOMAIN gets' : GetOK(gets'[j], len')
    BY <1>2 DEF GetsOK
  <1> QED
    BY <1>2, <1>3 DEF GetsOK

(* The numbers that count chains.                                          *)
LEMMA ChainNumbers ==
  ASSUME IInv
  PROVE  /\ len \in Nat /\ opens \in Nat /\ LogStarted \in Nat
         /\ IsFiniteSet(lost) /\ Cardinality(lost) \in Nat
         /\ Cardinality(Followed(gets)) \in Nat
         /\ \A i \in DOMAIN gets : gets[i] \in Requests /\ GetOK(gets[i], len)
                                   /\ (gets[i].follow => Cardinality(Followed(gets)) >= 1)
  <1>1. gets \in Seq(Requests) /\ len \in Nat /\ opens \in Nat /\ IsFiniteSet(lost)
    BY BoundsAssumption DEF IInv, Types, ChainsOK
  <1>2. LogStarted \in Nat
    BY <1>1 DEF LogStarted
  <1>3. Cardinality(lost) \in Nat
    BY <1>1, FS_CardinalityType
  <1>4. Cardinality(Followed(gets)) \in Nat
    BY <1>1, FollowedFinite
  <1>5. ASSUME NEW i \in DOMAIN gets
        PROVE  gets[i] \in Requests /\ GetOK(gets[i], len)
               /\ (gets[i].follow => Cardinality(Followed(gets)) >= 1)
    <2>1. gets[i] \in Requests
      BY <1>1, LenProperties
    <2>2. Cardinality(Followed(RemoveAt(gets, i))) \in Nat
          /\ Cardinality(Followed(RemoveAt(gets, i))) <=
               Cardinality(Followed(gets)) - (IF gets[i].follow THEN 1 ELSE 0)
      BY <1>1, RequestRemoved
    <2>3. gets[i].follow => Cardinality(Followed(gets)) >= 1
      BY <1>4, <2>2
    <2> QED
      BY <2>1, <2>3 DEF IInv, GetsOK
  <1> QED
    BY <1>1, <1>2, <1>3, <1>4, <1>5

-----------------------------------------------------------------------------
(* The steps.                                                              *)

LEMMA ServerKeeps ==
  ASSUME IInv, LogGrows \/ LogEnds
  PROVE  IInv'
  <1>1. len \in Nat /\ len' \in Nat /\ len <= len' /\ len' \in 0..MaxLen
    BY BoundsAssumption DEF IInv, Types, LogGrows, LogEnds
  <1>2. Types'
    BY <1>1 DEF IInv, Types, LogGrows, LogEnds, pageVars, pagerVars
  <1>3. UNCHANGED <<shown, gets, timer, lost, kind, opens>>
    BY DEF LogGrows, LogEnds, pageVars, pagerVars
  <1>4. GetsOK'
    BY <1>1, <1>3, ChainNumbers, Grows DEF GetsOK
  <1>5. TimersOK'
    BY <1>1, <1>3, Grows DEF IInv, TimersOK
  <1>6. ShownOK'
    BY <1>1, <1>3 DEF IInv, ShownOK
  <1>7. ChainsOK'
    BY <1>3 DEF IInv, ChainsOK, LogStarted
  <1> QED
    BY <1>2, <1>4, <1>5, <1>6, <1>7 DEF IInv

LEMMA SendKeeps ==
  ASSUME IInv, NEW i \in DOMAIN gets, Send(i)
  PROVE  IInv'
  <1> DEFINE get == gets[i]
             sent == [get EXCEPT !.at = "sent", !.from = len, !.wasDone = done]
  <1>1. UNCHANGED <<len, done, kind, finished, karaoke, away, full, opens, turns, shown, timer, lost, stopped>>
    BY DEF Send, serverVars, pageVars
  <1>2. /\ cut' \in BOOLEAN
        /\ gets' = RemoveAt(gets, i)
           \/ gets' = [gets EXCEPT ![i].at = "sent", ![i].from = len, ![i].wasDone = done]
    BY DEF Send, IInv, Types
  <1>3. /\ gets' \in Seq(Requests) /\ GetsOK'
        /\ Cardinality(Followed(gets')) \in Nat
        /\ Cardinality(Followed(gets')) <= Cardinality(Followed(gets))
    <2>1. CASE gets' = RemoveAt(gets, i)
      BY <1>1, <2>1, Dropped, ChainNumbers DEF IInv
    <2>2. CASE gets' = [gets EXCEPT ![i].at = "sent", ![i].from = len, ![i].wasDone = done]
      <3>1. gets \in Seq(Requests) /\ get \in Requests /\ GetOK(get, len) /\ len \in Nat
            /\ done \in BOOLEAN
        BY ChainNumbers DEF IInv, Types
      <3>2. /\ sent \in Requests /\ sent.type = get.type /\ sent.start = get.start
            /\ sent.log = get.log /\ sent.follow = get.follow /\ sent.from = len
        BY <3>1 DEF Requests
      <3>3. gets' = [gets EXCEPT ![i] = sent]
        BY <2>2
      <3> HIDE DEF sent, get
      <3>4. GetOK(sent, len)
        BY <3>1, <3>2 DEF GetOK
      <3>5. i \in 1..Len(gets) /\ DOMAIN gets = 1..Len(gets)
        BY <3>1, LenProperties
      <3>6. /\ gets' \in Seq(Requests) /\ Len(gets') = Len(gets)
            /\ \A j \in 1..Len(gets) : gets'[j] = IF j = i THEN sent ELSE gets[j]
        BY <3>1, <3>2, <3>3, <3>5, ExceptSeq
      <3>7. DOMAIN gets' = 1..Len(gets)
        BY <3>6, LenProperties
      <3>8. \A j \in DOMAIN gets' : GetOK(gets'[j], len')
        BY <1>1, <3>4, <3>5, <3>6, <3>7 DEF IInv, GetsOK
      <3>9. \A j \in 1..Len(gets) : gets'[j].follow = gets[j].follow
        BY <3>2, <3>6 DEF get
      <3>10. Followed(gets') = Followed(gets)
        BY <3>5, <3>7, <3>9 DEF Followed
      <3> QED
        BY <3>6, <3>8, <3>10, ChainNumbers DEF GetsOK
    <2> QED
      BY <1>2, <2>1, <2>2
  <1>4. Types'
    BY <1>1, <1>2, <1>3 DEF IInv, Types
  <1>5. TimersOK' /\ ShownOK'
    BY <1>1 DEF IInv, TimersOK, ShownOK
  <1>6. ChainsOK'
    <2>1. Cardinality(Followed(gets))' = Cardinality(Followed(gets')) /\ LogStarted' = LogStarted
      BY <1>1 DEF Followed, LogStarted
    <2> QED
      BY <1>1, <1>3, <2>1, ChainNumbers DEF IInv, ChainsOK
  <1> QED
    BY <1>3, <1>4, <1>5, <1>6 DEF IInv

(* How many chains there are after a step that drops a request, adds one,  *)
(* or sets or forgets a timer.                                             *)
LEMMA ChainsKept ==
  ASSUME IInv, UNCHANGED <<kind, opens>>, gets' \in Seq(Requests),
         \/ /\ UNCHANGED <<timer, lost>>
            /\ Cardinality(Followed(gets')) <= Cardinality(Followed(gets))
         \/ /\ UNCHANGED lost
            /\ timer' # None => Cardinality(Followed(gets')) <= Cardinality(Followed(gets)) - 1
            /\ Cardinality(Followed(gets')) <= Cardinality(Followed(gets))
         \/ /\ timer # None /\ lost' = lost \cup {timer}
            /\ Cardinality(Followed(gets)) >= 1
            /\ Cardinality(Followed(gets')) <= Cardinality(Followed(gets)) - 1
         \/ /\ timer # None /\ timer' = None /\ UNCHANGED lost
            /\ Cardinality(Followed(gets')) <= Cardinality(Followed(gets)) + 1
         \/ \E t \in lost : /\ lost' = lost \ {t} /\ timer' = None
                            /\ Cardinality(Followed(gets')) <= Cardinality(Followed(gets)) + 1
  PROVE  ChainsOK'
  <1> DEFINE F == Cardinality(Followed(gets))
             G == Cardinality(Followed(gets'))
             T == IF timer = None THEN 0 ELSE 1
             U == IF timer' = None THEN 0 ELSE 1
             L == Cardinality(lost)
             K == Cardinality(lost')
  <1>1. F \in Nat /\ G \in Nat /\ L \in Nat /\ LogStarted \in Nat /\ IsFiniteSet(lost)
    BY ChainNumbers, FollowedFinite
  <1>2. L + T + F <= LogStarted /\ (lost # {} => L < LogStarted)
    BY DEF IInv, ChainsOK
  <1>3. LogStarted' = LogStarted
    BY DEF LogStarted
  <1>4. T \in 0..1 /\ U \in 0..1 /\ (timer # None => T = 1) /\ (timer' = None => U = 0)
    OBVIOUS
  <1>5. IsFiniteSet(lost') /\ K + U + G <= LogStarted /\ (lost' # {} => K < LogStarted)
    <2>1. CASE UNCHANGED <<timer, lost>> /\ G <= F
      BY <1>1, <1>2, <2>1
    <2>2. CASE UNCHANGED lost /\ (timer' # None => G <= F - 1) /\ G <= F
      <3>1. lost' = lost /\ K = L
        BY <2>2
      <3> HIDE DEF F, G, T, L, K
      <3> QED
        BY <1>1, <1>2, <1>4, <2>2, <3>1
    <2>3. CASE timer # None /\ lost' = lost \cup {timer} /\ F >= 1 /\ G <= F - 1
      <3>1. IsFiniteSet(lost') /\ K = IF timer \in lost THEN L ELSE L + 1
        BY <1>1, <2>3, FS_AddElement
      <3>2. T = 1
        BY <2>3
      <3> HIDE DEF F, G, T, U, L, K
      <3> QED
        BY <1>1, <1>2, <1>4, <2>3, <3>1, <3>2
    <2>4. CASE timer # None /\ timer' = None /\ UNCHANGED lost /\ G <= F + 1
      <3>1. lost' = lost /\ K = L /\ T = 1 /\ U = 0
        BY <2>4
      <3> HIDE DEF F, G, T, U, L, K
      <3> QED
        BY <1>1, <1>2, <2>4, <3>1
    <2>5. CASE \E t \in lost : lost' = lost \ {t} /\ timer' = None /\ G <= F + 1
      <3>1. PICK t \in lost : lost' = lost \ {t}
        BY <2>5
      <3>2. IsFiniteSet(lost') /\ K = L - 1
        BY <1>1, <3>1, FS_RemoveElement
      <3>3. lost # {} /\ U = 0 /\ G <= F + 1
        BY <2>5, <3>1
      <3> HIDE DEF F, G, T, U, L, K
      <3> QED
        BY <1>1, <1>2, <1>4, <3>2, <3>3
    <2> QED
      BY <2>1, <2>2, <2>3, <2>4, <2>5
  <1>6. Cardinality(Followed(gets))' = G
    BY DEF Followed
  <1> QED
    BY <1>3, <1>5, <1>6 DEF ChainsOK

LEMMA FetchAnsweredKeeps ==
  ASSUME IInv, NEW i \in DOMAIN gets, gets[i].at = "sent", gets[i].type = "fetch", FetchAnswered(i),
         UNCHANGED <<serverVars, pageVars>>
  PROVE  IInv'
  <1> DEFINE get == gets[i]
  <1>1. UNCHANGED <<len, done, kind, finished, karaoke, away, full, opens, lost, stopped, cut>>
    BY DEF FetchAnswered, serverVars, pageVars
  <1>2. /\ len \in Nat /\ get \in Requests /\ GetOK(get, len)
        /\ get.follow => Cardinality(Followed(gets)) >= 1
    BY ChainNumbers
  <1>3. get.start \in {None, 0} /\ get.from \in Nat /\ get.follow \in BOOLEAN
    BY <1>2 DEF GetOK, Requests
  <1>4. PICK r \in Readings(get) :
          LET first == IF get.start = 0 \/ r.size <= TailSize THEN 1 ELSE r.size - TailSize + 1
              log == [pieces |-> Pieces(first, r.size), hasMore |-> get.start # 0 /\ r.size > TailSize]
          IN /\ gets' = RemoveAt(gets, i)
             /\ shown' = IF r.size > 0 THEN log ELSE shown
             /\ timer' = IF r.next # None /\ r.size > 0 /\ get.follow
                         THEN [log |-> log, start |-> r.next] ELSE timer
    BY DEF FetchAnswered
  <1> DEFINE first == IF get.start = 0 \/ r.size <= TailSize THEN 1 ELSE r.size - TailSize + 1
             log == [pieces |-> Pieces(first, r.size), hasMore |-> get.start # 0 /\ r.size > TailSize]
  <1>5. r.size \in Nat /\ r.size <= len /\ r.next \in {None, r.size}
    BY <1>2, <1>3 DEF Readings
  <1>6. r.size > 0 => Stretch(log, r.size)
    <2>1. ASSUME r.size > 0
          PROVE  r.size \in Nat \ {0} /\ get.start \in {None, 0}
      BY <1>3, <1>5, <2>1
    <2> HIDE DEF get
    <2> QED
      BY <2>1, FetchStretch
  <1>7. /\ gets' = RemoveAt(gets, i)
        /\ shown' = IF r.size > 0 THEN log ELSE shown
        /\ timer' = IF r.next # None /\ r.size > 0 /\ get.follow THEN [log |-> log, start |-> r.next] ELSE timer
    BY <1>4
  <1> HIDE DEF log, first
  <1>8. /\ gets' \in Seq(Requests) /\ GetsOK'
        /\ Cardinality(Followed(gets')) \in Nat
        /\ Cardinality(Followed(gets')) <= Cardinality(Followed(gets)) - (IF get.follow THEN 1 ELSE 0)
    BY <1>1, <1>7, Dropped DEF IInv
  <1>9. Types'
    BY <1>1, <1>8 DEF IInv, Types
  <1>10. TimersOK'
    <2>1. CASE r.next # None /\ r.size > 0 /\ get.follow
      <3>1. timer' = [log |-> log, start |-> r.next] /\ r.next = r.size /\ r.size \in 1..len
        BY <1>2, <1>5, <1>7, <2>1
      <3>2. TimerOK(timer', len')
        BY <1>1, <1>6, <2>1, <3>1 DEF TimerOK
      <3> QED
        BY <1>1, <3>2 DEF IInv, TimersOK
    <2>2. CASE ~(r.next # None /\ r.size > 0 /\ get.follow)
      BY <1>1, <1>7, <2>2 DEF IInv, TimersOK
    <2> QED
      BY <2>1, <2>2
  <1>11. ShownOK'
    <2>1. CASE r.size > 0
      <3>1. shown' = log /\ r.size \in 1..len'
        BY <1>1, <1>2, <1>5, <1>7, <2>1
      <3> QED
        BY <1>6, <2>1, <3>1 DEF ShownOK
    <2>2. CASE ~(r.size > 0)
      BY <1>1, <1>7, <2>2 DEF IInv, ShownOK
    <2> QED
      BY <2>1, <2>2
  <1>12. ChainsOK'
    <2>1. CASE get.follow
      <3>1. Cardinality(Followed(gets')) <= Cardinality(Followed(gets)) - 1
        BY <1>8, <2>1
      <3>2. Cardinality(Followed(gets')) <= Cardinality(Followed(gets))
        BY <1>8, <3>1, ChainNumbers
      <3> QED
        BY <1>1, <1>8, <3>1, <3>2, ChainsKept
    <2>2. CASE ~get.follow
      <3>1. UNCHANGED <<timer, lost>> /\ Cardinality(Followed(gets')) <= Cardinality(Followed(gets))
        BY <1>1, <1>7, <1>8, <2>2, ChainNumbers
      <3> QED
        BY <1>1, <1>8, <3>1, ChainsKept
    <2> QED
      BY <2>1, <2>2
  <1> QED
    BY <1>8, <1>9, <1>10, <1>11, <1>12 DEF IInv

LEMMA FollowAnsweredKeeps ==
  ASSUME IInv, NEW i \in DOMAIN gets, gets[i].at = "sent", gets[i].type # "fetch", FollowAnswered(i),
         UNCHANGED <<serverVars, pageVars>>
  PROVE  IInv'
  <1> DEFINE get == gets[i]
  <1>1. UNCHANGED <<len, done, kind, finished, karaoke, away, full, opens, stopped, cut>>
    BY DEF FollowAnswered, serverVars, pageVars
  <1>2. /\ len \in Nat /\ get \in Requests /\ GetOK(get, len)
        /\ get.follow => Cardinality(Followed(gets)) >= 1
    BY ChainNumbers
  <1>3. /\ get.start \in 1..len /\ get.from \in Nat /\ get.follow /\ Stretch(get.log, get.start)
        /\ get.start <= get.from
    <2>1. get.type = "follow" /\ get.from \in Nat
      BY <1>2 DEF Requests
    <2> QED
      BY <1>2, <2>1 DEF GetOK
  <1>4. PICK r \in Readings(get) :
          LET log == [get.log EXCEPT !.pieces = @ \o Pieces(get.start + 1, r.size)]
          IN /\ gets' = RemoveAt(gets, i)
             /\ shown' = IF r.size > get.start THEN log ELSE shown
             /\ IF r.next # None THEN Follow(log, r.next) ELSE UNCHANGED <<timer, lost>>
    BY DEF FollowAnswered
  <1> DEFINE log == [get.log EXCEPT !.pieces = @ \o Pieces(get.start + 1, r.size)]
  <1>5. r.size \in Nat /\ get.start <= r.size /\ r.size \in 1..len /\ r.next \in {None, r.size}
    BY <1>2, <1>3 DEF Readings
  <1>6. Stretch(log, r.size)
    <2>1. get.start \in Nat
      BY <1>2, <1>3
    <2> QED
      BY <1>3, <1>5, <2>1, FollowStretch
  <1>7. /\ gets' = RemoveAt(gets, i)
        /\ shown' = IF r.size > get.start THEN log ELSE shown
        /\ IF r.next # None THEN Follow(log, r.next) ELSE UNCHANGED <<timer, lost>>
    BY <1>4
  <1> HIDE DEF log
  <1>8. /\ gets' \in Seq(Requests) /\ GetsOK'
        /\ Cardinality(Followed(gets')) \in Nat
        /\ Cardinality(Followed(gets')) <= Cardinality(Followed(gets)) - 1
    BY <1>1, <1>3, <1>7, Dropped DEF IInv
  <1>9. Types'
    BY <1>1, <1>8 DEF IInv, Types
  <1>10. TimersOK'
    <2>1. CASE r.next # None
      <3>1. /\ timer' = [log |-> log, start |-> r.size]
            /\ lost' = IF timer = None THEN lost ELSE lost \cup {timer}
        BY <1>5, <1>7, <2>1 DEF Follow
      <3>2. TimerOK(timer', len')
        BY <1>1, <1>5, <1>6, <3>1 DEF TimerOK
      <3>3. \A t \in lost' : t # None /\ TimerOK(t, len')
        BY <1>1, <3>1 DEF IInv, TimersOK
      <3> QED
        BY <3>2, <3>3 DEF TimersOK
    <2>2. CASE r.next = None
      BY <1>1, <1>7, <2>2 DEF IInv, TimersOK
    <2> QED
      BY <2>1, <2>2
  <1>11. ShownOK'
    BY <1>1, <1>5, <1>6, <1>7 DEF IInv, ShownOK
  <1>12. ChainsOK'
    <2>1. Cardinality(Followed(gets)) \in Nat /\ Cardinality(Followed(gets)) >= 1
      BY <1>2, <1>3, ChainNumbers
    <2>2. Cardinality(Followed(gets')) <= Cardinality(Followed(gets))
      BY <1>8, <2>1
    <2>3. CASE r.next = None
      BY <1>1, <1>7, <1>8, <2>2, <2>3, ChainsKept
    <2>4. CASE r.next # None /\ timer = None
      <3>1. UNCHANGED lost
        BY <1>7, <2>4 DEF Follow
      <3> QED
        BY <1>1, <1>8, <2>2, <3>1, ChainsKept
    <2>5. CASE r.next # None /\ timer # None
      <3>1. lost' = lost \cup {timer}
        BY <1>7, <2>5 DEF Follow
      <3> QED
        BY <1>1, <1>8, <2>1, <2>5, <3>1, ChainsKept
    <2> QED
      BY <2>3, <2>4, <2>5
  <1> QED
    BY <1>8, <1>9, <1>10, <1>11, <1>12 DEF IInv

LEMMA FailsKeeps ==
  ASSUME IInv, NEW i \in DOMAIN gets, Fails(i)
  PROVE  IInv'
  <1>1. UNCHANGED <<len, done, kind, finished, karaoke, away, full, opens, shown, timer, lost, stopped, cut>>
    BY DEF Fails, serverVars, pageVars
  <1>2. /\ gets' \in Seq(Requests) /\ GetsOK'
        /\ Cardinality(Followed(gets')) \in Nat
        /\ Cardinality(Followed(gets')) <= Cardinality(Followed(gets)) - (IF gets[i].follow THEN 1 ELSE 0)
    BY <1>1, Dropped DEF Fails, IInv
  <1>3. Cardinality(Followed(gets')) <= Cardinality(Followed(gets))
    BY <1>2, ChainNumbers
  <1>4. ChainsOK'
    BY <1>1, <1>2, <1>3, ChainsKept
  <1>5. Types'
    BY <1>1, <1>2 DEF IInv, Types
  <1>6. TimersOK' /\ ShownOK'
    BY <1>1 DEF IInv, TimersOK, ShownOK
  <1> QED
    BY <1>2, <1>4, <1>5, <1>6 DEF IInv

LEMMA TimerFiresKeeps ==
  ASSUME IInv, NEW t \in Timers, TimerFires(t)
  PROVE  IInv'
  <1> DEFINE get == Request("follow", t.start, t.log, TRUE)
  <1>1. UNCHANGED <<len, done, kind, finished, karaoke, away, full, opens, shown, stopped, cut>>
    BY DEF TimerFires, serverVars, pageVars
  <1>2. t # None /\ TimerOK(t, len) /\ len \in Nat
    BY ChainNumbers DEF Timers, IInv, TimersOK
  <1>3. get \in Requests /\ GetOK(get, len) /\ get.follow
    BY <1>2 DEF TimerOK, Stretch, Request, Requests, GetOK
  <1> HIDE DEF get
  <1>4. /\ gets' \in Seq(Requests) /\ GetsOK'
        /\ Cardinality(Followed(gets')) <= Cardinality(Followed(gets)) + 1
    <2>1. gets' = Append(gets, get)
      BY DEF TimerFires, get
    <2> QED
      BY <1>1, <1>3, <2>1, Asked DEF IInv
  <1>5. timer' = None
    BY DEF TimerFires
  <1>6. ChainsOK'
    <2>1. CASE t = timer /\ UNCHANGED lost
      <3>1. timer # None
        BY <1>2, <2>1
      <3> QED
        BY <1>1, <1>4, <1>5, <2>1, <3>1, ChainsKept
    <2>2. CASE t \in lost /\ lost' = lost \ {t}
      BY <1>1, <1>4, <1>5, <2>2, ChainsKept
    <2> QED
      BY <2>1, <2>2 DEF TimerFires
  <1>7. Types'
    BY <1>1, <1>4 DEF IInv, Types
  <1>8. TimersOK'
    <2>1. \A u \in lost' : u \in lost
      BY DEF TimerFires
    <2> QED
      BY <1>1, <1>5, <2>1 DEF IInv, TimersOK
  <1>9. ShownOK'
    BY <1>1 DEF IInv, ShownOK
  <1> QED
    BY <1>4, <1>6, <1>7, <1>8, <1>9 DEF IInv

(* fetchLog drops the timer and asks for the log anew; it starts a chain   *)
(* of its own if it is to follow.                                          *)
LEMMA FetchLogKeeps ==
  ASSUME IInv, NEW start \in {None, 0}, NEW follow \in BOOLEAN, FetchLog(start, follow),
         UNCHANGED <<len, done, kind, away>>,
         finished' \in BOOLEAN, karaoke' \in BOOLEAN, full' \in BOOLEAN, opens' \in Nat,
         opens <= opens', follow => kind = "step" /\ opens' = opens + 1
  PROVE  IInv'
  <1> DEFINE get == Request("fetch", start, <<>>, follow)
  <1>1. UNCHANGED <<shown, lost, cut>> /\ timer' = None /\ stopped' \in BOOLEAN
    BY DEF FetchLog, Clear, IInv, Types
  <1>2. get \in Requests /\ GetOK(get, len) /\ get.follow = follow
    BY ChainNumbers DEF Request, Requests, GetOK
  <1> HIDE DEF get
  <1>3. /\ gets' \in Seq(Requests) /\ GetsOK'
        /\ Cardinality(Followed(gets')) \in Nat
        /\ Cardinality(Followed(gets')) <= Cardinality(Followed(gets)) + (IF follow THEN 1 ELSE 0)
    <2>1. gets' = Append(gets, get)
      BY DEF FetchLog, get
    <2> QED
      BY <1>2, <2>1, Asked DEF IInv
  <1>4. Types'
    BY <1>1, <1>3 DEF IInv, Types
  <1>5. TimersOK' /\ ShownOK'
    BY <1>1 DEF IInv, TimersOK, ShownOK
  <1>6. ChainsOK'
    <2> DEFINE F == Cardinality(Followed(gets))
               G == Cardinality(Followed(gets'))
               T == IF timer = None THEN 0 ELSE 1
               L == Cardinality(lost)
    <2>1. F \in Nat /\ G \in Nat /\ L \in Nat /\ T \in 0..1 /\ LogStarted \in Nat /\ LogStarted' \in Nat
          /\ G <= F + (IF follow THEN 1 ELSE 0)
      BY <1>3, ChainNumbers DEF LogStarted
    <2>2. L + T + F <= LogStarted /\ (lost # {} => L < LogStarted) /\ IsFiniteSet(lost)
      BY DEF IInv, ChainsOK
    <2>3. LogStarted <= LogStarted' /\ (follow => LogStarted' = LogStarted + 1)
      BY ChainNumbers DEF LogStarted
    <2> HIDE DEF F, G, T, L
    <2>4. L + 0 + G <= LogStarted' /\ (lost # {} => L < LogStarted')
      BY <2>1, <2>2, <2>3
    <2>5. Cardinality(lost') = L /\ Cardinality(Followed(gets))' = G /\ timer' = None
      BY <1>1 DEF G, L, Followed
    <2> QED
      BY <1>1, <2>2, <2>4, <2>5 DEF ChainsOK
  <1> QED
    BY <1>3, <1>4, <1>5, <1>6 DEF IInv

(* The page leaves the requests alone, and at most drops the timer.        *)
LEMMA PageKeeps ==
  ASSUME IInv, UNCHANGED <<len, done, kind, full, opens, shown, gets, lost>>,
         finished' \in BOOLEAN, karaoke' \in BOOLEAN, away' \in BOOLEAN,
         stopped' \in BOOLEAN, cut' \in BOOLEAN, timer' \in {timer, None}
  PROVE  IInv'
  <1>1. Types'
    BY DEF IInv, Types
  <1>2. GetsOK' /\ TimersOK' /\ ShownOK'
    BY DEF IInv, GetsOK, TimersOK, ShownOK
  <1>3. ChainsOK'
    <2>1. gets' \in Seq(Requests)
      BY DEF IInv, Types
    <2>2. Cardinality(Followed(gets')) = Cardinality(Followed(gets))
      OBVIOUS
    <2>3. CASE timer' = timer
      BY <2>1, <2>2, <2>3, ChainNumbers, ChainsKept
    <2>4. CASE timer' = None /\ timer # None
      BY <2>1, <2>2, <2>4, ChainNumbers, ChainsKept
    <2> QED
      BY <2>3, <2>4
  <1> QED
    BY <1>1, <1>2, <1>3 DEF IInv

-----------------------------------------------------------------------------
(* The invariant and the theorems.                                         *)

LEMMA InitHolds ==
  Init => IInv
  <1> SUFFICES ASSUME Init
               PROVE  IInv
    OBVIOUS
  <1> DEFINE get == Request("fetch", None, <<>>, TRUE)
  <1>1. /\ <<>> \in Seq(Requests) /\ DOMAIN <<>> = {}
        /\ Cardinality({}) = 0 /\ IsFiniteSet({}) /\ 0 \in 0..MaxLen
    BY EmptySeq, FS_EmptySet, BoundsAssumption
  <1>2. get \in Requests /\ GetOK(get, 0)
    BY DEF Request, Requests, GetOK
  <1>3. gets \in Seq(Requests) /\ GetsOK
    <2>1. CASE kind = "general"
      <3>1. gets = <<get>> /\ len = 0
        BY <2>1 DEF Init
      <3> HIDE DEF get
      <3>2. gets \in Seq(Requests) /\ DOMAIN gets = {1} /\ gets[1] = get
        BY <1>2, <3>1
      <3> QED
        BY <1>2, <3>1, <3>2 DEF GetsOK
    <2>2. CASE kind # "general"
      BY <1>1, <2>2 DEF Init, GetsOK
    <2> QED
      BY <2>1, <2>2
  <1>4. Types /\ TimersOK /\ ShownOK
    BY <1>1, <1>3 DEF Init, Types, TimersOK, ShownOK
  <1>5. Cardinality(Followed(gets)) <= LogStarted /\ Cardinality(Followed(gets)) \in Nat
    <2>1. CASE kind = "general"
      <3>1. Followed(gets) \subseteq {1}
        BY <2>1 DEF Init, Followed
      <3>2. IsFiniteSet({1}) /\ Cardinality({1}) = 1
        BY FS_Singleton
      <3>3. Cardinality(Followed(gets)) <= 1
        BY <3>1, <3>2, FS_Subset
      <3> QED
        BY <1>3, <2>1, <3>3, FollowedFinite DEF LogStarted
    <2>2. CASE kind # "general"
      <3>1. gets = <<>> /\ opens = 0
        BY <2>2 DEF Init
      <3>2. Followed(gets) = {}
        BY <1>1, <3>1 DEF Followed
      <3>3. Cardinality(Followed(gets)) = 0
        BY <3>2, FS_EmptySet
      <3>4. LogStarted = 0
        BY <2>2, <3>1 DEF LogStarted
      <3> QED
        BY <3>3, <3>4
    <2> QED
      BY <2>1, <2>2
  <1>6. ChainsOK
    BY <1>1, <1>5 DEF Init, ChainsOK
  <1> QED
    BY <1>3, <1>4, <1>6 DEF IInv

LEMMA NextHolds ==
  IInv /\ [Next]_vars => IInv'
  <1> SUFFICES ASSUME IInv, [Next]_vars
               PROVE  IInv'
    OBVIOUS
  <1>1. /\ len \in Nat /\ opens \in Nat /\ kind \in {"step", "general"} /\ done \in BOOLEAN
        /\ finished \in BOOLEAN /\ karaoke \in BOOLEAN /\ away \in BOOLEAN /\ full \in BOOLEAN
        /\ stopped \in BOOLEAN /\ cut \in BOOLEAN
    BY ChainNumbers DEF IInv, Types
  <1>2. CASE LogGrows \/ LogEnds
    BY <1>2, ServerKeeps
  <1>3. CASE \E i \in DOMAIN gets : Send(i)
    BY <1>3, SendKeeps
  <1>4. CASE \E i \in DOMAIN gets : Answered(i)
    BY <1>4, FetchAnsweredKeeps, FollowAnsweredKeeps DEF Answered
  <1>5. CASE \E t \in Timers : TimerFires(t)
    BY <1>5, TimerFiresKeeps
  <1>6. CASE \E i \in DOMAIN gets : Fails(i)
    BY <1>6, FailsKeeps
  <1>7. CASE OpenStep
    <2>1. FetchLog(None, karaoke)
      BY <1>7 DEF OpenStep
    <2>2. /\ UNCHANGED <<len, done, kind, away, finished, karaoke, full>>
          /\ opens' = opens + 1 /\ kind = "step"
      BY <1>7 DEF OpenStep, serverVars
    <2> QED
      BY <1>1, <2>1, <2>2, FetchLogKeeps
  <1>8. CASE ShowFullLog
    <2>1. PICK follow \in BOOLEAN : ~follow /\ FetchLog(0, follow)
      BY <1>8 DEF ShowFullLog
    <2>2. UNCHANGED <<len, done, kind, away, finished, karaoke, opens>> /\ full' = TRUE
      BY <1>8 DEF ShowFullLog, serverVars
    <2> QED
      BY <1>1, <2>1, <2>2, FetchLogKeeps
  <1>9. CASE Turn
    BY <1>1, <1>9, PageKeeps DEF Turn, Clear, serverVars
  <1>10. CASE RunFinished
    <2>1. /\ UNCHANGED <<len, done, kind, away, full, opens>>
          /\ finished' = TRUE /\ karaoke' = FALSE
      BY <1>10 DEF RunFinished, serverVars
    <2>2. CASE kind = "general"
      <3>1. PICK start \in {None, 0}, follow \in BOOLEAN : ~follow /\ FetchLog(start, follow)
        BY <1>10, <2>2 DEF RunFinished
      <3>2. finished' \in BOOLEAN /\ karaoke' \in BOOLEAN /\ full' \in BOOLEAN
        BY <1>1, <2>1, Zenon
      <3>3. opens' \in Nat /\ opens <= opens'
        BY <1>1, <2>1
      <3> QED
        BY <2>1, <3>1, <3>2, <3>3, FetchLogKeeps
    <2>3. CASE kind # "general"
      BY <1>1, <1>10, <2>1, <2>3, PageKeeps DEF RunFinished, pagerVars
    <2> QED
      BY <2>2, <2>3
  <1>11. CASE NewProperties
    BY <1>1, <1>11, PageKeeps DEF NewProperties, Clear, serverVars, pageVars
  <1>12. CASE Leave
    BY <1>1, <1>12, PageKeeps DEF Leave, Clear, serverVars
  <1>13. CASE Return
    BY <1>1, <1>13, PageKeeps DEF Return, serverVars
  <1>14. CASE UNCHANGED vars
    BY <1>1, <1>14, PageKeeps DEF vars, serverVars, pageVars, pagerVars
  <1> QED
    BY <1>2, <1>3, <1>4, <1>5, <1>6, <1>7, <1>8, <1>9, <1>10, <1>11, <1>12, <1>13, <1>14
    DEF Next, Pager

LEMMA Invariant ==
  Spec => []IInv
  BY InitHolds, NextHolds, PTL DEF Spec

(* LogPager, GeneralLogPager: the types, that every timer and every        *)
(* request that follows holds one stretch of the log, and that a timer is  *)
(* only forgotten where a step was opened again, less often than that.     *)
THEOREM TypeCorrect ==
  Spec => []TypeOK
  <1>1. IInv => TypeOK
    <2> SUFFICES ASSUME IInv
                 PROVE  TypeOK
      OBVIOUS
    <2>1. Types /\ len \in Nat
      BY ChainNumbers DEF IInv
    <2>2. ASSUME NEW i \in DOMAIN gets
          PROVE  /\ gets[i].type \in {"fetch", "follow"} /\ gets[i].at \in {"waits", "sent"}
                 /\ gets[i].start \in {None} \cup 0..len /\ gets[i].from \in 0..len
                 /\ gets[i].type = "follow" => IsLog(gets[i].log)
      <3>1. gets[i] \in Requests /\ GetOK(gets[i], len)
        BY ChainNumbers
      <3>2. /\ gets[i].type \in {"fetch", "follow"} /\ gets[i].at \in {"waits", "sent"}
            /\ gets[i].from \in Nat
        BY <3>1 DEF Requests
      <3>3. gets[i].start \in {None} \cup 0..len /\ gets[i].from \in 0..len
        BY <2>1, <3>1, <3>2 DEF GetOK
      <3>4. ASSUME gets[i].type = "follow"
            PROVE  IsLog(gets[i].log)
        <4>1. gets[i].start \in Nat /\ Stretch(gets[i].log, gets[i].start)
          BY <2>1, <3>1, <3>4 DEF GetOK
        <4> QED
          BY <4>1, StretchIsLog
      <3> QED
        BY <3>2, <3>3, <3>4
    <2>3. ASSUME NEW t \in Timers
          PROVE  t.start \in 1..len /\ IsLog(t.log)
      <3>1. t.start \in 1..len /\ Stretch(t.log, t.start)
        BY DEF IInv, TimersOK, Timers, TimerOK
      <3>2. t.start \in Nat
        BY <2>1, <3>1
      <3> QED
        BY <3>1, <3>2, StretchIsLog
    <2>4. lost # {} => kind = "step" /\ Cardinality(lost) < opens
      <3>1. ASSUME lost # {}
            PROVE  Cardinality(lost) > 0
        BY <3>1, ChainNumbers, FS_EmptySet
      <3> QED
        BY <2>1, <3>1, ChainNumbers DEF IInv, ChainsOK, LogStarted, Types
    <2> QED
      BY <2>1, <2>2, <2>3, <2>4 DEF TypeOK, Types
  <1> QED
    BY <1>1, Invariant, PTL

(* fetchLog, followLog: the log on the page is one stretch of the log on   *)
(* the server, for any number of openings and whatever chains of requests  *)
(* overlap; and it begins at the beginning unless the page offers to show  *)
(* the whole log.                                                          *)
THEOREM LogContiguousHolds ==
  Spec => []LogContiguous
  <1>1. IInv => LogContiguous
    <2> SUFFICES ASSUME IInv, shown # None
                 PROVE  /\ IsLog(shown) /\ shown.pieces # <<>>
                        /\ Last(shown.pieces) <= len
                        /\ ~shown.hasMore => shown.pieces[1] = 1
      BY DEF LogContiguous
    <2>1. PICK n \in 1..len : Stretch(shown, n)
      BY DEF IInv, ShownOK
    <2>2. n \in Nat /\ n <= len
      BY ChainNumbers
    <2> QED
      BY <2>1, <2>2, StretchIsLog
  <1> QED
    BY <1>1, Invariant, PTL

-----------------------------------------------------------------------------
(* The page of a run: what was put off, and what is under way.             *)

(* A node of the url or of a request for steps: none, the run, or a        *)
(* stage.                                                                  *)
Url == {Nothing} \cup 0..Stages

(* What is put off.                                                        *)
Task == [do : {"nodes", "nodes only", "steps", "refetch", "refetch nodes", "refetch steps",
               "end", "left", "left nodes"}, node : Url]
(* The types of Karaoke.                                                   *)
RunPageTypes ==
  /\ progress \in 0..End /\ open \in BOOLEAN /\ ended \in BOOLEAN
  /\ selected \in {Nothing} \cup Node
  /\ later \in Seq(Task)
  /\ nodesGet \in NodesRequest \cup {Nothing} /\ nodes \in {Nothing} \cup 0..End
  /\ complete \subseteq Node /\ currentNode \in Url /\ stepsUrl \in Url
  /\ following \in BOOLEAN /\ outdated \in BOOLEAN /\ overtaken \in BOOLEAN
  /\ stepsGet \in [Node -> {"none", "early", "late"}] /\ short \subseteq Node
  /\ failed \in BOOLEAN /\ clicks \in 0..MaxClicks /\ troubles \in 0..MaxTroubles
(* Whether there is something of that kind in what was put off.            *)
Has(q, do) == \E i \in 1..Len(q) : q[i].do = do
(* What was put off when the page was left for one node comes before what  *)
(* is put off when the page knows that the run has ended.                  *)
LeftBeforeEnd(q) ==
  \A i \in 1..Len(q) : q[i].do = "left" => \E j \in 1..Len(q) : j > i /\ q[j].do = "end"
(* The last request for the nodes in what was put off wants n shown.       *)
LastNodes(q, n) ==
  \E i \in 1..Len(q) : /\ q[i].do = "nodes" /\ q[i].node = n
                       /\ \A j \in 1..Len(q) : j > i => q[j].do # "nodes"
(* The steps of url are asked for in what was put off.                     *)
HasSteps(q, url) == \E i \in 1..Len(q) : q[i] = AskSteps(url)
(* Where the run is for the next answer with nodes.                        *)
ReadAt == IF nodesGet = Nothing \/ nodesGet.read = Unread THEN progress ELSE nodesGet.read
(* Somebody wants a node shown by the answer under way.                    *)
NodeAsked == nodesGet # Nothing /\ nodesGet.asks # <<>>
(* The answer under way is of the ended run, or will be.                   *)
Fresh == nodesGet.read \in {Unread, NodesAt(End)}
(* The page knows of the end after the end, and only then asks for it      *)
(* all.                                                                    *)
EndHeld == (ended => progress = End) /\ (Has(later, "end") => ended)
(* What a page left behind is overtaken by the end of the run.             *)
LeftHeld == open /\ ~failed => LeftBeforeEnd(later)
(* Nothing the page knows, or the url names, is ahead of the next answer,  *)
(* and that is not ahead of the run.                                       *)
ReadsHeld ==
  /\ Started(ReadAt) <= Started(progress)
  /\ nodes # Nothing => Started(nodes) <= Started(ReadAt)
  /\ selected # Nothing => selected <= Started(ReadAt)
(* All steps that are known are those of a finished node, and no request   *)
(* that was sent too early is under way for them.                          *)
StepsHeld ==
  \A n \in Node : n \in complete => Finished(n, progress) /\ stepsGet[n] # "early"
(* All steps of the node that is shown are known, or asked for late enough *)
(* or in vain.                                                             *)
StepsSettle ==
  \/ stepsUrl \in complete \cup short
  \/ stepsGet[stepsUrl] = "late"
  \/ HasSteps(later, stepsUrl)
(* On the way to the view of the ended run: the end is put off, or the     *)
(* nodes are, or they are read after the end, or they are shown and their  *)
(* steps are asked for.                                                    *)
EndShown ==
  open /\ ended /\ ~failed /\ ~outdated =>
    \/ Has(later, "end")
    \/ Has(later, "nodes")
    \/ NodeAsked /\ Fresh
    \/ /\ nodes = NodesAt(End)
       /\ stepsUrl \in Node /\ currentNode = stepsUrl
       /\ StepsSettle
       /\ nodesGet = Nothing \/ Fresh
(* The last who asked for nodes wants the node of the url, or it is        *)
(* shown.                                                                  *)
LastAsked ==
  open /\ ~failed /\ ~overtaken /\ ~Has(later, "end") =>
    \/ LastNodes(later, selected)
    \/ ~Has(later, "nodes") /\ NodeAsked /\ Last(nodesGet.asks) = selected
    \/ /\ ~Has(later, "nodes") /\ ~NodeAsked
       /\ selected # Nothing => currentNode = selected
       /\ ended /\ ~outdated => currentNode = Focus(selected, End)

(* The inductive invariant of Karaoke.                                     *)
Settling == RunPageTypes /\ EndHeld /\ LeftHeld /\ ReadsHeld /\ StepsHeld /\ EndShown /\ LastAsked
-----------------------------------------------------------------------------
(* A stage has started when the run has got to it, so that those that      *)
(* have are the first ones.                                                *)
LEMMA StartedAt ==
  ASSUME NEW p \in 0..End
  PROVE  Started(p) \in 0..Stages /\ \A n \in Node : n <= Started(p) <=> 3 * n - 2 <= p
  <1>1. Stages \in Nat \ {0} /\ p \in Nat /\ p <= 3 * Stages + 1
    BY KaraokeBounds DEF End
  <1>2. PICK k \in 0..Stages : \A n \in Node : n <= k <=> 3 * n - 2 <= p
    <2>1. CASE p >= 3 * Stages - 2
      <3>1. \A n \in Node : 3 * n - 2 <= p
        BY <1>1, <2>1 DEF Node
      <3>2. Stages \in 0..Stages /\ \A n \in Node : n <= Stages
        BY <1>1 DEF Node
      <3> QED
        BY <3>1, <3>2
    <2>2. CASE ~(p >= 3 * Stages - 2)
      <3> DEFINE k == (p + 2) \div 3
      <3>1. k \in Nat /\ 3 * k <= p + 2 /\ p + 2 < 3 * k + 3
        BY <1>1
      <3> HIDE DEF k
      <3>2. k \in 0..Stages
        BY <1>1, <2>2, <3>1
      <3>3. \A n \in Node : n <= k <=> 3 * n - 2 <= p
        BY <1>1, <3>1 DEF Node
      <3> QED
        BY <3>2, <3>3
    <2> QED
      BY <2>1, <2>2
  <1>3. {n \in Node : 3 * n - 2 <= p} = 1..k
    BY <1>1, <1>2 DEF Node
  <1>4. Cardinality(1..k) = k
    BY <1>2, FS_Interval
  <1>5. Started(p) = k
    BY <1>3, <1>4 DEF Started
  <1> QED
    BY <1>2, <1>5

(* Stages that have started stay so.                                       *)
LEMMA StartedMonotone ==
  ASSUME NEW p \in 0..End, NEW q \in 0..End, p <= q
  PROVE  Started(p) <= Started(q)
  <1>1. /\ Started(p) \in 0..Stages /\ Started(q) \in 0..Stages
        /\ \A n \in Node : n <= Started(p) <=> 3 * n - 2 <= p
        /\ \A n \in Node : n <= Started(q) <=> 3 * n - 2 <= q
    BY StartedAt
  <1>2. CASE Started(p) = 0
    BY <1>1, <1>2
  <1>3. CASE Started(p) # 0
    <2>1. Started(p) \in Node /\ Started(p) <= Started(p)
      BY <1>1, <1>3, KaraokeBounds DEF Node
    <2>2. 3 * Started(p) - 2 <= p
      BY <1>1, <2>1
    <2>3. 3 * Started(p) - 2 <= q
      BY <2>1, <2>2 DEF Node
    <2> QED
      BY <1>1, <2>1, <2>3
  <1> QED
    BY <1>2, <1>3

(* What is read of the nodes tells which have started.                     *)
LEMMA NodesTell ==
  ASSUME NEW p \in 0..End
  PROVE  NodesAt(p) \in 0..End /\ Started(NodesAt(p)) = Started(p)
  <1>1. Stages \in Nat \ {0} /\ p \in Nat /\ p <= 3 * Stages + 1
    BY KaraokeBounds DEF End
  <1>2. NodesAt(p) \in 0..End
    BY <1>1 DEF NodesAt, End
  <1>3. \A n \in Node : 3 * n - 2 <= NodesAt(p) <=> 3 * n - 2 <= p
    BY <1>1 DEF NodesAt, Node, End
  <1>4. {n \in Node : 3 * n - 2 <= NodesAt(p)} = {n \in Node : 3 * n - 2 <= p}
    BY <1>3
  <1> QED
    BY <1>2, <1>4 DEF Started

(* At the end all stages have started.                                     *)
LEMMA AllStarted ==
  End \in 0..End /\ Started(End) = Stages /\ Stages \in Node
  <1>1. Stages \in Nat \ {0} /\ End = 3 * Stages + 1 /\ End \in 0..End
    BY KaraokeBounds DEF End
  <1>2. Stages \in Node /\ 3 * Stages - 2 <= End
    BY <1>1 DEF Node
  <1> QED
    BY <1>1, <1>2, StartedAt

(* fetchNodes shows a stage if one has started, and the one asked for if   *)
(* that has; what is read of the nodes is all it depends on.               *)
LEMMA FocusStarted ==
  ASSUME NEW n, NEW p \in 0..End
  PROVE  /\ Focus(n, p) \in 0..Stages
         /\ Started(p) > 0 => Focus(n, p) \in Node
         /\ Focus(n, NodesAt(p)) = Focus(n, p)
         /\ n \in Node /\ n <= Started(p) => Focus(n, p) = n /\ Started(p) > 0
  <1>1. Started(p) \in 0..Stages /\ Stages \in Nat \ {0}
    BY StartedAt, KaraokeBounds
  <1> QED
    BY <1>1, NodesTell DEF Focus, Node

-----------------------------------------------------------------------------
(* What is put off last comes last.                                        *)
LEMMA PutLast ==
  ASSUME NEW q \in Seq(Task), NEW t \in Task
  PROVE  LET r == Append(q, t)
         IN /\ r \in Seq(Task)
            /\ \A d : Has(r, d) <=> Has(q, d) \/ t.do = d
            /\ (t.do # "left" /\ LeftBeforeEnd(q)) \/ t.do = "end" => LeftBeforeEnd(r)
            /\ \A n : t.do = "nodes" /\ t.node = n => LastNodes(r, n)
            /\ \A n : t.do # "nodes" /\ LastNodes(q, n) => LastNodes(r, n)
            /\ \A u : HasSteps(q, u) => HasSteps(r, u)
  <1> DEFINE r == Append(q, t)
             k == Len(q)
  <1>1. /\ r \in Seq(Task) /\ Len(r) = k + 1 /\ k \in Nat
        /\ \A i \in 1..k : r[i] = q[i]
        /\ r[k + 1] = t
    BY AppendProperties, LenProperties
  <1> HIDE DEF r, k
  <1>2. /\ k + 1 \in 1..(k + 1)
        /\ \A i \in 1..k : i \in 1..(k + 1) /\ k + 1 > i
        /\ \A i \in 1..(k + 1) : i \in 1..k \/ i = k + 1
        /\ \A i \in 1..(k + 1) : ~(i > k + 1)
    BY <1>1
  <1>3. \A d : Has(r, d) <=> Has(q, d) \/ t.do = d
    BY <1>1, <1>2 DEF Has, k
  <1>4. (t.do # "left" /\ LeftBeforeEnd(q)) \/ t.do = "end" => LeftBeforeEnd(r)
    <2>1. CASE t.do = "end"
      BY <1>1, <1>2, <2>1 DEF LeftBeforeEnd
    <2>2. CASE t.do # "left" /\ LeftBeforeEnd(q)
      <3> SUFFICES ASSUME NEW i \in 1..(k + 1), r[i].do = "left"
                   PROVE  \E j \in 1..(k + 1) : j > i /\ r[j].do = "end"
        BY <1>1 DEF LeftBeforeEnd
      <3>1. i \in 1..k /\ q[i].do = "left"
        BY <1>1, <1>2, <2>2
      <3>2. PICK j \in 1..k : j > i /\ q[j].do = "end"
        BY <2>2, <3>1 DEF LeftBeforeEnd, k
      <3> QED
        BY <1>1, <1>2, <3>2
    <2> QED
      BY <2>1, <2>2
  <1>5. ASSUME t.do = "nodes" PROVE LastNodes(r, t.node)
    BY <1>1, <1>2, <1>5 DEF LastNodes
  <1>6. ASSUME NEW n, t.do # "nodes", LastNodes(q, n) PROVE LastNodes(r, n)
    <2>1. PICK i \in 1..k : /\ q[i].do = "nodes" /\ q[i].node = n
                            /\ \A j \in 1..k : j > i => q[j].do # "nodes"
      BY <1>6 DEF LastNodes, k
    <2>2. \A j \in 1..(k + 1) : j > i => r[j].do # "nodes"
      BY <1>1, <1>2, <1>6, <2>1
    <2> QED
      BY <1>1, <1>2, <2>1, <2>2 DEF LastNodes
  <1>7. \A u : HasSteps(q, u) => HasSteps(r, u)
    BY <1>1, <1>2 DEF HasSteps, k
  <1> QED
    BY <1>1, <1>3, <1>4, <1>5, <1>6, <1>7 DEF r

(* The same, as the actions write it.                                      *)
LEMMA OneMore ==
  ASSUME NEW q \in Seq(Task), NEW t \in Task, NEW r, r = q \o <<t>>
  PROVE  /\ r \in Seq(Task)
         /\ \A d : Has(r, d) <=> Has(q, d) \/ t.do = d
         /\ t.do # "left" /\ LeftBeforeEnd(q) => LeftBeforeEnd(r)
         /\ t.do = "nodes" => LastNodes(r, t.node)
         /\ \A n : t.do # "nodes" /\ LastNodes(q, n) => LastNodes(r, n)
         /\ \A u : HasSteps(q, u) => HasSteps(r, u)
  <1>1. r = Append(q, t)
    BY AppendIsConcat
  <1>2. /\ r \in Seq(Task)
        /\ \A d : Has(r, d) <=> Has(q, d) \/ t.do = d
        /\ (t.do # "left" /\ LeftBeforeEnd(q)) \/ t.do = "end" => LeftBeforeEnd(r)
        /\ \A n : t.do = "nodes" /\ t.node = n => LastNodes(r, n)
        /\ \A n : t.do # "nodes" /\ LastNodes(q, n) => LastNodes(r, n)
        /\ \A u : HasSteps(q, u) => HasSteps(r, u)
    <2> HIDE <1>1
    <2> SUFFICES ASSUME NEW z, z = Append(q, t)
                 PROVE  /\ z \in Seq(Task)
                        /\ \A d : Has(z, d) <=> Has(q, d) \/ t.do = d
                        /\ (t.do # "left" /\ LeftBeforeEnd(q)) \/ t.do = "end" => LeftBeforeEnd(z)
                        /\ \A n : t.do = "nodes" /\ t.node = n => LastNodes(z, n)
                        /\ \A n : t.do # "nodes" /\ LastNodes(q, n) => LastNodes(z, n)
                        /\ \A u : HasSteps(q, u) => HasSteps(z, u)
      BY <1>1
    <2> QED
      BY PutLast
  <1> QED
    BY <1>2

(* Requests for steps, put off last, overtake nothing.                     *)
LEMMA StepsPutLast ==
  ASSUME NEW q \in Seq(Task), NEW s \in Seq(Task), \A i \in 1..Len(s) : s[i].do = "steps"
  PROVE  LET r == q \o s
         IN /\ r \in Seq(Task)
            /\ \A d : d # "steps" => (Has(r, d) <=> Has(q, d))
            /\ LeftBeforeEnd(q) => LeftBeforeEnd(r)
            /\ \A n : LastNodes(q, n) => LastNodes(r, n)
            /\ \A u : HasSteps(q, u) \/ HasSteps(s, u) => HasSteps(r, u)
  <1> DEFINE r == q \o s
             k == Len(q)
             m == Len(s)
  <1>1. /\ r \in Seq(Task) /\ Len(r) = k + m /\ k \in Nat /\ m \in Nat
        /\ \A i \in 1..(k + m) : r[i] = IF i <= k THEN q[i] ELSE s[i - k]
    BY ConcatProperties, LenProperties
  <1>2. \A i \in 1..m : s[i].do = "steps"
    OBVIOUS
  <1> HIDE DEF r, k, m
  <1>3. /\ \A i \in 1..k : i \in 1..(k + m) /\ i <= k
        /\ \A i \in 1..m : i + k \in 1..(k + m) /\ ~(i + k <= k) /\ (i + k) - k = i
        /\ \A i \in 1..(k + m) : i \in 1..k \/ (~(i <= k) /\ i - k \in 1..m)
    <2>1. k \in Nat /\ m \in Nat
      BY <1>1
    <2> QED
      BY <2>1
  <1>4. /\ \A i \in 1..k : r[i] = q[i]
        /\ \A i \in 1..m : r[i + k] = s[i]
        /\ \A i \in 1..(k + m) : i \in 1..k \/ r[i].do = "steps"
    BY <1>1, <1>2, <1>3
  <1>5. \A d : d # "steps" => (Has(r, d) <=> Has(q, d))
    BY <1>1, <1>3, <1>4 DEF Has, k
  <1>6. ASSUME LeftBeforeEnd(q) PROVE LeftBeforeEnd(r)
    <2> SUFFICES ASSUME NEW i \in 1..(k + m), r[i].do = "left"
                 PROVE  \E j \in 1..(k + m) : j > i /\ r[j].do = "end"
      BY <1>1 DEF LeftBeforeEnd
    <2>1. i \in 1..k /\ q[i].do = "left"
      BY <1>4
    <2>2. PICK j \in 1..k : j > i /\ q[j].do = "end"
      BY <1>6, <2>1 DEF LeftBeforeEnd, k
    <2> QED
      BY <1>3, <1>4, <2>2
  <1>7. ASSUME NEW n, LastNodes(q, n) PROVE LastNodes(r, n)
    <2>1. PICK i \in 1..k : /\ q[i].do = "nodes" /\ q[i].node = n
                            /\ \A j \in 1..k : j > i => q[j].do # "nodes"
      BY <1>7 DEF LastNodes, k
    <2>2. \A j \in 1..(k + m) : j > i => r[j].do # "nodes"
      BY <1>3, <1>4, <2>1
    <2> QED
      BY <1>1, <1>3, <1>4, <2>1, <2>2 DEF LastNodes
  <1>8. \A u : HasSteps(q, u) \/ HasSteps(s, u) => HasSteps(r, u)
    BY <1>1, <1>3, <1>4 DEF HasSteps, k, m
  <1> QED
    BY <1>1, <1>5, <1>6, <1>7, <1>8 DEF r

(* The first of what was put off is taken.                                 *)
LEMMA FirstTaken ==
  ASSUME NEW q \in Seq(Task), q # <<>>
  PROVE  LET r == Tail(q)
             t == Head(q)
         IN /\ r \in Seq(Task) /\ t \in Task
            /\ \A d : Has(q, d) <=> Has(r, d) \/ t.do = d
            /\ LeftBeforeEnd(q) => LeftBeforeEnd(r)
            /\ LeftBeforeEnd(q) /\ t.do = "left" => Has(r, "end")
            /\ \A n : LastNodes(q, n) /\ (t.do # "nodes" \/ Has(r, "nodes")) => LastNodes(r, n)
            /\ \A n : LastNodes(q, n) /\ ~Has(r, "nodes") => t.do = "nodes" /\ t.node = n
            /\ \A u : HasSteps(q, u) => HasSteps(r, u) \/ t = AskSteps(u)
  <1> DEFINE r == Tail(q)
             t == Head(q)
             k == Len(r)
  <1>1. /\ r \in Seq(Task) /\ Len(q) = k + 1 /\ k \in Nat /\ t \in Task
        /\ \A i \in 1..k : r[i] = q[i + 1]
        /\ t = q[1]
    <2>1. Len(q) \in Nat \ {0}
      BY EmptySeq
    <2> QED
      BY <2>1, HeadTailProperties, LenProperties
  <1> HIDE DEF r, k, t
  <1>2. /\ 1 \in 1..(k + 1)
        /\ \A i \in 1..k : i + 1 \in 1..(k + 1) /\ i + 1 > 1
        /\ \A i \in 1..(k + 1) : i = 1 \/ (i - 1 \in 1..k /\ (i - 1) + 1 = i)
        /\ \A i, j \in 1..(k + 1) : i > j /\ j # 1 => i # 1 /\ i - 1 > j - 1
        /\ \A i, j \in 1..k : i > j => i + 1 > j + 1
        /\ \A i \in 1..(k + 1) : i > 1 => i # 1
    BY <1>1
  <1>3. \A d : Has(q, d) <=> Has(r, d) \/ t.do = d
    <2>1. \A d : Has(r, d) => Has(q, d)
      BY <1>1, <1>2 DEF Has, k
    <2>2. \A d : t.do = d => Has(q, d)
      BY <1>1, <1>2 DEF Has
    <2>3. ASSUME NEW d, Has(q, d) PROVE Has(r, d) \/ t.do = d
      <3>1. PICK i \in 1..(k + 1) : q[i].do = d
        BY <1>1, <2>3 DEF Has
      <3>2. i # 1 => i - 1 \in 1..k /\ r[i - 1] = q[i]
        BY <1>1, <1>2
      <3> QED
        BY <1>1, <3>1, <3>2 DEF Has, k
    <2> QED
      BY <2>1, <2>2, <2>3
  <1>4. ASSUME LeftBeforeEnd(q) PROVE LeftBeforeEnd(r)
    <2> SUFFICES ASSUME NEW i \in 1..k, r[i].do = "left"
                 PROVE  \E j \in 1..k : j > i /\ r[j].do = "end"
      BY <1>1 DEF LeftBeforeEnd, k
    <2>1. i + 1 \in 1..(k + 1) /\ q[i + 1].do = "left"
      BY <1>1, <1>2
    <2>2. PICK j \in 1..(k + 1) : j > i + 1 /\ q[j].do = "end"
      BY <1>1, <1>4, <2>1 DEF LeftBeforeEnd
    <2>3. j - 1 \in 1..k /\ j - 1 > i /\ (j - 1) + 1 = j
      BY <1>1, <2>2
    <2> QED
      BY <1>1, <2>2, <2>3
  <1>5. ASSUME LeftBeforeEnd(q), t.do = "left" PROVE Has(r, "end")
    <2>1. PICK j \in 1..(k + 1) : j > 1 /\ q[j].do = "end"
      BY <1>1, <1>2, <1>5 DEF LeftBeforeEnd
    <2>2. j - 1 \in 1..k /\ (j - 1) + 1 = j
      BY <1>1, <2>1
    <2> QED
      BY <1>1, <2>1, <2>2 DEF Has, k
  <1>6. ASSUME NEW n, LastNodes(q, n)
        PROVE  /\ t.do # "nodes" \/ Has(r, "nodes") => LastNodes(r, n)
               /\ ~Has(r, "nodes") => t.do = "nodes" /\ t.node = n
    <2>1. PICK i \in 1..(k + 1) : /\ q[i].do = "nodes" /\ q[i].node = n
                                  /\ \A j \in 1..(k + 1) : j > i => q[j].do # "nodes"
      BY <1>1, <1>6 DEF LastNodes
    <2>2. CASE i = 1
      <3>1. \A j \in 1..k : r[j].do # "nodes"
        BY <1>1, <1>2, <2>1, <2>2
      <3>2. ~Has(r, "nodes")
        BY <3>1 DEF Has, k
      <3> QED
        BY <1>1, <2>1, <2>2, <3>2
    <2>3. CASE i # 1
      <3>1. i - 1 \in 1..k /\ r[i - 1] = q[i]
        BY <1>1, <1>2, <2>3
      <3>2. \A j \in 1..k : j > i - 1 => r[j].do # "nodes"
        <4> SUFFICES ASSUME NEW j \in 1..k, j > i - 1 PROVE r[j].do # "nodes"
          OBVIOUS
        <4>1. j + 1 \in 1..(k + 1) /\ j + 1 > i
          BY <1>1
        <4> QED
          BY <1>1, <2>1, <4>1
      <3>3. LastNodes(r, n)
        BY <2>1, <3>1, <3>2 DEF LastNodes, k
      <3>4. Has(r, "nodes")
        BY <2>1, <3>1 DEF Has, k
      <3> QED
        BY <3>3, <3>4
    <2> QED
      BY <2>2, <2>3
  <1>7. ASSUME NEW u, HasSteps(q, u) PROVE HasSteps(r, u) \/ t = AskSteps(u)
    <2>1. PICK i \in 1..(k + 1) : q[i] = AskSteps(u)
      BY <1>1, <1>7 DEF HasSteps
    <2>2. i # 1 => i - 1 \in 1..k /\ r[i - 1] = q[i]
      BY <1>1, <1>2
    <2> QED
      BY <1>1, <2>1, <2>2 DEF HasSteps, k
  <1> QED
    BY <1>1, <1>3, <1>4, <1>5, <1>6, <1>7 DEF r, t

(* debounceFetchNodes takes out no more than an event.                     *)
LEMMA RefetchTaken ==
  ASSUME NEW q \in Seq(Task)
  PROVE  LET r == RemoveFirstMatch(q, IsRefetch)
         IN /\ r \in Seq(Task)
            /\ \A d : d \notin {"refetch", "refetch nodes"} => (Has(r, d) <=> Has(q, d))
            /\ LeftBeforeEnd(q) => LeftBeforeEnd(r)
            /\ \A n : LastNodes(q, n) => LastNodes(r, n)
            /\ \A u : HasSteps(q, u) => HasSteps(r, u)
  <1> DEFINE r == RemoveFirstMatch(q, IsRefetch)
             k == Len(q)
             I == {i \in 1..k : IsRefetch(q[i])}
             p == Min(I)
  <1>1. k \in Nat
    BY LenProperties
  <1>2. CASE I = {}
    <2>1. r = q
      BY <1>2 DEF RemoveFirstMatch
    <2> QED
      BY <2>1
  <1>3. CASE I # {}
    <2>1. I \in SUBSET Nat
      BY <1>1
    <2>2. p \in I
      <3> HIDE DEF I
      <3>1. \E i \in I : \A j \in I : i <= j
        BY <1>3, <2>1, LeastExists
      <3> QED
        BY <3>1 DEF Min
    <2>3. p \in 1..k /\ IsRefetch(q[p])
      BY <2>2
    <2>4. r = SubSeq(q, 1, p - 1) \o SubSeq(q, p + 1, k)
      BY <1>3 DEF RemoveFirstMatch, SelectInSeq, RemoveAt
    <2> HIDE DEF p, I, r
    <2>5. q[p].do \in {"refetch", "refetch nodes"}
      <3>1. q[p] \in {Refetch(TRUE), Refetch(FALSE)}
        BY <2>3 DEF IsRefetch
      <3>2. Refetch(TRUE).do = "refetch nodes" /\ Refetch(FALSE).do = "refetch"
        BY DEF Refetch
      <3> QED
        BY <3>1, <3>2
    <2>6. /\ r \in Seq(Task) /\ Len(r) = k - 1
          /\ \A j \in 1..(k - 1) : r[j] = IF j < p THEN q[j] ELSE q[j + 1]
      BY <2>3, <2>4, WithoutPlace
    <2> HIDE DEF k
    <2>7. \A j \in 1..(k - 1) : \E i \in 1..k : /\ i # p /\ r[j] = q[i]
                                                /\ i = IF j < p THEN j ELSE j + 1
      <3> TAKE j \in 1..(k - 1)
      <3>1. CASE j < p
        <4>1. j \in 1..k /\ j # p /\ r[j] = q[j]
          BY <1>1, <2>3, <2>6, <3>1
        <4> QED
          BY <3>1, <4>1
      <3>2. CASE ~(j < p)
        <4>1. j + 1 \in 1..k /\ j + 1 # p /\ r[j] = q[j + 1]
          BY <1>1, <2>3, <2>6, <3>2
        <4> QED
          BY <3>2, <4>1
      <3> QED
        BY <3>1, <3>2
    <2>8. \A i \in 1..k : i # p =>
            \E j \in 1..(k - 1) : /\ r[j] = q[i]
                                  /\ i = IF j < p THEN j ELSE j + 1
      <3> SUFFICES ASSUME NEW i \in 1..k, i # p
                   PROVE  \E j \in 1..(k - 1) : /\ r[j] = q[i]
                                                /\ i = IF j < p THEN j ELSE j + 1
        OBVIOUS
      <3>1. CASE i < p
        <4>1. i \in 1..(k - 1) /\ r[i] = q[i]
          BY <1>1, <2>3, <2>6, <3>1
        <4> QED
          BY <3>1, <4>1
      <3>2. CASE ~(i < p)
        <4>1. i - 1 \in 1..(k - 1) /\ ~(i - 1 < p) /\ (i - 1) + 1 = i
          BY <1>1, <2>3, <3>2
        <4>2. r[i - 1] = q[i]
          BY <2>6, <4>1
        <4> QED
          BY <4>1, <4>2
      <3> QED
        BY <3>1, <3>2
    <2>9. \A d : d \notin {"refetch", "refetch nodes"} => (Has(r, d) <=> Has(q, d))
      <3> SUFFICES ASSUME NEW d, d \notin {"refetch", "refetch nodes"}
                   PROVE  (\E j \in 1..(k - 1) : r[j].do = d) <=> (\E i \in 1..k : q[i].do = d)
        BY <2>6 DEF Has, k
      <3>1. \A j \in 1..(k - 1) : r[j].do = d => \E i \in 1..k : q[i].do = d
        BY <2>7
      <3>2. ASSUME NEW i \in 1..k, q[i].do = d PROVE \E j \in 1..(k - 1) : r[j].do = d
        <4>1. i # p
          BY <2>5, <3>2
        <4> QED
          BY <2>8, <3>2, <4>1
      <3> QED
        BY <3>1, <3>2
    <2>10. \A i, j \in 1..k : \A a, b \in 1..(k - 1) :
             /\ i = IF a < p THEN a ELSE a + 1
             /\ j = IF b < p THEN b ELSE b + 1
             => (i > j <=> a > b)
      BY <1>1, <2>3
    <2>11. ASSUME LeftBeforeEnd(q) PROVE LeftBeforeEnd(r)
      <3> SUFFICES ASSUME NEW a \in 1..(k - 1), r[a].do = "left"
                   PROVE  \E b \in 1..(k - 1) : b > a /\ r[b].do = "end"
        BY <2>6 DEF LeftBeforeEnd
      <3>1. PICK i \in 1..k : i # p /\ r[a] = q[i] /\ i = IF a < p THEN a ELSE a + 1
        BY <2>7
      <3>2. PICK j \in 1..k : j > i /\ q[j].do = "end"
        BY <2>11, <3>1 DEF LeftBeforeEnd, k
      <3>3. j # p
        BY <2>5, <3>2
      <3>4. PICK b \in 1..(k - 1) : r[b] = q[j] /\ j = IF b < p THEN b ELSE b + 1
        BY <2>8, <3>3
      <3> QED
        BY <2>10, <3>1, <3>2, <3>4
    <2>12. ASSUME NEW n, LastNodes(q, n) PROVE LastNodes(r, n)
      <3>1. PICK i \in 1..k : /\ q[i].do = "nodes" /\ q[i].node = n
                              /\ \A j \in 1..k : j > i => q[j].do # "nodes"
        BY <2>12 DEF LastNodes, k
      <3>2. i # p
        BY <2>5, <3>1
      <3>3. PICK a \in 1..(k - 1) : r[a] = q[i] /\ i = IF a < p THEN a ELSE a + 1
        BY <2>8, <3>2
      <3>4. ASSUME NEW b \in 1..(k - 1), b > a PROVE r[b].do # "nodes"
        <4>1. PICK j \in 1..k : r[b] = q[j] /\ j = IF b < p THEN b ELSE b + 1
          BY <2>7
        <4>2. j > i
          BY <2>10, <3>3, <3>4, <4>1
        <4> QED
          BY <3>1, <4>1, <4>2
      <3> QED
        BY <2>6, <3>1, <3>3, <3>4 DEF LastNodes
    <2>13. ASSUME NEW u, HasSteps(q, u) PROVE HasSteps(r, u)
      <3>1. PICK i \in 1..k : q[i] = AskSteps(u)
        BY <2>13 DEF HasSteps, k
      <3>2. i # p
        <4>1. q[i].do = "steps"
          BY <3>1 DEF AskSteps
        <4> QED
          BY <2>5, <4>1
      <3> QED
        BY <2>6, <2>8, <3>1, <3>2 DEF HasSteps
    <2> QED
      BY <2>6, <2>9, <2>11, <2>12, <2>13 DEF r
  <1> QED
    BY <1>2, <1>3

(* Nothing is put off.                                                     *)
LEMMA NothingPutOff ==
  /\ \A d : ~Has(<<>>, d)
  /\ \A n : ~LastNodes(<<>>, n)
  /\ \A u : ~HasSteps(<<>>, u)
  /\ LeftBeforeEnd(<<>>)
  /\ <<>> \in Seq(Task)
  <1>1. Len(<<>>) = 0 /\ <<>> \in Seq(Task) /\ 1..0 = {}
    BY EmptySeq
  <1> QED
    BY <1>1 DEF Has, LastNodes, HasSteps, LeftBeforeEnd

(* The kinds of what is put off for a node, and for none.                  *)
LEMMA TasksKnown ==
  ASSUME NEW n \in Url
  PROVE  /\ AskNodes(n) \in Task /\ AskNodes(n).do = "nodes" /\ AskNodes(n).node = n
         /\ AskSteps(n) \in Task /\ AskSteps(n).do = "steps" /\ AskSteps(n).node = n
         /\ ShowEnd(n) \in Task /\ ShowEnd(n).do = "end" /\ ShowEnd(n).node = n
         /\ Left(n) \in Task /\ Left(n).do = "left" /\ Left(n).node = n
  BY DEF AskNodes, AskSteps, ShowEnd, Left, Task

LEMMA PlainTasksKnown ==
  /\ AskOnly \in Task /\ AskOnly.do = "nodes only"
  /\ LeftNodes \in Task /\ LeftNodes.do = "left nodes"
  /\ RefetchSteps \in Task /\ RefetchSteps.do = "refetch steps"
  /\ \A out : Refetch(out) \in Task /\ Refetch(out).do \in {"refetch", "refetch nodes"}
  <1>1. Nothing \in Url
    BY DEF Url
  <1>2. \A out : Refetch(out) \in Task /\ Refetch(out).do \in {"refetch", "refetch nodes"}
    <2> TAKE out
    <2>1. CASE out
      BY <1>1, <2>1 DEF Refetch, Task
    <2>2. CASE ~out
      BY <1>1, <2>2 DEF Refetch, Task
    <2> QED
      BY <2>1, <2>2
  <1> QED
    BY <1>1, <1>2 DEF AskOnly, LeftNodes, RefetchSteps, Task

(* The types of what the nodes tell.                                       *)
LEMMA ReadAtHeld ==
  ASSUME RunPageTypes
  PROVE  /\ ReadAt \in 0..End /\ Started(ReadAt) \in 0..Stages
         /\ Started(progress) \in 0..Stages
         /\ nodes # Nothing => nodes \in 0..End /\ Started(nodes) \in 0..Stages
         /\ nodesGet # Nothing /\ nodesGet.read # Unread =>
              nodesGet.read \in 0..End /\ ReadAt = nodesGet.read
  BY StartedAt DEF RunPageTypes, ReadAt, NodesRequest

(* The run goes on: what is put off for its events is no one's answer.     *)
LEMMA RunGoesOnKeeps ==
  ASSUME Settling, RunGoesOn
  PROVE  Settling'
  <1> USE DEF Settling
  <1>1. /\ progress \in 0..End /\ progress + 1 \in 0..End /\ progress < End
        /\ progress' = progress + 1 /\ End \in Nat /\ ~ended
    BY KaraokeBounds DEF RunGoesOn, RunPageTypes, EndHeld, End
  <1>2. UNCHANGED <<open, selected, following, ended, nodesGet, nodes, stepsGet, short, complete, currentNode,
                    stepsUrl, clicks, troubles, outdated, overtaken, failed>>
    BY DEF RunGoesOn, nodesVars, countVars, historyVars
  <1>3. /\ later' \in Seq(Task)
        /\ \A d : d \in {"nodes", "end", "left"} => (Has(later', d) <=> Has(later, d))
        /\ LeftBeforeEnd(later) => LeftBeforeEnd(later')
        /\ \A n : LastNodes(later, n) => LastNodes(later', n)
    <2>1. later \in Seq(Task)
      BY DEF RunPageTypes
    <2>2. CASE later' = later
      BY <2>1, <2>2
    <2>3. CASE later' = Append(later, RefetchSteps)
      BY <2>1, <2>3, PutLast, PlainTasksKnown
    <2>4. ASSUME NEW out, later' = Append(RemoveFirstMatch(later, IsRefetch), Refetch(out))
          PROVE  /\ later' \in Seq(Task)
                 /\ \A d : d \in {"nodes", "end", "left"} => (Has(later', d) <=> Has(later, d))
                 /\ LeftBeforeEnd(later) => LeftBeforeEnd(later')
                 /\ \A n : LastNodes(later, n) => LastNodes(later', n)
      <3> DEFINE q == RemoveFirstMatch(later, IsRefetch)
      <3>1. /\ q \in Seq(Task)
            /\ \A d : d \notin {"refetch", "refetch nodes"} => (Has(q, d) <=> Has(later, d))
            /\ LeftBeforeEnd(later) => LeftBeforeEnd(q)
            /\ \A n : LastNodes(later, n) => LastNodes(q, n)
        BY <2>1, RefetchTaken
      <3>2. later' = Append(q, Refetch(out))
        BY <2>4
      <3>3. Refetch(out) \in Task /\ Refetch(out).do \notin {"nodes", "end", "left"}
        BY PlainTasksKnown
      <3> HIDE DEF q
      <3>4. /\ later' \in Seq(Task)
            /\ \A d : Has(later', d) <=> Has(q, d) \/ Refetch(out).do = d
            /\ LeftBeforeEnd(q) => LeftBeforeEnd(later')
            /\ \A n : LastNodes(q, n) => LastNodes(later', n)
        BY <3>1, <3>2, <3>3, PutLast
      <3> QED
        BY <3>1, <3>3, <3>4
    <2>5. \/ later' = later \/ later' = Append(later, RefetchSteps)
          \/ \E out : later' = Append(RemoveFirstMatch(later, IsRefetch), Refetch(out))
      BY DEF RunGoesOn, SseEventHandler, DebounceFetchNodes
    <2> QED
      BY <2>2, <2>3, <2>4, <2>5
  <1>4. RunPageTypes' /\ EndHeld' /\ LeftHeld' /\ EndShown'
    BY <1>1, <1>2, <1>3 DEF RunPageTypes, EndHeld, LeftHeld, EndShown
  <1>5. ReadsHeld'
    <2>1. Started(progress) <= Started(progress') /\ Started(progress') \in 0..Stages
      BY <1>1, StartedMonotone, StartedAt
    <2>2. ReadAt' = ReadAt \/ (ReadAt = progress /\ ReadAt' = progress')
      BY <1>2 DEF ReadAt
    <2>3. selected # Nothing => selected \in Nat
      BY DEF RunPageTypes, Node
    <2> QED
      BY <1>2, <2>1, <2>2, <2>3, ReadAtHeld DEF ReadsHeld
  <1>6. LastAsked'
    BY <1>1, <1>2, <1>3 DEF LastAsked, NodeAsked
  <1>7. StepsHeld'
    BY <1>1, <1>2 DEF StepsHeld, Finished, Node
  <1> QED
    BY <1>4, <1>5, <1>6, <1>7

(* The end of the run is put off last of all.                              *)
LEMMA RunEndedKeeps ==
  ASSUME Settling, RunEnded
  PROVE  Settling'
  <1> USE DEF Settling
  <1>1. /\ progress = End /\ ended' = TRUE /\ later' = Append(later, ShowEnd(selected))
        /\ following' = FALSE /\ outdated' = FALSE /\ overtaken' = FALSE /\ failed' = FALSE
        /\ short' = {}
        /\ UNCHANGED <<progress, open, selected, nodesGet, nodes, stepsGet, complete, currentNode,
                       stepsUrl, clicks, troubles>>
    BY DEF RunEnded, nodesVars, countVars
  <1>2. later \in Seq(Task) /\ selected \in Url
    BY KaraokeBounds DEF RunPageTypes, Url, Node
  <1>3. later' \in Seq(Task) /\ Has(later', "end") /\ LeftBeforeEnd(later')
    BY <1>1, <1>2, PutLast, TasksKnown
  <1>4. ReadAt' = ReadAt
    BY <1>1 DEF ReadAt
  <1> QED
    BY <1>1, <1>3, <1>4 DEF RunPageTypes, EndHeld, LeftHeld, ReadsHeld, StepsHeld, EndShown, LastAsked

(* A click on another node asks for it last of all.                        *)
LEMMA AfterClickKeeps ==
  ASSUME Settling, NEW n \in Node, AfterClick(n)
  PROVE  Settling'
  <1> USE DEF Settling
  <1>1. /\ selected' = n /\ nodes # Nothing /\ n <= Started(nodes)
        /\ later' = IF n # selected THEN Append(later, AskNodes(n)) ELSE later
        /\ UNCHANGED <<progress, open, ended, nodesGet, nodes, stepsGet, short, complete, currentNode,
                       stepsUrl, troubles, outdated, overtaken, failed>>
    BY DEF AfterClick, nodesVars, historyVars
  <1>2. later \in Seq(Task) /\ n \in Url /\ n \in Nat /\ n # Nothing
    BY KaraokeBounds, NothingAssumption DEF RunPageTypes, Url, Node
  <1>3. following' \in BOOLEAN /\ clicks' \in 0..MaxClicks
    BY KaraokeBounds DEF AfterClick, RunPageTypes
  <1>4. ReadAt' = ReadAt /\ (NodeAsked' <=> NodeAsked) /\ (Fresh' <=> Fresh)
    BY <1>1 DEF ReadAt, NodeAsked, Fresh
  <1>5. ReadsHeld'
    BY <1>1, <1>2, <1>4, ReadAtHeld DEF ReadsHeld
  <1>6. CASE n = selected
    <2>1. later' = later /\ selected' = selected
      BY <1>1, <1>6
    <2> QED
      BY <1>1, <1>3, <1>4, <1>5, <2>1 DEF RunPageTypes, EndHeld, LeftHeld, StepsHeld, StepsSettle, EndShown, LastAsked
  <1>7. CASE n # selected
    <2>1. /\ later' \in Seq(Task)
          /\ Has(later', "end") <=> Has(later, "end")
          /\ Has(later', "nodes")
          /\ LeftBeforeEnd(later) => LeftBeforeEnd(later')
          /\ LastNodes(later', n)
      BY <1>1, <1>2, <1>7, PutLast, TasksKnown
    <2> QED
      BY <1>1, <1>3, <1>4, <1>5, <2>1 DEF RunPageTypes, EndHeld, LeftHeld, StepsHeld, EndShown, LastAsked
  <1> QED
    BY <1>6, <1>7

(* A page that was left promises nothing.                                  *)
LEMMA LeaveRunKeeps ==
  ASSUME Settling, LeaveRun
  PROVE  Settling'
  <1> USE DEF Settling
  <1>1. /\ open' = FALSE /\ following' = FALSE /\ troubles' \in 0..MaxTroubles
        /\ UNCHANGED <<progress, selected, ended, nodesGet, nodes, stepsGet, short, complete, currentNode,
                       stepsUrl, clicks, outdated, overtaken, failed>>
    BY KaraokeBounds DEF LeaveRun, nodesVars, historyVars, RunPageTypes
  <1> DEFINE task(i) == CASE later[i] = Refetch(FALSE)  -> Left(selected)
                          [] later[i] = Refetch(TRUE)   -> LeftNodes
                          [] later[i].do = "end"        -> Left(later[i].node)
                          [] OTHER                      -> later[i]
             k == Len(later)
  <1>2. later' = [i \in 1..k |-> task(i)] /\ k \in Nat
    BY LenProperties DEF LeaveRun, RunPageTypes
  <1>3. ASSUME NEW i \in 1..k PROVE task(i) \in Task /\ task(i).do # "end"
    <2>1. later[i] \in Task /\ later[i].node \in Url
      <3>1. later[i] \in Task
        BY ElementOfSeq DEF RunPageTypes
      <3> QED
        BY <3>1 DEF Task
    <2>2. selected \in Url
      BY KaraokeBounds DEF RunPageTypes, Url, Node
    <2>3. \/ task(i) = Left(selected) \/ task(i) = LeftNodes \/ task(i) = Left(later[i].node)
          \/ task(i) = later[i] /\ later[i].do # "end"
      <3>1. CASE later[i] = Refetch(FALSE) \/ later[i] = Refetch(TRUE)
        <4>1. Refetch(TRUE) # Refetch(FALSE) /\ Refetch(TRUE).do # "end" /\ Refetch(FALSE).do # "end"
          BY DEF Refetch
        <4>2. CASE later[i] = Refetch(FALSE)
          BY <4>1, <4>2
        <4>3. CASE later[i] = Refetch(TRUE)
          BY <4>1, <4>3
        <4> QED
          BY <3>1, <4>2, <4>3
      <3>2. CASE later[i] # Refetch(FALSE) /\ later[i] # Refetch(TRUE)
        <4>1. CASE later[i].do = "end"
          BY <3>2, <4>1
        <4>2. CASE later[i].do # "end"
          BY <3>2, <4>2
        <4> QED
          BY <4>1, <4>2
      <3> QED
        BY <3>1, <3>2
    <2> HIDE DEF task
    <2> QED
      BY <2>1, <2>2, <2>3, TasksKnown, PlainTasksKnown
  <1> HIDE DEF task
  <1>4. later' \in Seq(Task) /\ Len(later') = k
    BY <1>2, <1>3
  <1>5. ~Has(later', "end")
    BY <1>2, <1>3, <1>4 DEF Has
  <1>6. ReadAt' = ReadAt
    BY <1>1 DEF ReadAt
  <1> QED
    BY <1>1, <1>4, <1>5, <1>6 DEF RunPageTypes, EndHeld, LeftHeld, ReadsHeld, StepsHeld, EndShown, LastAsked

(* Nor does one that is opened again, or a request of which failed.        *)
LEMMA OpenAgainKeeps ==
  ASSUME Settling, OpenAgain
  PROVE  Settling'
  <1> USE DEF Settling
  <1>1. /\ failed' = TRUE /\ open' = TRUE /\ ended' \in {ended, progress = End}
        /\ selected' \in {Nothing, selected} /\ following' = ~ended'
        /\ UNCHANGED <<progress, later, nodesGet, nodes, stepsGet, short, complete, currentNode, stepsUrl,
                       clicks, troubles, outdated, overtaken>>
    BY DEF OpenAgain, nodesVars, countVars
  <1>2. RunPageTypes'
    BY <1>1 DEF RunPageTypes
  <1>3. EndHeld'
    BY <1>1 DEF EndHeld
  <1>4. ReadAt' = ReadAt
    BY <1>1 DEF ReadAt
  <1>5. ReadsHeld'
    BY <1>1, <1>4 DEF ReadsHeld
  <1> QED
    BY <1>1, <1>2, <1>3, <1>5 DEF LeftHeld, StepsHeld, EndShown, LastAsked

LEMMA RequestFailsKeeps ==
  ASSUME Settling, RequestFails
  PROVE  Settling'
  <1> USE DEF Settling
  <1>1. /\ failed' = TRUE /\ troubles' \in 0..MaxTroubles
        /\ UNCHANGED <<progress, open, selected, following, ended, later, nodes, complete,
                       currentNode, stepsUrl, clicks, outdated, short, overtaken>>
    BY KaraokeBounds DEF RequestFails, RunPageTypes, runPageVars
  <1>2. nodesGet' = Nothing \/ nodesGet' = nodesGet
    BY DEF RequestFails
  <1>3. ReadAt' = progress \/ ReadAt' = ReadAt
    BY <1>1, <1>2 DEF ReadAt
  <1>4. ReadsHeld'
    <2>1. selected # Nothing => selected \in Nat
      BY DEF RunPageTypes, Node
    <2> QED
      BY <1>1, <1>3, <2>1, ReadAtHeld DEF ReadsHeld
  <1>5. /\ stepsGet' \in [Node -> {"none", "early", "late"}]
        /\ \A n \in Node : stepsGet'[n] # "early" \/ stepsGet'[n] = stepsGet[n]
    BY DEF RequestFails, RunPageTypes
  <1>6. RunPageTypes' /\ EndHeld' /\ StepsHeld'
    BY <1>1, <1>2, <1>5 DEF RunPageTypes, EndHeld, StepsHeld
  <1> QED
    BY <1>1, <1>4, <1>6 DEF LeftHeld, EndShown, LastAsked

(* The answer with all steps, or with those of before the end of the node, *)
(* which were asked for no more or in vain.                                *)
LEMMA StepsAnsweredKeeps ==
  ASSUME Settling, NEW url \in Node, StepsAnswered(url)
  PROVE  Settling'
  <1> USE DEF Settling
  <1>1. /\ stepsGet[url] # "none"
        /\ stepsGet' = [stepsGet EXCEPT ![url] = "none"]
        /\ \/ Finished(url, progress) /\ complete' = complete \cup {url}
           \/ stepsGet[url] = "early" /\ complete' = complete \ {url}
        /\ UNCHANGED <<progress, open, selected, following, ended, later, nodesGet, nodes,
                       currentNode, stepsUrl, clicks, troubles, outdated, short, overtaken,
                       failed>>
    BY DEF StepsAnswered, runPageVars, countVars, historyVars
  <1>2. /\ stepsGet' \in [Node -> {"none", "early", "late"}]
        /\ \A n \in Node : stepsGet'[n] = IF n = url THEN "none" ELSE stepsGet[n]
    BY <1>1 DEF RunPageTypes
  <1>3. complete' \subseteq Node /\ complete \subseteq complete'
        /\ (stepsGet[url] = "late" => url \in complete')
        /\ \A n \in complete' : n \in complete \/ (n = url /\ Finished(n, progress))
    BY <1>1 DEF RunPageTypes, StepsHeld
  <1>4. ReadAt' = ReadAt /\ (NodeAsked' <=> NodeAsked) /\ (Fresh' <=> Fresh)
    BY <1>1 DEF ReadAt, NodeAsked, Fresh
  <1>5. StepsHeld'
    BY <1>1, <1>2, <1>3 DEF StepsHeld
  <1>6. stepsUrl \in Node /\ StepsSettle => StepsSettle'
    BY <1>1, <1>2, <1>3 DEF StepsSettle
  <1>7. RunPageTypes' /\ EndHeld' /\ LeftHeld' /\ ReadsHeld' /\ LastAsked'
    BY <1>1, <1>2, <1>3, <1>4 DEF RunPageTypes, EndHeld, LeftHeld, ReadsHeld, LastAsked
  <1>8. EndShown'
    BY <1>1, <1>4, <1>6 DEF EndShown
  <1> QED
    BY <1>5, <1>7, <1>8

(* What is read after the end is of the ended run.                         *)
LEMMA NodesReadKeeps ==
  ASSUME Settling, NodesRead
  PROVE  Settling'
  <1> USE DEF Settling
  <1>1. /\ nodesGet # Nothing /\ nodesGet.read = Unread
        /\ nodesGet' = [nodesGet EXCEPT !.read = NodesAt(progress)]
        /\ UNCHANGED <<progress, open, selected, following, ended, later, nodes, stepsGet, short, complete,
                       currentNode, stepsUrl, clicks, troubles, outdated, overtaken, failed>>
    BY DEF NodesRead, runPageVars, countVars, historyVars
  <1>2. /\ nodesGet \in NodesRequest /\ NodesAt(progress) \in 0..End
        /\ Started(NodesAt(progress)) = Started(progress)
    BY <1>1, NodesTell DEF RunPageTypes
  <1>3. /\ nodesGet' \in NodesRequest /\ nodesGet'.asks = nodesGet.asks
        /\ nodesGet'.read = NodesAt(progress)
    BY <1>1, <1>2 DEF NodesRequest
  <1>4. nodesGet' # Nothing
    BY <1>3, NothingAssumption
  <1>5. NodeAsked' <=> NodeAsked
    BY <1>1, <1>3, <1>4 DEF NodeAsked
  <1>6. ended => Fresh'
    BY <1>3 DEF Fresh, EndHeld
  <1>7. ReadAt = progress /\ ReadAt' \in {progress, NodesAt(progress)}
    BY <1>1, <1>3 DEF ReadAt
  <1>8. ReadsHeld'
    BY <1>1, <1>2, <1>7, ReadAtHeld DEF ReadsHeld
  <1> QED
    BY <1>1, <1>3, <1>5, <1>6, <1>8
       DEF RunPageTypes, EndHeld, LeftHeld, StepsHeld, StepsSettle, EndShown, LastAsked

(* The nodes are stored, the last who asked has the node shown and its     *)
(* steps asked for.                                                        *)
LEMMA NodesAnsweredKeeps ==
  ASSUME Settling, NodesAnswered
  PROVE  Settling'
  <1> USE DEF Settling
  <1> DEFINE p == nodesGet.read
             asks == nodesGet.asks
             urls == [i \in DOMAIN asks |-> Focus(asks[i], p)]
             s == [i \in DOMAIN urls |-> AskSteps(urls[i])]
             k == Len(asks)
             url == Focus(asks[k], p)
  <1>1. /\ nodesGet # Nothing /\ p # Unread /\ nodesGet' = Nothing
        /\ nodes' = IF Started(p) > 0 \/ nodesGet.only THEN p ELSE nodes
        /\ stepsUrl' = IF urls = <<>> THEN stepsUrl ELSE Last(urls)
        /\ currentNode' = IF urls = <<>> \/ Started(p) = 0 THEN currentNode ELSE Last(urls)
        /\ later' = later \o s
        /\ UNCHANGED <<progress, open, selected, following, ended, stepsGet, short, complete, clicks,
                       troubles, outdated, overtaken, failed>>
    BY DEF NodesAnswered, countVars, historyVars
  <1>2. /\ nodesGet \in NodesRequest /\ asks \in Seq({Nothing, 0} \cup Node)
        /\ nodesGet.only \in BOOLEAN
        /\ p \in 0..End /\ ReadAt = p /\ Started(p) \in 0..Stages
    BY <1>1, ReadAtHeld, StartedAt DEF RunPageTypes, NodesRequest
  <1>3. /\ k \in Nat /\ DOMAIN asks = 1..k
        /\ asks = <<>> <=> k = 0
    BY <1>2, LenProperties, EmptySeq
  <1>4. \A i \in 1..k : Focus(asks[i], p) \in 0..Stages
    BY <1>2, FocusStarted
  <1>5. /\ urls = [i \in 1..k |-> Focus(asks[i], p)] /\ Len(urls) = k
        /\ urls = <<>> <=> k = 0
        /\ k # 0 => Last(urls) = url
    <2> HIDE DEF asks, p
    <2>1. urls = [i \in 1..k |-> Focus(asks[i], p)]
      BY <1>3
    <2>2. urls \in Seq(0..Stages) /\ Len(urls) = k
      BY <1>3, <1>4, <2>1
    <2>3. k # 0 => k \in 1..k
      BY <1>3
    <2>4. k # 0 => urls[k] = url
      BY <2>1, <2>3
    <2> HIDE DEF urls, url, k
    <2>5. k # 0 => Last(urls) = url
      BY <2>2, <2>4 DEF Last
    <2>6. urls = <<>> <=> k = 0
      BY <2>2, EmptySeq
    <2> QED
      BY <2>1, <2>2, <2>5, <2>6
  <1>6. /\ s \in Seq(Task) /\ Len(s) = k
        /\ \A i \in 1..k : s[i] = AskSteps(Focus(asks[i], p)) /\ s[i].do = "steps"
    <2> HIDE DEF asks, p
    <2>1. DOMAIN urls = 1..k /\ \A i \in 1..k : urls[i] = Focus(asks[i], p)
      BY <1>3
    <2> HIDE DEF urls
    <2>2. s = [i \in 1..k |-> AskSteps(urls[i])]
      BY <2>1
    <2>3. \A i \in 1..k : AskSteps(urls[i]) \in Task /\ AskSteps(urls[i]).do = "steps"
      BY <1>4, <2>1, TasksKnown DEF Url
    <2> HIDE DEF s
    <2>4. s \in Seq(Task) /\ Len(s) = k
      BY <1>3, <2>2, <2>3
    <2> QED
      BY <2>1, <2>2, <2>3, <2>4
  <1> HIDE DEF urls, s
  <1>7. /\ later' \in Seq(Task)
        /\ \A d : d # "steps" => (Has(later', d) <=> Has(later, d))
        /\ LeftBeforeEnd(later) => LeftBeforeEnd(later')
        /\ \A n : LastNodes(later, n) => LastNodes(later', n)
        /\ \A u : HasSteps(later, u) \/ HasSteps(s, u) => HasSteps(later', u)
    BY <1>1, <1>6, StepsPutLast DEF RunPageTypes
  <1>8. NodeAsked <=> k # 0
    BY <1>1, <1>3 DEF NodeAsked
  <1>9. /\ ~NodeAsked' /\ (k = 0 => stepsUrl' = stepsUrl /\ currentNode' = currentNode)
        /\ k # 0 => /\ stepsUrl' = url /\ url \in 0..Stages
                    /\ Started(p) > 0 => currentNode' = url /\ url \in Node
                    /\ HasSteps(later', url)
    <2>1. k # 0 => k \in 1..k
      BY <1>3
    <2>2. k # 0 => HasSteps(s, url)
      BY <1>6, <2>1 DEF HasSteps
    <2>3. url \in 0..Stages /\ (Started(p) > 0 => url \in Node)
      BY <1>2, FocusStarted
    <2> QED
      BY <1>1, <1>2, <1>5, <1>7, <2>2, <2>3 DEF NodeAsked
  <1>10. Fresh => /\ p = NodesAt(End) /\ Started(p) > 0 /\ nodes' = NodesAt(End)
                  /\ Focus(selected, p) = Focus(selected, End)
    <2> SUFFICES ASSUME Fresh
                 PROVE  /\ p = NodesAt(End) /\ Started(p) > 0 /\ nodes' = NodesAt(End)
                        /\ Focus(selected, p) = Focus(selected, End)
      OBVIOUS
    <2>1. p = NodesAt(End)
      BY <1>1 DEF Fresh
    <2>2. Started(p) = Stages /\ Stages > 0
      BY <2>1, AllStarted, NodesTell, KaraokeBounds
    <2>3. Focus(selected, p) = Focus(selected, End)
      BY <2>1, AllStarted, FocusStarted
    <2> QED
      BY <1>1, <2>1, <2>2, <2>3
  <1> HIDE DEF url, asks, k
  <1>11. RunPageTypes'
    <2>1. url \in 0..Stages => url \in Url
      BY DEF Url
    <2>2. currentNode' \in Url /\ stepsUrl' \in Url
      BY <1>1, <1>5, <1>9, <2>1 DEF RunPageTypes
    <2>3. nodes' \in {Nothing} \cup 0..End
      BY <1>1, <1>2 DEF RunPageTypes
    <2> QED
      BY <1>1, <1>7, <2>2, <2>3 DEF RunPageTypes
  <1>12. EndHeld' /\ LeftHeld'
    BY <1>1, <1>7 DEF EndHeld, LeftHeld
  <1>13. ReadsHeld'
    <2>1. ReadAt' = progress
      BY <1>1 DEF ReadAt
    <2>2. selected # Nothing => selected \in Nat
      BY DEF RunPageTypes, Node
    <2>3. nodes' = p \/ nodes' = nodes
      BY <1>1
    <2> QED
      BY <1>1, <1>2, <2>1, <2>2, <2>3, ReadAtHeld DEF ReadsHeld
  <1>14. EndShown'
    <2> SUFFICES ASSUME open, ended, ~failed, ~outdated, ~Has(later, "end"), ~Has(later, "nodes")
                 PROVE  /\ nodes' = NodesAt(End)
                        /\ stepsUrl' \in Node /\ currentNode' = stepsUrl'
                        /\ StepsSettle'
      BY <1>1, <1>7 DEF EndShown
    <2>1. Fresh
      BY <1>1 DEF EndShown
    <2>2. CASE k # 0
      BY <1>9, <1>10, <2>1, <2>2 DEF StepsSettle
    <2>3. CASE k = 0
      <3>1. /\ stepsUrl \in Node /\ currentNode = stepsUrl
            /\ StepsSettle
        BY <1>8, <2>3 DEF EndShown
      <3> QED
        BY <1>1, <1>7, <1>9, <1>10, <2>1, <2>3, <3>1 DEF StepsSettle
    <2> QED
      BY <2>2, <2>3
  <1>15. LastAsked'
    <2> SUFFICES ASSUME open, ~failed, ~overtaken, ~Has(later, "end"),
                        ~LastNodes(later', selected)
                 PROVE  /\ ~Has(later', "nodes")
                        /\ selected # Nothing => currentNode' = selected
                        /\ ended /\ ~outdated => currentNode' = Focus(selected, End)
      BY <1>1, <1>7, <1>9 DEF LastAsked
    <2>1. ~LastNodes(later, selected)
      BY <1>7
    <2>2. CASE NodeAsked
      <3>1. ~Has(later, "nodes") /\ asks[k] = selected
        BY <2>1, <2>2 DEF LastAsked, Last, asks, k
      <3>2. url = Focus(selected, p) /\ k # 0
        BY <1>8, <2>2, <3>1 DEF url
      <3>3. selected # Nothing => Focus(selected, p) = selected /\ Started(p) > 0
        BY <1>2, FocusStarted DEF ReadsHeld, RunPageTypes
      <3>4. ended /\ ~outdated => Fresh
        BY <1>1, <3>1 DEF EndShown
      <3> QED
        BY <1>7, <1>9, <1>10, <3>1, <3>2, <3>3, <3>4
    <2>3. CASE ~NodeAsked
      <3>1. k = 0
        BY <1>8, <2>3
      <3> QED
        BY <1>7, <1>9, <2>1, <2>3, <3>1 DEF LastAsked
    <2> QED
      BY <2>2, <2>3
  <1>16. StepsHeld'
    BY <1>1 DEF StepsHeld
  <1> QED
    BY <1>11, <1>12, <1>13, <1>14, <1>15, <1>16

-----------------------------------------------------------------------------
(* The first of what was put off happens: what every kind of it does.      *)
LEMMA FirePassesOn ==
  ASSUME Settling, later # <<>>,
         nodesGet' = nodesGet, complete' = complete, stepsGet' = stepsGet, short' = short, outdated' = outdated,
         UNCHANGED <<progress, open, selected, following, ended, nodes, currentNode, stepsUrl,
                     clicks, troubles, overtaken, failed>>,
         NEW s, s = <<>> \/ (\E t \in Task : t.do \in {"nodes only", "steps"} /\ s = <<t>>),
         later' = Tail(later) \o s,
         Head(later).do \notin {"nodes", "end", "left", "steps"}
  PROVE  Settling'
  <1> USE DEF Settling
  <1> DEFINE r == Tail(later)
  <1>1. /\ r \in Seq(Task)
        /\ \A d \in {"nodes", "end", "left"} : Has(r, d) <=> Has(later, d)
        /\ LeftBeforeEnd(later) => LeftBeforeEnd(r)
        /\ \A n : LastNodes(later, n) => LastNodes(r, n)
        /\ \A u : HasSteps(later, u) => HasSteps(r, u)
    <2>1. later \in Seq(Task)
      BY DEF RunPageTypes
    <2>2. \A u : AskSteps(u).do = "steps"
      BY DEF AskSteps
    <2> QED
      BY <2>1, <2>2, FirstTaken
  <1> HIDE DEF r
  <1>2. /\ later' \in Seq(Task)
        /\ \A d \in {"nodes", "end", "left"} : Has(later', d) <=> Has(later, d)
        /\ LeftBeforeEnd(later) => LeftBeforeEnd(later')
        /\ \A n : LastNodes(later, n) => LastNodes(later', n)
        /\ \A u : HasSteps(later, u) => HasSteps(later', u)
    <2>1. CASE s = <<>>
      <3>1. later' = r
        BY <1>1, <2>1, ConcatEmptySeq DEF r
      <3> QED
        BY <1>1, <3>1
    <2>2. ASSUME NEW t \in Task, t.do \in {"nodes only", "steps"}, s = <<t>>
          PROVE  /\ later' \in Seq(Task)
                 /\ \A d \in {"nodes", "end", "left"} : Has(later', d) <=> Has(r, d)
                 /\ LeftBeforeEnd(r) => LeftBeforeEnd(later')
                 /\ \A n : LastNodes(r, n) => LastNodes(later', n)
                 /\ \A u : HasSteps(r, u) => HasSteps(later', u)
      <3>1. later' = r \o <<t>> /\ r \in Seq(Task)
        BY <1>1, <2>2 DEF r
      <3>2. /\ later' \in Seq(Task)
            /\ \A d : Has(later', d) <=> Has(r, d) \/ t.do = d
            /\ t.do # "left" /\ LeftBeforeEnd(r) => LeftBeforeEnd(later')
            /\ \A n : t.do # "nodes" /\ LastNodes(r, n) => LastNodes(later', n)
            /\ \A u : HasSteps(r, u) => HasSteps(later', u)
        BY <3>1, OneMore
      <3> QED
        BY <2>2, <3>2
    <2> QED
      BY <1>1, <2>1, <2>2
  <1>3. ReadAt' = ReadAt /\ (NodeAsked' <=> NodeAsked) /\ (Fresh' <=> Fresh)
    BY DEF ReadAt, NodeAsked, Fresh
  <1>4. RunPageTypes'
    BY <1>2 DEF RunPageTypes
  <1>5. EndHeld' /\ LeftHeld'
    BY <1>2 DEF EndHeld, LeftHeld
  <1>6. ReadsHeld'
    BY <1>3 DEF ReadsHeld
  <1>7. EndShown' /\ StepsHeld'
    BY <1>2, <1>3 DEF StepsHeld, StepsSettle, EndShown
  <1>8. LastAsked'
    BY <1>2, <1>3 DEF LastAsked
  <1> QED
    BY <1>4, <1>5, <1>6, <1>7, <1>8

(* Whoever wants a node shown asks for it last of all; what was put off at *)
(* the end of the run, for the node of the url that is left.               *)
LEMMA FireAsks ==
  ASSUME Settling, later # <<>>,
         nodesGet' = nodesGet, complete' = complete, stepsGet' = stepsGet, short' = short, outdated' = outdated,
         UNCHANGED <<progress, open, selected, ended, nodes, currentNode, stepsUrl,
                     clicks, troubles, failed>>,
         following' \in BOOLEAN, overtaken' \in BOOLEAN,
         NEW n \in Url, later' = Tail(later) \o <<AskNodes(n)>>,
         \/ n = selected /\ overtaken' = overtaken /\ Head(later).do \in {"refetch", "refetch nodes"}
         \/ overtaken' = overtaken /\ Head(later).do = "left"
         \/ overtaken' = (overtaken \/ n # selected) /\ Head(later).do = "end"
  PROVE  Settling'
  <1> USE DEF Settling
  <1> DEFINE r == Tail(later)
  <1>1. /\ r \in Seq(Task)
        /\ \A d : Has(r, d) => Has(later, d)
        /\ LeftBeforeEnd(later) => LeftBeforeEnd(r)
        /\ LeftBeforeEnd(later) /\ Head(later).do = "left" => Has(r, "end")
    BY FirstTaken DEF RunPageTypes
  <1> HIDE DEF r
  <1>3. /\ later' \in Seq(Task)
        /\ Has(later', "nodes") /\ LastNodes(later', n)
        /\ Has(later', "end") <=> Has(r, "end")
        /\ LeftBeforeEnd(r) => LeftBeforeEnd(later')
    <2> DEFINE t == AskNodes(n)
    <2>1. t \in Task /\ t.do = "nodes" /\ t.node = n
      BY TasksKnown
    <2>2. later' = r \o <<t>>
      BY DEF r
    <2> HIDE DEF t
    <2>3. /\ later' \in Seq(Task)
          /\ \A d : Has(later', d) <=> Has(r, d) \/ t.do = d
          /\ t.do # "left" /\ LeftBeforeEnd(r) => LeftBeforeEnd(later')
          /\ t.do = "nodes" => LastNodes(later', t.node)
      BY <1>1, <2>1, <2>2, OneMore
    <2> QED
      BY <2>1, <2>3
  <1>4. ReadAt' = ReadAt
    BY DEF ReadAt
  <1>5. RunPageTypes' /\ EndHeld' /\ LeftHeld' /\ ReadsHeld' /\ StepsHeld' /\ EndShown'
    BY <1>1, <1>3, <1>4 DEF RunPageTypes, EndHeld, LeftHeld, ReadsHeld, StepsHeld, EndShown
  <1>6. LastAsked'
    <2>1. CASE Head(later).do = "left"
      BY <1>1, <1>3, <2>1 DEF LastAsked, LeftHeld
    <2>2. CASE Head(later).do # "left"
      BY <1>3, <2>2 DEF LastAsked
    <2> QED
      BY <2>1, <2>2
  <1> QED
    BY <1>5, <1>6

(* Who joins a request is the last who asked.                              *)
LEMMA LastOfJoined ==
  ASSUME NEW S, NEW a \in Seq(S), NEW c \in Seq(S), c # <<>>
  PROVE  Last(a \o c) = Last(c) /\ a \o c # <<>>
  <1> DEFINE b == a \o c
             k == Len(a)
             m == Len(c)
  <1>1. /\ b \in Seq(S) /\ Len(b) = k + m /\ k \in Nat /\ m \in Nat \ {0}
        /\ \A i \in 1..(k + m) : b[i] = IF i <= k THEN a[i] ELSE c[i - k]
    BY ConcatProperties, LenProperties, EmptySeq
  <1> HIDE DEF b, k, m
  <1>2. k + m \in 1..(k + m) /\ ~(k + m <= k) /\ (k + m) - k = m /\ k + m # 0
    BY <1>1
  <1>3. b[k + m] = c[m] /\ b # <<>>
    BY <1>1, <1>2, EmptySeq
  <1> QED
    BY <1>1, <1>3 DEF b, m, Last

(* A request is sent, or joins the one under way.                          *)
LEMMA FireSends ==
  ASSUME Settling, later # <<>>,
         complete' = complete, stepsGet' = stepsGet, short' = short,
         UNCHANGED <<progress, open, selected, following, ended, nodes, currentNode, stepsUrl,
                     clicks, troubles, overtaken, failed>>,
         NEW asks, SendNodes(asks), later' = Tail(later),
         \/ Head(later).do = "nodes" /\ asks = <<Head(later).node>>
         \/ Head(later).do = "nodes only" /\ asks = <<>>
  PROVE  Settling'
  <1> USE DEF Settling
  <1> DEFINE t == Head(later)
             Node0 == {Nothing, 0} \cup Node
  <1>1. /\ later' \in Seq(Task) /\ t \in Task
        /\ \A d : Has(later, d) <=> Has(later', d) \/ t.do = d
        /\ LeftBeforeEnd(later) => LeftBeforeEnd(later')
        /\ \A n : /\ LastNodes(later, n) /\ (t.do # "nodes" \/ Has(later', "nodes")) =>
                     LastNodes(later', n)
                  /\ LastNodes(later, n) /\ ~Has(later', "nodes") =>
                     t.do = "nodes" /\ t.node = n
        /\ \A u : HasSteps(later, u) => HasSteps(later', u) \/ t = AskSteps(u)
    BY FirstTaken DEF RunPageTypes
  <1>2. t.do \in {"nodes", "nodes only"} /\ \A u : t # AskSteps(u)
    <2>1. t.do \in {"nodes", "nodes only"}
      OBVIOUS
    <2>2. \A u : AskSteps(u).do = "steps"
      BY DEF AskSteps
    <2> HIDE DEF t
    <2> QED
      BY <2>1, <2>2
  <1>3. /\ asks \in Seq(Node0)
        /\ asks = <<>> <=> t.do = "nodes only"
        /\ t.do = "nodes" => Last(asks) = t.node
    <2>1. CASE t.do = "nodes only"
      <3>1. asks = <<>>
        BY <2>1
      <3> QED
        BY <2>1, <3>1, EmptySeq
    <2>2. CASE t.do = "nodes"
      <3>1. t.node \in Node0 /\ asks = <<t.node>>
        <4>1. asks = <<t.node>>
          BY <2>2
        <4> HIDE DEF t
        <4>2. t.node \in Url
          BY <1>1 DEF Task
        <4> QED
          BY <4>1, <4>2, KaraokeBounds DEF Url, Node
      <3> HIDE DEF t, Node0
      <3> QED
        BY <2>2, <3>1 DEF Last
    <2> QED
      BY <1>2, <2>1, <2>2
  <1> HIDE DEF t, Node0
  <1>4. /\ nodesGet' \in NodesRequest
        /\ outdated' \in BOOLEAN
        /\ nodesGet = Nothing => nodesGet'.asks = asks /\ nodesGet'.read = Unread
        /\ nodesGet # Nothing => /\ nodesGet \in NodesRequest
                                 /\ nodesGet'.asks = nodesGet.asks \o asks
                                 /\ nodesGet'.read = nodesGet.read
        /\ ~outdated' =>
              ~outdated /\ (nodesGet # Nothing => nodesGet.read \in {Unread, NodesAt(progress)})
    <2>1. CASE nodesGet = Nothing
      <3>1. nodesGet' = [asks |-> asks, only |-> asks = <<>>, read |-> Unread]
            /\ outdated' = outdated
        BY <2>1 DEF SendNodes
      <3>2. (asks = <<>>) \in BOOLEAN
        OBVIOUS
      <3>3. nodesGet' \in NodesRequest
        BY <1>3, <3>1, <3>2 DEF NodesRequest, Node0
      <3> QED
        BY <2>1, <3>1, <3>3 DEF RunPageTypes
    <2>2. CASE nodesGet # Nothing
      <3>1. nodesGet \in NodesRequest /\ nodesGet.asks \in Seq(Node0)
        BY <2>2 DEF RunPageTypes, NodesRequest, Node0
      <3>2. nodesGet.asks \o asks \in Seq(Node0)
        BY <1>3, <3>1, ConcatProperties
      <3> DEFINE n == [nodesGet EXCEPT !.asks = @ \o asks, !.only = @ \/ asks = <<>>]
      <3>3. /\ n \in NodesRequest /\ n.asks = nodesGet.asks \o asks /\ n.read = nodesGet.read
        BY <3>1, <3>2 DEF NodesRequest, Node0
      <3> HIDE DEF n
      <3>4. /\ nodesGet' = n
            /\ outdated' = (outdated \/ nodesGet.read \notin {Unread, NodesAt(progress)})
        BY <2>2 DEF SendNodes, n
      <3> QED
        BY <2>2, <3>1, <3>3, <3>4 DEF RunPageTypes
    <2> QED
      BY <2>1, <2>2
  <1>5. nodesGet' # Nothing
    BY <1>4, NothingAssumption
  <1>6. ReadAt' = ReadAt
    BY <1>4, <1>5 DEF ReadAt
  <1>7. t.do = "nodes" => NodeAsked' /\ Last(nodesGet'.asks) = t.node
    <2> SUFFICES ASSUME t.do = "nodes" PROVE NodeAsked' /\ Last(nodesGet'.asks) = t.node
      OBVIOUS
    <2>1. asks # <<>> /\ Last(asks) = t.node
      BY <1>3
    <2>2. CASE nodesGet = Nothing
      BY <1>4, <1>5, <2>1, <2>2 DEF NodeAsked
    <2>3. CASE nodesGet # Nothing
      <3>1. nodesGet.asks \in Seq(Node0)
        BY <1>4, <2>3 DEF NodesRequest, Node0
      <3> QED
        BY <1>3, <1>4, <1>5, <2>1, <2>3, <3>1, LastOfJoined DEF NodeAsked
    <2> QED
      BY <2>2, <2>3
  <1>8. t.do = "nodes only" =>
          /\ NodeAsked' <=> NodeAsked
          /\ NodeAsked => nodesGet'.asks = nodesGet.asks
    <2> SUFFICES ASSUME t.do = "nodes only"
                 PROVE  (NodeAsked' <=> NodeAsked) /\ (NodeAsked => nodesGet'.asks = nodesGet.asks)
      OBVIOUS
    <2>1. asks = <<>>
      BY <1>3
    <2>2. CASE nodesGet = Nothing
      BY <1>4, <2>1, <2>2 DEF NodeAsked
    <2>3. CASE nodesGet # Nothing
      <3>1. nodesGet.asks \in Seq(Node0)
        BY <1>4, <2>3 DEF NodesRequest, Node0
      <3>2. nodesGet'.asks = nodesGet.asks
        BY <1>4, <2>1, <2>3, <3>1, ConcatEmptySeq
      <3> QED
        BY <1>5, <2>3, <3>2 DEF NodeAsked
    <2> QED
      BY <2>2, <2>3
  <1>9. ended /\ ~outdated' => Fresh' /\ (nodesGet # Nothing => Fresh)
    BY <1>4 DEF Fresh, EndHeld
  <1>10. RunPageTypes' /\ EndHeld' /\ LeftHeld' /\ ReadsHeld' /\ StepsHeld'
    BY <1>1, <1>2, <1>4, <1>6 DEF RunPageTypes, EndHeld, LeftHeld, ReadsHeld, StepsHeld
  <1>11. EndShown'
    <2> SUFFICES ASSUME open, ended, ~failed, ~outdated', ~outdated,
                        ~Has(later', "end"), ~Has(later', "nodes"), ~NodeAsked'
                 PROVE  /\ nodes = NodesAt(End)
                        /\ stepsUrl \in Node /\ currentNode = stepsUrl
                        /\ StepsSettle'
      BY <1>4, <1>9 DEF EndShown
    <2>1. t.do = "nodes only" /\ ~NodeAsked /\ ~Has(later, "end") /\ ~Has(later, "nodes")
      BY <1>1, <1>2, <1>7, <1>8
    <2> QED
      BY <1>1, <1>2, <2>1 DEF EndShown, StepsSettle
  <1>12. LastAsked'
    <2> SUFFICES ASSUME open, ~failed, ~overtaken, ~Has(later', "end"),
                        ~LastNodes(later', selected)
                 PROVE  /\ ~Has(later', "nodes")
                        /\ \/ NodeAsked' /\ Last(nodesGet'.asks) = selected
                           \/ /\ ~NodeAsked'
                              /\ selected # Nothing => currentNode = selected
                              /\ ended /\ ~outdated' => currentNode = Focus(selected, End)
      BY DEF LastAsked
    <2>1. ~Has(later, "end")
      BY <1>1, <1>2
    <2>2. CASE LastNodes(later, selected)
      BY <1>1, <1>7, <2>2
    <2>3. CASE ~LastNodes(later, selected)
      <3>1. ~Has(later, "nodes")
        BY <2>1, <2>3 DEF LastAsked
      <3>2. t.do = "nodes only" /\ ~Has(later', "nodes")
        BY <1>1, <1>2, <3>1
      <3> QED
        BY <1>4, <1>8, <2>1, <2>3, <3>2 DEF LastAsked
    <2> QED
      BY <2>2, <2>3
  <1> QED
    BY <1>10, <1>11, <1>12

(* The request for steps is sent late enough, or joins one that is, or one *)
(* that is not: in vain.                                                   *)
LEMMA FireFetchesSteps ==
  ASSUME Settling, later # <<>>, nodesGet' = nodesGet, outdated' = outdated,
         complete' = complete,
         UNCHANGED <<progress, open, selected, following, ended, nodes, currentNode, stepsUrl,
                     clicks, troubles, overtaken, failed>>,
         FetchSteps(Head(later).node), later' = Tail(later),
         Head(later).do = "steps"
  PROVE  Settling'
  <1> USE DEF Settling
  <1> DEFINE t == Head(later)
  <1>1. /\ later' \in Seq(Task) /\ t \in Task
        /\ \A d : Has(later, d) <=> Has(later', d) \/ t.do = d
        /\ LeftBeforeEnd(later) => LeftBeforeEnd(later')
        /\ \A n : LastNodes(later, n) => LastNodes(later', n)
        /\ \A u : HasSteps(later, u) => HasSteps(later', u) \/ t = AskSteps(u)
    BY FirstTaken DEF RunPageTypes
  <1>2. t.do = "steps" /\ FetchSteps(t.node)
    OBVIOUS
  <1> HIDE DEF t
  <1>3. /\ stepsGet' \in [Node -> {"none", "early", "late"}]
        /\ short \subseteq short' /\ short' \subseteq Node
        /\ \A n \in Node : stepsGet[n] = "late" => stepsGet'[n] = "late"
        /\ \A n \in Node :
             stepsGet'[n] = "early" => stepsGet[n] = "early" \/ ~Finished(n, progress)
        /\ t.node \in Node /\ progress = End /\ ended =>
             t.node \in short' \/ stepsGet'[t.node] = "late"
    <2>1. \A n \in Node : Finished(n, End)
      BY KaraokeBounds DEF Finished, Node, End
    <2>2. CASE t.node \notin Node
      <3>1. stepsGet' = stepsGet /\ short' = short
        BY <1>2, <2>2 DEF FetchSteps
      <3> QED
        BY <2>2, <3>1 DEF RunPageTypes
    <2>3. CASE t.node \in Node
      <3> DEFINE v == IF stepsGet[t.node] # "none" THEN stepsGet[t.node]
                      ELSE IF Finished(t.node, progress) THEN "late" ELSE "early"
      <3>1. /\ stepsGet' = [stepsGet EXCEPT ![t.node] = v]
            /\ short' = IF ended /\ stepsGet[t.node] = "early"
                        THEN short \cup {t.node} ELSE short
        BY <1>2, <2>3 DEF FetchSteps
      <3>2. /\ v \in {"none", "early", "late"}
            /\ stepsGet[t.node] # "none" => v = stepsGet[t.node]
            /\ stepsGet[t.node] = "none" => v = IF Finished(t.node, progress) THEN "late" ELSE "early"
        <4>1. stepsGet[t.node] \in {"none", "early", "late"}
          BY <2>3 DEF RunPageTypes
        <4>2. CASE stepsGet[t.node] # "none"
          BY <4>1, <4>2
        <4>3. CASE stepsGet[t.node] = "none" /\ Finished(t.node, progress)
          BY <4>3
        <4>4. CASE stepsGet[t.node] = "none" /\ ~Finished(t.node, progress)
          BY <4>4
        <4> QED
          BY <4>2, <4>3, <4>4
      <3> HIDE DEF v
      <3> QED
        BY <2>1, <2>3, <3>1, <3>2 DEF RunPageTypes
    <2> QED
      BY <2>2, <2>3
  <1>4. ReadAt' = ReadAt /\ (NodeAsked' <=> NodeAsked) /\ (Fresh' <=> Fresh)
    BY DEF ReadAt, NodeAsked, Fresh
  <1>5. /\ Has(later, "end") <=> Has(later', "end")
        /\ Has(later, "nodes") <=> Has(later', "nodes")
    BY <1>1, <1>2
  <1>6. RunPageTypes' /\ EndHeld' /\ LeftHeld' /\ ReadsHeld' /\ LastAsked'
    BY <1>1, <1>3, <1>4, <1>5 DEF RunPageTypes, EndHeld, LeftHeld, ReadsHeld, LastAsked
  <1>7. StepsHeld'
    BY <1>3 DEF StepsHeld
  <1>8. stepsUrl \in Node /\ progress = End /\ ended /\ StepsSettle => StepsSettle'
    <2>1. AskSteps(stepsUrl).node = stepsUrl
      BY DEF AskSteps
    <2> QED
      BY <1>1, <1>3, <2>1 DEF StepsSettle
  <1>9. EndShown'
    BY <1>4, <1>5, <1>8 DEF EndShown, EndHeld
  <1> QED
    BY <1>6, <1>7, <1>9

LEMMA FireKeeps ==
  ASSUME Settling, Fire
  PROVE  Settling'
  <1> DEFINE t == Head(later)
             PutOff(s) == later' = Tail(later) \o s
  <1>1. later \in Seq(Task) /\ later # <<>> /\ t \in Task /\ Tail(later) \in Seq(Task)
    BY HeadTailProperties DEF Settling, RunPageTypes, Fire
  <1>2. /\ selected \in Url /\ stepsUrl \in Url
        /\ following \in BOOLEAN /\ overtaken \in BOOLEAN
    BY KaraokeBounds DEF Settling, RunPageTypes, Url, Node
  <1>3. t.node \in Url
    BY <1>1 DEF Task
  <1>4. UNCHANGED <<progress, open, selected, ended, nodes, complete, currentNode, stepsUrl,
                    clicks, troubles, failed>>
    BY DEF Fire, countVars
  <1>5. ASSUME t \in {Refetch(TRUE), LeftNodes}, PutOff(<<AskOnly>>),
               UNCHANGED <<following, overtaken, outdated, nodesGet, stepsGet, short>>
        PROVE  Settling'
    <2>1. t.do \in {"refetch", "refetch nodes", "left nodes"}
      BY <1>5, PlainTasksKnown
    <2> QED
      BY <1>1, <1>4, <1>5, <2>1, FirePassesOn, PlainTasksKnown
  <1>6. ASSUME t = Refetch(FALSE), PutOff(<<AskNodes(selected)>>),
               UNCHANGED <<following, overtaken, outdated, nodesGet, stepsGet, short>>
        PROVE  Settling'
    <2>1. t.do \in {"refetch", "refetch nodes"}
      BY <1>6, PlainTasksKnown
    <2> QED
      BY <1>1, <1>2, <1>4, <1>6, <2>1, FireAsks
  <1>7. ASSUME t = RefetchSteps,
               PutOff(IF stepsUrl = Nothing THEN <<>> ELSE <<AskSteps(stepsUrl)>>),
               UNCHANGED <<following, overtaken, outdated, nodesGet, stepsGet, short>>
        PROVE  Settling'
    <2>1. t.do = "refetch steps"
      BY <1>7, PlainTasksKnown
    <2> DEFINE s == IF stepsUrl = Nothing THEN <<>> ELSE <<AskSteps(stepsUrl)>>
    <2>2. s = <<>> \/ (\E x \in Task : x.do \in {"nodes only", "steps"} /\ s = <<x>>)
      BY <1>2, TasksKnown
    <2>3. later' = Tail(later) \o s
      BY <1>7
    <2> HIDE DEF s
    <2> QED
      BY <1>1, <1>4, <1>7, <2>1, <2>2, <2>3, FirePassesOn
  <1>8. ASSUME t.do = "left", PutOff(<<AskNodes(t.node)>>),
               UNCHANGED <<following, overtaken, outdated, nodesGet, stepsGet, short>>
        PROVE  Settling'
    BY <1>1, <1>2, <1>3, <1>4, <1>8, FireAsks
  <1>9. ASSUME t.do = "end", PutOff(<<AskNodes(t.node)>>), following' = TRUE,
               overtaken' = (overtaken \/ t.node # selected),
               UNCHANGED <<outdated, nodesGet, stepsGet, short>>
        PROVE  Settling'
    BY <1>1, <1>2, <1>3, <1>4, <1>9, FireAsks
  <1>10. ASSUME t.do \in {"nodes", "nodes only"}, PutOff(<<>>),
                SendNodes(IF t.do = "nodes" THEN <<t.node>> ELSE <<>>),
                UNCHANGED <<following, overtaken, stepsGet, short>>
         PROVE  Settling'
    <2>1. later' = Tail(later)
      BY <1>1, <1>10, ConcatEmptySeq
    <2> DEFINE asks == IF t.do = "nodes" THEN <<t.node>> ELSE <<>>
    <2>2. \/ t.do = "nodes" /\ asks = <<t.node>>
          \/ t.do = "nodes only" /\ asks = <<>>
      BY <1>10
    <2>3. SendNodes(asks)
      BY <1>10
    <2> HIDE DEF asks
    <2> QED
      BY <1>1, <1>4, <1>10, <2>1, <2>2, <2>3, FireSends
  <1>11. ASSUME t.do = "steps", PutOff(<<>>), FetchSteps(t.node),
                UNCHANGED <<following, overtaken, outdated, nodesGet>>
         PROVE  Settling'
    <2>1. later' = Tail(later)
      BY <1>1, <1>11, ConcatEmptySeq
    <2> QED
      BY <1>1, <1>4, <1>11, <2>1, FireFetchesSteps
  <1> HIDE DEF t
  <1> QED
    BY <1>5, <1>6, <1>7, <1>8, <1>9, <1>10, <1>11 DEF Fire, t

-----------------------------------------------------------------------------
LEMMA SettlingInit ==
  ASSUME KaraokeInit
  PROVE  Settling
  <1>1. /\ progress \in 0..(End - 1) /\ End \in Nat /\ open = TRUE /\ following = TRUE
        /\ ended = FALSE /\ selected \in {Nothing} \cup 1..Started(progress)
        /\ later = <<AskNodes(selected)>> /\ nodesGet = Nothing
        /\ nodes = Nothing /\ stepsGet = [url \in Node |-> "none"] /\ short = {}
        /\ complete = {} /\ currentNode = Nothing /\ stepsUrl = Nothing
        /\ clicks = 0 /\ troubles = 0
        /\ outdated = FALSE /\ overtaken = FALSE /\ failed = FALSE
    BY KaraokeBounds DEF KaraokeInit, End
  <1>2. progress \in 0..End /\ Started(progress) \in 0..Stages
    BY <1>1, StartedAt
  <1>3. selected \in {Nothing} \cup Node /\ selected \in Url
        /\ (selected # Nothing => selected <= Started(progress))
    BY <1>1, <1>2, KaraokeBounds DEF Node, Url
  <1>4. later = Append(<<>>, AskNodes(selected))
    BY <1>1
  <1>5. /\ later \in Seq(Task) /\ ~Has(later, "end") /\ LeftBeforeEnd(later)
        /\ LastNodes(later, selected)
    BY <1>3, <1>4, NothingPutOff, PutLast, TasksKnown
  <1>6. ReadAt = progress
    BY <1>1 DEF ReadAt
  <1>7. RunPageTypes
    <2>1. 0 \in 0..MaxClicks /\ 0 \in 0..MaxTroubles
      BY KaraokeBounds
    <2>2. Nothing \in Url
      BY DEF Url
    <2> QED
      BY <1>1, <1>2, <1>3, <1>5, <2>1, <2>2 DEF RunPageTypes
  <1>8. ReadsHeld
    BY <1>1, <1>2, <1>3, <1>6 DEF ReadsHeld
  <1> QED
    BY <1>1, <1>5, <1>7, <1>8 DEF Settling, EndHeld, LeftHeld, StepsHeld, EndShown, LastAsked

LEMMA SettlingKept ==
  ASSUME Settling, [KaraokeNext]_karaokeVars
  PROVE  Settling'
  <1>1. ASSUME UNCHANGED karaokeVars PROVE Settling'
    <2>1. UNCHANGED <<progress, open, selected, following, ended, later, nodesGet, nodes, stepsGet, short,
                      complete, currentNode, stepsUrl, clicks, troubles, outdated, overtaken,
                      failed>>
      BY <1>1 DEF karaokeVars, runPageVars, nodesVars, countVars, historyVars
    <2>2. ReadAt' = ReadAt /\ (NodeAsked' <=> NodeAsked) /\ (Fresh' <=> Fresh)
      BY <2>1 DEF ReadAt, NodeAsked, Fresh
    <2>3. RunPageTypes'
      BY <2>1 DEF Settling, RunPageTypes
    <2>4. EndHeld' /\ LeftHeld' /\ ReadsHeld' /\ StepsHeld'
      BY <2>1, <2>2 DEF Settling, EndHeld, LeftHeld, ReadsHeld, StepsHeld
    <2>5. EndShown' /\ LastAsked'
      BY <2>1, <2>2 DEF Settling, StepsSettle, EndShown, LastAsked
    <2> QED
      BY <2>3, <2>4, <2>5 DEF Settling
  <1>2. ASSUME ScrollUp PROVE Settling'
    <2>1. UNCHANGED <<progress, open, selected, ended, later, nodesGet, nodes, stepsGet, short, complete,
                      currentNode, stepsUrl, clicks, troubles, outdated, overtaken, failed>>
      BY <1>2 DEF ScrollUp, nodesVars, countVars, historyVars
    <2>2. ReadAt' = ReadAt /\ (NodeAsked' <=> NodeAsked) /\ (Fresh' <=> Fresh)
      BY <2>1 DEF ReadAt, NodeAsked, Fresh
    <2>3. following' = FALSE
      BY <1>2 DEF ScrollUp
    <2>4. RunPageTypes'
      BY <2>1, <2>3 DEF Settling, RunPageTypes
    <2>5. EndHeld' /\ LeftHeld' /\ ReadsHeld' /\ StepsHeld'
      BY <2>1, <2>2 DEF Settling, EndHeld, LeftHeld, ReadsHeld, StepsHeld
    <2>6. EndShown'
      BY <2>1, <2>2 DEF Settling, StepsSettle, EndShown
    <2>7. LastAsked'
      BY <2>1, <2>2 DEF Settling, LastAsked
    <2> QED
      BY <2>4, <2>5, <2>6, <2>7 DEF Settling
  <1> QED
    BY <1>1, <1>2, RunGoesOnKeeps, RunEndedKeeps, AfterClickKeeps, LeaveRunKeeps, OpenAgainKeeps,
       FireKeeps, NodesReadKeeps, NodesAnsweredKeeps, StepsAnsweredKeeps, RequestFailsKeeps DEF KaraokeNext

(* The types of the page of a run.                                         *)
THEOREM RunPageTypesHold == KaraokeSpec => []RunPageTypes
  <1>1. Settling => RunPageTypes
    BY DEF Settling
  <1> QED
    BY <1>1, SettlingInit, SettlingKept, PTL DEF KaraokeSpec

(* Pipeline.componentWillReceiveProps, PipelinePager.fetchNodes: for any   *)
(* number of stages, clicks and events, once the page knows that the run   *)
(* has ended and nothing is under way, it shows the nodes of the ended     *)
(* run, all the steps of the node it shows, or those of a request that was *)
(* under way, and the node of the url.                                     *)
THEOREM SettledViewHolds == KaraokeSpec => []SettledView
  <1>1. KaraokeInit => Settling
    BY SettlingInit
  <1>2. Settling /\ [KaraokeNext]_karaokeVars => Settling'
    BY SettlingKept
  <1>3. Settling => SettledView
    <2> SUFFICES ASSUME Settling, open, ended, Quiet, ~failed, ~outdated
                 PROVE  /\ nodes = NodesAt(End) /\ currentNode = stepsUrl
                        /\ stepsUrl \in complete \cup short
                        /\ ~overtaken => currentNode = Focus(selected, End)
      BY DEF SettledView
    <2>1. later = <<>> /\ ~NodeAsked /\ \A url \in Node : stepsGet[url] = "none"
      BY DEF Quiet, NodeAsked
    <2> QED
      BY <2>1, NothingPutOff DEF Settling, StepsSettle, EndShown, LastAsked
  <1> QED
    BY <1>1, <1>2, <1>3, PTL DEF KaraokeSpec

(* Pipeline.componentWillReceiveProps: whatever events came between a      *)
(* click and the answers, the node of the url is shown once nothing is     *)
(* under way.                                                              *)
THEOREM SelectedShownHolds == KaraokeSpec => []SelectedShown
  <1>1. KaraokeInit => Settling
    BY SettlingInit
  <1>2. Settling /\ [KaraokeNext]_karaokeVars => Settling'
    BY SettlingKept
  <1>3. Settling => SelectedShown
    <2> SUFFICES ASSUME Settling, open, selected # Nothing, Quiet, ~failed, ~overtaken
                 PROVE  currentNode = selected
      BY DEF SelectedShown
    <2>1. later = <<>> /\ ~NodeAsked
      BY DEF Quiet, NodeAsked
    <2> QED
      BY <2>1, NothingPutOff DEF Settling, LastAsked
  <1> QED
    BY <1>1, <1>2, <1>3, PTL DEF KaraokeSpec

-----------------------------------------------------------------------------
(* RunGraph.                                                               *)

(* What a node of a graph is, whatever its fields hold. *)
IsNode(n) ==
  n = [id |-> n.id, name |-> n.name, type |-> n.type, parent |-> n.parent,
       edges |-> n.edges, state |-> n.state]

(* Without twins no two places of a graph have one line of names. *)
LEMMA LinesTell ==
  ASSUME NEW S, NEW s \in Seq(S), ~Twins(s), NEW y \in 1..Len(s), NEW z \in 1..Len(s),
         Line(s, s[y]) = Line(s, s[z])
  PROVE  y = z
  <1> SUFFICES ASSUME y # z PROVE FALSE
    OBVIOUS
  <1> DEFINE n == Len(s)
             lines == {Line(s, m) : m \in ToSet(s)}
             others == (1..n) \ {z}
             line == [x \in others |-> Line(s, s[x])]
  <1>1. n \in Nat /\ DOMAIN s = 1..n
    BY LenProperties
  <1>2. \A x \in 1..n : Line(s, s[x]) \in lines
    BY <1>1, Zenon DEF ToSet
  <1>3. \A l \in lines : \E x \in 1..n : l = Line(s, s[x])
    BY <1>1, Zenon DEF ToSet
  <1>4. y \in others
    OBVIOUS
  <1>5. \A l \in lines : \E x \in others : l = Line(s, s[x])
    <2>1. ASSUME NEW l \in lines PROVE \E x \in others : l = Line(s, s[x])
      <3>1. PICK x \in 1..n : l = Line(s, s[x])
        BY <1>3, Zenon
      <3>2. CASE x = z
        BY <1>4, <3>1, <3>2, Zenon
      <3>3. CASE x # z
        BY <3>1, <3>3, Zenon
      <3> QED
        BY <3>2, <3>3
    <2> QED
      BY <2>1, Zenon
  <1>6. Twins(s) <=> Cardinality(lines) < n
    BY Zenon DEF Twins
  <1> HIDE DEF lines
  <1>7. line \in Surjection(others, lines)
    BY <1>2, <1>5, Zenon DEF Surjection
  <1>8. IsFiniteSet(1..n) /\ Cardinality(1..n) = n
    <2>1. 1 \in Int /\ n \in Int
      BY <1>1
    <2>2. IsFiniteSet(1..n) /\ Cardinality(1..n) = IF 1 > n THEN 0 ELSE n - 1 + 1
      BY <2>1, FS_Interval
    <2> QED
      BY <1>1, <2>2
  <1>9. IsFiniteSet(others) /\ Cardinality(others) = n - 1
    BY <1>8, FS_RemoveElement, Zenon
  <1> HIDE DEF others, line
  <1>10. Cardinality(lines) <= n - 1 /\ IsFiniteSet(lines)
    BY <1>7, <1>9, FS_Surjection
  <1>11. Cardinality(lines) \in Nat
    BY <1>10, FS_CardinalityType
  <1> QED
    BY <1>1, <1>6, <1>10, <1>11

(* findNodeWrapperByIdIn *)
LEMMA FoundById ==
  ASSUME NEW S, NEW old \in Seq(S), NEW n
  PROVE  \/ FindById(n, old) = 0 /\ \A k \in 1..Len(old) : old[k].id # n.id
         \/ FindById(n, old) \in 1..Len(old) /\ old[FindById(n, old)].id = n.id
  <1> DEFINE I == {i \in 1..Len(old) : old[i].id = n.id}
  <1>1. FindById(n, old) = IF I # {} THEN Min(I) ELSE 0
    BY Zenon DEF FindById, SelectInSeq
  <1>2. I \subseteq 1..Len(old) /\ I \in SUBSET Nat
    BY LenProperties
  <1>3. CASE I = {}
    BY <1>1, <1>3
  <1>4. CASE I # {}
    <2>1. \E i \in I : \A k \in I : i <= k
      <3> HIDE DEF I
      <3> QED
        BY <1>2, <1>4, LeastExists
    <2>2. Min(I) \in I
      BY <2>1, Zenon DEF Min
    <2> QED
      BY <1>1, <1>4, <2>2
  <1> QED
    BY <1>3, <1>4

(* findNodeWrapperByParentageIn, and the lookup of union, find a place or none. *)
LEMMA LookedUp ==
  ASSUME NEW S, NEW old \in Seq(S), NEW cur, NEW n
  PROVE  /\ Lookup(cur, n, old) \in 0..Len(old)
         /\ FindById(n, old) # 0 => Lookup(cur, n, old) = FindById(n, old)
  <1> DEFINE I == {i \in 1..Len(old) :
                     old[i].name = n.name /\ ParentName(old, old[i]) = ParentName(cur, n)}
  <1>1. FindByParentage(cur, n, old) = IF I # {} THEN Min(I) ELSE 0
    BY Zenon DEF FindByParentage, SelectInSeq
  <1>2. I \subseteq 1..Len(old) /\ I \in SUBSET Nat /\ Len(old) \in Nat
    BY LenProperties
  <1> HIDE DEF I
  <1>3. FindByParentage(cur, n, old) \in 0..Len(old)
    <2>1. CASE I = {}
      BY <1>1, <1>2, <2>1
    <2>2. CASE I # {}
      <3>1. \E i \in I : \A k \in I : i <= k
        BY <1>2, <2>2, LeastExists
      <3>2. Min(I) \in I
        BY <3>1, Zenon DEF Min
      <3>3. FindByParentage(cur, n, old) \in I
        BY <1>1, <2>2, <3>2, Zenon
      <3>4. FindByParentage(cur, n, old) \in 1..Len(old)
        BY <1>2, <3>3, Zenon
      <3>5. Len(old) \in Nat
        BY <1>2
      <3> QED
        BY <3>4, <3>5
    <2> QED
      BY <2>1, <2>2
  <1>4. FindById(n, old) \in 0..Len(old)
    BY <1>2, FoundById
  <1> QED
    BY <1>3, <1>4 DEF Lookup

(* The node of the run that takes the place i of the earlier graph. *)
Found(cur, old, i) == SelectLastInSeq(cur, LAMBDA n : Lookup(cur, n, old) = i)

(* union: the node of this run that an old one was found to be, if any. *)
LEMMA FoundIs ==
  ASSUME NEW S, NEW cur \in Seq(S), NEW old, NEW i
  PROVE  \/ Found(cur, old, i) = 0 /\ \A y \in 1..Len(cur) : Lookup(cur, cur[y], old) # i
         \/ Found(cur, old, i) \in 1..Len(cur) /\ Lookup(cur, cur[Found(cur, old, i)], old) = i
  <1> DEFINE I == {y \in 1..Len(cur) : Lookup(cur, cur[y], old) = i}
  <1>1. Found(cur, old, i) = IF I # {} THEN Max(I) ELSE 0
    BY Zenon DEF Found, SelectLastInSeq
  <1>2. I \subseteq 1..Len(cur) /\ I \in SUBSET (0..Len(cur)) /\ Len(cur) \in Nat
    BY LenProperties
  <1>3. CASE I = {}
    BY <1>1, <1>3
  <1>4. CASE I # {}
    <2>1. \E y \in I : \A k \in I : k <= y
      <3> HIDE DEF I
      <3> QED
        BY <1>2, <1>4, GreatestExists
    <2>2. \E y \in I : \A k \in I : y >= k
      <3>1. I \subseteq Int
        BY <1>2
      <3> HIDE DEF I
      <3> QED
        BY <2>1, <3>1
    <2>3. Max(I) \in I
      BY <2>2, Zenon DEF Max
    <2> QED
      BY <1>1, <1>4, <2>3
  <1> QED
    BY <1>3, <1>4

Joined(cur, old, i) ==
  IF Found(cur, old, i) = 0 THEN [old[i] EXCEPT !.state = Unknown] ELSE cur[Found(cur, old, i)]

(* union: what of a node of the earlier run stays in its place. *)
LEMMA UnionPlaces ==
  ASSUME NEW S, NEW cur \in Seq(S), NEW old \in Seq(S), \A n \in S : IsNode(n),
         Compatible(cur, old)
  PROVE  LET u == Union(cur, old)
         IN  /\ u = [i \in 1..Len(old) |-> u[i]]
             /\ \A i \in 1..Len(old) :
                  /\ u[i].id = Joined(cur, old, i).id
                  /\ u[i].name = Joined(cur, old, i).name
                  /\ u[i].type = Joined(cur, old, i).type
                  /\ u[i].state = Joined(cur, old, i).state
  <1> DEFINE u == Union(cur, old)
             renamed(id) == Joined(cur, old, FindById([id |-> id], old)).id
             parent(i) == IF old[i].parent = NoNode THEN NoNode ELSE renamed(old[i].parent)
             edges(i) == [x \in DOMAIN old[i].edges |-> renamed(old[i].edges[x])]
  <1>1. u = [i \in DOMAIN old |->
               [Joined(cur, old, i) EXCEPT !.parent = parent(i), !.edges = edges(i)]]
    BY Zenon DEF Union, Joined, Found
  <1>2. DOMAIN old = 1..Len(old)
    BY LenProperties
  <1>3. ASSUME NEW i \in 1..Len(old) PROVE IsNode(Joined(cur, old, i))
    <2>1. IsNode(old[i])
      BY ElementOfSeq
    <2>2. CASE Found(cur, old, i) = 0
      BY <2>1, <2>2 DEF Joined, IsNode
    <2>3. CASE Found(cur, old, i) # 0
      <3>1. Found(cur, old, i) \in 1..Len(cur)
        BY <2>3, FoundIs
      <3>2. cur[Found(cur, old, i)] \in S
        BY <3>1, ElementOfSeq
      <3> QED
        BY <2>3, <3>2 DEF Joined
    <2> QED
      BY <2>2, <2>3
  <1> HIDE DEF u, parent, edges
  <1>4. ASSUME NEW i \in 1..Len(old)
        PROVE  /\ u[i].id = Joined(cur, old, i).id
               /\ u[i].name = Joined(cur, old, i).name
               /\ u[i].type = Joined(cur, old, i).type
               /\ u[i].state = Joined(cur, old, i).state
    <2>1. u[i] = [Joined(cur, old, i) EXCEPT !.parent = parent(i), !.edges = edges(i)]
      BY <1>1, <1>2, Zenon
    <2> QED
      BY <1>3, <2>1 DEF IsNode
  <1>5. u = [i \in 1..Len(old) |-> u[i]]
    BY <1>1, <1>2
  <1> QED
    BY <1>4, <1>5 DEF u

(* union of a run's graph without twins with that of an earlier run: no id *)
(* is there twice, what the run has started is there as it is, and the     *)
(* rest has not started.                                                   *)
LEMMA UnionShows ==
  ASSUME NEW S, NEW cur \in Seq(S), NEW old \in Seq(S), \A n \in S : IsNode(n),
         Distinct(cur), Distinct(old), ~Twins(cur), Compatible(cur, old)
  PROVE  LET u == Union(cur, old)
         IN  /\ u = [i \in 1..Len(old) |-> u[i]] /\ Distinct(u)
             /\ \A y \in 1..Len(cur) : \E i \in 1..Len(old) :
                  /\ u[i].id = cur[y].id /\ u[i].name = cur[y].name
                  /\ u[i].type = cur[y].type /\ u[i].state = cur[y].state
             /\ \A i \in 1..Len(old) :
                  u[i].state = Unknown \/ \E y \in 1..Len(cur) : cur[y].id = u[i].id
  <1> DEFINE u == Union(cur, old)
             found(i) == Found(cur, old, i)
  <1>1. /\ u = [i \in 1..Len(old) |-> u[i]]
        /\ \A i \in 1..Len(old) :
             /\ u[i].id = Joined(cur, old, i).id
             /\ u[i].name = Joined(cur, old, i).name
             /\ u[i].type = Joined(cur, old, i).type
             /\ u[i].state = Joined(cur, old, i).state
    BY UnionPlaces
  <1>2. Len(u) = Len(old)
    BY <1>1, LenProperties
  <1>3. ASSUME NEW i \in 1..Len(old), found(i) = 0
        PROVE  /\ u[i].id = old[i].id /\ u[i].state = Unknown
               /\ \A y \in 1..Len(cur) : Lookup(cur, cur[y], old) # i
    <2>1. IsNode(old[i])
      BY ElementOfSeq
    <2>2. Joined(cur, old, i) = [old[i] EXCEPT !.state = Unknown]
      BY <1>3 DEF Joined
    <2>3. Joined(cur, old, i).id = old[i].id /\ Joined(cur, old, i).state = Unknown
      BY <2>1, <2>2 DEF IsNode
    <2>4. 0 \notin 1..Len(cur)
      BY LenProperties
    <2>5. \A y \in 1..Len(cur) : Lookup(cur, cur[y], old) # i
      BY <1>3, <2>4, FoundIs
    <2> QED
      BY <1>1, <2>3, <2>5
  <1>4. ASSUME NEW i \in 1..Len(old), found(i) # 0
        PROVE  /\ found(i) \in 1..Len(cur) /\ Lookup(cur, cur[found(i)], old) = i
               /\ u[i].id = cur[found(i)].id /\ u[i].name = cur[found(i)].name
               /\ u[i].type = cur[found(i)].type /\ u[i].state = cur[found(i)].state
    <2>1. found(i) \in 1..Len(cur) /\ Lookup(cur, cur[found(i)], old) = i
      BY <1>4, FoundIs
    <2>2. Joined(cur, old, i) = cur[found(i)]
      BY <1>4 DEF Joined
    <2> QED
      BY <1>1, <2>1, <2>2
  <1> HIDE DEF u, found
  <1>5. ASSUME NEW y \in 1..Len(cur), NEW k \in 1..Len(old), cur[y].id = old[k].id
        PROVE  Lookup(cur, cur[y], old) = k
    <2> DEFINE place == FindById(cur[y], old)
    <2>1. place \in 1..Len(old) /\ old[place].id = cur[y].id
      BY <1>5, FoundById
    <2>2. place = k
      BY <1>5, <2>1 DEF Distinct
    <2>3. place # 0
      BY <2>1, LenProperties
    <2> QED
      BY <2>2, <2>3, LookedUp
  <1>6. ASSUME NEW i \in 1..Len(old), NEW k \in 1..Len(old), u[i].id = u[k].id
        PROVE  i = k
    <2>1. CASE found(i) = 0 /\ found(k) = 0
      <3>1. old[i].id = old[k].id
        BY <1>3, <1>6, <2>1
      <3> QED
        BY <3>1 DEF Distinct
    <2>2. CASE found(i) # 0 /\ found(k) # 0
      <3>1. cur[found(i)].id = cur[found(k)].id
        BY <1>4, <1>6, <2>2
      <3>2. found(i) = found(k)
        BY <1>4, <2>2, <3>1 DEF Distinct
      <3> QED
        BY <1>4, <2>2, <3>2
    <2>3. CASE found(i) = 0 /\ found(k) # 0
      <3>1. cur[found(k)].id = old[i].id /\ found(k) \in 1..Len(cur)
        BY <1>3, <1>4, <1>6, <2>3
      <3>2. Lookup(cur, cur[found(k)], old) = i
        BY <1>5, <3>1
      <3> QED
        BY <1>3, <2>3, <3>1, <3>2
    <2>4. CASE found(i) # 0 /\ found(k) = 0
      <3>1. cur[found(i)].id = old[k].id /\ found(i) \in 1..Len(cur)
        BY <1>3, <1>4, <1>6, <2>4
      <3>2. Lookup(cur, cur[found(i)], old) = k
        BY <1>5, <3>1
      <3> QED
        BY <1>3, <2>4, <3>1, <3>2
    <2> QED
      BY <2>1, <2>2, <2>3, <2>4
  <1>7. Distinct(u)
    BY <1>2, <1>6 DEF Distinct
  <1>8. ASSUME NEW y \in 1..Len(cur)
        PROVE  \E i \in 1..Len(old) :
                  /\ u[i].id = cur[y].id /\ u[i].name = cur[y].name
                  /\ u[i].type = cur[y].type /\ u[i].state = cur[y].state
    <2> DEFINE i == Lookup(cur, cur[y], old)
    <2>1. cur[y] \in ToSet(cur)
      BY LenProperties DEF ToSet
    <2>2. i # 0 /\ Line(old, old[i]) = Line(cur, cur[y])
      BY <2>1, Zenon DEF Compatible
    <2>3. i \in 1..Len(old)
      <3>1. i \in 0..Len(old) /\ Len(old) \in Nat
        BY LookedUp, LenProperties
      <3> HIDE DEF i
      <3> QED
        BY <2>2, <3>1
    <2>4. found(i) # 0
      BY <1>3, <2>3
    <2>5. found(i) \in 1..Len(cur) /\ Lookup(cur, cur[found(i)], old) = i
      BY <1>4, <2>3, <2>4
    <2>6. Line(old, old[i]) = Line(cur, cur[found(i)])
      <3>1. cur[found(i)] \in ToSet(cur)
        BY <2>5, LenProperties DEF ToSet
      <3>2. Line(old, old[Lookup(cur, cur[found(i)], old)]) = Line(cur, cur[found(i)])
        BY <3>1, Zenon DEF Compatible
      <3> QED
        BY <2>5, <3>2
    <2>7. found(i) = y
      <3> HIDE DEF i
      <3> QED
        BY <2>2, <2>5, <2>6, LinesTell
    <2> QED
      BY <1>4, <2>3, <2>4, <2>7
  <1>9. ASSUME NEW i \in 1..Len(old)
        PROVE  u[i].state = Unknown \/ \E y \in 1..Len(cur) : cur[y].id = u[i].id
    BY <1>3, <1>4
  <1> QED
    BY <1>1, <1>7, <1>8, <1>9 DEF u

(* Different numbers can be put in their order. *)
LEMMA OrderExists ==
  ASSUME NEW n \in Nat, NEW name \in [1..n -> Nat],
         \A j, k \in 1..n : name[j] = name[k] => j = k
  PROVE  \E order \in [1..n -> 1..n] :
           \A x, y \in 1..n : x < y => name[order[x]] < name[order[y]]
  <1> DEFINE upTo(j) == {k \in 1..n : name[k] <= name[j]}
             rank == [j \in 1..n |-> Cardinality(upTo(j))]
  <1>1. IsFiniteSet(1..n) /\ Cardinality(1..n) = n
    <2>1. IsFiniteSet(1..n) /\ Cardinality(1..n) = IF 1 > n THEN 0 ELSE n - 1 + 1
      BY FS_Interval
    <2> QED
      BY <2>1
  <1>2. ASSUME NEW j \in 1..n
        PROVE  /\ IsFiniteSet(upTo(j)) /\ Cardinality(upTo(j)) \in 1..n
    <2>1. upTo(j) \subseteq 1..n /\ j \in upTo(j)
      OBVIOUS
    <2> HIDE DEF upTo
    <2>2. IsFiniteSet(upTo(j)) /\ Cardinality(upTo(j)) <= n
      BY <1>1, <2>1, FS_Subset
    <2>3. Cardinality(upTo(j)) \in Nat /\ Cardinality(upTo(j)) # 0
      BY <2>1, <2>2, FS_CardinalityType, FS_EmptySet
    <2> QED
      BY <2>2, <2>3
  <1>3. ASSUME NEW j \in 1..n, NEW k \in 1..n, name[j] <= name[k]
        PROVE  rank[j] <= rank[k] /\ (j # k => rank[j] < rank[k])
    <2>1. upTo(j) \subseteq upTo(k)
      BY <1>3
    <2>2. j # k => k \in upTo(k) /\ k \notin upTo(j)
      <3>1. j # k => name[j] # name[k]
        OBVIOUS
      <3> QED
        BY <1>3, <3>1
    <2> HIDE DEF upTo
    <2>3. /\ Cardinality(upTo(j)) <= Cardinality(upTo(k))
          /\ Cardinality(upTo(k)) = Cardinality(upTo(j)) => upTo(k) = upTo(j)
      BY <1>2, <2>1, FS_Subset
    <2>4. Cardinality(upTo(j)) \in Nat /\ Cardinality(upTo(k)) \in Nat
      BY <1>2
    <2>5. j # k => Cardinality(upTo(j)) # Cardinality(upTo(k))
      BY <2>2, <2>3
    <2> QED
      BY <2>3, <2>4, <2>5
  <1>4. rank \in [1..n -> 1..n]
    <2> HIDE DEF upTo
    <2> QED
      BY <1>2
  <1> HIDE DEF rank
  <1>5. ASSUME NEW j \in 1..n, NEW k \in 1..n, rank[j] = rank[k] PROVE j = k
    <2>1. rank[j] \in Nat /\ rank[k] \in Nat
      BY <1>4
    <2>2. name[j] <= name[k] \/ name[k] <= name[j]
      OBVIOUS
    <2> QED
      BY <1>3, <1>5, <2>1, <2>2
  <1>6. rank \in Injection(1..n, 1..n)
    BY <1>4, <1>5 DEF Injection, IsInjective
  <1>7. rank \in Surjection(1..n, 1..n)
    BY <1>1, <1>6, FS_Injection
  <1>8. \A x \in 1..n : \E j \in 1..n : rank[j] = x
    BY <1>7 DEF Surjection
  <1> DEFINE order == [x \in 1..n |-> CHOOSE j \in 1..n : rank[j] = x]
  <1>9. \A x \in 1..n : order[x] \in 1..n /\ rank[order[x]] = x
    BY <1>8
  <1>10. order \in [1..n -> 1..n]
    BY <1>9
  <1> HIDE DEF order
  <1>11. ASSUME NEW x \in 1..n, NEW y \in 1..n, x < y PROVE name[order[x]] < name[order[y]]
    <2>1. order[x] \in 1..n /\ order[y] \in 1..n /\ rank[order[x]] = x /\ rank[order[y]] = y
      BY <1>9
    <2>2. ~(name[order[y]] <= name[order[x]])
      BY <1>3, <1>11, <2>1
    <2> QED
      BY <2>1, <2>2
  <1> QED
    BY <1>10, <1>11

(* parallelStart: the branches in the order of their names are all there,  *)
(* each once.                                                              *)
LEMMA BranchesInOrder ==
  ASSUME NEW q, q.pipe \in Pipelines, NEW i \in DOMAIN q.pipe
  PROVE  /\ ByName(q, i) \in [DOMAIN Branches(q, i) -> DOMAIN Branches(q, i)]
         /\ \A x, y \in DOMAIN Branches(q, i) : ByName(q, i)[x] = ByName(q, i)[y] => x = y
  <1> DEFINE n == Len(Branches(q, i))
             name == [j \in 1..n |-> Branches(q, i)[j].name]
  <1>1. q.pipe \in Seq(Item) /\ q.pipe[i] \in Item
    BY PipelinesAssumption, ElementOfSeq, LenProperties
  <1>2. Branches(q, i) \in Seq([name : Nat, inner : Seq(Nat)])
    BY <1>1 DEF Item, Branches
  <1>3. n \in Nat /\ DOMAIN Branches(q, i) = 1..n
    BY <1>2, LenProperties
  <1>4. name \in [1..n -> Nat]
    <2>1. \A j \in 1..n : Branches(q, i)[j] \in [name : Nat, inner : Seq(Nat)]
      BY <1>2, ElementOfSeq
    <2> QED
      BY <2>1
  <1>5. \A j, k \in 1..n : name[j] = name[k] => j = k
    <2>1. \A j, k \in DOMAIN Branches(q, i) :
            Branches(q, i)[j].name = Branches(q, i)[k].name => j = k
      BY PipelinesAssumption DEF Branches
    <2> QED
      BY <1>3, <2>1
  <1>6. \E order \in [1..n -> 1..n] :
          \A x, y \in 1..n : x < y => name[order[x]] < name[order[y]]
    <2> HIDE DEF name, n
    <2> QED
      BY <1>3, <1>4, <1>5, OrderExists
  <1>7. \E order \in [1..n -> 1..n] : \A x, y \in 1..n :
          x < y => Branches(q, i)[order[x]].name < Branches(q, i)[order[y]].name
    <2>1. PICK order \in [1..n -> 1..n] :
            \A x, y \in 1..n : x < y => name[order[x]] < name[order[y]]
      BY <1>6
    <2>2. \A x \in 1..n : name[order[x]] = Branches(q, i)[order[x]].name
      BY <1>3, <2>1
    <2> QED
      BY <2>1, <2>2
  <1>8. /\ ByName(q, i) \in [1..n -> 1..n]
        /\ \A x, y \in 1..n :
             x < y => Branches(q, i)[ByName(q, i)[x]].name < Branches(q, i)[ByName(q, i)[y]].name
    BY <1>3, <1>7, Zenon DEF ByName
  <1>9. ASSUME NEW x \in 1..n, NEW y \in 1..n, ByName(q, i)[x] = ByName(q, i)[y] PROVE x = y
    <2>1. x \in Nat /\ y \in Nat
      BY <1>3
    <2>2. Branches(q, i)[ByName(q, i)[x]].name \in Nat
      <3>1. ByName(q, i)[x] \in 1..n
        BY <1>8
      <3>2. Branches(q, i)[ByName(q, i)[x]] \in [name : Nat, inner : Seq(Nat)]
        BY <1>2, <3>1, ElementOfSeq
      <3> QED
        BY <3>2
    <2> QED
      BY <1>8, <1>9, <2>1, <2>2
  <1> QED
    BY <1>3, <1>8, <1>9

(* What can have an id: a stage, a branch, a stage of a branch. *)
IsPosition(q, pos) ==
  \/ \E i \in DOMAIN q.pipe : ~q.pipe[i].orphan /\ pos = <<i>>
  \/ \E i \in DOMAIN q.pipe : \E j \in DOMAIN Branches(q, i) : pos = <<i, j>>
  \/ \E i \in DOMAIN q.pipe : \E j \in DOMAIN Branches(q, i) :
       \E k \in DOMAIN Inner(q, i, j) : pos = <<i, j, k>>

(* The first m items have started, each with all its branches. *)
ItemsUpTo(q, m) ==
  \A i \in DOMAIN q.pipe :
    /\ ~q.pipe[i].orphan => (<<i>> \in DOMAIN q.ids <=> i <= m)
    /\ \A j \in DOMAIN Branches(q, i) : <<i, j>> \in DOMAIN q.ids <=> i <= m

(* The first k stages of a branch have started. *)
InnerUpTo(q, i, j, k) ==
  \A l \in DOMAIN Inner(q, i, j) : <<i, j, l>> \in DOMAIN q.ids <=> l <= k

(* Ids are the numbers Jenkins has given, each once, to what has started;  *)
(* items and the stages of a branch start one after the other.             *)
Numbered(q) ==
  /\ q.pipe \in Pipelines /\ q.next \in Nat \ {0}
  /\ q.ids \in [DOMAIN q.ids -> 1..(q.next - 1)]
  /\ \A a, b \in DOMAIN q.ids : q.ids[a] = q.ids[b] => a = b
  /\ \A pos \in DOMAIN q.ids : IsPosition(q, pos)
  /\ \E m \in 0..Len(q.pipe) : ItemsUpTo(q, m)
  /\ \A i \in DOMAIN q.pipe : \A j \in DOMAIN Branches(q, i) :
       /\ \E k \in 0..Len(Inner(q, i, j)) : InnerUpTo(q, i, j, k)
       /\ \A l \in DOMAIN Inner(q, i, j) :
            <<i, j, l>> \in DOMAIN q.ids => <<i, j>> \in DOMAIN q.ids

(* What a Jenkinsfile is made of. *)
LEMMA PipeTypes ==
  ASSUME NEW q, q.pipe \in Pipelines
  PROVE  /\ Len(q.pipe) \in Nat /\ DOMAIN q.pipe = 1..Len(q.pipe)
         /\ \A i \in DOMAIN q.pipe :
              /\ q.pipe[i].orphan \in BOOLEAN
              /\ q.pipe[i].orphan => 1 \in DOMAIN Branches(q, i)
              /\ Len(Branches(q, i)) \in Nat
              /\ DOMAIN Branches(q, i) = 1..Len(Branches(q, i))
              /\ \A j \in DOMAIN Branches(q, i) :
                   /\ Len(Inner(q, i, j)) \in Nat
                   /\ DOMAIN Inner(q, i, j) = 1..Len(Inner(q, i, j))
  <1>1. q.pipe \in Seq(Item)
    BY PipelinesAssumption
  <1>2. Len(q.pipe) \in Nat /\ DOMAIN q.pipe = 1..Len(q.pipe)
    BY <1>1, LenProperties
  <1>3. ASSUME NEW i \in DOMAIN q.pipe
        PROVE  /\ q.pipe[i].orphan \in BOOLEAN
               /\ Branches(q, i) \in Seq([name : Nat, inner : Seq(Nat)])
               /\ q.pipe[i].orphan => Branches(q, i) # <<>>
    <2>1. q.pipe[i] \in Item
      BY <1>1, <1>2, ElementOfSeq
    <2> QED
      BY <2>1, PipelinesAssumption DEF Item, Branches
  <1>4. ASSUME NEW i \in DOMAIN q.pipe
        PROVE  /\ Len(Branches(q, i)) \in Nat
               /\ DOMAIN Branches(q, i) = 1..Len(Branches(q, i))
               /\ q.pipe[i].orphan => 1 \in DOMAIN Branches(q, i)
    <2>1. Len(Branches(q, i)) \in Nat /\ DOMAIN Branches(q, i) = 1..Len(Branches(q, i))
      BY <1>3, LenProperties
    <2>2. q.pipe[i].orphan => Len(Branches(q, i)) # 0
      BY <1>3, EmptySeq
    <2> QED
      BY <2>1, <2>2
  <1>5. ASSUME NEW i \in DOMAIN q.pipe, NEW j \in DOMAIN Branches(q, i)
        PROVE  Len(Inner(q, i, j)) \in Nat /\ DOMAIN Inner(q, i, j) = 1..Len(Inner(q, i, j))
    <2>1. Branches(q, i)[j] \in [name : Nat, inner : Seq(Nat)]
      BY <1>3, <1>4, ElementOfSeq
    <2>2. Inner(q, i, j) \in Seq(Nat)
      BY <2>1 DEF Inner
    <2> QED
      BY <2>2, LenProperties
  <1> QED
    BY <1>2, <1>3, <1>4, <1>5

(* Counting the items that have started gives the last of them. *)
LEMMA ItemsCounted ==
  ASSUME NEW q, Numbered(q), NEW m \in 0..Len(q.pipe), ItemsUpTo(q, m)
  PROVE  ItemsStarted(q) = m
  <1>1. q.pipe \in Pipelines
    BY DEF Numbered
  <1>2. ASSUME NEW i \in DOMAIN q.pipe PROVE HasStarted(q, i) <=> i <= m
    <2>1. ASSUME NEW pos \in DOMAIN q.ids, pos[1] = i PROVE i <= m
      <3>1. IsPosition(q, pos)
        BY DEF Numbered
      <3>2. CASE \E k \in DOMAIN q.pipe : ~q.pipe[k].orphan /\ pos = <<k>>
        <4>1. PICK k \in DOMAIN q.pipe : ~q.pipe[k].orphan /\ pos = <<k>>
          BY <3>2
        <4>2. k = i
          BY <2>1, <4>1
        <4> QED
          BY <4>1, <4>2 DEF ItemsUpTo
      <3>3. CASE \E k \in DOMAIN q.pipe : \E j \in DOMAIN Branches(q, k) : pos = <<k, j>>
        <4>1. PICK k \in DOMAIN q.pipe : \E j \in DOMAIN Branches(q, k) : pos = <<k, j>>
          BY <3>3
        <4>2. PICK j \in DOMAIN Branches(q, k) : pos = <<k, j>>
          BY <4>1
        <4>3. k = i
          BY <2>1, <4>2
        <4> QED
          BY <4>2, <4>3 DEF ItemsUpTo
      <3>4. CASE \E k \in DOMAIN q.pipe : \E j \in DOMAIN Branches(q, k) :
                   \E l \in DOMAIN Inner(q, k, j) : pos = <<k, j, l>>
        <4>1. PICK k \in DOMAIN q.pipe : \E j \in DOMAIN Branches(q, k) :
                     \E l \in DOMAIN Inner(q, k, j) : pos = <<k, j, l>>
          BY <3>4
        <4>2. PICK j \in DOMAIN Branches(q, k) : \E l \in DOMAIN Inner(q, k, j) : pos = <<k, j, l>>
          BY <4>1
        <4>3. PICK l \in DOMAIN Inner(q, k, j) : pos = <<k, j, l>>
          BY <4>2
        <4>4. k = i
          BY <2>1, <4>3
        <4>5. <<k, j>> \in DOMAIN q.ids
          BY <4>3 DEF Numbered
        <4> QED
          BY <4>4, <4>5 DEF ItemsUpTo
      <3> QED
        BY <3>1, <3>2, <3>3, <3>4 DEF IsPosition
    <2>2. ASSUME i <= m PROVE \E pos \in DOMAIN q.ids : pos[1] = i
      <3>1. CASE ~q.pipe[i].orphan
        <4>1. <<i>> \in DOMAIN q.ids /\ <<i>>[1] = i
          BY <2>2, <3>1 DEF ItemsUpTo
        <4> QED
          BY <4>1
      <3>2. CASE q.pipe[i].orphan
        <4>1. 1 \in DOMAIN Branches(q, i)
          BY <1>1, <3>2, PipeTypes
        <4>2. <<i, 1>> \in DOMAIN q.ids /\ <<i, 1>>[1] = i
          BY <2>2, <4>1 DEF ItemsUpTo
        <4> QED
          BY <4>2
      <3> QED
        BY <3>1, <3>2
    <2> QED
      BY <2>1, <2>2 DEF HasStarted
  <1>3. {i \in DOMAIN q.pipe : HasStarted(q, i)} = 1..m
    BY <1>1, <1>2, PipeTypes
  <1>4. m \in Int /\ (m < 1 => m = 0)
    BY <1>1, PipeTypes
  <1>5. Cardinality(1..m) = m
    BY <1>4, FS_Interval
  <1> QED
    BY <1>3, <1>5 DEF ItemsStarted

(* Counting the stages of a branch gives the last that has started. *)
LEMMA InnerCounted ==
  ASSUME NEW q, Numbered(q), NEW i \in DOMAIN q.pipe, NEW j \in DOMAIN Branches(q, i),
         NEW k \in 0..Len(Inner(q, i, j)), InnerUpTo(q, i, j, k)
  PROVE  InnerStarted(q, i, j) = k
  <1> DEFINE inside == {pos \in DOMAIN q.ids : IsStrictPrefix(<<i, j>>, pos)}
             place == [l \in 1..k |-> <<i, j, l>>]
  <1>1. /\ q.pipe \in Pipelines /\ DOMAIN q.pipe = 1..Len(q.pipe)
        /\ k \in Nat /\ i \in Nat /\ j \in Nat
        /\ Len(Inner(q, i, j)) \in Nat /\ DOMAIN Inner(q, i, j) = 1..Len(Inner(q, i, j))
    BY PipeTypes DEF Numbered
  <1>2. ASSUME NEW pos \in inside PROVE \E l \in 1..k : pos = <<i, j, l>>
    <2>1. IsPosition(q, pos) /\ IsStrictPrefix(<<i, j>>, pos)
      BY DEF Numbered
    <2>2. CASE \E a \in DOMAIN q.pipe : ~q.pipe[a].orphan /\ pos = <<a>>
      <3>1. PICK a \in DOMAIN q.pipe : pos = <<a>>
        BY <2>2
      <3> QED
        BY <2>1, <3>1, Len(<<i, j>>) = 2, Len(<<a>>) = 1 DEF IsStrictPrefix, IsPrefix
    <2>3. CASE \E a \in DOMAIN q.pipe : \E b \in DOMAIN Branches(q, a) : pos = <<a, b>>
      <3>1. PICK a \in DOMAIN q.pipe : \E b \in DOMAIN Branches(q, a) : pos = <<a, b>>
        BY <2>3
      <3>2. PICK b \in DOMAIN Branches(q, a) : pos = <<a, b>>
        BY <3>1
      <3>3. a \in Nat /\ b \in Nat
        BY <1>1, PipeTypes
      <3> QED
        BY <1>1, <2>1, <3>2, <3>3 DEF IsStrictPrefix, IsPrefix
    <2>4. CASE \E a \in DOMAIN q.pipe : \E b \in DOMAIN Branches(q, a) :
                 \E l \in DOMAIN Inner(q, a, b) : pos = <<a, b, l>>
      <3>1. PICK a \in DOMAIN q.pipe : \E b \in DOMAIN Branches(q, a) :
                   \E l \in DOMAIN Inner(q, a, b) : pos = <<a, b, l>>
        BY <2>4
      <3>2. PICK b \in DOMAIN Branches(q, a) : \E l \in DOMAIN Inner(q, a, b) : pos = <<a, b, l>>
        BY <3>1
      <3>3. PICK l \in DOMAIN Inner(q, a, b) : pos = <<a, b, l>>
        BY <3>2
      <3>4. a \in Nat /\ b \in Nat /\ l \in Nat
        <4>1. Len(Branches(q, a)) \in Nat /\ DOMAIN Branches(q, a) = 1..Len(Branches(q, a))
          BY <1>1, PipeTypes
        <4>2. Len(Inner(q, a, b)) \in Nat /\ DOMAIN Inner(q, a, b) = 1..Len(Inner(q, a, b))
          BY <1>1, PipeTypes
        <4> QED
          BY <1>1, <4>1, <4>2
      <3>5. a = i /\ b = j
        BY <1>1, <2>1, <3>3, <3>4 DEF IsStrictPrefix, IsPrefix
      <3>6. l <= k
        BY <3>3, <3>5 DEF InnerUpTo
      <3>7. l \in 1..k
        BY <1>1, <3>5, <3>6
      <3> QED
        BY <3>3, <3>5, <3>7
    <2> QED
      BY <2>1, <2>2, <2>3, <2>4 DEF IsPosition
  <1>3. ASSUME NEW l \in 1..k PROVE <<i, j, l>> \in inside
    <2>1. l \in DOMAIN Inner(q, i, j) /\ l \in Nat /\ l <= k
      BY <1>1
    <2>2. <<i, j, l>> \in DOMAIN q.ids
      BY <2>1 DEF InnerUpTo
    <2>3. IsStrictPrefix(<<i, j>>, <<i, j, l>>)
      BY <1>1, <2>1 DEF IsStrictPrefix, IsPrefix
    <2> QED
      BY <2>2, <2>3
  <1> HIDE DEF inside
  <1>4. place \in Bijection(1..k, inside)
    <2>1. place \in [1..k -> inside]
      BY <1>3
    <2>2. \A a, b \in 1..k : place[a] = place[b] => a = b
      OBVIOUS
    <2>3. \A pos \in inside : \E l \in 1..k : place[l] = pos
      BY <1>2
    <2> HIDE DEF place
    <2> QED
      BY <2>1, <2>2, <2>3 DEF Bijection, Injection, Surjection, IsInjective
  <1>5. IsFiniteSet(1..k) /\ Cardinality(1..k) = k
    <2>1. IsFiniteSet(1..k) /\ Cardinality(1..k) = IF 1 > k THEN 0 ELSE k - 1 + 1
      BY <1>1, FS_Interval
    <2> QED
      BY <1>1, <2>1
  <1>6. Cardinality(inside) = k
    <2>1. ExistsBijection(1..k, inside)
      BY <1>4 DEF ExistsBijection
    <2> QED
      BY <1>5, <2>1, FS_Bijection
  <1> QED
    BY <1>6 DEF InnerStarted, inside

(* The lists PipelineNodes is made of. *)
ItemNodes(q, i) ==
  <<StageNode(q, i)>> \o [x \in DOMAIN Branches(q, i) |-> BranchNode(q, i, ByName(q, i)[x])]
ChainNodes(q, i, j) == [k \in 1..Chain(q, i, j) |-> InnerNode(q, i, j, k)]
WithinNodes(q, i) == FlattenSeq([j \in DOMAIN Branches(q, i) |-> ChainNodes(q, i, j)])

AnyNode(q) ==
  {StageNode(q, i) : i \in Nat} \cup {BranchNode(q, i, j) : i \in Nat, j \in Nat}
    \cup {InnerNode(q, i, j, k) : i \in Nat, j \in Nat, k \in Nat}

LEMMA AnyIsNode ==
  ASSUME NEW q, NEW n \in AnyNode(q)
  PROVE  IsNode(n)
  <1>1. \A i : IsNode(StageNode(q, i))
    BY DEF StageNode, IsNode
  <1>2. \A i, j : IsNode(BranchNode(q, i, j))
    BY DEF BranchNode, IsNode
  <1>3. \A i, j, k : IsNode(InnerNode(q, i, j, k))
    BY DEF InnerNode, IsNode
  <1> QED
    BY <1>1, <1>2, <1>3 DEF AnyNode

(* The positions of the nodes, and the ids they have. *)
IsPlace(q, pos) ==
  \/ \E i \in 1..ItemsStarted(q) : pos = <<i>>
  \/ \E i \in 1..ItemsStarted(q) : \E j \in DOMAIN Branches(q, i) : pos = <<i, j>>
  \/ \E i \in 1..ItemsStarted(q) : \E j \in DOMAIN Branches(q, i) :
       \E k \in 1..Chain(q, i, j) : pos = <<i, j, k>>

PlaceId(q, pos) == IF Len(pos) = 1 THEN HeadId(q, pos[1]) ELSE q.ids[pos]

(* What has started, as the counts say. *)
LEMMA StartedAre ==
  ASSUME NEW q, Numbered(q)
  PROVE  /\ ItemsStarted(q) \in 0..Len(q.pipe) /\ ItemsUpTo(q, ItemsStarted(q))
         /\ \A i \in DOMAIN q.pipe : \A j \in DOMAIN Branches(q, i) :
              /\ Chain(q, i, j) \in 0..Len(Inner(q, i, j))
              /\ \A k \in 1..Chain(q, i, j) : <<i, j, k>> \in DOMAIN q.ids
  <1>1. PICK m \in 0..Len(q.pipe) : ItemsUpTo(q, m)
    BY DEF Numbered
  <1>2. ItemsStarted(q) = m
    BY <1>1, ItemsCounted
  <1>3. ASSUME NEW i \in DOMAIN q.pipe, NEW j \in DOMAIN Branches(q, i)
        PROVE  /\ Chain(q, i, j) \in 0..Len(Inner(q, i, j))
               /\ \A k \in 1..Chain(q, i, j) : <<i, j, k>> \in DOMAIN q.ids
    <2>1. PICK k \in 0..Len(Inner(q, i, j)) : InnerUpTo(q, i, j, k)
      BY DEF Numbered
    <2>2. InnerStarted(q, i, j) = k
      BY <2>1, InnerCounted
    <2>3. Len(Inner(q, i, j)) \in Nat /\ DOMAIN Inner(q, i, j) = 1..Len(Inner(q, i, j))
      BY PipeTypes DEF Numbered
    <2>4. Chain(q, i, j) \in 0..k
      BY <2>2, <2>3 DEF Chain
    <2>5. ASSUME NEW l \in 1..Chain(q, i, j) PROVE <<i, j, l>> \in DOMAIN q.ids
      <3>1. l \in DOMAIN Inner(q, i, j) /\ l <= k
        BY <2>3, <2>4
      <3> QED
        BY <2>1, <3>1 DEF InnerUpTo
    <2> QED
      BY <2>3, <2>4, <2>5
  <1> QED
    BY <1>1, <1>2, <1>3

(* handleChunkDone, createParallelSyntheticNode: the id of an item is its  *)
(* own, or that of its first branch in the negative.                       *)
LEMMA HeadIds ==
  ASSUME NEW q, Numbered(q), NEW i \in 1..ItemsStarted(q)
  PROVE  /\ i \in DOMAIN q.pipe
         /\ \A j \in DOMAIN Branches(q, i) : <<i, j>> \in DOMAIN q.ids
         /\ \/ ~q.pipe[i].orphan /\ <<i>> \in DOMAIN q.ids /\ HeadId(q, i) = q.ids[<<i>>]
            \/ /\ q.pipe[i].orphan
               /\ \E j \in DOMAIN Branches(q, i) : HeadId(q, i) = -q.ids[<<i, j>>]
  <1>1. ItemsStarted(q) \in 0..Len(q.pipe) /\ ItemsUpTo(q, ItemsStarted(q))
    BY StartedAre
  <1>2. q.pipe \in Pipelines /\ Len(q.pipe) \in Nat /\ DOMAIN q.pipe = 1..Len(q.pipe)
    BY PipeTypes DEF Numbered
  <1>3. i \in DOMAIN q.pipe /\ i <= ItemsStarted(q)
    BY <1>1, <1>2
  <1>4. \A j \in DOMAIN Branches(q, i) : <<i, j>> \in DOMAIN q.ids
    BY <1>1, <1>3 DEF ItemsUpTo
  <1>5. CASE ~q.pipe[i].orphan
    BY <1>1, <1>3, <1>4, <1>5 DEF ItemsUpTo, HeadId
  <1>6. CASE q.pipe[i].orphan
    <2>1. 1 \in DOMAIN Branches(q, i)
      BY <1>2, <1>3, <1>6, PipeTypes
    <2>2. ByName(q, i)[1] \in DOMAIN Branches(q, i)
      BY <1>2, <1>3, <2>1, BranchesInOrder
    <2> QED
      BY <1>3, <1>4, <1>6, <2>2 DEF HeadId
  <1> QED
    BY <1>3, <1>4, <1>5, <1>6

(* The ids of two places differ: those made for synthetic stages are    *)
(* negative, the others the numbers Jenkins has given.                   *)
LEMMA PlaceIdsDiffer ==
  ASSUME NEW q, Numbered(q), NEW a, NEW b, IsPlace(q, a), IsPlace(q, b),
         PlaceId(q, a) = PlaceId(q, b)
  PROVE  a = b
  <1> DEFINE IsHead(p) == \E i \in 1..ItemsStarted(q) : p = <<i>>
             IsLow(p) == Len(p) # 1 /\ p \in DOMAIN q.ids
  <1>1. /\ q.pipe \in Pipelines /\ Len(q.pipe) \in Nat /\ DOMAIN q.pipe = 1..Len(q.pipe)
        /\ ItemsStarted(q) \in 0..Len(q.pipe)
    BY PipeTypes, StartedAre DEF Numbered
  <1>2. ASSUME NEW p, IsPlace(q, p) PROVE IsHead(p) \/ IsLow(p)
    <2>1. CASE \E i \in 1..ItemsStarted(q) : \E j \in DOMAIN Branches(q, i) : p = <<i, j>>
      <3>1. PICK i \in 1..ItemsStarted(q) : \E j \in DOMAIN Branches(q, i) : p = <<i, j>>
        BY <2>1
      <3>2. PICK j \in DOMAIN Branches(q, i) : p = <<i, j>>
        BY <3>1
      <3>3. Len(p) # 1
        BY <3>2
      <3>4. p \in DOMAIN q.ids
        BY <3>2, HeadIds
      <3> QED
        BY <3>3, <3>4
    <2>2. CASE \E i \in 1..ItemsStarted(q) : \E j \in DOMAIN Branches(q, i) :
                 \E k \in 1..Chain(q, i, j) : p = <<i, j, k>>
      <3>1. PICK i \in 1..ItemsStarted(q) : \E j \in DOMAIN Branches(q, i) :
                   \E k \in 1..Chain(q, i, j) : p = <<i, j, k>>
        BY <2>2
      <3>2. PICK j \in DOMAIN Branches(q, i) : \E k \in 1..Chain(q, i, j) : p = <<i, j, k>>
        BY <3>1
      <3>3. PICK k \in 1..Chain(q, i, j) : p = <<i, j, k>>
        BY <3>2
      <3>4. i \in DOMAIN q.pipe
        BY <1>1
      <3>5. p \in DOMAIN q.ids
        BY <3>3, <3>4, StartedAre
      <3> QED
        BY <3>3, <3>5
    <2> QED
      BY <1>2, <2>1, <2>2 DEF IsPlace
  <1>3. \A x, y \in DOMAIN q.ids : q.ids[x] = q.ids[y] => x = y
    BY DEF Numbered
  <1>4. \A x \in DOMAIN q.ids : q.ids[x] \in Nat \ {0}
    <2>1. q.next \in Nat /\ q.ids \in [DOMAIN q.ids -> 1..(q.next - 1)]
      BY DEF Numbered
    <2> QED
      BY <2>1
  <1>5. ASSUME NEW p, IsLow(p) PROVE PlaceId(q, p) = q.ids[p]
    BY <1>5 DEF PlaceId
  <1>6. ASSUME NEW i \in 1..ItemsStarted(q)
        PROVE  \/ <<i>> \in DOMAIN q.ids /\ PlaceId(q, <<i>>) = q.ids[<<i>>]
               \/ \E j \in DOMAIN Branches(q, i) :
                    <<i, j>> \in DOMAIN q.ids /\ PlaceId(q, <<i>>) = -q.ids[<<i, j>>]
    <2>1. PlaceId(q, <<i>>) = HeadId(q, i)
      BY DEF PlaceId
    <2> QED
      BY <2>1, HeadIds
  <1>7. ASSUME NEW i \in 1..ItemsStarted(q), NEW p, IsLow(p) PROVE PlaceId(q, <<i>>) # PlaceId(q, p)
    <2>1. CASE <<i>> \in DOMAIN q.ids /\ PlaceId(q, <<i>>) = q.ids[<<i>>]
      BY <1>3, <1>5, <1>7, <2>1
    <2>2. CASE \E j \in DOMAIN Branches(q, i) :
                 <<i, j>> \in DOMAIN q.ids /\ PlaceId(q, <<i>>) = -q.ids[<<i, j>>]
      <3>1. PICK j \in DOMAIN Branches(q, i) :
                   <<i, j>> \in DOMAIN q.ids /\ PlaceId(q, <<i>>) = -q.ids[<<i, j>>]
        BY <2>2
      <3>2. q.ids[<<i, j>>] \in Nat \ {0} /\ q.ids[p] \in Nat \ {0}
        BY <1>4, <1>7, <3>1
      <3>3. PlaceId(q, p) = q.ids[p]
        BY <1>5, <1>7
      <3> QED
        BY <3>1, <3>2, <3>3
    <2> QED
      BY <1>6, <2>1, <2>2
  <1>8. ASSUME NEW i \in 1..ItemsStarted(q), NEW k \in 1..ItemsStarted(q),
               PlaceId(q, <<i>>) = PlaceId(q, <<k>>)
        PROVE  i = k
    <2> DEFINE Own(l) == <<l>> \in DOMAIN q.ids /\ PlaceId(q, <<l>>) = q.ids[<<l>>]
               Made(l) == \E j \in DOMAIN Branches(q, l) :
                            <<l, j>> \in DOMAIN q.ids /\ PlaceId(q, <<l>>) = -q.ids[<<l, j>>]
    <2>1. CASE Own(i) /\ Own(k)
      <3>1. <<i>> = <<k>>
        BY <1>3, <1>8, <2>1
      <3> QED
        BY <3>1
    <2>2. CASE Made(i) /\ Made(k)
      <3>1. PICK j \in DOMAIN Branches(q, i) :
                   <<i, j>> \in DOMAIN q.ids /\ PlaceId(q, <<i>>) = -q.ids[<<i, j>>]
        BY <2>2
      <3>2. PICK l \in DOMAIN Branches(q, k) :
                   <<k, l>> \in DOMAIN q.ids /\ PlaceId(q, <<k>>) = -q.ids[<<k, l>>]
        BY <2>2
      <3>3. q.ids[<<i, j>>] \in Nat /\ q.ids[<<k, l>>] \in Nat
        BY <1>4, <3>1, <3>2
      <3>4. q.ids[<<i, j>>] = q.ids[<<k, l>>]
        BY <1>8, <3>1, <3>2, <3>3
      <3>5. <<i, j>> = <<k, l>>
        BY <1>3, <3>1, <3>2, <3>4
      <3> QED
        BY <3>5
    <2>3. ~(Own(i) /\ Made(k)) /\ ~(Made(i) /\ Own(k))
      <3>1. \A l : Own(l) => PlaceId(q, <<l>>) \in Nat \ {0}
        BY <1>4
      <3>2. \A l : Made(l) => PlaceId(q, <<l>>) \in Int /\ PlaceId(q, <<l>>) < 0
        BY <1>4
      <3> HIDE DEF Own, Made
      <3> QED
        BY <1>8, <3>1, <3>2
    <2>4. (Own(i) \/ Made(i)) /\ (Own(k) \/ Made(k))
      BY <1>6
    <2> HIDE DEF Own, Made
    <2> QED
      BY <2>1, <2>2, <2>3, <2>4
  <1>9. ASSUME NEW x, NEW y, IsLow(x), IsLow(y), PlaceId(q, x) = PlaceId(q, y) PROVE x = y
    BY <1>3, <1>5, <1>9
  <1>10. CASE IsLow(a) /\ IsLow(b)
    BY <1>9, <1>10
  <1>11. CASE IsHead(a) /\ IsHead(b)
    BY <1>8, <1>11
  <1>12. CASE IsHead(a) /\ IsLow(b)
    BY <1>7, <1>12
  <1>13. CASE IsLow(a) /\ IsHead(b)
    BY <1>7, <1>13
  <1> HIDE DEF IsLow, IsHead
  <1> QED
    BY <1>2, <1>10, <1>11, <1>12, <1>13

(* A list of nodes, each with the id of a place among some. *)
Placed(q, s, places) ==
  /\ s \in Seq(AnyNode(q)) /\ Distinct(s)
  /\ \A y \in 1..Len(s) : \E pos \in places : IsPlace(q, pos) /\ s[y].id = PlaceId(q, pos)

(* Lists of different places have no id in common. *)
LEMMA PlacedApart ==
  ASSUME NEW q, Numbered(q), NEW s, NEW t, NEW P, NEW Q, Placed(q, s, P), Placed(q, t, Q),
         P \cap Q = {}
  PROVE  Apart(s, t)
  <1> SUFFICES ASSUME NEW y \in 1..Len(s), NEW z \in 1..Len(t), s[y].id = t[z].id
               PROVE  FALSE
    BY DEF Apart
  <1>1. PICK a \in P : IsPlace(q, a) /\ s[y].id = PlaceId(q, a)
    BY DEF Placed
  <1>2. PICK b \in Q : IsPlace(q, b) /\ t[z].id = PlaceId(q, b)
    BY DEF Placed
  <1>3. a = b
    BY <1>1, <1>2, PlaceIdsDiffer
  <1> QED
    BY <1>3

LEMMA PlacedConcat ==
  ASSUME NEW q, Numbered(q), NEW s, NEW t, NEW P, NEW Q, Placed(q, s, P), Placed(q, t, Q),
         P \cap Q = {}
  PROVE  Placed(q, s \o t, P \cup Q)
  <1>1. s \in Seq(AnyNode(q)) /\ t \in Seq(AnyNode(q)) /\ Distinct(s) /\ Distinct(t) /\ Apart(s, t)
    BY PlacedApart DEF Placed
  <1>2. /\ s \o t \in Seq(AnyNode(q)) /\ Distinct(s \o t)
        /\ \A y \in 1..Len(s \o t) : \/ \E x \in 1..Len(s) : (s \o t)[y] = s[x]
                                     \/ \E x \in 1..Len(t) : (s \o t)[y] = t[x]
    BY <1>1, ConcatDistinct
  <1>3. /\ \A x \in 1..Len(s) : \E pos \in P : IsPlace(q, pos) /\ s[x].id = PlaceId(q, pos)
        /\ \A x \in 1..Len(t) : \E pos \in Q : IsPlace(q, pos) /\ t[x].id = PlaceId(q, pos)
    BY DEF Placed
  <1> DEFINE u == s \o t
  <1> HIDE DEF u
  <1>4. ASSUME NEW y \in 1..Len(u)
        PROVE  \E pos \in P \cup Q : IsPlace(q, pos) /\ u[y].id = PlaceId(q, pos)
    <2>1. CASE \E x \in 1..Len(s) : u[y] = s[x]
      BY <1>3, <2>1
    <2>2. CASE \E x \in 1..Len(t) : u[y] = t[x]
      BY <1>3, <2>2
    <2> QED
      BY <1>2, <2>1, <2>2 DEF u
  <1> QED
    BY <1>2, <1>4 DEF Placed, u

LEMMA PlacedFlat ==
  ASSUME NEW q, Numbered(q), NEW n \in Nat, NEW lists, lists = [i \in 1..n |-> lists[i]],
         NEW P, P = [i \in 1..n |-> P[i]],
         \A i \in 1..n : Placed(q, lists[i], P[i]),
         \A i, k \in 1..n : i # k => P[i] \cap P[k] = {}
  PROVE  Placed(q, FlattenSeq(lists), UNION {P[i] : i \in 1..n})
  <1>1. lists \in Seq(Seq(AnyNode(q))) /\ Len(lists) = n
    <2>1. \A i \in 1..n : lists[i] \in Seq(AnyNode(q))
      BY DEF Placed
    <2>2. [i \in 1..n |-> lists[i]] \in Seq(Seq(AnyNode(q)))
      BY <2>1, IsASeq
    <2>3. DOMAIN lists = 1..n
      BY Zenon
    <2>4. lists \in Seq(Seq(AnyNode(q)))
      BY <2>2, Zenon
    <2> QED
      BY <2>3, <2>4, LenProperties
  <1>2. \A i \in 1..Len(lists) : Distinct(lists[i])
    BY <1>1 DEF Placed
  <1>3. \A i, k \in 1..Len(lists) : i # k => Apart(lists[i], lists[k])
    BY <1>1, PlacedApart
  <1>4. /\ FlattenSeq(lists) \in Seq(AnyNode(q)) /\ Distinct(FlattenSeq(lists))
        /\ \A y \in 1..Len(FlattenSeq(lists)) :
             \E i \in 1..Len(lists) : \E x \in 1..Len(lists[i]) : FlattenSeq(lists)[y] = lists[i][x]
    BY <1>1, <1>2, <1>3, FlattenDistinct
  <1>5. ASSUME NEW y \in 1..Len(FlattenSeq(lists))
        PROVE  \E pos \in UNION {P[i] : i \in 1..n} :
                 IsPlace(q, pos) /\ FlattenSeq(lists)[y].id = PlaceId(q, pos)
    <2>1. PICK i \in 1..n : \E x \in 1..Len(lists[i]) : FlattenSeq(lists)[y] = lists[i][x]
      BY <1>1, <1>4
    <2>2. PICK x \in 1..Len(lists[i]) : FlattenSeq(lists)[y] = lists[i][x]
      BY <2>1
    <2>3. PICK pos \in P[i] : IsPlace(q, pos) /\ lists[i][x].id = PlaceId(q, pos)
      BY DEF Placed
    <2>4. pos \in UNION {P[k] : k \in 1..n}
      BY <2>3, Zenon
    <2> QED
      BY <2>2, <2>3, <2>4
  <1> QED
    BY <1>4, <1>5 DEF Placed

\* The places of an item and its branches, and of the stages of a branch.
RowPlaces(q, i) == {<<i>>} \cup {<<i, j>> : j \in DOMAIN Branches(q, i)}
ChainPlaces(q, i, j) == {<<i, j, k>> : k \in 1..Chain(q, i, j)}
WithinPlaces(q, i) == UNION {ChainPlaces(q, i, j) : j \in DOMAIN Branches(q, i)}

(* handleChunkDone, parallelStart: an item and its branches. *)
LEMMA RowPlaced ==
  ASSUME NEW q, Numbered(q), NEW i \in 1..ItemsStarted(q)
  PROVE  Placed(q, ItemNodes(q, i), RowPlaces(q, i))
  <1> DEFINE head == <<StageNode(q, i)>>
             row == [x \in DOMAIN Branches(q, i) |-> BranchNode(q, i, ByName(q, i)[x])]
             branches == {<<i, j>> : j \in DOMAIN Branches(q, i)}
             n == Len(Branches(q, i))
  <1>1. /\ q.pipe \in Pipelines /\ i \in DOMAIN q.pipe /\ i \in Nat
        /\ n \in Nat /\ DOMAIN Branches(q, i) = 1..n
    <2>1. q.pipe \in Pipelines /\ i \in DOMAIN q.pipe
      BY HeadIds DEF Numbered
    <2> QED
      BY <2>1, PipeTypes
  <1>2. Placed(q, head, {<<i>>})
    <2>1. StageNode(q, i) \in AnyNode(q)
      BY <1>1 DEF AnyNode
    <2>2. head \in Seq(AnyNode(q)) /\ Len(head) = 1 /\ head[1] = StageNode(q, i)
      BY <2>1
    <2>3. Distinct(head)
      BY <2>2 DEF Distinct
    <2>4. head[1].id = PlaceId(q, <<i>>)
      BY <2>2 DEF StageNode, PlaceId
    <2>5. IsPlace(q, <<i>>)
      BY DEF IsPlace
    <2> HIDE DEF head
    <2> QED
      BY <2>2, <2>3, <2>4, <2>5 DEF Placed
  <1>3. Placed(q, row, branches)
    <2>1. /\ ByName(q, i) \in [1..n -> 1..n]
          /\ \A x, y \in 1..n : ByName(q, i)[x] = ByName(q, i)[y] => x = y
      BY <1>1, BranchesInOrder
    <2>2. ASSUME NEW x \in 1..n
          PROVE  /\ row[x] \in AnyNode(q)
                 /\ <<i, ByName(q, i)[x]>> \in branches
                 /\ IsPlace(q, <<i, ByName(q, i)[x]>>)
                 /\ row[x].id = PlaceId(q, <<i, ByName(q, i)[x]>>)
      <3>1. row[x] = BranchNode(q, i, ByName(q, i)[x]) /\ ByName(q, i)[x] \in DOMAIN Branches(q, i)
        BY <1>1, <2>1
      <3>2. ByName(q, i)[x] \in Nat
        BY <1>1, <3>1
      <3>3. row[x] \in AnyNode(q)
        BY <1>1, <3>1, <3>2 DEF AnyNode
      <3>4. row[x].id = PlaceId(q, <<i, ByName(q, i)[x]>>)
        BY <3>1 DEF BranchNode, PlaceId
      <3>5. IsPlace(q, <<i, ByName(q, i)[x]>>)
        BY <3>1 DEF IsPlace
      <3> QED
        BY <3>1, <3>3, <3>4, <3>5
    <2>3. row \in Seq(AnyNode(q)) /\ Len(row) = n
      <3>1. row = [x \in 1..n |-> row[x]]
        BY <1>1
      <3> HIDE DEF row
      <3> DEFINE S == AnyNode(q)
      <3>2. \A x \in 1..n : row[x] \in S
        BY <2>2
      <3> HIDE DEF S, n
      <3>3. [x \in 1..n |-> row[x]] \in Seq(S)
        BY <1>1, <3>2, IsASeq
      <3> USE DEF S
      <3>4. row \in Seq(AnyNode(q)) /\ DOMAIN row = 1..n
        BY <3>1, <3>3, Zenon
      <3> QED
        BY <1>1, <3>4, LenProperties
    <2> HIDE DEF row, branches
    <2>4. Distinct(row)
      <3>1. ASSUME NEW x \in 1..n, NEW y \in 1..n, row[x].id = row[y].id PROVE x = y
        <4>1. <<i, ByName(q, i)[x]>> = <<i, ByName(q, i)[y]>>
          BY <2>2, <3>1, PlaceIdsDiffer
        <4> QED
          BY <2>1, <4>1
      <3> QED
        BY <2>3, <3>1 DEF Distinct
    <2> QED
      BY <2>2, <2>3, <2>4 DEF Placed
  <1>4. {<<i>>} \cap branches = {}
    OBVIOUS
  <1>5. ItemNodes(q, i) = head \o row /\ RowPlaces(q, i) = {<<i>>} \cup branches
    BY DEF ItemNodes, RowPlaces
  <1> HIDE DEF head, row, branches
  <1> QED
    BY <1>2, <1>3, <1>4, <1>5, PlacedConcat

(* parallelEnd: the stages of a branch. *)
LEMMA ChainPlaced ==
  ASSUME NEW q, Numbered(q), NEW i \in 1..ItemsStarted(q), NEW j \in DOMAIN Branches(q, i)
  PROVE  Placed(q, ChainNodes(q, i, j), ChainPlaces(q, i, j))
  <1> DEFINE n == Chain(q, i, j)
             s == ChainNodes(q, i, j)
  <1>1. i \in DOMAIN q.pipe /\ i \in Nat /\ j \in Nat /\ n \in Nat
    <2>1. q.pipe \in Pipelines /\ i \in DOMAIN q.pipe
      BY HeadIds DEF Numbered
    <2>2. n \in 0..Len(Inner(q, i, j))
      BY <2>1, StartedAre
    <2> QED
      BY <2>1, <2>2, PipeTypes
  <1>2. ASSUME NEW k \in 1..n
        PROVE  /\ s[k] \in AnyNode(q) /\ <<i, j, k>> \in ChainPlaces(q, i, j)
               /\ IsPlace(q, <<i, j, k>>) /\ s[k].id = PlaceId(q, <<i, j, k>>)
    <2>1. s[k] = InnerNode(q, i, j, k)
      BY DEF ChainNodes
    <2>2. s[k] \in AnyNode(q)
      BY <1>1, <2>1 DEF AnyNode
    <2>3. s[k].id = PlaceId(q, <<i, j, k>>)
      BY <2>1 DEF InnerNode, PlaceId
    <2>4. IsPlace(q, <<i, j, k>>) /\ <<i, j, k>> \in ChainPlaces(q, i, j)
      BY DEF IsPlace, ChainPlaces
    <2> QED
      BY <2>2, <2>3, <2>4
  <1>3. s \in Seq(AnyNode(q)) /\ Len(s) = n
    <2>1. s = [k \in 1..n |-> s[k]]
      BY DEF ChainNodes
    <2> DEFINE S == AnyNode(q)
    <2>2. \A k \in 1..n : s[k] \in S
      BY <1>2
    <2> HIDE DEF s, S, n
    <2>3. [k \in 1..n |-> s[k]] \in Seq(S)
      BY <1>1, <2>2, IsASeq
    <2> USE DEF S
    <2>4. s \in Seq(AnyNode(q)) /\ DOMAIN s = 1..n
      BY <2>1, <2>3, Zenon
    <2> QED
      BY <1>1, <2>4, LenProperties
  <1> HIDE DEF s, n
  <1>4. Distinct(s)
    <2>1. ASSUME NEW x \in 1..n, NEW y \in 1..n, s[x].id = s[y].id PROVE x = y
      <3>1. <<i, j, x>> = <<i, j, y>>
        BY <1>2, <2>1, PlaceIdsDiffer
      <3> QED
        BY <3>1
    <2> QED
      BY <1>3, <2>1 DEF Distinct
  <1>5. Placed(q, s, ChainPlaces(q, i, j))
    BY <1>2, <1>3, <1>4 DEF Placed
  <1> QED
    BY <1>5 DEF s

LEMMA WithinPlaced ==
  ASSUME NEW q, Numbered(q), NEW i \in 1..ItemsStarted(q)
  PROVE  Placed(q, WithinNodes(q, i), WithinPlaces(q, i))
  <1> DEFINE n == Len(Branches(q, i))
             lists == [j \in 1..n |-> ChainNodes(q, i, j)]
             P == [j \in 1..n |-> ChainPlaces(q, i, j)]
  <1>1. n \in Nat /\ DOMAIN Branches(q, i) = 1..n
    <2>1. q.pipe \in Pipelines /\ i \in DOMAIN q.pipe
      BY HeadIds DEF Numbered
    <2> QED
      BY <2>1, PipeTypes
  <1>2. \A j \in 1..n : Placed(q, lists[j], P[j])
    BY <1>1, ChainPlaced
  <1>3. ASSUME NEW j \in 1..n, NEW k \in 1..n, j # k PROVE P[j] \cap P[k] = {}
    BY <1>3 DEF ChainPlaces
  <1>4. WithinNodes(q, i) = FlattenSeq(lists)
    BY <1>1 DEF WithinNodes
  <1>5. WithinPlaces(q, i) = UNION {P[j] : j \in 1..n}
    BY <1>1 DEF WithinPlaces
  <1>6. lists = [j \in 1..n |-> lists[j]] /\ P = [j \in 1..n |-> P[j]]
    OBVIOUS
  <1> HIDE DEF lists, P, n
  <1>7. Placed(q, FlattenSeq(lists), UNION {P[j] : j \in 1..n})
    BY <1>1, <1>2, <1>3, <1>6, PlacedFlat
  <1> QED
    BY <1>4, <1>5, <1>7

(* PipelineNodeGraphVisitor: no two nodes of a run have one id. *)
LEMMA NodesDistinct ==
  ASSUME NEW q, Numbered(q)
  PROVE  PipelineNodes(q) \in Seq(AnyNode(q)) /\ Distinct(PipelineNodes(q))
  <1> DEFINE n == ItemsStarted(q)
             items == [i \in 1..n |-> ItemNodes(q, i)]
             rows == [i \in 1..n |-> RowPlaces(q, i)]
             inner == [i \in 1..n |-> WithinNodes(q, n + 1 - i)]
             chains == [i \in 1..n |-> WithinPlaces(q, n + 1 - i)]
             P == UNION {rows[i] : i \in 1..n}
             Q == UNION {chains[i] : i \in 1..n}
  <1>1. n \in Nat
    BY StartedAre, PipeTypes DEF Numbered
  <1>2. PipelineNodes(q) = FlattenSeq(items) \o FlattenSeq(inner)
    BY Zenon DEF PipelineNodes, ItemNodes, WithinNodes, ChainNodes
  <1>3. \A i \in 1..n : n + 1 - i \in 1..n
    BY <1>1
  <1>4. items = [i \in 1..n |-> items[i]] /\ rows = [i \in 1..n |-> rows[i]]
    OBVIOUS
  <1>5. inner = [i \in 1..n |-> inner[i]] /\ chains = [i \in 1..n |-> chains[i]]
    OBVIOUS
  <1>6. \A i \in 1..n : Placed(q, items[i], rows[i])
    BY RowPlaced
  <1>7. \A i \in 1..n : Placed(q, inner[i], chains[i])
    BY <1>3, WithinPlaced
  <1>8. ASSUME NEW i \in 1..n, NEW k \in 1..n, i # k PROVE rows[i] \cap rows[k] = {}
    BY <1>8 DEF RowPlaces
  <1>9. ASSUME NEW i \in 1..n, NEW k \in 1..n, i # k PROVE chains[i] \cap chains[k] = {}
    <2>1. n + 1 - i # n + 1 - k
      BY <1>1, <1>9
    <2> QED
      BY <2>1 DEF WithinPlaces, ChainPlaces
  <1>10. P \cap Q = {}
    <2>1. \A i : \A pos \in RowPlaces(q, i) : Len(pos) # 3
      BY DEF RowPlaces
    <2>2. \A i : \A pos \in WithinPlaces(q, i) : Len(pos) = 3
      BY DEF WithinPlaces, ChainPlaces
    <2>3. \A pos \in P : Len(pos) # 3
      BY <2>1
    <2>4. \A pos \in Q : Len(pos) = 3
      BY <2>2
    <2> HIDE DEF P, Q
    <2> QED
      BY <2>3, <2>4
  <1> HIDE DEF items, rows, inner, chains, n
  <1>11. Placed(q, FlattenSeq(items), P)
    BY <1>1, <1>4, <1>6, <1>8, PlacedFlat
  <1>12. Placed(q, FlattenSeq(inner), Q)
    BY <1>1, <1>5, <1>7, <1>9, PlacedFlat
  <1> HIDE DEF P, Q
  <1>13. Placed(q, FlattenSeq(items) \o FlattenSeq(inner), P \cup Q)
    BY <1>10, <1>11, <1>12, PlacedConcat
  <1> QED
    BY <1>2, <1>13 DEF Placed

(* The new places of a run: what a start adds. *)
Added(q, positions) ==
  [pos \in DOMAIN q.ids \cup ToSet(positions) |->
     IF pos \in DOMAIN q.ids THEN q.ids[pos]
     ELSE q.next + SelectInSeq(positions, LAMBDA p : p = pos) - 1]

(* SelectInSeq finds an element where it is. *)
LEMMA PlaceInList ==
  ASSUME NEW S, NEW positions \in Seq(S), NEW pos \in ToSet(positions)
  PROVE  LET x == SelectInSeq(positions, LAMBDA p : p = pos)
         IN  x \in 1..Len(positions) /\ positions[x] = pos
  <1> DEFINE I == {x \in 1..Len(positions) : positions[x] = pos}
  <1>1. SelectInSeq(positions, LAMBDA p : p = pos) = IF I # {} THEN Min(I) ELSE 0
    BY Zenon DEF SelectInSeq
  <1>2. Len(positions) \in Nat /\ DOMAIN positions = 1..Len(positions)
    BY LenProperties
  <1>3. I # {} /\ I \in SUBSET Nat
    BY <1>2 DEF ToSet
  <1>4. Min(I) \in I
    <2>1. \E x \in I : \A y \in I : x <= y
      BY <1>3, LeastExists
    <2> HIDE DEF I
    <2> QED
      BY <2>1 DEF Min
  <1> QED
    BY <1>1, <1>3, <1>4

(* Start: the new ids differ from each other and from those of before. *)
LEMMA AddedIds ==
  ASSUME NEW q, Numbered(q), NEW S, NEW positions \in Seq(S)
  PROVE  LET ids == Added(q, positions)
             next == q.next + Len(positions)
         IN  /\ next \in Nat \ {0}
             /\ DOMAIN ids = DOMAIN q.ids \cup ToSet(positions)
             /\ ids \in [DOMAIN ids -> 1..(next - 1)]
             /\ \A a, b \in DOMAIN ids : ids[a] = ids[b] => a = b
  <1> DEFINE ids == Added(q, positions)
             next == q.next + Len(positions)
             D == DOMAIN q.ids
             E == D \cup ToSet(positions)
             at(pos) == SelectInSeq(positions, LAMBDA p : p = pos)
  <1>1. q.next \in Nat \ {0} /\ Len(positions) \in Nat
    BY LenProperties DEF Numbered
  <1>2. /\ \A pos \in D : q.ids[pos] \in 1..(q.next - 1)
        /\ \A a, b \in D : q.ids[a] = q.ids[b] => a = b
    BY DEF Numbered
  <1>3. ids = [pos \in E |-> IF pos \in D THEN q.ids[pos] ELSE q.next + at(pos) - 1]
    BY DEF Added
  <1>4. \A pos \in E : pos \notin D => at(pos) \in 1..Len(positions) /\ positions[at(pos)] = pos
    BY PlaceInList
  <1> HIDE DEF ids, D, E, at
  <1>5. DOMAIN ids = E
    BY <1>3
  <1>6. \A pos \in E : ids[pos] = IF pos \in D THEN q.ids[pos] ELSE q.next + at(pos) - 1
    BY <1>3
  <1>7. \A pos \in E : ids[pos] \in 1..(next - 1)
    BY <1>1, <1>2, <1>4, <1>6
  <1>8. ids \in [E -> 1..(next - 1)]
    BY <1>3, <1>5, <1>7
  <1>9. ASSUME NEW a \in E, NEW b \in E, ids[a] = ids[b] PROVE a = b
    <2>1. CASE a \in D /\ b \in D
      BY <1>2, <1>6, <1>9, <2>1
    <2>2. CASE a \notin D /\ b \notin D
      <3>1. at(a) = at(b)
        BY <1>1, <1>4, <1>6, <1>9, <2>2
      <3> QED
        BY <1>4, <2>2, <3>1
    <2>3. CASE a \in D /\ b \notin D
      BY <1>1, <1>2, <1>4, <1>6, <1>9, <2>3
    <2>4. CASE a \notin D /\ b \in D
      BY <1>1, <1>2, <1>4, <1>6, <1>9, <2>4
    <2> QED
      BY <2>1, <2>2, <2>3, <2>4
  <1>10. next \in Nat \ {0}
    BY <1>1
  <1> QED
    BY <1>5, <1>8, <1>9, <1>10 DEF ids, D, E

(* A step that is not a start gives no id to any position. *)
LEMMA StillNumbered ==
  ASSUME NEW q, Numbered(q), NEW new, new.pipe = q.pipe, new.ids = q.ids,
         new.next = q.next \/ new.next = q.next + 1
  PROVE  Numbered(new)
  <1>1. \A i : Branches(new, i) = Branches(q, i)
    BY DEF Branches
  <1>2. \A i, j : Inner(new, i, j) = Inner(q, i, j)
    BY <1>1 DEF Inner
  <1>3. \A m : ItemsUpTo(new, m) <=> ItemsUpTo(q, m)
    BY <1>1 DEF ItemsUpTo
  <1>4. \A i, j, k : InnerUpTo(new, i, j, k) <=> InnerUpTo(q, i, j, k)
    BY <1>2 DEF InnerUpTo
  <1>5. \A pos : IsPosition(new, pos) <=> IsPosition(q, pos)
    BY <1>1, <1>2 DEF IsPosition
  <1>6. /\ new.next \in Nat \ {0}
        /\ new.ids \in [DOMAIN new.ids -> 1..(new.next - 1)]
    BY DEF Numbered
  <1> QED
    BY <1>1, <1>2, <1>3, <1>4, <1>5, <1>6 DEF Numbered

(* Launch: a run that has started nothing. *)
LEMMA NoneNumbered ==
  ASSUME NEW q, q.pipe \in Pipelines, q.ids = <<>>, q.next = 1
  PROVE  Numbered(q)
  <1>1. DOMAIN q.ids = {}
    OBVIOUS
  <1>2. Len(q.pipe) \in Nat /\ DOMAIN q.pipe = 1..Len(q.pipe)
    BY PipeTypes
  <1>3. 0 \in 0..Len(q.pipe) /\ ItemsUpTo(q, 0)
    BY <1>1, <1>2 DEF ItemsUpTo
  <1>4. ASSUME NEW i \in DOMAIN q.pipe, NEW j \in DOMAIN Branches(q, i)
        PROVE  0 \in 0..Len(Inner(q, i, j)) /\ InnerUpTo(q, i, j, 0)
    <2>1. Len(Inner(q, i, j)) \in Nat /\ DOMAIN Inner(q, i, j) = 1..Len(Inner(q, i, j))
      BY PipeTypes
    <2> QED
      BY <1>1, <2>1 DEF InnerUpTo
  <1>5. q.ids \in [DOMAIN q.ids -> 1..(q.next - 1)]
    BY <1>1
  <1> QED
    BY <1>1, <1>3, <1>4, <1>5 DEF Numbered

(* The places of the item that starts. *)
ItemPositions(q, i) ==
  (IF q.pipe[i].orphan THEN <<>> ELSE << <<i>> >>) \o [j \in DOMAIN Branches(q, i) |-> <<i, j>>]

(* StartItem: the stage, unless it is synthetic, and its branches. *)
LEMMA ItemPlaces ==
  ASSUME NEW q, q.pipe \in Pipelines, NEW i \in DOMAIN q.pipe
  PROVE  /\ ItemPositions(q, i) \in Seq(ToSet(ItemPositions(q, i)))
         /\ ToSet(ItemPositions(q, i)) = {pos \in {<<i>>} : ~q.pipe[i].orphan}
                                           \cup {<<i, j>> : j \in DOMAIN Branches(q, i)}
  <1> DEFINE n == Len(Branches(q, i))
             head == IF q.pipe[i].orphan THEN <<>> ELSE << <<i>> >>
             row == [j \in 1..n |-> <<i, j>>]
             H == {pos \in {<<i>>} : ~q.pipe[i].orphan}
             R == {<<i, j>> : j \in 1..n}
             S == H \cup R
  <1>1. n \in Nat /\ DOMAIN Branches(q, i) = 1..n
    BY PipeTypes
  <1>2. head \in Seq(S) /\ Len(head) \in Nat /\ {head[x] : x \in 1..Len(head)} = H
    <2>1. CASE q.pipe[i].orphan
      <3>1. head = <<>> /\ H = {}
        BY <2>1
      <3> QED
        BY <3>1
    <2>2. CASE ~q.pipe[i].orphan
      <3>1. head = << <<i>> >> /\ H = {<<i>>}
        BY <2>2
      <3> HIDE DEF head, R, H
      <3>2. head \in Seq(S) /\ Len(head) = 1 /\ head[1] = <<i>>
        BY <3>1
      <3> QED
        BY <3>1, <3>2
    <2> QED
      BY <2>1, <2>2
  <1>3. row \in Seq(S) /\ Len(row) = n /\ \A x \in 1..n : row[x] = <<i, x>>
    <2>1. \A j \in 1..n : <<i, j>> \in S
      OBVIOUS
    <2> HIDE DEF S, n
    <2>2. [j \in 1..n |-> <<i, j>>] \in Seq(S)
      BY <1>1, <2>1, IsASeq
    <2>3. row \in Seq(S) /\ DOMAIN row = 1..n
      BY <2>2, Zenon
    <2> QED
      BY <1>1, <2>3, LenProperties
  <1>4. ItemPositions(q, i) = head \o row
    BY <1>1 DEF ItemPositions
  <1> HIDE DEF head, row, S, n
  <1> DEFINE u == head \o row
             h == Len(head)
  <1>5. /\ u \in Seq(S) /\ Len(u) = h + n
        /\ \A x \in 1..(h + n) : u[x] = IF x <= h THEN head[x] ELSE row[x - h]
    BY <1>2, <1>3, ConcatProperties
  <1>6. DOMAIN u = 1..(h + n)
    BY <1>5, LenProperties
  <1> HIDE DEF u
  <1>7. ASSUME NEW x \in 1..(h + n) PROVE u[x] \in H \cup R
    <2>1. CASE x <= h
      <3>1. u[x] = head[x] /\ x \in 1..h
        BY <1>2, <1>5, <2>1
      <3> HIDE DEF H
      <3> QED
        BY <1>2, <3>1
    <2>2. CASE ~(x <= h)
      <3>1. x - h \in 1..n
        BY <1>1, <1>2, <2>2
      <3>2. u[x] = <<i, x - h>>
        BY <1>3, <1>5, <2>2, <3>1
      <3> QED
        BY <3>1, <3>2
    <2> QED
      BY <2>1, <2>2
  <1>8. ASSUME NEW pos \in H PROVE \E x \in 1..(h + n) : u[x] = pos
    <2> HIDE DEF H
    <2>1. PICK x \in 1..h : pos = head[x]
      BY <1>2
    <2>2. x \in 1..(h + n) /\ x <= h
      BY <1>1, <1>2
    <2> QED
      BY <1>5, <2>1, <2>2
  <1>9. ASSUME NEW pos \in R PROVE \E x \in 1..(h + n) : u[x] = pos
    <2>1. PICK j \in 1..n : pos = <<i, j>>
      OBVIOUS
    <2>2. h + j \in 1..(h + n) /\ ~(h + j <= h) /\ h + j - h = j
      BY <1>1, <1>2
    <2>3. u[h + j] = row[j]
      BY <1>5, <2>2
    <2> QED
      BY <1>3, <2>1, <2>2, <2>3
  <1> HIDE DEF H, R
  <1>10. ToSet(u) = H \cup R
    BY <1>6, <1>7, <1>8, <1>9 DEF ToSet
  <1> QED
    BY <1>1, <1>4, <1>5, <1>10 DEF u, S, H, R

(* What stays of the numbering whatever starts. *)
LEMMA SameItems ==
  ASSUME NEW q, NEW new, new.pipe = q.pipe
  PROVE  /\ \A i : Branches(new, i) = Branches(q, i)
         /\ \A i, j : Inner(new, i, j) = Inner(q, i, j)
         /\ \A pos : IsPosition(new, pos) <=> IsPosition(q, pos)
  <1>1. \A i : Branches(new, i) = Branches(q, i)
    BY DEF Branches
  <1>2. \A i, j : Inner(new, i, j) = Inner(q, i, j)
    BY <1>1 DEF Inner
  <1> QED
    BY <1>1, <1>2 DEF IsPosition

(* StartItem *)
LEMMA ItemNumbered ==
  ASSUME NEW q, Numbered(q), NEW i \in DOMAIN q.pipe, i = ItemsStarted(q) + 1,
         NEW new, new.pipe = q.pipe, new.ids = Added(q, ItemPositions(q, i)),
         new.next = q.next + Len(ItemPositions(q, i))
  PROVE  Numbered(new)
  <1> DEFINE D == DOMAIN q.ids
             N == {pos \in {<<i>>} : ~q.pipe[i].orphan} \cup {<<i, j>> : j \in DOMAIN Branches(q, i)}
  <1>1. /\ q.pipe \in Pipelines /\ Len(q.pipe) \in Nat /\ DOMAIN q.pipe = 1..Len(q.pipe)
        /\ \A k \in DOMAIN q.pipe : q.pipe[k].orphan \in BOOLEAN
    BY PipeTypes DEF Numbered
  <1>2. ItemPositions(q, i) \in Seq(ToSet(ItemPositions(q, i))) /\ ToSet(ItemPositions(q, i)) = N
    BY <1>1, ItemPlaces
  <1>3. /\ new.next \in Nat \ {0} /\ DOMAIN new.ids = D \cup N
        /\ new.ids \in [DOMAIN new.ids -> 1..(new.next - 1)]
        /\ \A a, b \in DOMAIN new.ids : new.ids[a] = new.ids[b] => a = b
    <2> DEFINE positions == ItemPositions(q, i)
    <2> HIDE DEF positions
    <2>1. positions \in Seq(ToSet(positions))
      BY <1>2 DEF positions
    <2>2. LET ids == Added(q, positions)
              next == q.next + Len(positions)
          IN  /\ next \in Nat \ {0}
              /\ DOMAIN ids = DOMAIN q.ids \cup ToSet(positions)
              /\ ids \in [DOMAIN ids -> 1..(next - 1)]
              /\ \A a, b \in DOMAIN ids : ids[a] = ids[b] => a = b
      BY <2>1, AddedIds
    <2>3. new.ids = Added(q, positions) /\ new.next = q.next + Len(positions) /\ ToSet(positions) = N
      BY <1>2 DEF positions
    <2> HIDE DEF N
    <2> QED
      BY <2>2, <2>3
  <1>4. ItemsUpTo(q, i - 1) /\ i \in Nat
    BY <1>1, StartedAre
  <1>5. \A pos : IsPosition(new, pos) <=> IsPosition(q, pos)
    BY SameItems
  <1>6. /\ \A k : Branches(new, k) = Branches(q, k)
        /\ \A k, j : Inner(new, k, j) = Inner(q, k, j)
    BY SameItems
  <1>7. \A pos \in D \cup N : IsPosition(q, pos)
    <2>1. \A pos \in D : IsPosition(q, pos)
      BY DEF Numbered
    <2>2. \A pos \in N : IsPosition(q, pos)
      BY DEF IsPosition
    <2> QED
      BY <2>1, <2>2
  <1>8. ItemsUpTo(new, i)
    <2> SUFFICES ASSUME NEW k \in DOMAIN q.pipe
                 PROVE  /\ ~q.pipe[k].orphan => (<<k>> \in D \cup N <=> k <= i)
                        /\ \A j \in DOMAIN Branches(q, k) : <<k, j>> \in D \cup N <=> k <= i
      BY <1>3, <1>6 DEF ItemsUpTo
    <2>1. k \in Nat /\ (k <= i <=> k <= i - 1 \/ k = i)
      BY <1>1, <1>4
    <2>2. ASSUME ~q.pipe[k].orphan PROVE <<k>> \in D \cup N <=> k <= i
      <3>1. <<k>> \in D <=> k <= i - 1
        BY <1>4, <2>2 DEF ItemsUpTo
      <3>2. <<k>> \in N <=> k = i
        BY <2>2
      <3> HIDE DEF D, N
      <3> QED
        BY <2>1, <3>1, <3>2
    <2>3. ASSUME NEW j \in DOMAIN Branches(q, k) PROVE <<k, j>> \in D \cup N <=> k <= i
      <3>1. <<k, j>> \in D <=> k <= i - 1
        BY <1>4, <2>3 DEF ItemsUpTo
      <3>2. <<k, j>> \in N <=> k = i
        OBVIOUS
      <3> HIDE DEF D, N
      <3> QED
        BY <2>1, <3>1, <3>2
    <2> QED
      BY <2>2, <2>3
  <1>9. \A k, j, l : <<k, j, l>> \notin N
    OBVIOUS
  <1> HIDE DEF N, D
  <1>10. ASSUME NEW k \in DOMAIN q.pipe, NEW j \in DOMAIN Branches(q, k)
         PROVE  /\ \E m \in 0..Len(Inner(q, k, j)) : InnerUpTo(new, k, j, m)
                /\ \A l \in DOMAIN Inner(q, k, j) :
                     <<k, j, l>> \in D \cup N => <<k, j>> \in D \cup N
    <2>1. PICK m \in 0..Len(Inner(q, k, j)) : InnerUpTo(q, k, j, m)
      BY DEF Numbered
    <2>2. InnerUpTo(new, k, j, m)
      BY <1>3, <1>6, <1>9, <2>1 DEF InnerUpTo, D
    <2>3. \A l \in DOMAIN Inner(q, k, j) : <<k, j, l>> \in D => <<k, j>> \in D
      BY DEF Numbered, D
    <2> QED
      BY <1>9, <2>2, <2>3
  <1>11. i \in 0..Len(q.pipe)
    BY <1>1
  <1> QED
    BY <1>1, <1>3, <1>5, <1>6, <1>7, <1>8, <1>10, <1>11 DEF Numbered

(* StartInner *)
LEMMA InnerNumbered ==
  ASSUME NEW q, Numbered(q), NEW i, NEW j, <<i, j>> \in DOMAIN q.ids,
         NEW k \in DOMAIN Inner(q, i, j), k = InnerStarted(q, i, j) + 1,
         NEW new, new.pipe = q.pipe, new.ids = Added(q, << <<i, j, k>> >>),
         new.next = q.next + 1
  PROVE  Numbered(new)
  <1> DEFINE D == DOMAIN q.ids
             N == {<<i, j, k>>}
             positions == << <<i, j, k>> >>
  <1>1. i \in DOMAIN q.pipe /\ j \in DOMAIN Branches(q, i)
    <2>1. IsPosition(q, <<i, j>>)
      BY DEF Numbered
    <2> QED
      BY <2>1 DEF IsPosition
  <1>2. /\ q.pipe \in Pipelines /\ Len(q.pipe) \in Nat /\ DOMAIN q.pipe = 1..Len(q.pipe)
        /\ Len(Inner(q, i, j)) \in Nat /\ DOMAIN Inner(q, i, j) = 1..Len(Inner(q, i, j))
    BY <1>1, PipeTypes DEF Numbered
  <1>3. positions \in Seq(N) /\ Len(positions) = 1 /\ ToSet(positions) = N
    BY DEF ToSet
  <1>4. /\ new.next \in Nat \ {0} /\ DOMAIN new.ids = D \cup N
        /\ new.ids \in [DOMAIN new.ids -> 1..(new.next - 1)]
        /\ \A a, b \in DOMAIN new.ids : new.ids[a] = new.ids[b] => a = b
    <2>1. new.ids = Added(q, positions) /\ new.next = q.next + Len(positions)
      BY <1>3
    <2> HIDE DEF positions, N
    <2>2. LET ids == Added(q, positions)
              next == q.next + Len(positions)
          IN  /\ next \in Nat \ {0}
              /\ DOMAIN ids = DOMAIN q.ids \cup ToSet(positions)
              /\ ids \in [DOMAIN ids -> 1..(next - 1)]
              /\ \A a, b \in DOMAIN ids : ids[a] = ids[b] => a = b
      BY <1>3, AddedIds
    <2> QED
      BY <1>3, <2>1, <2>2
  <1>5. \A pos : IsPosition(new, pos) <=> IsPosition(q, pos)
    BY SameItems
  <1>6. /\ \A a : Branches(new, a) = Branches(q, a)
        /\ \A a, b : Inner(new, a, b) = Inner(q, a, b)
    BY SameItems
  <1>7. \A pos \in D \cup N : IsPosition(q, pos)
    <2>1. \A pos \in D : IsPosition(q, pos)
      BY DEF Numbered
    <2>2. IsPosition(q, <<i, j, k>>)
      BY <1>1 DEF IsPosition
    <2> QED
      BY <2>1, <2>2
  <1>8. \A a : <<a>> \notin N
    OBVIOUS
  <1>9. \A a, b : <<a, b>> \notin N
    OBVIOUS
  <1>10. \A a, b, c : <<a, b, c>> \in N <=> a = i /\ b = j /\ c = k
    OBVIOUS
  <1> HIDE DEF N, D
  <1>11. \E m \in 0..Len(q.pipe) : ItemsUpTo(new, m)
    <2>1. PICK m \in 0..Len(q.pipe) : ItemsUpTo(q, m)
      BY DEF Numbered
    <2>2. ItemsUpTo(new, m)
      BY <1>4, <1>6, <1>8, <1>9, <2>1 DEF ItemsUpTo, D
    <2> QED
      BY <2>2
  <1>12. ASSUME NEW a \in DOMAIN q.pipe, NEW b \in DOMAIN Branches(q, a)
         PROVE  \E m \in 0..Len(Inner(q, a, b)) : InnerUpTo(new, a, b, m)
    <2>1. PICK m \in 0..Len(Inner(q, a, b)) : InnerUpTo(q, a, b, m)
      BY DEF Numbered
    <2>2. CASE ~(a = i /\ b = j)
      <3>1. InnerUpTo(new, a, b, m)
        BY <1>4, <1>6, <1>10, <2>1, <2>2 DEF InnerUpTo, D
      <3> QED
        BY <3>1
    <2>3. CASE a = i /\ b = j
      <3>1. m = k - 1
        <4>1. InnerStarted(q, a, b) = m
          BY <2>1, InnerCounted
        <4> QED
          BY <1>2, <2>3, <4>1
      <3>2. InnerUpTo(new, a, b, k)
        <4> SUFFICES ASSUME NEW l \in DOMAIN Inner(q, i, j)
                     PROVE  <<i, j, l>> \in D \cup N <=> l <= k
          BY <1>4, <1>6, <2>3 DEF InnerUpTo
        <4>1. <<i, j, l>> \in D <=> l <= k - 1
          BY <2>1, <2>3, <3>1 DEF InnerUpTo, D
        <4>2. l \in Nat /\ k \in Nat
          BY <1>2
        <4> QED
          BY <1>10, <4>1, <4>2
      <3>3. k \in 0..Len(Inner(q, a, b))
        BY <1>2, <2>3
      <3> QED
        BY <3>2, <3>3
    <2> QED
      BY <2>2, <2>3
  <1>13. ASSUME NEW a \in DOMAIN q.pipe, NEW b \in DOMAIN Branches(q, a),
                NEW l \in DOMAIN Inner(q, a, b), <<a, b, l>> \in D \cup N
         PROVE  <<a, b>> \in D \cup N
    <2>1. CASE <<a, b, l>> \in D
      BY <2>1 DEF Numbered, D
    <2>2. CASE <<a, b, l>> \in N
      BY <1>10, <2>2 DEF D
    <2> QED
      BY <1>13, <2>1, <2>2
  <1> QED
    BY <1>2, <1>4, <1>5, <1>6, <1>7, <1>11, <1>12, <1>13 DEF Numbered

IsRun(q) ==
  q = [pipe |-> q.pipe, ids |-> q.ids, ended |-> q.ended, next |-> q.next, result |-> q.result]

(* The inductive invariant: every run numbers what it has started. *)
RunsNumbered ==
  /\ Len(run) \in Nat /\ run = [r \in 1..Len(run) |-> run[r]]
  /\ \A r \in 1..Len(run) : IsRun(run[r]) /\ Numbered(run[r])

(* A run is added. *)
LEMMA RunBegins ==
  ASSUME RunsNumbered, NEW q, IsRun(q), Numbered(q), run' = Append(run, q)
  PROVE  RunsNumbered'
  <1> DEFINE n == Len(run)
             S == {run[r] : r \in 1..n} \cup {q}
  <1>1. n \in Nat /\ run = [r \in 1..n |-> run[r]]
    BY DEF RunsNumbered
  <1>2. run \in Seq(S)
    <2>1. \A r \in 1..n : run[r] \in S
      OBVIOUS
    <2> HIDE DEF S, n
    <2>2. [r \in 1..n |-> run[r]] \in Seq(S)
      BY <1>1, <2>1, IsASeq
    <2> QED
      BY <1>1, <2>2, Zenon
  <1>3. /\ run' \in Seq(S) /\ Len(run') = n + 1
        /\ \A r \in 1..n : run'[r] = run[r]
        /\ run'[n + 1] = q
    BY <1>2, AppendProperties
  <1>4. run' = [r \in 1..Len(run') |-> run'[r]]
    BY <1>3, LenProperties
  <1>5. ASSUME NEW r \in 1..Len(run') PROVE IsRun(run'[r]) /\ Numbered(run'[r])
    <2>1. r \in 1..n \/ r = n + 1
      BY <1>1, <1>3
    <2>2. CASE r \in 1..n
      BY <1>3, <2>2 DEF RunsNumbered
    <2>3. CASE r = n + 1
      BY <1>3, <2>3
    <2> QED
      BY <2>1, <2>2, <2>3
  <1>6. (\A r \in 1..Len(run) : IsRun(run[r]) /\ Numbered(run[r]))'
    BY <1>5 DEF IsRun, Numbered, IsPosition, ItemsUpTo, InnerUpTo, Branches, Inner
  <1>7. (Len(run) \in Nat /\ run = [r \in 1..Len(run) |-> run[r]])'
    BY <1>1, <1>3, <1>4
  <1> QED
    BY <1>6, <1>7 DEF RunsNumbered

(* Changes of the fields of a run. *)
LEMMA ChangedIds ==
  ASSUME NEW q, IsRun(q), NEW x, NEW y
  PROVE  [q EXCEPT !.ids = x, !.next = y]
           = [pipe |-> q.pipe, ids |-> x, ended |-> q.ended, next |-> y, result |-> q.result]
  <1>1. PICK a, b, c, d, e :
          q = [pipe |-> a, ids |-> b, ended |-> c, next |-> d, result |-> e]
    BY DEF IsRun
  <1>2. q.pipe = a /\ q.ended = c /\ q.result = e
    BY <1>1
  <1>3. [q EXCEPT !.ids = x] = [pipe |-> a, ids |-> x, ended |-> c, next |-> d, result |-> e]
    BY <1>1
  <1>4. [[pipe |-> a, ids |-> x, ended |-> c, next |-> d, result |-> e] EXCEPT !.next = y]
          = [pipe |-> a, ids |-> x, ended |-> c, next |-> y, result |-> e]
    OBVIOUS
  <1>5. [q EXCEPT !.ids = x, !.next = y] = [[q EXCEPT !.ids = x] EXCEPT !.next = y]
    BY Zenon
  <1> QED
    BY <1>2, <1>3, <1>4, <1>5

LEMMA ChangedElse ==
  ASSUME NEW q, IsRun(q), NEW x
  PROVE  /\ [q EXCEPT !.ended = x]
              = [pipe |-> q.pipe, ids |-> q.ids, ended |-> x, next |-> q.next, result |-> q.result]
         /\ [q EXCEPT !.next = x]
              = [pipe |-> q.pipe, ids |-> q.ids, ended |-> q.ended, next |-> x, result |-> q.result]
         /\ [q EXCEPT !.result = x]
              = [pipe |-> q.pipe, ids |-> q.ids, ended |-> q.ended, next |-> q.next, result |-> x]
  <1>1. PICK a, b, c, d, e :
          q = [pipe |-> a, ids |-> b, ended |-> c, next |-> d, result |-> e]
    BY DEF IsRun
  <1>2. q.pipe = a /\ q.ids = b /\ q.ended = c /\ q.next = d /\ q.result = e
    BY <1>1
  <1>3. [q EXCEPT !.ended = x] = [pipe |-> a, ids |-> b, ended |-> x, next |-> d, result |-> e]
    BY <1>1
  <1>4. [q EXCEPT !.next = x] = [pipe |-> a, ids |-> b, ended |-> c, next |-> x, result |-> e]
    BY <1>1
  <1>5. [q EXCEPT !.result = x] = [pipe |-> a, ids |-> b, ended |-> c, next |-> d, result |-> x]
    BY <1>1
  <1> QED
    BY <1>2, <1>3, <1>4, <1>5

(* A run changes. *)
LEMMA RunChanges ==
  ASSUME RunsNumbered, NEW r \in DOMAIN run, NEW q, IsRun(q), Numbered(q),
         run' = [run EXCEPT ![r] = q]
  PROVE  RunsNumbered'
  <1> DEFINE n == Len(run)
  <1>1. n \in Nat /\ run = [x \in 1..n |-> run[x]] /\ DOMAIN run = 1..n
    BY DEF RunsNumbered
  <1>2. run' = [x \in 1..n |-> run'[x]] /\ \A x \in 1..n : run'[x] = IF x = r THEN q ELSE run[x]
    BY <1>1
  <1>3. Len(run') = n
    BY <1>1, <1>2, LenProperties, SeqDef
  <1>4. ASSUME NEW x \in 1..n PROVE IsRun(run'[x]) /\ Numbered(run'[x])
    <2>1. CASE x = r
      BY <1>2, <2>1
    <2>2. CASE x # r
      BY <1>2, <2>2 DEF RunsNumbered
    <2> QED
      BY <2>1, <2>2
  <1>5. (\A x \in 1..Len(run) : IsRun(run[x]) /\ Numbered(run[x]))'
    BY <1>3, <1>4 DEF IsRun, Numbered, IsPosition, ItemsUpTo, InnerUpTo, Branches, Inner
  <1>6. (Len(run) \in Nat /\ run = [x \in 1..Len(run) |-> run[x]])'
    BY <1>1, <1>2, <1>3
  <1> QED
    BY <1>5, <1>6 DEF RunsNumbered

(* What Start makes of a run. *)
Begun(q, positions) == [q EXCEPT !.ids = Added(q, positions), !.next = @ + Len(positions)]

(* Start, as a change of one run. *)
LEMMA Starts ==
  ASSUME RunsNumbered, NEW r \in DOMAIN run, NEW positions, Start(r, positions)
  PROVE  /\ run' = [run EXCEPT ![r] = Begun(run[r], positions)]
         /\ IsRun(Begun(run[r], positions))
         /\ Begun(run[r], positions).pipe = run[r].pipe
         /\ Begun(run[r], positions).ids = Added(run[r], positions)
         /\ Begun(run[r], positions).next = run[r].next + Len(positions)
  <1> DEFINE q == run[r]
             new == Begun(q, positions)
             ids == Added(q, positions)
  <1>1. IsRun(q)
    BY DEF RunsNumbered
  <1>2. run' = [run EXCEPT ![r].ids = ids, ![r].next = @ + Len(positions)]
    BY DEF Start, Added
  <1> HIDE DEF ids
  <1>3. new = [pipe |-> q.pipe, ids |-> ids, ended |-> q.ended, next |-> q.next + Len(positions),
               result |-> q.result]
    <2> DEFINE next == q.next + Len(positions)
    <2> HIDE DEF q, next
    <2>1. [q EXCEPT !.ids = ids, !.next = next]
            = [pipe |-> q.pipe, ids |-> ids, ended |-> q.ended, next |-> next, result |-> q.result]
      BY <1>1, ChangedIds, Zenon
    <2>2. new = [q EXCEPT !.ids = ids, !.next = next]
      BY Zenon DEF Begun, ids, next
    <2> QED
      BY <2>1, <2>2 DEF next
  <1>4. run' = [run EXCEPT ![r] = new]
    BY <1>2 DEF Begun, ids
  <1> QED
    BY <1>3, <1>4 DEF IsRun, ids

LEMMA StartItemNumbers ==
  ASSUME RunsNumbered, NEW r \in DOMAIN run, StartItem(r)
  PROVE  RunsNumbered'
  <1> DEFINE q == run[r]
             i == ItemsStarted(q) + 1
             positions == ItemPositions(q, i)
  <1>1. i \in DOMAIN q.pipe /\ Start(r, positions)
    BY DEF StartItem, ItemPositions
  <1>2. Numbered(q)
    BY DEF RunsNumbered
  <1> HIDE DEF positions
  <1>3. /\ run' = [run EXCEPT ![r] = Begun(q, positions)] /\ IsRun(Begun(q, positions))
        /\ Begun(q, positions).pipe = q.pipe /\ Begun(q, positions).ids = Added(q, positions)
        /\ Begun(q, positions).next = q.next + Len(positions)
    BY <1>1, Starts
  <1>4. Numbered(Begun(q, positions))
    BY <1>1, <1>2, <1>3, ItemNumbered DEF positions
  <1> QED
    BY <1>3, <1>4, RunChanges

LEMMA StartInnerNumbers ==
  ASSUME RunsNumbered, NEW r \in DOMAIN run, NEW i, NEW j, StartInner(r, i, j)
  PROVE  RunsNumbered'
  <1> DEFINE q == run[r]
             k == InnerStarted(q, i, j) + 1
             positions == << <<i, j, k>> >>
  <1>1. <<i, j>> \in DOMAIN q.ids /\ k \in DOMAIN Inner(q, i, j) /\ Start(r, positions)
    BY DEF StartInner
  <1>2. Numbered(q) /\ Len(positions) = 1
    BY DEF RunsNumbered
  <1> HIDE DEF positions
  <1>3. /\ run' = [run EXCEPT ![r] = Begun(q, positions)] /\ IsRun(Begun(q, positions))
        /\ Begun(q, positions).pipe = q.pipe /\ Begun(q, positions).ids = Added(q, positions)
        /\ Begun(q, positions).next = q.next + Len(positions)
    BY <1>1, Starts
  <1>4. Numbered(Begun(q, positions))
    BY <1>1, <1>2, <1>3, InnerNumbered DEF positions
  <1> QED
    BY <1>3, <1>4, RunChanges

(* A step that starts nothing: the run keeps its pipeline and its ids. *)
LEMMA NothingStarts ==
  ASSUME RunsNumbered, NEW r \in DOMAIN run, NEW endings, NEW next, NEW result,
         next = run[r].next \/ next = run[r].next + 1,
         run' = [run EXCEPT ![r] = [pipe |-> run[r].pipe, ids |-> run[r].ids, ended |-> endings,
                                    next |-> next, result |-> result]]
  PROVE  RunsNumbered'
  <1> DEFINE q == [pipe |-> run[r].pipe, ids |-> run[r].ids, ended |-> endings,
                   next |-> next, result |-> result]
  <1>1. Numbered(run[r])
    BY DEF RunsNumbered
  <1>2. q.pipe = run[r].pipe /\ q.ids = run[r].ids /\ q.next = next /\ IsRun(q)
    BY DEF IsRun
  <1> HIDE DEF q
  <1>3. Numbered(q)
    BY <1>1, <1>2, StillNumbered
  <1>4. run' = [run EXCEPT ![r] = q]
    BY DEF q
  <1> QED
    BY <1>2, <1>3, <1>4, RunChanges

(* Every step keeps the numbering. *)
LEMMA NextNumbers ==
  ASSUME RunsNumbered, [GraphNext]_graphVars
  PROVE  RunsNumbered'
  <1>1. CASE Launch
    <2>1. PICK p \in Pipelines :
            run' = Append(run, [pipe |-> p, ids |-> <<>>, ended |-> <<>>, next |-> 1,
                                result |-> Unknown])
      BY <1>1 DEF Launch
    <2> DEFINE q == [pipe |-> p, ids |-> <<>>, ended |-> <<>>, next |-> 1, result |-> Unknown]
    <2>2. IsRun(q)
      BY DEF IsRun
    <2>3. q.pipe \in Pipelines /\ q.ids = <<>> /\ q.next = 1
      OBVIOUS
    <2> HIDE DEF q
    <2>4. Numbered(q)
      BY <2>3, NoneNumbered
    <2>5. run' = Append(run, q)
      BY <2>1 DEF q
    <2> QED
      BY <2>2, <2>4, <2>5, RunBegins
  <1>2. ASSUME NEW r \in DOMAIN run, StartItem(r) PROVE RunsNumbered'
    BY <1>2, StartItemNumbers
  <1>3. ASSUME NEW r \in DOMAIN run, NEW i, NEW j, StartInner(r, i, j) PROVE RunsNumbered'
    BY <1>3, StartInnerNumbers
  <1>4. ASSUME NEW r \in DOMAIN run, NEW leaf, NEW result, Finish(r, leaf, result)
        PROVE  RunsNumbered'
    <2>1. IsRun(run[r])
      BY DEF RunsNumbered
    <2>2. PICK endings : run' = [run EXCEPT ![r].ended = endings]
      BY <1>4 DEF Finish
    <2>3. run' = [run EXCEPT ![r] = [pipe |-> run[r].pipe, ids |-> run[r].ids, ended |-> endings,
                                     next |-> run[r].next, result |-> run[r].result]]
      BY <2>1, <2>2, ChangedElse
    <2> QED
      BY <2>3, NothingStarts
  <1>5. ASSUME NEW r \in DOMAIN run, Step(r) PROVE RunsNumbered'
    <2>1. IsRun(run[r])
      BY DEF RunsNumbered
    <2>2. run' = [run EXCEPT ![r] = [pipe |-> run[r].pipe, ids |-> run[r].ids,
                                     ended |-> run[r].ended, next |-> run[r].next + 1,
                                     result |-> run[r].result]]
      BY <1>5, <2>1, ChangedElse DEF Step
    <2> QED
      BY <2>2, NothingStarts
  <1>6. ASSUME NEW r \in DOMAIN run, EndRun(r) PROVE RunsNumbered'
    <2>1. IsRun(run[r])
      BY DEF RunsNumbered
    <2>2. PICK result : run' = [run EXCEPT ![r].result = result]
      BY <1>6 DEF EndRun
    <2>3. run' = [run EXCEPT ![r] = [pipe |-> run[r].pipe, ids |-> run[r].ids,
                                     ended |-> run[r].ended, next |-> run[r].next,
                                     result |-> result]]
      <3>1. run' = [run EXCEPT ![r] = [run[r] EXCEPT !.result = result]]
        BY <2>2
      <3>2. [run[r] EXCEPT !.result = result]
              = [pipe |-> run[r].pipe, ids |-> run[r].ids, ended |-> run[r].ended,
                 next |-> run[r].next, result |-> result]
        BY <2>1, ChangedElse, Zenon
      <3> QED
        BY <3>1, <3>2
    <2> QED
      BY <2>3, NothingStarts
  <1>7. CASE UNCHANGED graphVars
    <2>1. run' = run
      BY <1>7 DEF graphVars
    <2>2. (Len(run) \in Nat /\ run = [x \in 1..Len(run) |-> run[x]])'
      BY <2>1 DEF RunsNumbered
    <2>3. (\A x \in 1..Len(run) : IsRun(run[x]) /\ Numbered(run[x]))'
      <3>1. \A x \in 1..Len(run) : IsRun(run[x]) /\ Numbered(run[x])
        BY DEF RunsNumbered
      <3>2. \A x \in 1..Len(run') : IsRun(run'[x]) /\ Numbered(run'[x])
        BY <2>1, <3>1
      <3> QED
        BY <3>2 DEF IsRun, Numbered, IsPosition, ItemsUpTo, InnerUpTo, Branches, Inner
    <2> QED
      BY <2>2, <2>3 DEF RunsNumbered
  <1> QED
    BY <1>1, <1>2, <1>3, <1>4, <1>5, <1>6, <1>7 DEF GraphNext

(* Whatever runs, overlaps and fails, a run numbers each place once, items  *)
(* and stages of branches in their order.                                   *)
THEOREM RunsNumberedHolds == GraphSpec => []RunsNumbered
  <1>1. GraphInit => RunsNumbered
    <2> SUFFICES ASSUME GraphInit PROVE RunsNumbered
      OBVIOUS
    <2>1. run = <<>> /\ Len(run) = 0
      BY DEF GraphInit
    <2>2. run = [x \in 1..Len(run) |-> run[x]]
      BY <2>1
    <2> QED
      BY <2>1, <2>2 DEF RunsNumbered
  <1>2. RunsNumbered /\ [GraphNext]_graphVars => RunsNumbered'
    BY NextNumbers
  <1> QED
    BY <1>1, <1>2, PTL DEF GraphSpec

(* What RunShown says of one run. *)
ShownAsIs(own, answer) ==
  /\ Cardinality({n.id : n \in ToSet(answer)}) = Len(answer)
  /\ \A n \in ToSet(own) : \E m \in ToSet(answer) :
       m.id = n.id /\ m.name = n.name /\ m.type = n.type /\ m.state = n.state
  /\ \A m \in ToSet(answer) : m.state = Unknown \/ \E n \in ToSet(own) : n.id = m.id

(* The graph of a run alone. *)
LEMMA OwnShown ==
  ASSUME NEW q, Numbered(q)
  PROVE  ShownAsIs(PipelineNodes(q), PipelineNodes(q))
  <1> DEFINE own == PipelineNodes(q)
  <1>1. own \in Seq(AnyNode(q)) /\ Distinct(own)
    BY NodesDistinct
  <1> HIDE DEF own
  <1>2. Cardinality({n.id : n \in ToSet(own)}) = Len(own)
    BY <1>1, DistinctCount
  <1> QED
    BY <1>2 DEF ShownAsIs, own

(* The graph of a run united with an earlier one. *)
LEMMA UnionShown ==
  ASSUME NEW q, NEW q0, Numbered(q), Numbered(q0), ~Twins(PipelineNodes(q)),
         Compatible(PipelineNodes(q), PipelineNodes(q0))
  PROVE  ShownAsIs(PipelineNodes(q), Union(PipelineNodes(q), PipelineNodes(q0)))
  <1> DEFINE cur == PipelineNodes(q)
             old == PipelineNodes(q0)
             u == Union(cur, old)
             S == AnyNode(q) \cup AnyNode(q0)
             T == {u[i] : i \in 1..Len(old)}
  <1>1. /\ cur \in Seq(AnyNode(q)) /\ Distinct(cur)
        /\ old \in Seq(AnyNode(q0)) /\ Distinct(old)
    BY NodesDistinct
  <1>2. \A n \in S : IsNode(n)
    BY AnyIsNode
  <1> HIDE DEF cur, old, u
  <1>3. cur \in Seq(S) /\ old \in Seq(S)
    BY <1>1, SeqDef
  <1> HIDE DEF S
  <1>4. ~Twins(cur) /\ Compatible(cur, old)
    BY DEF cur, old
  <1>5. LET v == Union(cur, old)
        IN  /\ v = [i \in 1..Len(old) |-> v[i]] /\ Distinct(v)
            /\ \A y \in 1..Len(cur) : \E i \in 1..Len(old) :
                 /\ v[i].id = cur[y].id /\ v[i].name = cur[y].name
                 /\ v[i].type = cur[y].type /\ v[i].state = cur[y].state
            /\ \A i \in 1..Len(old) :
                 v[i].state = Unknown \/ \E y \in 1..Len(cur) : cur[y].id = v[i].id
    BY <1>1, <1>2, <1>3, <1>4, UnionShows
  <1>6. /\ u = [i \in 1..Len(old) |-> u[i]] /\ Distinct(u)
        /\ \A y \in 1..Len(cur) : \E i \in 1..Len(old) :
             /\ u[i].id = cur[y].id /\ u[i].name = cur[y].name
             /\ u[i].type = cur[y].type /\ u[i].state = cur[y].state
        /\ \A i \in 1..Len(old) :
             u[i].state = Unknown \/ \E y \in 1..Len(cur) : cur[y].id = u[i].id
    BY <1>5 DEF u
  <1>7. Len(old) \in Nat /\ DOMAIN cur = 1..Len(cur)
    BY <1>1, LenProperties
  <1>8. DOMAIN u = 1..Len(old)
    BY <1>6
  <1>9. u \in Seq(T)
    <2>1. \A i \in 1..Len(old) : u[i] \in T
      OBVIOUS
    <2> HIDE DEF T
    <2>2. [i \in 1..Len(old) |-> u[i]] \in Seq(T)
      BY <1>7, <2>1, IsASeq
    <2> QED
      BY <1>6, <2>2, Zenon
  <1>10. Cardinality({n.id : n \in ToSet(u)}) = Len(u)
    <2> HIDE DEF T
    <2> QED
      BY <1>6, <1>9, DistinctCount
  <1>11. ASSUME NEW n \in ToSet(cur)
         PROVE  \E m \in ToSet(u) :
                  m.id = n.id /\ m.name = n.name /\ m.type = n.type /\ m.state = n.state
    <2>1. PICK y \in 1..Len(cur) : n = cur[y]
      BY <1>7 DEF ToSet
    <2>2. PICK i \in 1..Len(old) : /\ u[i].id = cur[y].id /\ u[i].name = cur[y].name
                                   /\ u[i].type = cur[y].type /\ u[i].state = cur[y].state
      BY <1>6
    <2>3. u[i] \in ToSet(u)
      BY <1>8 DEF ToSet
    <2> QED
      BY <2>1, <2>2, <2>3
  <1>12. ASSUME NEW m \in ToSet(u)
         PROVE  m.state = Unknown \/ \E n \in ToSet(cur) : n.id = m.id
    <2>1. PICK i \in 1..Len(old) : m = u[i]
      BY <1>8 DEF ToSet
    <2>2. \A y \in 1..Len(cur) : cur[y] \in ToSet(cur)
      BY <1>7 DEF ToSet
    <2> QED
      BY <1>6, <2>1, <2>2
  <1> QED
    BY <1>10, <1>11, <1>12 DEF ShownAsIs, u, cur, old

(* PipelineNodeGraphVisitor.union: no id is answered twice, what a run has  *)
(* started is shown as it is, and what is added has not started.            *)
THEOREM RunShownHolds == GraphSpec => []RunShown
  <1>1. RunsNumbered => RunShown
    <2> SUFFICES ASSUME RunsNumbered, NEW r \in DOMAIN run, ~Twins(PipelineNodes(run[r]))
                 PROVE  ShownAsIs(PipelineNodes(run[r]), Nodes(r))
      BY DEF RunShown, ShownAsIs
    <2>1. DOMAIN run = 1..Len(run) /\ Len(run) \in Nat /\ \A x \in 1..Len(run) : Numbered(run[x])
      BY DEF RunsNumbered
    <2>2. CASE ~United(r)
      BY <2>1, <2>2, OwnShown DEF Nodes
    <2>3. CASE United(r)
      <3> DEFINE q0 == run[LastSuccessful]
      <3>1. LastSuccessful \in 1..(r - 1)
        BY <2>3 DEF United
      <3>2. Numbered(run[r]) /\ Numbered(q0)
        BY <2>1, <3>1
      <3>3. Nodes(r) = Union(PipelineNodes(run[r]), PipelineNodes(q0))
        BY <2>3 DEF Nodes
      <3> HIDE DEF q0
      <3>4. CASE Compatible(PipelineNodes(run[r]), PipelineNodes(q0))
        BY <3>2, <3>3, <3>4, UnionShown
      <3>5. CASE ~Compatible(PipelineNodes(run[r]), PipelineNodes(q0))
        <4>1. Nodes(r) = PipelineNodes(run[r])
          BY <3>3, <3>5 DEF Union
        <4> QED
          BY <3>2, <4>1, OwnShown
      <3> QED
        BY <3>4, <3>5
    <2> QED
      BY <2>2, <2>3
  <1> QED
    BY <1>1, RunsNumberedHolds, PTL

-----------------------------------------------------------------------------
(* What is drawn of a graph: convertJenkinsNodeGraph.                       *)

(* Array.filter *)
LEMMA FilterKeeps ==
  ASSUME NEW T, NEW s \in Seq(T), NEW kept
  PROVE  LET t == Filter(s, kept)
         IN  /\ t \in Seq(T)
             /\ \A y \in 1..Len(t) : t[y] \in kept /\ \E x \in 1..Len(s) : t[y] = s[x]
             /\ \A x \in 1..Len(s) : s[x] \in kept => Len(t) # 0
             /\ (\A x \in 1..Len(s) : s[x] \notin kept) => t = <<>>
  <1> DEFINE n == Len(s)
             seqs == [x \in 1..n |-> IF s[x] \in kept THEN <<s[x]>> ELSE <<>>]
             t == FlattenSeq(seqs)
  <1>1. n \in Nat /\ DOMAIN s = 1..n /\ \A x \in 1..n : s[x] \in T
    BY LenProperties, ElementOfSeq
  <1>2. Filter(s, kept) = t
    BY <1>1 DEF Filter
  <1>3. \A x \in 1..n : seqs[x] \in Seq(T)
    <2>1. ASSUME NEW x \in 1..n PROVE seqs[x] \in Seq(T)
      <3>1. <<s[x]>> \in Seq(T)
        BY <1>1
      <3>2. <<>> \in Seq(T)
        BY EmptySeq
      <3> QED
        BY <3>1, <3>2
    <2> QED
      BY <2>1
  <1>4. seqs \in Seq(Seq(T)) /\ Len(seqs) = n
    <2>1. seqs = [x \in 1..n |-> seqs[x]] /\ DOMAIN seqs = 1..n
      OBVIOUS
    <2> HIDE DEF seqs, n
    <2> DEFINE U == Seq(T)
    <2> HIDE DEF U
    <2>2. \A x \in 1..n : seqs[x] \in U
      BY <1>3 DEF U
    <2>3. [x \in 1..n |-> seqs[x]] \in Seq(U)
      BY <1>1, <2>2, IsASeq
    <2>4. seqs \in Seq(U)
      BY <2>1, <2>3, Zenon
    <2> QED
      BY <1>1, <2>1, <2>4, LenProperties DEF U
  <1>5. \A x \in 1..n : /\ s[x] \in kept => Len(seqs[x]) = 1 /\ seqs[x][1] = s[x]
                        /\ s[x] \notin kept => Len(seqs[x]) = 0
    OBVIOUS
  <1> HIDE DEF seqs, t
  <1>6. /\ t \in Seq(T)
        /\ \A i \in 1..n : \A x \in 1..Len(seqs[i]) : \E y \in 1..Len(t) : t[y] = seqs[i][x]
        /\ \A y \in 1..Len(t) : \E i \in 1..n : \E x \in 1..Len(seqs[i]) : t[y] = seqs[i][x]
    <2>1. /\ FlattenSeq(seqs) \in Seq(T)
          /\ \A i \in 1..Len(seqs) : \A x \in 1..Len(seqs[i]) :
               \E y \in 1..Len(FlattenSeq(seqs)) : FlattenSeq(seqs)[y] = seqs[i][x]
          /\ \A y \in 1..Len(FlattenSeq(seqs)) :
               \E i \in 1..Len(seqs) : \E x \in 1..Len(seqs[i]) : FlattenSeq(seqs)[y] = seqs[i][x]
      <3> DEFINE U == T
      <3> HIDE DEF U
      <3>1. seqs \in Seq(Seq(U))
        BY <1>4 DEF U
      <3> DEFINE t0 == FlattenSeq(seqs)
      <3>2. /\ t0 \in Seq(U)
            /\ \A i \in 1..Len(seqs) : \A x \in 1..Len(seqs[i]) :
                 \E y \in 1..Len(t0) : t0[y] = seqs[i][x]
            /\ \A y \in 1..Len(t0) :
                 \E i \in 1..Len(seqs) : \E x \in 1..Len(seqs[i]) : t0[y] = seqs[i][x]
            /\ Len(seqs) # 0 /\ Len(seqs[1]) # 0 => Len(t0) # 0 /\ t0[1] = seqs[1][1]
        BY <3>1, FlattenKeeps, Zenon
      <3> QED
        BY <3>2 DEF U
    <2> QED
      BY <1>4, <2>1 DEF t
  <1>7. Len(t) \in Nat
    BY <1>6, LenProperties
  <1>8. ASSUME NEW y \in 1..Len(t)
        PROVE  t[y] \in kept /\ \E x \in 1..n : t[y] = s[x]
    <2>1. PICK i \in 1..n : \E x \in 1..Len(seqs[i]) : t[y] = seqs[i][x]
      BY <1>6
    <2>2. PICK x \in 1..Len(seqs[i]) : t[y] = seqs[i][x]
      BY <2>1
    <2>3. s[i] \in kept
      BY <1>5, <2>2
    <2>4. x = 1
      BY <1>5, <2>2, <2>3
    <2> QED
      BY <1>5, <2>2, <2>3, <2>4
  <1>9. ASSUME NEW x \in 1..n, s[x] \in kept PROVE Len(t) # 0
    <2>1. 1 \in 1..Len(seqs[x])
      BY <1>5, <1>9
    <2>2. \E y \in 1..Len(t) : t[y] = seqs[x][1]
      BY <1>6, <2>1
    <2> QED
      BY <1>7, <2>2
  <1>10. ASSUME \A x \in 1..n : s[x] \notin kept PROVE t = <<>>
    <2>1. ~\E y \in 1..Len(t) : TRUE
      BY <1>8, <1>10
    <2>2. Len(t) = 0
      BY <1>7, <2>1
    <2> QED
      BY <1>6, <2>2, EmptySeq
  <1> QED
    BY <1>2, <1>6, <1>8, <1>9, <1>10

(* Array.filter of what is kept altogether. *)
LEMMA FilterAll ==
  ASSUME NEW T, NEW s \in Seq(T), NEW kept, \A x \in 1..Len(s) : s[x] \in kept
  PROVE  Filter(s, kept) = s
  <1> DEFINE n == Len(s)
             seqs == [x \in 1..n |-> <<s[x]>>]
  <1>1. n \in Nat /\ DOMAIN s = 1..n /\ \A x \in 1..n : s[x] \in T
    BY LenProperties, ElementOfSeq
  <1>2. Filter(s, kept) = FlattenSeq(seqs)
    <2>1. [x \in DOMAIN s |-> IF s[x] \in kept THEN <<s[x]>> ELSE <<>>] = seqs
      BY <1>1
    <2> HIDE DEF seqs
    <2> QED
      BY <2>1 DEF Filter
  <1>3. \A x \in 1..n : seqs[x] \in Seq(T) /\ seqs[x] = <<s[x]>>
    BY <1>1
  <1>4. seqs \in Seq(Seq(T)) /\ Len(seqs) = n
    <2>1. seqs = [x \in 1..n |-> seqs[x]] /\ DOMAIN seqs = 1..n
      OBVIOUS
    <2> HIDE DEF seqs, n
    <2> DEFINE U == Seq(T)
    <2> HIDE DEF U
    <2>2. \A x \in 1..n : seqs[x] \in U
      BY <1>3 DEF U
    <2>3. [x \in 1..n |-> seqs[x]] \in Seq(U)
      BY <1>1, <2>2, IsASeq
    <2>4. seqs \in Seq(U)
      BY <2>1, <2>3, Zenon
    <2> QED
      BY <1>1, <2>1, <2>4, LenProperties DEF U
  <1> HIDE DEF seqs
  <1>5. CASE n = 0
    <2>1. s = <<>> /\ seqs = <<>>
      BY <1>4, <1>5, EmptySeq
    <2> QED
      BY <1>2, <2>1 DEF FlattenSeq
  <1>6. CASE n # 0
    <2>1. PICK f : /\ FlattenSeq(seqs) = f[n] /\ f[1] = seqs[1]
                   /\ \A i \in 2..n : f[i] = f[i - 1] \o seqs[i]
      <3>1. Len(seqs) # 0 /\ seqs \in Seq(Seq(T))
        BY <1>4, <1>6
      <3>2. \E f : /\ FlattenSeq(seqs) = f[Len(seqs)] /\ f[1] = seqs[1]
                   /\ \A i \in 2..Len(seqs) : f[i] = f[i - 1] \o seqs[i]
        BY <3>1, FlattenSteps
      <3> QED
        BY <1>4, <3>2
    <2> DEFINE Holds(m) == f[m] \in Seq(T) /\ Len(f[m]) = m /\ \A x \in 1..m : f[m][x] = s[x]
               Bad == {m \in 1..n : ~Holds(m)}
    <2>2. Bad = {}
      <3> SUFFICES ASSUME Bad # {} PROVE FALSE
        OBVIOUS
      <3>1. PICK m \in Bad : \A k \in Bad : m <= k
        <4>1. Bad \in SUBSET Nat
          <5>1. Bad \subseteq 1..n
            BY Zenon
          <5> HIDE DEF Bad
          <5> QED
            BY <1>1, <5>1
        <4> HIDE DEF Bad
        <4> QED
          BY <4>1, LeastExists
      <3>2. m \in 1..n /\ ~Holds(m)
        BY Zenon
      <3>3. CASE m = 1
        <4>1. f[1] = <<s[1]>> /\ s[1] \in T
          BY <1>1, <1>3, <1>6, <2>1
        <4> QED
          BY <3>2, <3>3, <4>1
      <3>4. CASE m # 1
        <4>1. m - 1 \in 1..n /\ m \in 2..n /\ ~(m <= m - 1)
          BY <1>1, <3>2, <3>4
        <4>2. Holds(m - 1)
          <5>1. m - 1 \notin Bad
            <6> HIDE DEF Bad
            <6> QED
              BY <3>1, <4>1
          <5> HIDE DEF Holds
          <5> QED
            BY <4>1, <5>1
        <4> DEFINE a == f[m - 1]
                   b == <<s[m]>>
                   c == f[m]
        <4>3. /\ c = a \o b /\ a \in Seq(T) /\ b \in Seq(T) /\ Len(a) = m - 1 /\ Len(b) = 1
              /\ b[1] = s[m] /\ \A x \in 1..(m - 1) : a[x] = s[x]
          BY <1>1, <1>3, <2>1, <3>2, <4>1, <4>2
        <4> HIDE DEF a, b, c, Bad
        <4>4. /\ c \in Seq(T) /\ Len(c) = Len(a) + Len(b)
              /\ \A y \in 1..(Len(a) + Len(b)) :
                   c[y] = IF y <= Len(a) THEN a[y] ELSE b[y - Len(a)]
          BY <4>3, ConcatProperties
        <4>5. Len(a) + Len(b) = m
          BY <3>2, <4>3
        <4>6. ASSUME NEW x \in 1..m PROVE c[x] = s[x]
          <5>1. CASE x <= m - 1
            BY <3>2, <4>3, <4>4, <4>5, <5>1
          <5>2. CASE ~(x <= m - 1)
            <6>1. x = m /\ x - (m - 1) = 1
              BY <3>2, <5>2
            <6>2. c[m] = b[m - (m - 1)]
              BY <4>3, <4>4, <4>5, <5>2, <6>1
            <6> QED
              BY <4>3, <6>1, <6>2
          <5> QED
            BY <5>1, <5>2
        <4>7. Holds(m)
          BY <4>4, <4>5, <4>6 DEF c
        <4> QED
          BY <3>2, <4>7
      <3> QED
        BY <3>3, <3>4
    <2>3. Holds(n)
      <3> HIDE DEF Holds
      <3> QED
        BY <1>1, <1>6, <2>2
    <2> DEFINE t == f[n]
    <2>4. t \in Seq(T) /\ Len(t) = n /\ \A x \in 1..n : t[x] = s[x]
      BY <2>3
    <2> HIDE DEF t
    <2>5. t = s
      BY <2>4, SeqEqual
    <2> QED
      BY <1>2, <2>1, <2>5 DEF t
  <1> QED
    BY <1>5, <1>6

(* What follows an item: the next one, if it has started. *)
Follows(q, d, i) == IF i < ItemsStarted(q) THEN <<d[<<i + 1>>]>> ELSE <<>>

(* A node is that of an item, a branch or a stage of a branch, if the      *)
(* places of the graph have the ids d.                                     *)
AsItem(q, d, m, i) ==
  /\ m.id = d[<<i>>]
  /\ m.name = (IF q.pipe[i].orphan THEN ParallelName ELSE q.pipe[i].name)
  /\ m.type = "STAGE"
  /\ m.parent = (IF i > 1 /\ Branches(q, i - 1) = <<>> THEN d[<<i - 1>>] ELSE NoNode)
  /\ m.edges = (IF Branches(q, i) = <<>> THEN Follows(q, d, i)
                ELSE [x \in DOMAIN Branches(q, i) |-> d[<<i, ByName(q, i)[x]>>]])
AsBranch(q, d, m, i, j) ==
  /\ m.id = d[<<i, j>>] /\ m.name = Branches(q, i)[j].name /\ m.type = "PARALLEL"
  /\ m.parent = d[<<i>>]
  /\ m.edges = (IF Chain(q, i, j) = 0 THEN Follows(q, d, i) ELSE <<d[<<i, j, 1>>]>>)
AsInner(q, d, m, i, j, k) ==
  /\ m.id = d[<<i, j, k>>] /\ m.name = Inner(q, i, j)[k] /\ m.type = "STAGE"
  /\ m.parent = (IF k = 1 THEN d[<<i, j>>] ELSE d[<<i, j, k - 1>>])
  /\ m.edges = (IF k = Chain(q, i, j) THEN Follows(q, d, i) ELSE <<d[<<i, j, k + 1>>]>>)

Shows(q, d, m, pos) ==
  \/ \E i \in 1..ItemsStarted(q) : pos = <<i>> /\ AsItem(q, d, m, i)
  \/ \E i \in 1..ItemsStarted(q) : \E j \in DOMAIN Branches(q, i) :
       pos = <<i, j>> /\ AsBranch(q, d, m, i, j)
  \/ \E i \in 1..ItemsStarted(q) : \E j \in DOMAIN Branches(q, i) :
       \E k \in 1..Chain(q, i, j) : pos = <<i, j, k>> /\ AsInner(q, d, m, i, j, k)

(* A graph that shows what a run has started, each place with an id of its *)
(* own, the first item first.                                              *)
Drawing(q, d, s) ==
  /\ Len(s) \in Nat /\ s = [x \in 1..Len(s) |-> s[x]] /\ Distinct(s)
  /\ \A a, b : IsPlace(q, a) /\ IsPlace(q, b) /\ d[a] = d[b] => a = b
  /\ \A a : IsPlace(q, a) => d[a] # NoNode
  /\ \A x \in 1..Len(s) : \E pos : Shows(q, d, s[x], pos)
  /\ \A pos : IsPlace(q, pos) => \E x \in 1..Len(s) : s[x].id = d[pos]
  /\ ItemsStarted(q) # 0 => Len(s) # 0 /\ s[1].id = d[<<1>>]

LEMMA ShowsPlace ==
  ASSUME NEW q, NEW d, NEW m, NEW pos, Shows(q, d, m, pos)
  PROVE  IsPlace(q, pos) /\ m.id = d[pos]
  <1>1. CASE \E i \in 1..ItemsStarted(q) : pos = <<i>> /\ AsItem(q, d, m, i)
    <2>1. PICK i \in 1..ItemsStarted(q) : pos = <<i>> /\ AsItem(q, d, m, i)
      BY <1>1
    <2> QED
      BY <2>1 DEF IsPlace, AsItem
  <1>2. CASE \E i \in 1..ItemsStarted(q) : \E j \in DOMAIN Branches(q, i) :
               pos = <<i, j>> /\ AsBranch(q, d, m, i, j)
    <2>1. PICK i \in 1..ItemsStarted(q) : \E j \in DOMAIN Branches(q, i) :
                 pos = <<i, j>> /\ AsBranch(q, d, m, i, j)
      BY <1>2
    <2>2. PICK j \in DOMAIN Branches(q, i) : pos = <<i, j>> /\ AsBranch(q, d, m, i, j)
      BY <2>1
    <2> QED
      BY <2>2 DEF IsPlace, AsBranch
  <1>3. CASE \E i \in 1..ItemsStarted(q) : \E j \in DOMAIN Branches(q, i) :
               \E k \in 1..Chain(q, i, j) : pos = <<i, j, k>> /\ AsInner(q, d, m, i, j, k)
    <2>1. PICK i \in 1..ItemsStarted(q) : \E j \in DOMAIN Branches(q, i) :
               \E k \in 1..Chain(q, i, j) : pos = <<i, j, k>> /\ AsInner(q, d, m, i, j, k)
      BY <1>3
    <2>2. PICK j \in DOMAIN Branches(q, i) :
               \E k \in 1..Chain(q, i, j) : pos = <<i, j, k>> /\ AsInner(q, d, m, i, j, k)
      BY <2>1
    <2>3. PICK k \in 1..Chain(q, i, j) : pos = <<i, j, k>> /\ AsInner(q, d, m, i, j, k)
      BY <2>2
    <2> QED
      BY <2>3 DEF IsPlace, AsInner
  <1> QED
    BY <1>1, <1>2, <1>3 DEF Shows

(* What is shown of each kind of place. *)
LEMMA ShowsKind ==
  ASSUME NEW q, NEW d, NEW m
  PROVE  /\ \A i : Shows(q, d, m, <<i>>) => AsItem(q, d, m, i)
         /\ \A i, j : Shows(q, d, m, <<i, j>>) => AsBranch(q, d, m, i, j)
         /\ \A i, j, k : Shows(q, d, m, <<i, j, k>>) => AsInner(q, d, m, i, j, k)
  <1>1. ASSUME NEW i, Shows(q, d, m, <<i>>) PROVE AsItem(q, d, m, i)
    <2>1. \A a, b : <<i>> # <<a, b>>
      OBVIOUS
    <2>2. \A a, b, c : <<i>> # <<a, b, c>>
      OBVIOUS
    <2>3. PICK a \in 1..ItemsStarted(q) : <<i>> = <<a>> /\ AsItem(q, d, m, a)
      BY <1>1, <2>1, <2>2, Zenon DEF Shows
    <2>4. a = i
      BY <2>3
    <2> QED
      BY <2>3, <2>4
  <1>2. ASSUME NEW i, NEW j, Shows(q, d, m, <<i, j>>) PROVE AsBranch(q, d, m, i, j)
    <2>1. \A a : <<i, j>> # <<a>>
      OBVIOUS
    <2>2. \A a, b, c : <<i, j>> # <<a, b, c>>
      OBVIOUS
    <2>3. \E a \in 1..ItemsStarted(q) : \E b \in DOMAIN Branches(q, a) :
            <<i, j>> = <<a, b>> /\ AsBranch(q, d, m, a, b)
      BY <1>2, <2>1, <2>2, Zenon DEF Shows
    <2>4. PICK a, b : <<i, j>> = <<a, b>> /\ AsBranch(q, d, m, a, b)
      BY <2>3
    <2>5. a = i /\ b = j
      BY <2>4
    <2> QED
      BY <2>4, <2>5
  <1>3. ASSUME NEW i, NEW j, NEW k, Shows(q, d, m, <<i, j, k>>) PROVE AsInner(q, d, m, i, j, k)
    <2>1. \A a : <<i, j, k>> # <<a>>
      OBVIOUS
    <2>2. \A a, b : <<i, j, k>> # <<a, b>>
      OBVIOUS
    <2>3. \E a \in 1..ItemsStarted(q) : \E b \in DOMAIN Branches(q, a) :
            \E c \in 1..Chain(q, a, b) : <<i, j, k>> = <<a, b, c>> /\ AsInner(q, d, m, a, b, c)
      BY <1>3, <2>1, <2>2, Zenon DEF Shows
    <2>4. PICK a, b, c : <<i, j, k>> = <<a, b, c>> /\ AsInner(q, d, m, a, b, c)
      BY <2>3
    <2>5. a = i /\ b = j /\ c = k
      BY <2>4
    <2> QED
      BY <2>4, <2>5
  <1> QED
    BY <1>1, <1>2, <1>3

(* Where a place is, in kinds. *)
LEMMA PlaceKinds ==
  ASSUME NEW q
  PROVE  /\ \A i : IsPlace(q, <<i>>) <=> i \in 1..ItemsStarted(q)
         /\ \A i, j : IsPlace(q, <<i, j>>) <=>
                        i \in 1..ItemsStarted(q) /\ j \in DOMAIN Branches(q, i)
         /\ \A i, j, k : IsPlace(q, <<i, j, k>>) <=>
                        /\ i \in 1..ItemsStarted(q) /\ j \in DOMAIN Branches(q, i)
                        /\ k \in 1..Chain(q, i, j)
  <1>1. \A i : IsPlace(q, <<i>>) <=> i \in 1..ItemsStarted(q)
    <2> SUFFICES ASSUME NEW i PROVE IsPlace(q, <<i>>) <=> i \in 1..ItemsStarted(q)
      OBVIOUS
    <2>1. \A a : <<i>> = <<a>> <=> i = a
      OBVIOUS
    <2>2. \A a, b : <<i>> # <<a, b>>
      OBVIOUS
    <2>3. \A a, b, c : <<i>> # <<a, b, c>>
      OBVIOUS
    <2> QED
      BY <2>1, <2>2, <2>3, Zenon DEF IsPlace
  <1>2. \A i, j : IsPlace(q, <<i, j>>) <=>
                        i \in 1..ItemsStarted(q) /\ j \in DOMAIN Branches(q, i)
    <2> SUFFICES ASSUME NEW i, NEW j
                 PROVE  IsPlace(q, <<i, j>>) <=>
                        i \in 1..ItemsStarted(q) /\ j \in DOMAIN Branches(q, i)
      OBVIOUS
    <2>1. \A a : <<i, j>> # <<a>>
      OBVIOUS
    <2>2. \A a, b : <<i, j>> = <<a, b>> <=> i = a /\ j = b
      OBVIOUS
    <2>3. \A a, b, c : <<i, j>> # <<a, b, c>>
      OBVIOUS
    <2>4. IsPlace(q, <<i, j>>) <=>
            \E a \in 1..ItemsStarted(q) : \E b \in DOMAIN Branches(q, a) : <<i, j>> = <<a, b>>
      BY <2>1, <2>3, Zenon DEF IsPlace
    <2> QED
      BY <2>2, <2>4, Zenon
  <1>3. \A i, j, k : IsPlace(q, <<i, j, k>>) <=>
                        /\ i \in 1..ItemsStarted(q) /\ j \in DOMAIN Branches(q, i)
                        /\ k \in 1..Chain(q, i, j)
    <2> SUFFICES ASSUME NEW i, NEW j, NEW k
                 PROVE  IsPlace(q, <<i, j, k>>) <=>
                        /\ i \in 1..ItemsStarted(q) /\ j \in DOMAIN Branches(q, i)
                        /\ k \in 1..Chain(q, i, j)
      OBVIOUS
    <2>1. \A a : <<i, j, k>> # <<a>>
      OBVIOUS
    <2>2. \A a, b : <<i, j, k>> # <<a, b>>
      OBVIOUS
    <2>3. \A a, b, c : <<i, j, k>> = <<a, b, c>> <=> i = a /\ j = b /\ k = c
      OBVIOUS
    <2>4. IsPlace(q, <<i, j, k>>) <=>
            \E a \in 1..ItemsStarted(q) : \E b \in DOMAIN Branches(q, a) :
              \E c \in 1..Chain(q, a, b) : <<i, j, k>> = <<a, b, c>>
      BY <2>1, <2>2, Zenon DEF IsPlace
    <2> QED
      BY <2>3, <2>4, Zenon
  <1> QED
    BY <1>1, <1>2, <1>3

(* Array.find by the id: NodeOf *)
LEMMA NodeAt ==
  ASSUME NEW q, NEW d, NEW s, Drawing(q, d, s), NEW pos, IsPlace(q, pos)
  PROVE  /\ NodeOf(s, d[pos]) \in ToSet(s) /\ Shows(q, d, NodeOf(s, d[pos]), pos)
         /\ NodeOf(s, d[pos]).id = d[pos]
  <1> DEFINE id == d[pos]
             I == {x \in 1..Len(s) : s[x].id = id}
             at == SelectInSeq(s, LAMBDA n : n.id = id)
  <1>1. at = IF I # {} THEN Min(I) ELSE 0
    BY Zenon DEF SelectInSeq
  <1>2. Len(s) \in Nat /\ DOMAIN s = 1..Len(s) /\ I \in SUBSET Nat
    BY DEF Drawing
  <1>3. I # {}
    BY DEF Drawing
  <1>4. \E x \in I : \A y \in I : x <= y
    <2> HIDE DEF I
    <2> QED
      BY <1>2, <1>3, LeastExists
  <1>5. Min(I) \in I
    BY <1>4, Zenon DEF Min
  <1>6. at \in 1..Len(s) /\ s[at].id = id
    <2>1. at \in I
      BY <1>1, <1>3, <1>5, Zenon
    <2> QED
      BY <2>1, Zenon
  <1>7. NodeOf(s, id) = s[at]
    BY Zenon DEF NodeOf
  <1> HIDE DEF at, I
  <1>8. PICK p : Shows(q, d, s[at], p)
    BY <1>6 DEF Drawing
  <1>9. IsPlace(q, p) /\ s[at].id = d[p]
    BY <1>8, ShowsPlace
  <1>10. p = pos
    BY <1>6, <1>9 DEF Drawing
  <1>11. s[at] \in ToSet(s)
    BY <1>2, <1>6 DEF ToSet
  <1> QED
    BY <1>6, <1>7, <1>8, <1>10, <1>11

(* The ids of a graph are those of its places. *)
LEMMA IdsArePlaces ==
  ASSUME NEW q, NEW d, NEW s, Drawing(q, d, s)
  PROVE  /\ \A n \in ToSet(s) : \E pos : IsPlace(q, pos) /\ Shows(q, d, n, pos)
         /\ \A pos : IsPlace(q, pos) => d[pos] \in {n.id : n \in ToSet(s)}
         /\ NoNode \notin {n.id : n \in ToSet(s)}
  <1>1. DOMAIN s = 1..Len(s)
    BY DEF Drawing
  <1>2. ASSUME NEW n \in ToSet(s) PROVE \E pos : IsPlace(q, pos) /\ Shows(q, d, n, pos)
    <2>1. PICK x \in 1..Len(s) : n = s[x]
      BY <1>1 DEF ToSet
    <2>2. PICK pos : Shows(q, d, n, pos)
      BY <2>1 DEF Drawing
    <2> QED
      BY <2>2, ShowsPlace
  <1>3. ASSUME NEW n \in ToSet(s) PROVE \E pos : IsPlace(q, pos) /\ n.id = d[pos]
    BY <1>2, ShowsPlace
  <1>4. ASSUME NEW pos, IsPlace(q, pos) PROVE \E n \in ToSet(s) : n.id = d[pos]
    BY <1>4, NodeAt
  <1>5. \A n \in ToSet(s) : n.id # NoNode
    BY <1>3 DEF Drawing
  <1> QED
    BY <1>2, <1>3, <1>4, <1>5

(* What a graph shows at each place. *)
LEMMA NodesAre ==
  ASSUME NEW q, NEW d, NEW s, Drawing(q, d, s)
  PROVE  /\ \A i \in 1..ItemsStarted(q) : AsItem(q, d, NodeOf(s, d[<<i>>]), i)
         /\ \A i \in 1..ItemsStarted(q) : \A j \in DOMAIN Branches(q, i) :
              /\ AsBranch(q, d, NodeOf(s, d[<<i, j>>]), i, j)
              /\ \A k \in 1..Chain(q, i, j) : AsInner(q, d, NodeOf(s, d[<<i, j, k>>]), i, j, k)
  <1>1. ASSUME NEW i \in 1..ItemsStarted(q) PROVE AsItem(q, d, NodeOf(s, d[<<i>>]), i)
    <2>1. IsPlace(q, <<i>>)
      BY PlaceKinds
    <2> QED
      BY <2>1, NodeAt, ShowsKind
  <1>2. ASSUME NEW i \in 1..ItemsStarted(q), NEW j \in DOMAIN Branches(q, i)
        PROVE  AsBranch(q, d, NodeOf(s, d[<<i, j>>]), i, j)
    <2>1. IsPlace(q, <<i, j>>)
      BY PlaceKinds
    <2> QED
      BY <2>1, NodeAt, ShowsKind
  <1>3. ASSUME NEW i \in 1..ItemsStarted(q), NEW j \in DOMAIN Branches(q, i),
               NEW k \in 1..Chain(q, i, j)
        PROVE  AsInner(q, d, NodeOf(s, d[<<i, j, k>>]), i, j, k)
    <2>1. IsPlace(q, <<i, j, k>>)
      BY PlaceKinds
    <2> QED
      BY <2>1, NodeAt, ShowsKind
  <1> QED
    BY <1>1, <1>2, <1>3

(* What has started, in numbers: a branch has started fewer stages than    *)
(* Jenkins has given numbers.                                              *)
LEMMA PlacesCounted ==
  ASSUME NEW q, Numbered(q)
  PROVE  /\ ItemsStarted(q) \in Nat /\ ItemsStarted(q) <= Len(q.pipe) /\ q.next \in Nat
         /\ \A i \in 1..ItemsStarted(q) :
              /\ i \in Nat /\ i \in DOMAIN q.pipe
              /\ Len(Branches(q, i)) \in Nat /\ DOMAIN Branches(q, i) = 1..Len(Branches(q, i))
              /\ \A j \in DOMAIN Branches(q, i) :
                   /\ j \in Nat /\ Chain(q, i, j) \in Nat /\ Chain(q, i, j) # 1
                   /\ Chain(q, i, j) < q.next
                   /\ InnerStarted(q, i, j) \in 0..Len(Inner(q, i, j))
  <1>1. /\ q.pipe \in Pipelines /\ Len(q.pipe) \in Nat /\ DOMAIN q.pipe = 1..Len(q.pipe)
        /\ q.next \in Nat \ {0} /\ q.ids \in [DOMAIN q.ids -> 1..(q.next - 1)]
        /\ \A a, b \in DOMAIN q.ids : q.ids[a] = q.ids[b] => a = b
    BY PipeTypes DEF Numbered
  <1>2. ItemsStarted(q) \in 0..Len(q.pipe)
    BY StartedAre
  <1>3. ASSUME NEW i \in 1..ItemsStarted(q)
        PROVE  /\ i \in Nat /\ i \in DOMAIN q.pipe
               /\ Len(Branches(q, i)) \in Nat /\ DOMAIN Branches(q, i) = 1..Len(Branches(q, i))
    <2>1. i \in Nat /\ i \in DOMAIN q.pipe
      BY <1>1, <1>2
    <2> QED
      BY <1>1, <2>1, PipeTypes
  <1>4. ASSUME NEW i \in 1..ItemsStarted(q), NEW j \in DOMAIN Branches(q, i)
        PROVE  /\ j \in Nat /\ Chain(q, i, j) \in Nat /\ Chain(q, i, j) # 1
               /\ Chain(q, i, j) < q.next
               /\ InnerStarted(q, i, j) \in 0..Len(Inner(q, i, j))
    <2>1. i \in DOMAIN q.pipe /\ j \in Nat
      BY <1>3
    <2>2. Len(Inner(q, i, j)) \in Nat
      BY <1>1, <2>1, PipeTypes
    <2>3. PICK k \in 0..Len(Inner(q, i, j)) : InnerUpTo(q, i, j, k)
      BY <2>1 DEF Numbered
    <2>4. InnerStarted(q, i, j) = k /\ k \in Nat
      BY <2>1, <2>2, <2>3, InnerCounted
    <2>5. Chain(q, i, j) \in Nat /\ Chain(q, i, j) # 1
      BY <2>4 DEF Chain
    <2> DEFINE c == Chain(q, i, j)
               n == q.next - 1
               id == [l \in 1..c |-> q.ids[<<i, j, l>>]]
    <2>6. \A l \in 1..c : <<i, j, l>> \in DOMAIN q.ids
      BY <2>1, StartedAre
    <2>7. id \in Injection(1..c, 1..n)
      <3>1. id \in [1..c -> 1..n]
        BY <1>1, <2>6
      <3>2. ASSUME NEW x \in 1..c, NEW y \in 1..c, id[x] = id[y] PROVE x = y
        <4>1. <<i, j, x>> = <<i, j, y>>
          BY <1>1, <2>6, <3>2
        <4> QED
          BY <4>1
      <3> HIDE DEF id
      <3> QED
        BY <3>1, <3>2 DEF Injection, IsInjective
    <2>8. /\ IsFiniteSet(1..n) /\ Cardinality(1..n) = n /\ Cardinality(1..c) = c
      <3>1. n \in Nat /\ c \in Nat
        BY <1>1, <2>5
      <3> HIDE DEF n, c
      <3>2. \A m \in Nat : IsFiniteSet(1..m) /\ Cardinality(1..m) = IF 1 > m THEN 0 ELSE m - 1 + 1
        BY FS_Interval
      <3>3. \A m \in Nat : (IF 1 > m THEN 0 ELSE m - 1 + 1) = m
        OBVIOUS
      <3> QED
        BY <3>1, <3>2, <3>3
    <2> HIDE DEF id
    <2>9. c <= n
      <3> HIDE DEF c, n
      <3>1. Cardinality(1..c) <= Cardinality(1..n)
        BY <2>7, <2>8, FS_Injection
      <3> QED
        BY <2>8, <3>1
    <2> QED
      BY <1>1, <2>1, <2>2, <2>4, <2>5, <2>9
  <1> QED
    BY <1>1, <1>2, <1>3, <1>4

(* The order of the places in a run: an item, its branches, their stages,  *)
(* the next item.                                                          *)
Rank(q, pos) ==
  pos[1] * (q.next + 1) + (IF Len(pos) = 1 THEN 0 ELSE IF Len(pos) = 2 THEN 1 ELSE 1 + pos[3])

LEMMA RankGrows ==
  ASSUME NEW q, Numbered(q), NEW i \in 1..ItemsStarted(q)
  PROVE  /\ Rank(q, <<i>>) \in Nat
         /\ Rank(q, <<i>>) <= (ItemsStarted(q) + 1) * (q.next + 1)
         /\ Rank(q, <<i>>) < Rank(q, <<i + 1>>)
         /\ \A j \in DOMAIN Branches(q, i) :
              /\ Rank(q, <<i, j>>) \in Nat
              /\ Rank(q, <<i, j>>) <= (ItemsStarted(q) + 1) * (q.next + 1)
              /\ Rank(q, <<i>>) < Rank(q, <<i, j>>)
              /\ Rank(q, <<i, j>>) < Rank(q, <<i, j, 1>>)
              /\ Rank(q, <<i, j>>) < Rank(q, <<i + 1>>)
              /\ \A k \in 1..Chain(q, i, j) :
                   /\ Rank(q, <<i, j, k>>) \in Nat
                   /\ Rank(q, <<i, j, k>>) <= (ItemsStarted(q) + 1) * (q.next + 1)
                   /\ Rank(q, <<i, j, k>>) < Rank(q, <<i, j, k + 1>>)
                   /\ Rank(q, <<i, j, k>>) < Rank(q, <<i + 1>>)
  <1> DEFINE K == q.next + 1
             n == ItemsStarted(q)
             p == i * K
             t == (n + 1) * K
  <1>1. /\ n \in Nat /\ i \in Nat /\ i <= n /\ K \in Nat /\ K > 0
        /\ \A j \in DOMAIN Branches(q, i) : Chain(q, i, j) \in Nat /\ Chain(q, i, j) < q.next
        /\ q.next \in Nat
    BY PlacesCounted
  <1>2. q.next + 1 = K
    OBVIOUS
  <1> HIDE DEF K
  <1>3. (i + 1) * K = p + K /\ p \in Nat
    BY <1>1
  <1>4. p + K <= t /\ t \in Nat
    <2>1. n - i \in Nat /\ t = p + K + (n - i) * K
      BY <1>1
    <2>2. (n - i) * K \in Nat
      BY <1>1, <2>1
    <2> HIDE DEF p, t
    <2> QED
      BY <1>1, <1>3, <2>1, <2>2
  <1>5. /\ Rank(q, <<i>>) = p /\ Rank(q, <<i + 1>>) = (i + 1) * K
        /\ \A j : Rank(q, <<i, j>>) = p + 1
        /\ \A j, k : Rank(q, <<i, j, k>>) = p + (1 + k)
    <2> HIDE DEF p
    <2>1. Rank(q, <<i>>) = p + 0
      BY <1>2 DEF Rank, p
    <2>2. Rank(q, <<i + 1>>) = (i + 1) * K + 0
      BY <1>2 DEF Rank
    <2>3. \A j : Rank(q, <<i, j>>) = p + 1
      BY <1>2 DEF Rank, p
    <2>4. \A j, k : Rank(q, <<i, j, k>>) = p + (1 + k)
      BY <1>2 DEF Rank, p
    <2> QED
      BY <1>1, <1>3, <2>1, <2>2, <2>3, <2>4
  <1>6. (n + 1) * (q.next + 1) = t
    BY <1>2
  <1> HIDE DEF p, t
  <1>7. Rank(q, <<i>>) \in Nat /\ Rank(q, <<i>>) <= t /\ Rank(q, <<i>>) < Rank(q, <<i + 1>>)
    BY <1>1, <1>3, <1>4, <1>5
  <1>8. ASSUME NEW j \in DOMAIN Branches(q, i)
        PROVE  /\ Rank(q, <<i, j>>) \in Nat /\ Rank(q, <<i, j>>) <= t
               /\ Rank(q, <<i>>) < Rank(q, <<i, j>>)
               /\ Rank(q, <<i, j>>) < Rank(q, <<i, j, 1>>)
               /\ Rank(q, <<i, j>>) < Rank(q, <<i + 1>>)
    <2>1. K > 1
      BY <1>1, <1>2
    <2> QED
      BY <1>1, <1>3, <1>4, <1>5, <2>1
  <1>9. ASSUME NEW j \in DOMAIN Branches(q, i), NEW k \in 1..Chain(q, i, j)
        PROVE  /\ Rank(q, <<i, j, k>>) \in Nat /\ Rank(q, <<i, j, k>>) <= t
               /\ Rank(q, <<i, j, k>>) < Rank(q, <<i, j, k + 1>>)
               /\ Rank(q, <<i, j, k>>) < Rank(q, <<i + 1>>)
    <2>1. k \in Nat /\ 1 + k < K
      BY <1>1, <1>2
    <2>2. Rank(q, <<i, j, k>>) = p + (1 + k) /\ Rank(q, <<i, j, k + 1>>) = p + (1 + (k + 1))
      BY <1>5
    <2> QED
      BY <1>1, <1>3, <1>4, <1>5, <2>1, <2>2
  <1> QED
    BY <1>6, <1>7, <1>8, <1>9

(* The ids of a graph in that order. *)
Ranks(q, d, s, rank, B) ==
  LET ids == {n.id : n \in ToSet(s)}
  IN  /\ rank \in [ids -> Nat] /\ B \in Nat
      /\ \A id \in ids : rank[id] <= B
      /\ \A p : IsPlace(q, p) => d[p] \in ids /\ rank[d[p]] = Rank(q, p)

LEMMA RanksExist ==
  ASSUME NEW q, Numbered(q), NEW d, NEW s, Drawing(q, d, s)
  PROVE  \E rank, B : Ranks(q, d, s, rank, B)
  <1> DEFINE ids == {n.id : n \in ToSet(s)}
             place(id) == CHOOSE pos : IsPlace(q, pos) /\ id = d[pos]
             rank == [id \in ids |-> Rank(q, place(id))]
             B == (ItemsStarted(q) + 1) * (q.next + 1)
  <1>1. /\ \A id \in ids : \E pos : IsPlace(q, pos) /\ id = d[pos]
        /\ \A pos : IsPlace(q, pos) => d[pos] \in ids
    <2>1. \A n \in ToSet(s) : \E pos : IsPlace(q, pos) /\ n.id = d[pos]
      <3>1. \A n \in ToSet(s) : \E pos : IsPlace(q, pos) /\ Shows(q, d, n, pos)
        BY IdsArePlaces, Zenon
      <3>2. ASSUME NEW n \in ToSet(s) PROVE \E pos : IsPlace(q, pos) /\ n.id = d[pos]
        <4>1. PICK pos : Shows(q, d, n, pos)
          BY <3>1
        <4> QED
          BY <4>1, ShowsPlace
      <3> QED
        BY <3>2
    <2>2. \A pos : IsPlace(q, pos) => d[pos] \in {n.id : n \in ToSet(s)}
      BY IdsArePlaces
    <2> QED
      BY <2>1, <2>2
  <1>2. ASSUME NEW pos, IsPlace(q, pos) PROVE Rank(q, pos) \in Nat /\ Rank(q, pos) <= B
    <2>1. CASE \E i \in 1..ItemsStarted(q) : pos = <<i>>
      BY <2>1, RankGrows
    <2>2. CASE \E i \in 1..ItemsStarted(q) : \E j \in DOMAIN Branches(q, i) : pos = <<i, j>>
      <3>1. PICK i \in 1..ItemsStarted(q) : \E j \in DOMAIN Branches(q, i) : pos = <<i, j>>
        BY <2>2
      <3> QED
        BY <3>1, RankGrows
    <2>3. CASE \E i \in 1..ItemsStarted(q) : \E j \in DOMAIN Branches(q, i) :
                 \E k \in 1..Chain(q, i, j) : pos = <<i, j, k>>
      <3>1. PICK i \in 1..ItemsStarted(q) : \E j \in DOMAIN Branches(q, i) :
                   \E k \in 1..Chain(q, i, j) : pos = <<i, j, k>>
        BY <2>3
      <3>2. PICK j \in DOMAIN Branches(q, i) : \E k \in 1..Chain(q, i, j) : pos = <<i, j, k>>
        BY <3>1
      <3> QED
        BY <3>2, RankGrows
    <2> QED
      BY <1>2, <2>1, <2>2, <2>3 DEF IsPlace
  <1>3. B \in Nat
    <2>1. ItemsStarted(q) + 1 \in Nat /\ q.next + 1 \in Nat
      BY PlacesCounted
    <2> QED
      BY <2>1
  <1> HIDE DEF B, ids
  <1>4. ASSUME NEW id \in ids PROVE IsPlace(q, place(id)) /\ id = d[place(id)]
    BY <1>1, Zenon
  <1>5. ASSUME NEW pos, IsPlace(q, pos) PROVE rank[d[pos]] = Rank(q, pos)
    <2>1. d[pos] \in ids
      BY <1>1, <1>5
    <2>2. place(d[pos]) = pos
      <3> HIDE DEF place
      <3> QED
        BY <1>4, <1>5, <2>1 DEF Drawing
    <2> QED
      BY <2>1, <2>2
  <1>6. \A id \in ids : Rank(q, place(id)) \in Nat /\ Rank(q, place(id)) <= B
    BY <1>2, <1>4
  <1> HIDE DEF place
  <1>7. rank \in [ids -> Nat] /\ \A id \in ids : rank[id] <= B
    BY <1>6
  <1> HIDE DEF rank
  <1> QED
    BY <1>1, <1>3, <1>5, <1>7 DEF ids, Ranks

LEMMA FollowsLead ==
  ASSUME NEW q, Numbered(q), NEW d, NEW s, Drawing(q, d, s), NEW i \in 1..ItemsStarted(q)
  PROVE  /\ Follows(q, d, i) \in Seq({n.id : n \in ToSet(s)})
         /\ Len(Follows(q, d, i)) = (IF i < ItemsStarted(q) THEN 1 ELSE 0)
         /\ i < ItemsStarted(q) => /\ i + 1 \in 1..ItemsStarted(q)
                                   /\ Follows(q, d, i)[1] = d[<<i + 1>>]
         /\ ~(i < ItemsStarted(q)) => i = ItemsStarted(q) /\ Follows(q, d, i) = <<>>
  <1> DEFINE ids == {n.id : n \in ToSet(s)}
  <1>1. ItemsStarted(q) \in Nat
    BY PlacesCounted
  <1>2. CASE i < ItemsStarted(q)
    <2>1. i + 1 \in 1..ItemsStarted(q)
      BY <1>1, <1>2
    <2>2. d[<<i + 1>>] \in ids
      <3>1. IsPlace(q, <<i + 1>>)
        BY <2>1, PlaceKinds
      <3> QED
        BY <3>1, IdsArePlaces
    <2>3. Follows(q, d, i) = <<d[<<i + 1>>]>>
      BY <1>2 DEF Follows
    <2> HIDE DEF ids
    <2>4. Follows(q, d, i) \in Seq(ids)
      BY <2>2, <2>3
    <2> QED
      BY <1>2, <2>1, <2>3, <2>4 DEF ids
  <1>3. CASE ~(i < ItemsStarted(q))
    <2>1. Follows(q, d, i) = <<>> /\ i = ItemsStarted(q)
      BY <1>1, <1>3 DEF Follows
    <2>2. <<>> \in Seq(ids) /\ Len(<<>>) = 0
      BY EmptySeq
    <2> QED
      BY <1>3, <2>1, <2>2
  <1> QED
    BY <1>2, <1>3

(* A list of the ids of places further on. *)
LeadsOn(q, d, s, edges, pos) ==
  /\ edges \in Seq({n.id : n \in ToSet(s)})
  /\ \A x \in 1..Len(edges) :
       \E p : IsPlace(q, p) /\ edges[x] = d[p] /\ Rank(q, pos) < Rank(q, p)

LEMMA FollowsLeads ==
  ASSUME NEW q, Numbered(q), NEW d, NEW s, Drawing(q, d, s), NEW i \in 1..ItemsStarted(q),
         NEW pos, Rank(q, pos) < Rank(q, <<i + 1>>)
  PROVE  LeadsOn(q, d, s, Follows(q, d, i), pos)
  <1>1. /\ Follows(q, d, i) \in Seq({n.id : n \in ToSet(s)})
        /\ Len(Follows(q, d, i)) = (IF i < ItemsStarted(q) THEN 1 ELSE 0)
        /\ i < ItemsStarted(q) => /\ i + 1 \in 1..ItemsStarted(q)
                                  /\ Follows(q, d, i)[1] = d[<<i + 1>>]
    BY FollowsLead
  <1>2. ASSUME NEW x \in 1..Len(Follows(q, d, i))
        PROVE  \E p : IsPlace(q, p) /\ Follows(q, d, i)[x] = d[p] /\ Rank(q, pos) < Rank(q, p)
    <2>1. x = 1 /\ i < ItemsStarted(q)
      BY <1>1
    <2>2. IsPlace(q, <<i + 1>>)
      BY <1>1, <2>1, PlaceKinds
    <2> QED
      BY <1>1, <2>1, <2>2
  <1> QED
    BY <1>1, <1>2 DEF LeadsOn

LEMMA OneLeads ==
  ASSUME NEW q, NEW d, NEW s, Drawing(q, d, s), NEW p, IsPlace(q, p),
         NEW pos, Rank(q, pos) < Rank(q, p)
  PROVE  LeadsOn(q, d, s, <<d[p]>>, pos)
  <1> DEFINE ids == {n.id : n \in ToSet(s)}
  <1>1. d[p] \in ids
    BY IdsArePlaces
  <1>2. Len(<<d[p]>>) = 1 /\ <<d[p]>>[1] = d[p]
    OBVIOUS
  <1> HIDE DEF ids
  <1>3. <<d[p]>> \in Seq(ids)
    BY <1>1
  <1>4. \A x \in 1..Len(<<d[p]>>) : <<d[p]>>[x] = d[p]
    BY <1>2
  <1> QED
    BY <1>3, <1>4 DEF LeadsOn, ids

(* The edges of a node lead to what comes later. *)
LEMMA EdgesLead ==
  ASSUME NEW q, Numbered(q), NEW d, NEW s, Drawing(q, d, s), NEW pos, IsPlace(q, pos)
  PROVE  LeadsOn(q, d, s, NodeOf(s, d[pos]).edges, pos)
  <1> DEFINE m == NodeOf(s, d[pos])
             ids == {n.id : n \in ToSet(s)}
  <1>1. ASSUME NEW i \in 1..ItemsStarted(q), pos = <<i>> PROVE LeadsOn(q, d, s, m.edges, pos)
    <2>1. AsItem(q, d, m, i)
      BY <1>1, NodesAre
    <2>2. CASE Branches(q, i) = <<>>
      <3>1. m.edges = Follows(q, d, i)
        BY <2>1, <2>2 DEF AsItem
      <3>2. Rank(q, pos) < Rank(q, <<i + 1>>)
        BY <1>1, RankGrows
      <3> QED
        BY <3>1, <3>2, FollowsLeads
    <2>3. CASE Branches(q, i) # <<>>
      <3> DEFINE b == Len(Branches(q, i))
      <3>1. m.edges = [x \in DOMAIN Branches(q, i) |-> d[<<i, ByName(q, i)[x]>>]]
        BY <2>1, <2>3 DEF AsItem
      <3>2. b \in Nat /\ DOMAIN Branches(q, i) = 1..b /\ i \in DOMAIN q.pipe
        BY PlacesCounted
      <3>3. ByName(q, i) \in [1..b -> 1..b]
        BY <3>2, BranchesInOrder DEF Numbered
      <3>4. ASSUME NEW x \in 1..b
            PROVE  /\ IsPlace(q, <<i, ByName(q, i)[x]>>)
                   /\ m.edges[x] = d[<<i, ByName(q, i)[x]>>]
                   /\ m.edges[x] \in ids
                   /\ Rank(q, pos) < Rank(q, <<i, ByName(q, i)[x]>>)
        <4>1. ByName(q, i)[x] \in DOMAIN Branches(q, i)
          BY <3>2, <3>3
        <4>2. IsPlace(q, <<i, ByName(q, i)[x]>>)
          BY <4>1, PlaceKinds
        <4>3. m.edges[x] = d[<<i, ByName(q, i)[x]>>]
          BY <3>1, <3>2
        <4>4. d[<<i, ByName(q, i)[x]>>] \in ids
          BY <4>2, IdsArePlaces
        <4>5. Rank(q, pos) < Rank(q, <<i, ByName(q, i)[x]>>)
          BY <1>1, <4>1, RankGrows
        <4> QED
          BY <4>2, <4>3, <4>4, <4>5
      <3>5. m.edges \in Seq(ids) /\ Len(m.edges) = b
        <4>1. m.edges = [x \in 1..b |-> m.edges[x]]
          BY <3>1, <3>2
        <4> HIDE DEF m, ids, b
        <4>2. \A x \in 1..b : m.edges[x] \in ids
          BY <3>4
        <4> DEFINE e == m.edges
        <4> HIDE DEF e
        <4>3. e = [x \in 1..b |-> e[x]] /\ \A x \in 1..b : e[x] \in ids
          BY <4>1, <4>2 DEF e
        <4>4. [x \in 1..b |-> e[x]] \in Seq(ids)
          BY <3>2, <4>3, IsASeq
        <4>5. e \in Seq(ids) /\ DOMAIN e = 1..b
          BY <4>3, <4>4, Zenon
        <4>6. Len(e) = b
          BY <3>2, <4>5, LenProperties
        <4> QED
          BY <4>5, <4>6 DEF e
      <3> HIDE DEF m, b
      <3> QED
        BY <3>4, <3>5 DEF LeadsOn, ids
    <2> QED
      BY <2>2, <2>3
  <1>2. ASSUME NEW i \in 1..ItemsStarted(q), NEW j \in DOMAIN Branches(q, i), pos = <<i, j>>
        PROVE  LeadsOn(q, d, s, m.edges, pos)
    <2>1. AsBranch(q, d, m, i, j)
      BY <1>2, NodesAre
    <2>2. CASE Chain(q, i, j) = 0
      <3>1. m.edges = Follows(q, d, i)
        BY <2>1, <2>2 DEF AsBranch
      <3>2. Rank(q, pos) < Rank(q, <<i + 1>>)
        BY <1>2, RankGrows
      <3> QED
        BY <3>1, <3>2, FollowsLeads
    <2>3. CASE Chain(q, i, j) # 0
      <3>1. m.edges = <<d[<<i, j, 1>>]>>
        BY <2>1, <2>3 DEF AsBranch
      <3>2. 1 \in 1..Chain(q, i, j)
        BY <2>3, PlacesCounted
      <3>3. IsPlace(q, <<i, j, 1>>)
        BY <3>2, PlaceKinds
      <3>4. Rank(q, pos) < Rank(q, <<i, j, 1>>)
        BY <1>2, RankGrows
      <3> QED
        BY <3>1, <3>3, <3>4, OneLeads
    <2> QED
      BY <2>2, <2>3
  <1>3. ASSUME NEW i \in 1..ItemsStarted(q), NEW j \in DOMAIN Branches(q, i),
               NEW k \in 1..Chain(q, i, j), pos = <<i, j, k>>
        PROVE  LeadsOn(q, d, s, m.edges, pos)
    <2>1. AsInner(q, d, m, i, j, k)
      BY <1>3, NodesAre
    <2>2. CASE k = Chain(q, i, j)
      <3>1. m.edges = Follows(q, d, i)
        BY <2>1, <2>2 DEF AsInner
      <3>2. Rank(q, pos) < Rank(q, <<i + 1>>)
        BY <1>3, RankGrows
      <3> QED
        BY <3>1, <3>2, FollowsLeads
    <2>3. CASE k # Chain(q, i, j)
      <3>1. m.edges = <<d[<<i, j, k + 1>>]>>
        BY <2>1, <2>3 DEF AsInner
      <3>2. k + 1 \in 1..Chain(q, i, j)
        BY <2>3, PlacesCounted
      <3>3. IsPlace(q, <<i, j, k + 1>>)
        BY <3>2, PlaceKinds
      <3>4. Rank(q, pos) < Rank(q, <<i, j, k + 1>>)
        BY <1>3, RankGrows
      <3> QED
        BY <3>1, <3>3, <3>4, OneLeads
    <2> QED
      BY <2>2, <2>3
  <1>4. CASE \E i \in 1..ItemsStarted(q) : pos = <<i>>
    BY <1>1, <1>4
  <1>5. CASE \E i \in 1..ItemsStarted(q) : \E j \in DOMAIN Branches(q, i) : pos = <<i, j>>
    BY <1>2, <1>5
  <1>6. CASE \E i \in 1..ItemsStarted(q) : \E j \in DOMAIN Branches(q, i) :
               \E k \in 1..Chain(q, i, j) : pos = <<i, j, k>>
    BY <1>3, <1>6
  <1>7. LeadsOn(q, d, s, m.edges, pos)
    BY <1>4, <1>5, <1>6 DEF IsPlace
  <1> QED
    BY <1>7 DEF m

(* buildSequentialStages: a row follows the first edges to children. *)
Child(s, id) ==
  LET edges == NodeOf(s, id).edges
  IN  IF edges # <<>> /\ NodeOf(s, edges[1]).parent = id THEN edges[1] ELSE NoNode

LEMMA SequenceIs ==
  ASSUME NEW q, Numbered(q), NEW d, NEW s, Drawing(q, d, s)
  PROVE  \E row : /\ \A first : Sequence(s, first) = row[first]
                  /\ \A id \in {n.id : n \in ToSet(s)} :
                       row[id] = <<id>> \o (IF Child(s, id) # NoNode THEN row[Child(s, id)]
                                            ELSE <<>>)
  <1> DEFINE ids == {n.id : n \in ToSet(s)}
             head == [id \in ids |-> <<id>>]
             nxt == [id \in ids |-> Child(s, id)]
  <1>1. PICK rank \in [ids -> Nat], B \in Nat :
          /\ \A id \in ids : rank[id] <= B
          /\ \A pos : IsPlace(q, pos) => d[pos] \in ids /\ rank[d[pos]] = Rank(q, pos)
    BY RanksExist DEF Ranks
  <1>2. ASSUME NEW id \in ids
        PROVE  /\ \/ Child(s, id) = NoNode
                  \/ Child(s, id) \in ids /\ rank[id] < rank[Child(s, id)]
               /\ NodeOf(s, id).edges # <<>> => NodeOf(s, id).edges[1] \in ids
    <2>1. PICK pos : IsPlace(q, pos) /\ id = d[pos]
      <3>1. PICK n \in ToSet(s) : id = n.id
        OBVIOUS
      <3>2. PICK pos : Shows(q, d, n, pos)
        BY <3>1, IdsArePlaces
      <3> QED
        BY <3>1, <3>2, ShowsPlace
    <2> DEFINE edges == NodeOf(s, id).edges
    <2>2. LeadsOn(q, d, s, edges, pos)
      BY <2>1, EdgesLead
    <2> HIDE DEF edges
    <2>3. CASE edges = <<>>
      BY <2>3 DEF Child, edges
    <2>4. CASE edges # <<>>
      <3>1. 1 \in 1..Len(edges)
        <4>1. edges \in Seq(ids)
          BY <2>2 DEF LeadsOn
        <4> HIDE DEF ids
        <4> QED
          BY <2>4, <4>1, EmptySeq, LenProperties
      <3>2. PICK p : IsPlace(q, p) /\ edges[1] = d[p] /\ Rank(q, pos) < Rank(q, p)
        BY <2>2, <3>1 DEF LeadsOn
      <3>3. edges[1] \in ids /\ rank[id] < rank[edges[1]]
        BY <1>1, <2>1, <3>2
      <3> HIDE DEF ids
      <3> QED
        BY <3>3 DEF Child, edges
    <2> QED
      BY <2>3, <2>4
  <1>3. NoNode \notin ids
    BY IdsArePlaces
  <1> HIDE DEF ids
  <1>4. \A id \in ids : nxt[id] = Child(s, id) /\ head[id] = <<id>>
    OBVIOUS
  <1>5. LeadsUp(ids, nxt, rank)
    BY <1>2, <1>3, <1>4 DEF LeadsUp
  <1> HIDE DEF head, nxt
  <1>6. PICK f : Trail(f, ids, head, nxt)
    <2>1. \A id \in ids : rank[id] <= B
      BY <1>1
    <2> QED
      BY <1>5, <2>1, TrailExists
  <1> DEFINE row[id \in ids] ==
               LET edges == NodeOf(s, id).edges
               IN  <<id>> \o IF edges # <<>> /\ NodeOf(s, edges[1]).parent = id THEN row[edges[1]]
                             ELSE <<>>
  <1>7. f = [id \in ids |->
               LET edges == NodeOf(s, id).edges
               IN  <<id>> \o IF edges # <<>> /\ NodeOf(s, edges[1]).parent = id THEN f[edges[1]]
                             ELSE <<>>]
    <2>1. ASSUME NEW id \in ids
          PROVE  head[id] \o (IF nxt[id] \in ids THEN f[nxt[id]] ELSE <<>>)
                   = LET edges == NodeOf(s, id).edges
                     IN  <<id>> \o IF edges # <<>> /\ NodeOf(s, edges[1]).parent = id
                                   THEN f[edges[1]] ELSE <<>>
      <3> DEFINE edges == NodeOf(s, id).edges
      <3> HIDE DEF edges
      <3>1. head[id] = <<id>> /\ nxt[id] = Child(s, id)
        BY <1>4
      <3>2. CASE edges # <<>> /\ NodeOf(s, edges[1]).parent = id
        <4>1. Child(s, id) = edges[1]
          BY <3>2, Zenon DEF Child, edges
        <4>2. edges[1] \in ids
          BY <1>2, <3>2 DEF edges
        <4>3. nxt[id] \in ids
          BY <3>1, <4>1, <4>2
        <4>4. head[id] \o (IF nxt[id] \in ids THEN f[nxt[id]] ELSE <<>>) = <<id>> \o f[edges[1]]
          BY <3>1, <4>1, <4>3
        <4> QED
          BY <3>2, <4>4, Zenon DEF edges
      <3>3. CASE ~(edges # <<>> /\ NodeOf(s, edges[1]).parent = id)
        <4>1. Child(s, id) = NoNode
          BY <3>3, Zenon DEF Child, edges
        <4>2. head[id] \o (IF nxt[id] \in ids THEN f[nxt[id]] ELSE <<>>) = <<id>> \o <<>>
          BY <1>3, <3>1, <4>1
        <4> QED
          BY <3>3, <4>2, Zenon DEF edges
      <3> QED
        BY <3>2, <3>3
    <2> QED
      BY <1>6, <2>1, Zenon DEF Trail
  <1>8. row = [id \in ids |->
               LET edges == NodeOf(s, id).edges
               IN  <<id>> \o IF edges # <<>> /\ NodeOf(s, edges[1]).parent = id THEN row[edges[1]]
                             ELSE <<>>]
    BY <1>7, Zenon
  <1>9. \A first : Sequence(s, first) = row[first]
    BY Zenon DEF Sequence, ids
  <1> HIDE DEF row
  <1>10. ASSUME NEW id \in ids
         PROVE  row[id] = <<id>> \o (IF Child(s, id) # NoNode THEN row[Child(s, id)] ELSE <<>>)
    <2> DEFINE edges == NodeOf(s, id).edges
    <2>1. row[id] = <<id>> \o IF edges # <<>> /\ NodeOf(s, edges[1]).parent = id THEN row[edges[1]]
                             ELSE <<>>
      BY <1>8, Zenon
    <2> HIDE DEF edges
    <2>2. CASE edges # <<>> /\ NodeOf(s, edges[1]).parent = id
      <3>1. Child(s, id) = edges[1]
        BY <2>2, Zenon DEF Child, edges
      <3>2. edges[1] # NoNode
        <4>1. edges[1] \in ids
          BY <1>2, <2>2 DEF edges
        <4> QED
          BY <1>3, <4>1
      <3> QED
        BY <2>1, <2>2, <3>1, <3>2
    <2>3. CASE ~(edges # <<>> /\ NodeOf(s, edges[1]).parent = id)
      <3>1. Child(s, id) = NoNode
        BY <2>3, Zenon DEF Child, edges
      <3> QED
        BY <2>1, <2>3, <3>1
    <2> QED
      BY <2>2, <2>3
  <1> QED
    BY <1>9, <1>10 DEF ids

(* The child of a branch is its first stage. *)
LEMMA ChildOfBranch ==
  ASSUME NEW q, Numbered(q), NEW d, NEW s, Drawing(q, d, s),
         NEW i \in 1..ItemsStarted(q), NEW j \in DOMAIN Branches(q, i),
         NEW m, NEW pos, Shows(q, d, m, pos), m.parent = d[<<i, j>>]
  PROVE  1 \in 1..Chain(q, i, j) /\ pos = <<i, j, 1>>
  <1>1. IsPlace(q, <<i, j>>)
    BY PlaceKinds
  <1>2. \A p : IsPlace(q, p) /\ m.parent = d[p] => p = <<i, j>>
    BY <1>1 DEF Drawing
  <1>3. m.parent # NoNode
    BY <1>1 DEF Drawing
  <1>4. CASE \E a \in 1..ItemsStarted(q) : pos = <<a>> /\ AsItem(q, d, m, a)
    <2>1. PICK a \in 1..ItemsStarted(q) : pos = <<a>> /\ AsItem(q, d, m, a)
      BY <1>4
    <2>2. a > 1 /\ m.parent = d[<<a - 1>>]
      BY <1>3, <2>1 DEF AsItem
    <2>3. a - 1 \in 1..ItemsStarted(q)
      BY <2>2, PlacesCounted
    <2>4. IsPlace(q, <<a - 1>>)
      BY <2>3, PlaceKinds
    <2>5. <<a - 1>> = <<i, j>>
      BY <1>2, <2>2, <2>4
    <2> QED
      BY <2>5
  <1>5. CASE \E a \in 1..ItemsStarted(q) : \E b \in DOMAIN Branches(q, a) :
               pos = <<a, b>> /\ AsBranch(q, d, m, a, b)
    <2>1. PICK a \in 1..ItemsStarted(q) : \E b \in DOMAIN Branches(q, a) :
                 pos = <<a, b>> /\ AsBranch(q, d, m, a, b)
      BY <1>5
    <2>2. m.parent = d[<<a>>]
      BY <2>1 DEF AsBranch
    <2>3. IsPlace(q, <<a>>)
      BY PlaceKinds
    <2>4. <<a>> = <<i, j>>
      BY <1>2, <2>2, <2>3
    <2> QED
      BY <2>4
  <1>6. CASE \E a \in 1..ItemsStarted(q) : \E b \in DOMAIN Branches(q, a) :
               \E k \in 1..Chain(q, a, b) : pos = <<a, b, k>> /\ AsInner(q, d, m, a, b, k)
    <2>1. PICK a \in 1..ItemsStarted(q) : \E b \in DOMAIN Branches(q, a) :
               \E k \in 1..Chain(q, a, b) : pos = <<a, b, k>> /\ AsInner(q, d, m, a, b, k)
      BY <1>6
    <2>2. PICK b \in DOMAIN Branches(q, a) :
               \E k \in 1..Chain(q, a, b) : pos = <<a, b, k>> /\ AsInner(q, d, m, a, b, k)
      BY <2>1
    <2>3. PICK k \in 1..Chain(q, a, b) : pos = <<a, b, k>> /\ AsInner(q, d, m, a, b, k)
      BY <2>2
    <2>4. CASE k = 1
      <3>1. m.parent = d[<<a, b>>]
        BY <2>3, <2>4 DEF AsInner
      <3>2. IsPlace(q, <<a, b>>)
        BY PlaceKinds
      <3>3. <<a, b>> = <<i, j>>
        BY <1>2, <3>1, <3>2
      <3>4. a = i /\ b = j
        BY <3>3
      <3> QED
        BY <2>3, <2>4, <3>4
    <2>5. CASE k # 1
      <3>1. m.parent = d[<<a, b, k - 1>>]
        BY <2>3, <2>5 DEF AsInner
      <3>2. k - 1 \in 1..Chain(q, a, b)
        BY <2>5, PlacesCounted
      <3>3. IsPlace(q, <<a, b, k - 1>>)
        BY <3>2, PlaceKinds
      <3>4. <<a, b, k - 1>> = <<i, j>>
        BY <1>2, <3>1, <3>3
      <3> QED
        BY <3>4
    <2> QED
      BY <2>4, <2>5
  <1> QED
    BY <1>4, <1>5, <1>6 DEF Shows

(* What follows an item with branches is no child of theirs, or of their   *)
(* stages.                                                                 *)
LEMMA NoChildAfter ==
  ASSUME NEW q, Numbered(q), NEW d, NEW s, Drawing(q, d, s),
         NEW i \in 1..ItemsStarted(q), Branches(q, i) # <<>>,
         NEW pos, IsPlace(q, pos), NodeOf(s, d[pos]).edges = Follows(q, d, i)
  PROVE  Child(s, d[pos]) = NoNode
  <1>1. CASE i < ItemsStarted(q)
    <2>1. i + 1 \in 1..ItemsStarted(q) /\ Follows(q, d, i)[1] = d[<<i + 1>>]
      BY <1>1, FollowsLead
    <2>2. AsItem(q, d, NodeOf(s, d[<<i + 1>>]), i + 1)
      BY <2>1, NodesAre
    <2>3. i + 1 - 1 = i
      BY PlacesCounted
    <2>4. NodeOf(s, d[<<i + 1>>]).parent = NoNode
      BY <2>2, <2>3 DEF AsItem
    <2>5. d[pos] # NoNode
      BY DEF Drawing
    <2> QED
      BY <2>1, <2>4, <2>5 DEF Child
  <1>2. CASE ~(i < ItemsStarted(q))
    <2>1. Follows(q, d, i) = <<>>
      BY <1>2, FollowsLead
    <2> QED
      BY <2>1 DEF Child
  <1> QED
    BY <1>1, <1>2

(* buildSequentialStages: the children of the stages of a branch. *)
LEMMA ChildOfInner ==
  ASSUME NEW q, Numbered(q), NEW d, NEW s, Drawing(q, d, s),
         NEW i \in 1..ItemsStarted(q), NEW j \in DOMAIN Branches(q, i),
         NEW k \in 1..Chain(q, i, j)
  PROVE  Child(s, d[<<i, j, k>>]) = (IF k = Chain(q, i, j) THEN NoNode ELSE d[<<i, j, k + 1>>])
  <1>1. AsInner(q, d, NodeOf(s, d[<<i, j, k>>]), i, j, k)
    BY NodesAre
  <1>2. IsPlace(q, <<i, j, k>>)
    BY PlaceKinds
  <1>3. CASE k = Chain(q, i, j)
    <2>1. NodeOf(s, d[<<i, j, k>>]).edges = Follows(q, d, i)
      BY <1>1, <1>3 DEF AsInner
    <2>2. Branches(q, i) # <<>>
      OBVIOUS
    <2> QED
      BY <1>2, <1>3, <2>1, <2>2, NoChildAfter
  <1>4. CASE k # Chain(q, i, j)
    <2>1. NodeOf(s, d[<<i, j, k>>]).edges = <<d[<<i, j, k + 1>>]>>
      BY <1>1, <1>4 DEF AsInner
    <2>2. k + 1 \in 1..Chain(q, i, j) /\ k + 1 # 1 /\ k + 1 - 1 = k
      BY <1>4, PlacesCounted
    <2>3. AsInner(q, d, NodeOf(s, d[<<i, j, k + 1>>]), i, j, k + 1)
      BY <2>2, NodesAre
    <2>4. NodeOf(s, d[<<i, j, k + 1>>]).parent = d[<<i, j, k>>]
      BY <2>2, <2>3 DEF AsInner
    <2>5. <<d[<<i, j, k + 1>>]>> # <<>> /\ <<d[<<i, j, k + 1>>]>>[1] = d[<<i, j, k + 1>>]
      OBVIOUS
    <2> QED
      BY <1>4, <2>1, <2>4, <2>5 DEF Child
  <1> QED
    BY <1>3, <1>4

(* buildSequentialStages: the stages of a branch, from one of them on. *)
LEMMA SequenceOfInner ==
  ASSUME NEW q, Numbered(q), NEW d, NEW s, Drawing(q, d, s),
         NEW i \in 1..ItemsStarted(q), NEW j \in DOMAIN Branches(q, i), Chain(q, i, j) # 0
  PROVE  Sequence(s, d[<<i, j, 1>>]) = [y \in 1..Chain(q, i, j) |-> d[<<i, j, y>>]]
  <1> DEFINE c == Chain(q, i, j)
             ids == {n.id : n \in ToSet(s)}
             at == [y \in 1..c |-> d[<<i, j, y>>]]
  <1>1. c \in Nat \ {0} /\ \A k \in 1..c : d[<<i, j, k>>] \in ids
    <2>1. ASSUME NEW k \in 1..c PROVE d[<<i, j, k>>] \in ids
      <3>1. IsPlace(q, <<i, j, k>>)
        BY PlaceKinds
      <3> QED
        BY <3>1, IdsArePlaces
    <2> QED
      BY <2>1, PlacesCounted
  <1>2. NoNode \notin ids
    BY IdsArePlaces
  <1>3. PICK f : /\ \A first : Sequence(s, first) = f[first]
                 /\ \A id \in ids :
                      f[id] = <<id>> \o (IF Child(s, id) # NoNode THEN f[Child(s, id)]
                                         ELSE <<>>)
    BY SequenceIs
  <1>4. \A k \in 1..c : Child(s, d[<<i, j, k>>]) = IF k = c THEN NoNode ELSE d[<<i, j, k + 1>>]
    BY ChildOfInner
  <1> HIDE DEF ids, c
  <1> DEFINE row == [k \in 1..c |-> f[d[<<i, j, k>>]]]
  <1>5. ASSUME NEW k \in 1..c
        PROVE  row[k] = <<at[k]>> \o (IF k = c THEN <<>> ELSE row[k + 1])
    <2>1. f[d[<<i, j, k>>]] = <<at[k]>> \o (IF Child(s, d[<<i, j, k>>]) # NoNode
                                           THEN f[Child(s, d[<<i, j, k>>])] ELSE <<>>)
      BY <1>1, <1>3
    <2>2. CASE k = c
      BY <1>4, <2>1, <2>2
    <2>3. CASE k # c
      <3>1. k + 1 \in 1..c
        BY <1>1, <2>3
      <3>2. d[<<i, j, k + 1>>] # NoNode
        BY <1>1, <1>2, <3>1
      <3>3. Child(s, d[<<i, j, k>>]) = d[<<i, j, k + 1>>]
        BY <1>4, <2>3
      <3> QED
        BY <2>1, <2>3, <3>1, <3>2, <3>3
    <2> QED
      BY <2>2, <2>3
  <1>6. at \in [1..c -> ids]
    BY <1>1
  <1> HIDE DEF at, row
  <1>7. row[1] = at
    <2>1. MadeInTurn(row, at, c)
      BY <1>5 DEF MadeInTurn
    <2>2. c \in Nat \ {0}
      BY <1>1
    <2> QED
      BY <1>6, <2>1, <2>2, ListedInTurn
  <1>8. Sequence(s, d[<<i, j, 1>>]) = row[1]
    BY <1>1, <1>3 DEF row
  <1> QED
    BY <1>7, <1>8 DEF at, c

(* convertJenkinsNodeGraph: the row of a branch. *)
RowIds(q, d, i, j) ==
  IF Chain(q, i, j) = 0 THEN <<d[<<i, j>>]>> ELSE [y \in 1..Chain(q, i, j) |-> d[<<i, j, y>>]]

LEMMA RowIs ==
  ASSUME NEW q, Numbered(q), NEW d, NEW s, Drawing(q, d, s),
         NEW i \in 1..ItemsStarted(q), NEW j \in DOMAIN Branches(q, i)
  PROVE  Row(s, d[<<i, j>>]) = RowIds(q, d, i, j)
  <1> DEFINE b == d[<<i, j>>]
             child == SelectInSeq(s, LAMBDA n : n.parent = b)
             I == {x \in 1..Len(s) : s[x].parent = b}
  <1>1. child = IF I # {} THEN Min(I) ELSE 0
    BY Zenon DEF SelectInSeq
  <1>2. Row(s, b) = IF child = 0 THEN <<b>> ELSE Sequence(s, s[child].id)
    BY Zenon DEF Row
  <1>3. Len(s) \in Nat /\ I \in SUBSET Nat
    BY DEF Drawing
  <1>4. ASSUME NEW x \in I
        PROVE  1 \in 1..Chain(q, i, j) /\ s[x].id = d[<<i, j, 1>>]
    <2>1. x \in 1..Len(s) /\ s[x].parent = d[<<i, j>>]
      OBVIOUS
    <2>2. PICK pos : Shows(q, d, s[x], pos)
      BY <2>1 DEF Drawing
    <2>3. 1 \in 1..Chain(q, i, j) /\ pos = <<i, j, 1>>
      BY <2>1, <2>2, ChildOfBranch
    <2> QED
      BY <2>2, <2>3, ShowsPlace
  <1>5. CASE Chain(q, i, j) = 0
    <2>1. I = {}
      BY <1>4, <1>5
    <2> QED
      BY <1>1, <1>2, <1>5, <2>1 DEF RowIds
  <1>6. CASE Chain(q, i, j) # 0
    <2>1. 1 \in 1..Chain(q, i, j)
      BY <1>6, PlacesCounted
    <2>2. AsInner(q, d, NodeOf(s, d[<<i, j, 1>>]), i, j, 1)
      BY <2>1, NodesAre
    <2>3. NodeOf(s, d[<<i, j, 1>>]).parent = b
      BY <2>2 DEF AsInner
    <2>4. NodeOf(s, d[<<i, j, 1>>]) \in ToSet(s)
      BY <2>1, NodeAt, PlaceKinds
    <2>5. I # {}
      <3>1. DOMAIN s = 1..Len(s)
        BY DEF Drawing
      <3>2. PICK x \in 1..Len(s) : s[x] = NodeOf(s, d[<<i, j, 1>>])
        BY <2>4, <3>1 DEF ToSet
      <3>3. s[x].parent = b
        BY <2>3, <3>2
      <3> HIDE DEF b
      <3> QED
        BY <3>3
    <2>6. Min(I) \in I
      <3>1. \E x \in I : \A y \in I : x <= y
        <4> HIDE DEF I
        <4> QED
          BY <1>3, <2>5, LeastExists
      <3> QED
        BY <3>1, Zenon DEF Min
    <2>7. child \in I
      BY <1>1, <2>5, <2>6, Zenon
    <2> HIDE DEF child, I
    <2>8. s[child].id = d[<<i, j, 1>>] /\ child # 0
      <3>1. child \in 1..Len(s)
        BY <2>7, Zenon DEF I
      <3> QED
        BY <1>3, <1>4, <2>7, <3>1
    <2>9. Sequence(s, d[<<i, j, 1>>]) = [y \in 1..Chain(q, i, j) |-> d[<<i, j, y>>]]
      BY <1>6, SequenceOfInner
    <2> QED
      BY <1>2, <1>6, <2>8, <2>9 DEF RowIds
  <1> QED
    BY <1>5, <1>6

(* The branches among the places. *)
LEMMA ParallelIds ==
  ASSUME NEW q, NEW d, NEW s, Drawing(q, d, s), NEW pos, IsPlace(q, pos)
  PROVE  d[pos] \in {m.id : m \in {m \in ToSet(s) : m.type = "PARALLEL"}}
           <=> \E i, j : pos = <<i, j>>
  <1> DEFINE parallel == {m \in ToSet(s) : m.type = "PARALLEL"}
  <1>1. ASSUME NEW m \in parallel, d[pos] = m.id PROVE \E i, j : pos = <<i, j>>
    <2>1. m \in ToSet(s) /\ m.type = "PARALLEL"
      OBVIOUS
    <2>2. PICK p : IsPlace(q, p) /\ Shows(q, d, m, p)
      BY <2>1, IdsArePlaces
    <2>3. m.id = d[p]
      BY <2>2, ShowsPlace
    <2>4. p = pos
      BY <1>1, <2>2, <2>3 DEF Drawing
    <2>5. ~\E i \in 1..ItemsStarted(q) : p = <<i>> /\ AsItem(q, d, m, i)
      BY <2>1 DEF AsItem
    <2>6. ~\E i \in 1..ItemsStarted(q) : \E j \in DOMAIN Branches(q, i) :
             \E k \in 1..Chain(q, i, j) : p = <<i, j, k>> /\ AsInner(q, d, m, i, j, k)
      BY <2>1 DEF AsInner
    <2>7. \E i \in 1..ItemsStarted(q) : \E j \in DOMAIN Branches(q, i) : p = <<i, j>>
      BY <2>2, <2>5, <2>6, Zenon DEF Shows
    <2> QED
      BY <2>4, <2>7
  <1>2. ASSUME NEW i, NEW j, pos = <<i, j>> PROVE \E m \in parallel : d[pos] = m.id
    <2>1. i \in 1..ItemsStarted(q) /\ j \in DOMAIN Branches(q, i)
      BY <1>2, PlaceKinds
    <2>2. NodeOf(s, d[pos]) \in ToSet(s) /\ NodeOf(s, d[pos]).id = d[pos]
      BY NodeAt
    <2>3. AsBranch(q, d, NodeOf(s, d[<<i, j>>]), i, j)
      BY <2>1, NodesAre
    <2>4. NodeOf(s, d[pos]).type = "PARALLEL"
      BY <1>2, <2>3 DEF AsBranch
    <2> QED
      BY <2>2, <2>4
  <1> QED
    BY <1>1, <1>2

(* The ids of the branches of an item, by name. *)
BranchIds(q, d, i) == [x \in DOMAIN Branches(q, i) |-> d[<<i, ByName(q, i)[x]>>]]

(* convertJenkinsNodeGraph: an item has its branches for parallel nodes. *)
LEMMA ParallelsOfItem ==
  ASSUME NEW q, Numbered(q), NEW d, NEW s, Drawing(q, d, s),
         NEW i \in 1..ItemsStarted(q), Branches(q, i) # <<>>
  PROVE  /\ Parallels(s, NodeOf(s, d[<<i>>])) = BranchIds(q, d, i)
         /\ Parallels(s, NodeOf(s, d[<<i>>])) \in Seq({n.id : n \in ToSet(s)})
         /\ Len(Parallels(s, NodeOf(s, d[<<i>>]))) = Len(Branches(q, i))
         /\ Len(Branches(q, i)) \in Nat \ {0}
         /\ DOMAIN Branches(q, i) = 1..Len(Branches(q, i))
         /\ \A x \in 1..Len(Branches(q, i)) : ByName(q, i)[x] \in DOMAIN Branches(q, i)
  <1> DEFINE m == NodeOf(s, d[<<i>>])
             e == m.edges
             b == Len(Branches(q, i))
             ids == {n.id : n \in ToSet(s)}
             kept == {n.id : n \in {n \in ToSet(s) : n.type = "PARALLEL"}}
  <1>1. b \in Nat /\ DOMAIN Branches(q, i) = 1..b /\ i \in DOMAIN q.pipe
    BY PlacesCounted
  <1>2. b # 0
    <2>1. Branches(q, i) \in Seq([name : Nat, inner : Seq(Nat)])
      <3>1. q.pipe \in Seq(Item)
        BY PipelinesAssumption DEF Numbered
      <3>2. q.pipe[i] \in Item
        BY <1>1, <3>1, ElementOfSeq, LenProperties
      <3> QED
        BY <3>2 DEF Item, Branches
    <2> QED
      BY <2>1, EmptySeq
  <1>3. ByName(q, i) \in [1..b -> 1..b]
    BY <1>1, BranchesInOrder DEF Numbered
  <1>4. e = [x \in 1..b |-> d[<<i, ByName(q, i)[x]>>]]
    <2>1. AsItem(q, d, m, i)
      BY NodesAre
    <2> QED
      BY <1>1, <2>1 DEF AsItem
  <1>5. ASSUME NEW x \in 1..b PROVE e[x] \in kept /\ e[x] \in ids
    <2>1. IsPlace(q, <<i, ByName(q, i)[x]>>)
      BY <1>1, <1>3, PlaceKinds
    <2>2. d[<<i, ByName(q, i)[x]>>] \in kept
      BY <2>1, ParallelIds
    <2>3. d[<<i, ByName(q, i)[x]>>] \in ids
      BY <2>1, IdsArePlaces
    <2> QED
      BY <1>4, <2>2, <2>3
  <1>6. Parallels(s, m) = Filter(e, kept)
    BY Zenon DEF Parallels
  <1> HIDE DEF e, kept, ids, b
  <1>7. e \in Seq(ids) /\ Len(e) = b
    <2>1. e = [x \in 1..b |-> e[x]] /\ \A x \in 1..b : e[x] \in ids
      BY <1>4, <1>5
    <2>2. [x \in 1..b |-> e[x]] \in Seq(ids)
      BY <1>1, <2>1, IsASeq
    <2>3. e \in Seq(ids) /\ DOMAIN e = 1..b
      BY <2>1, <2>2, Zenon
    <2> QED
      BY <1>1, <2>3, LenProperties
  <1>8. Filter(e, kept) = e
    BY <1>5, <1>7, FilterAll
  <1>9. Parallels(s, m) = e
    BY <1>6, <1>8
  <1> QED
    BY <1>1, <1>2, <1>3, <1>4, <1>7, <1>9 DEF b, ids, BranchIds

(* What a place other than those leads on to. *)
Onward(q, d, i) == IF i < ItemsStarted(q) THEN d[<<i + 1>>] ELSE NoNode

(* A node that leads to no branch: its edges, and where the walk goes on. *)
LEMMA NoParallels ==
  ASSUME NEW q, Numbered(q), NEW d, NEW s, Drawing(q, d, s), NEW m,
         m.edges \in Seq({n.id : n \in ToSet(s)}),
         \A x \in 1..Len(m.edges) : \E p : /\ IsPlace(q, p) /\ m.edges[x] = d[p]
                                           /\ \A i, j : p # <<i, j>>
  PROVE  /\ Parallels(s, m) = <<>>
         /\ After(s, m) = IF Len(m.edges) = 1 THEN m.edges[1] ELSE NoNode
  <1> DEFINE kept == {n.id : n \in {n \in ToSet(s) : n.type = "PARALLEL"}}
  <1>1. ASSUME NEW x \in 1..Len(m.edges) PROVE m.edges[x] \notin kept
    <2>1. PICK p : IsPlace(q, p) /\ m.edges[x] = d[p] /\ \A i, j : p # <<i, j>>
      OBVIOUS
    <2>2. d[p] \notin kept
      BY <2>1, ParallelIds
    <2> QED
      BY <2>1, <2>2
  <1>2. Parallels(s, m) = Filter(m.edges, kept)
    BY Zenon DEF Parallels
  <1> DEFINE ids == {n.id : n \in ToSet(s)}
  <1>3. m.edges \in Seq(ids)
    OBVIOUS
  <1> HIDE DEF kept, ids
  <1>4. Filter(m.edges, kept) = <<>>
    BY <1>1, <1>3, FilterKeeps
  <1>5. Parallels(s, m) = <<>>
    BY <1>2, <1>4
  <1> QED
    BY <1>5, Zenon DEF After

(* The walk goes on from the last place of an item to the next item. *)
LEMMA AfterFollows ==
  ASSUME NEW q, Numbered(q), NEW d, NEW s, Drawing(q, d, s), NEW i \in 1..ItemsStarted(q),
         NEW m, m.edges = Follows(q, d, i)
  PROVE  Parallels(s, m) = <<>> /\ After(s, m) = Onward(q, d, i)
  <1> DEFINE ids == {n.id : n \in ToSet(s)}
  <1>1. /\ m.edges \in Seq(ids)
        /\ Len(m.edges) = (IF i < ItemsStarted(q) THEN 1 ELSE 0)
        /\ i < ItemsStarted(q) => /\ i + 1 \in 1..ItemsStarted(q)
                                  /\ m.edges[1] = d[<<i + 1>>]
    BY FollowsLead
  <1> HIDE DEF ids
  <1>2. ASSUME NEW x \in 1..Len(m.edges)
        PROVE  \E p : IsPlace(q, p) /\ m.edges[x] = d[p] /\ \A a, b : p # <<a, b>>
    <2>1. x = 1 /\ i < ItemsStarted(q)
      BY <1>1
    <2>2. IsPlace(q, <<i + 1>>)
      BY <1>1, <2>1, PlaceKinds
    <2>3. \A a, b : <<i + 1>> # <<a, b>>
      OBVIOUS
    <2> QED
      BY <1>1, <2>1, <2>2, <2>3
  <1>3. /\ Parallels(s, m) = <<>>
        /\ After(s, m) = IF Len(m.edges) = 1 THEN m.edges[1] ELSE NoNode
    BY <1>1, <1>2, NoParallels DEF ids
  <1>4. (IF Len(m.edges) = 1 THEN m.edges[1] ELSE NoNode) = Onward(q, d, i)
    BY <1>1 DEF Onward
  <1> QED
    BY <1>3, <1>4

(* The walk goes on from a stage of a branch to the next. *)
LEMMA AfterInner ==
  ASSUME NEW q, Numbered(q), NEW d, NEW s, Drawing(q, d, s), NEW i \in 1..ItemsStarted(q),
         NEW j \in DOMAIN Branches(q, i), NEW k \in 1..Chain(q, i, j)
  PROVE  After(s, NodeOf(s, d[<<i, j, k>>]))
           = IF k = Chain(q, i, j) THEN Onward(q, d, i) ELSE d[<<i, j, k + 1>>]
  <1> DEFINE m == NodeOf(s, d[<<i, j, k>>])
             ids == {n.id : n \in ToSet(s)}
  <1>1. AsInner(q, d, m, i, j, k)
    BY NodesAre
  <1>2. CASE k = Chain(q, i, j)
    <2>1. m.edges = Follows(q, d, i)
      BY <1>1, <1>2 DEF AsInner
    <2> HIDE DEF m
    <2>2. After(s, m) = Onward(q, d, i)
      BY <2>1, AfterFollows
    <2> QED
      BY <1>2, <2>2 DEF m
  <1>3. CASE k # Chain(q, i, j)
    <2> DEFINE p == <<i, j, k + 1>>
    <2>1. m.edges = <<d[p]>>
      BY <1>1, <1>3 DEF AsInner
    <2>2. k + 1 \in 1..Chain(q, i, j)
      BY <1>3, PlacesCounted
    <2>3. IsPlace(q, p) /\ \A a, b : p # <<a, b>>
      BY <2>2, PlaceKinds
    <2>4. d[p] \in ids
      BY <2>3, IdsArePlaces
    <2> HIDE DEF m, p, ids
    <2>5. m.edges \in Seq(ids) /\ Len(m.edges) = 1 /\ m.edges[1] = d[p]
      BY <2>1, <2>4
    <2>6. \A x \in 1..Len(m.edges) : m.edges[x] = d[p]
      BY <2>5
    <2>7. After(s, m) = IF Len(m.edges) = 1 THEN m.edges[1] ELSE NoNode
      BY <2>3, <2>5, <2>6, NoParallels DEF ids
    <2> QED
      BY <1>3, <2>5, <2>7 DEF m, p
  <1> QED
    BY <1>2, <1>3

(* The walk goes on from an item with branches to the next item or into one *)
(* of the branches.                                                         *)
LEMMA AfterBranches ==
  ASSUME NEW q, Numbered(q), NEW d, NEW s, Drawing(q, d, s), NEW i \in 1..ItemsStarted(q),
         Branches(q, i) # <<>>
  PROVE  \/ After(s, NodeOf(s, d[<<i>>])) = Onward(q, d, i)
         \/ \E j \in DOMAIN Branches(q, i) :
              1 \in 1..Chain(q, i, j) /\ After(s, NodeOf(s, d[<<i>>])) = d[<<i, j, 1>>]
  <1> DEFINE m == NodeOf(s, d[<<i>>])
             e == Parallels(s, m)
             b == Len(Branches(q, i))
             ids == {n.id : n \in ToSet(s)}
             kept == {n.id : n \in {n \in ToSet(s) : n.edges # <<>>}}
             leading == Filter(e, kept)
             place(x) == <<i, ByName(q, i)[x]>>
  <1>1. /\ e = [x \in 1..b |-> d[place(x)]] /\ e \in Seq(ids) /\ Len(e) = b
        /\ b \in Nat \ {0} /\ DOMAIN Branches(q, i) = 1..b
        /\ \A x \in 1..b : ByName(q, i)[x] \in DOMAIN Branches(q, i)
    <2>1. e = BranchIds(q, d, i)
      BY ParallelsOfItem
    <2>2. e \in Seq(ids) /\ Len(e) = b /\ b \in Nat \ {0}
      BY ParallelsOfItem
    <2>3. /\ DOMAIN Branches(q, i) = 1..b
          /\ \A x \in 1..b : ByName(q, i)[x] \in DOMAIN Branches(q, i)
      BY ParallelsOfItem, Zenon
    <2> HIDE DEF e, ids, b
    <2> QED
      BY <2>1, <2>2, <2>3 DEF BranchIds
  <1>2. After(s, m) = IF leading = <<>> THEN NoNode ELSE NodeOf(s, Last(leading)).edges[1]
    <2>1. e # <<>>
      <3> HIDE DEF e
      <3> QED
        BY <1>1, EmptySeq
    <2> QED
      BY <2>1, Zenon DEF After
  <1> HIDE DEF e, leading
  <1>3. ASSUME NEW x \in 1..b
        PROVE  /\ IsPlace(q, place(x)) /\ e[x] = d[place(x)]
               /\ AsBranch(q, d, NodeOf(s, e[x]), i, ByName(q, i)[x])
               /\ NodeOf(s, e[x]) \in ToSet(s) /\ NodeOf(s, e[x]).id = e[x]
    <2>1. IsPlace(q, place(x))
      BY <1>1, PlaceKinds
    <2>2. e[x] = d[place(x)]
      BY <1>1
    <2>3. AsBranch(q, d, NodeOf(s, d[place(x)]), i, ByName(q, i)[x])
      BY <1>1, NodesAre
    <2>4. NodeOf(s, d[place(x)]) \in ToSet(s) /\ NodeOf(s, d[place(x)]).id = d[place(x)]
      BY <2>1, NodeAt
    <2> QED
      BY <2>1, <2>2, <2>3, <2>4
  <1>4. ASSUME NEW x \in 1..b, NodeOf(s, e[x]).edges # <<>> PROVE e[x] \in kept
    BY <1>3, <1>4
  <1>5. ASSUME NEW x \in 1..b, e[x] \in kept PROVE NodeOf(s, e[x]).edges # <<>>
    <2>1. PICK n \in ToSet(s) : n.edges # <<>> /\ e[x] = n.id
      BY <1>5
    <2>2. PICK p : IsPlace(q, p) /\ Shows(q, d, n, p)
      BY IdsArePlaces
    <2>3. p = place(x)
      <3>1. d[p] = d[place(x)]
        BY <1>3, <2>1, <2>2, ShowsPlace
      <3> QED
        BY <1>3, <2>2, <3>1 DEF Drawing
    <2>4. AsBranch(q, d, n, i, ByName(q, i)[x])
      BY <2>2, <2>3, ShowsKind
    <2>5. n.edges = NodeOf(s, e[x]).edges
      BY <1>3, <2>4 DEF AsBranch
    <2> QED
      BY <2>1, <2>5
  <1> HIDE DEF ids, kept, b, place
  <1>6. /\ leading \in Seq(ids)
        /\ \A y \in 1..Len(leading) : leading[y] \in kept /\ \E x \in 1..b : leading[y] = e[x]
        /\ \A x \in 1..b : e[x] \in kept => Len(leading) # 0
    <2>1. e \in Seq(ids)
      BY <1>1
    <2>2. /\ leading \in Seq(ids)
          /\ \A y \in 1..Len(leading) :
               leading[y] \in kept /\ \E x \in 1..Len(e) : leading[y] = e[x]
          /\ \A x \in 1..Len(e) : e[x] \in kept => Len(leading) # 0
      BY <2>1, FilterKeeps DEF leading
    <2> QED
      BY <1>1, <2>2
  <1>7. CASE leading = <<>>
    <2>1. Len(leading) = 0
      BY <1>7, EmptySeq
    <2>2. 1 \in 1..b /\ e[1] \notin kept
      BY <1>1, <1>6, <2>1
    <2>3. NodeOf(s, e[1]).edges = <<>>
      BY <1>4, <2>2
    <2>4. CASE Chain(q, i, ByName(q, i)[1]) = 0
      <3>1. Follows(q, d, i) = <<>>
        BY <1>3, <2>2, <2>3, <2>4 DEF AsBranch
      <3>2. ~(i < ItemsStarted(q))
        BY <3>1 DEF Follows
      <3> QED
        BY <1>2, <1>7, <3>2 DEF Onward
    <2>5. CASE Chain(q, i, ByName(q, i)[1]) # 0
      <3>1. <<d[<<i, ByName(q, i)[1], 1>>]>> = <<>>
        BY <1>3, <2>2, <2>3, <2>5 DEF AsBranch
      <3> QED
        BY <3>1
    <2> QED
      BY <2>4, <2>5
  <1>8. CASE leading # <<>>
    <2>1. Len(leading) \in Nat /\ Len(leading) # 0
      BY <1>6, <1>8, EmptySeq, LenProperties
    <2>2. Last(leading) = leading[Len(leading)] /\ Len(leading) \in 1..Len(leading)
      BY <2>1 DEF Last
    <2>3. PICK x \in 1..b : Last(leading) = e[x] /\ e[x] \in kept
      BY <1>6, <2>2
    <2> DEFINE j == ByName(q, i)[x]
    <2>4. /\ AsBranch(q, d, NodeOf(s, e[x]), i, j) /\ NodeOf(s, e[x]).edges # <<>>
          /\ j \in DOMAIN Branches(q, i)
      BY <1>1, <1>3, <1>5, <2>3
    <2>5. After(s, m) = NodeOf(s, e[x]).edges[1]
      BY <1>2, <1>8, <2>3
    <2> HIDE DEF j, m
    <2>6. CASE Chain(q, i, j) = 0
      <3>1. NodeOf(s, e[x]).edges = Follows(q, d, i)
        BY <2>4, <2>6 DEF AsBranch
      <3>2. i < ItemsStarted(q)
        BY <2>4, <3>1 DEF Follows
      <3>3. Follows(q, d, i)[1] = d[<<i + 1>>]
        BY <3>2, FollowsLead
      <3> QED
        BY <2>5, <3>1, <3>2, <3>3 DEF Onward, m
    <2>7. CASE Chain(q, i, j) # 0
      <3>1. NodeOf(s, e[x]).edges[1] = d[<<i, j, 1>>]
        BY <2>4, <2>7 DEF AsBranch
      <3>2. 1 \in 1..Chain(q, i, j)
        BY <2>4, <2>7, PlacesCounted
      <3> QED
        BY <2>4, <2>5, <3>1, <3>2 DEF m
    <2> QED
      BY <2>6, <2>7
  <1> QED
    BY <1>7, <1>8

(* buildSequentialStages marks the stages of branches and nothing else. *)
LEMMA SequentialAre ==
  ASSUME NEW q, Numbered(q), NEW d, NEW s, Drawing(q, d, s)
  PROVE  /\ \A i \in 1..ItemsStarted(q) : ~IsSequential(s, d[<<i>>])
         /\ \A i \in 1..ItemsStarted(q) : \A j \in DOMAIN Branches(q, i) :
              \A k \in 1..Chain(q, i, j) : IsSequential(s, d[<<i, j, k>>])
  <1>1. ASSUME NEW i \in 1..ItemsStarted(q), IsSequential(s, d[<<i>>]) PROVE FALSE
    <2>1. PICK b \in ToSet(s) : b.type = "PARALLEL" /\ d[<<i>>] \in ToSet(Row(s, b.id)) \ {b.id}
      BY <1>1, Zenon DEF IsSequential
    <2>2. PICK p : IsPlace(q, p) /\ Shows(q, d, b, p)
      BY IdsArePlaces
    <2>3. b.id = d[p]
      BY <2>2, ShowsPlace
    <2>4. \E a, j : p = <<a, j>>
      BY <2>1, <2>2, <2>3, ParallelIds
    <2>5. PICK a, j : p = <<a, j>>
      BY <2>4
    <2>6. a \in 1..ItemsStarted(q) /\ j \in DOMAIN Branches(q, a)
      BY <2>2, <2>5, PlaceKinds
    <2>7. Row(s, b.id) = RowIds(q, d, a, j)
      BY <2>3, <2>5, <2>6, RowIs
    <2>8. Chain(q, a, j) # 0
      <3>1. SUFFICES ASSUME Chain(q, a, j) = 0 PROVE FALSE
        OBVIOUS
      <3>2. Row(s, b.id) = <<b.id>>
        BY <2>3, <2>5, <2>7, <3>1 DEF RowIds
      <3> QED
        BY <2>1, <3>2 DEF ToSet
    <2>9. PICK y \in 1..Chain(q, a, j) : d[<<i>>] = d[<<a, j, y>>]
      <3>1. Row(s, b.id) = [y \in 1..Chain(q, a, j) |-> d[<<a, j, y>>]]
        BY <2>7, <2>8 DEF RowIds
      <3> QED
        BY <2>1, <3>1 DEF ToSet
    <2>10. IsPlace(q, <<i>>) /\ IsPlace(q, <<a, j, y>>)
      BY <2>6, PlaceKinds
    <2>11. <<i>> = <<a, j, y>>
      BY <2>9, <2>10 DEF Drawing
    <2> QED
      BY <2>11
  <1>2. ASSUME NEW i \in 1..ItemsStarted(q), NEW j \in DOMAIN Branches(q, i),
               NEW k \in 1..Chain(q, i, j)
        PROVE  IsSequential(s, d[<<i, j, k>>])
    <2> DEFINE b == NodeOf(s, d[<<i, j>>])
               row == Row(s, b.id)
    <2>1. IsPlace(q, <<i, j>>) /\ IsPlace(q, <<i, j, k>>)
      BY PlaceKinds
    <2>2. b \in ToSet(s) /\ b.id = d[<<i, j>>]
      BY <2>1, NodeAt
    <2>3. b.type = "PARALLEL"
      <3>1. AsBranch(q, d, b, i, j)
        BY NodesAre
      <3> QED
        BY <3>1 DEF AsBranch
    <2>4. Chain(q, i, j) # 0
      BY PlacesCounted
    <2>5. row = [y \in 1..Chain(q, i, j) |-> d[<<i, j, y>>]]
      <3>1. row = RowIds(q, d, i, j)
        BY <2>2, RowIs
      <3> QED
        BY <2>4, <3>1 DEF RowIds
    <2>6. d[<<i, j, k>>] # b.id
      <3>1. <<i, j, k>> # <<i, j>>
        OBVIOUS
      <3> QED
        BY <2>1, <2>2, <3>1 DEF Drawing
    <2> HIDE DEF row
    <2>7. d[<<i, j, k>>] \in ToSet(row)
      BY <2>5 DEF ToSet
    <2> QED
      BY <2>2, <2>3, <2>6, <2>7, Zenon DEF IsSequential, row
  <1> QED
    BY <1>1, <1>2

(* Wherever the walk is, it goes on to a later place or is over. *)
LEMMA AfterLeads ==
  ASSUME NEW q, Numbered(q), NEW d, NEW s, Drawing(q, d, s), NEW pos, IsPlace(q, pos)
  PROVE  \/ After(s, NodeOf(s, d[pos])) = NoNode
         \/ \E p : /\ IsPlace(q, p) /\ After(s, NodeOf(s, d[pos])) = d[p]
                   /\ Rank(q, pos) < Rank(q, p)
  <1> DEFINE m == NodeOf(s, d[pos])
             to == After(s, m)
             Goal == \/ to = NoNode
                     \/ \E p : IsPlace(q, p) /\ to = d[p] /\ Rank(q, pos) < Rank(q, p)
  <1> SUFFICES Goal
    OBVIOUS
  <1>1. ASSUME NEW i \in 1..ItemsStarted(q), Rank(q, pos) < Rank(q, <<i + 1>>),
               to = Onward(q, d, i)
        PROVE  Goal
    <2>1. CASE i < ItemsStarted(q)
      <3>1. i + 1 \in 1..ItemsStarted(q)
        BY <2>1, PlacesCounted
      <3>2. IsPlace(q, <<i + 1>>)
        BY <3>1, PlaceKinds
      <3> QED
        BY <1>1, <2>1, <3>2 DEF Onward
    <2>2. CASE ~(i < ItemsStarted(q))
      BY <1>1, <2>2 DEF Onward
    <2> QED
      BY <2>1, <2>2
  <1>2. ASSUME NEW i \in 1..ItemsStarted(q), pos = <<i>> PROVE Goal
    <2>1. Rank(q, pos) < Rank(q, <<i + 1>>)
      BY <1>2, RankGrows
    <2>2. CASE Branches(q, i) = <<>>
      <3>1. m.edges = Follows(q, d, i)
        <4>1. AsItem(q, d, m, i)
          BY <1>2, NodesAre
        <4> QED
          BY <2>2, <4>1 DEF AsItem
      <3> HIDE DEF m, Goal
      <3>2. to = Onward(q, d, i)
        BY <3>1, AfterFollows
      <3> QED
        BY <1>1, <2>1, <3>2
    <2>3. CASE Branches(q, i) # <<>>
      <3>1. \/ to = Onward(q, d, i)
            \/ \E j \in DOMAIN Branches(q, i) : 1 \in 1..Chain(q, i, j) /\ to = d[<<i, j, 1>>]
        BY <1>2, <2>3, AfterBranches
      <3>2. ASSUME NEW j \in DOMAIN Branches(q, i), 1 \in 1..Chain(q, i, j), to = d[<<i, j, 1>>]
            PROVE  Goal
        <4>1. IsPlace(q, <<i, j, 1>>)
          BY <3>2, PlaceKinds
        <4>2. Rank(q, pos) < Rank(q, <<i, j, 1>>)
          <5>1. /\ Rank(q, <<i>>) \in Nat /\ Rank(q, <<i, j>>) \in Nat
                /\ Rank(q, <<i, j, 1>>) \in Nat
                /\ Rank(q, <<i>>) < Rank(q, <<i, j>>) /\ Rank(q, <<i, j>>) < Rank(q, <<i, j, 1>>)
            BY <3>2, RankGrows
          <5> QED
            BY <1>2, <5>1
        <4> QED
          BY <3>2, <4>1, <4>2
      <3> HIDE DEF Goal, to
      <3> QED
        BY <1>1, <2>1, <3>1, <3>2
    <2> QED
      BY <2>2, <2>3
  <1>3. ASSUME NEW i \in 1..ItemsStarted(q), NEW j \in DOMAIN Branches(q, i), pos = <<i, j>>
        PROVE  Goal
    <2>1. AsBranch(q, d, m, i, j)
      BY <1>3, NodesAre
    <2>2. CASE Chain(q, i, j) = 0
      <3>1. m.edges = Follows(q, d, i)
        BY <2>1, <2>2 DEF AsBranch
      <3>2. Rank(q, pos) < Rank(q, <<i + 1>>)
        BY <1>3, RankGrows
      <3> HIDE DEF m, Goal
      <3>3. to = Onward(q, d, i)
        BY <3>1, AfterFollows
      <3> QED
        BY <1>1, <3>2, <3>3
    <2>3. CASE Chain(q, i, j) # 0
      <3> DEFINE p == <<i, j, 1>>
                 ids == {n.id : n \in ToSet(s)}
      <3>1. m.edges = <<d[p]>>
        BY <2>1, <2>3 DEF AsBranch
      <3>2. 1 \in 1..Chain(q, i, j)
        BY <2>3, PlacesCounted
      <3>3. IsPlace(q, p) /\ \A a, b : p # <<a, b>>
        BY <3>2, PlaceKinds
      <3>4. d[p] \in ids
        BY <3>3, IdsArePlaces
      <3>5. Rank(q, pos) < Rank(q, p)
        BY <1>3, RankGrows
      <3> HIDE DEF m, p, ids
      <3>6. m.edges \in Seq(ids) /\ Len(m.edges) = 1 /\ m.edges[1] = d[p]
        BY <3>1, <3>4
      <3>7. \A x \in 1..Len(m.edges) : m.edges[x] = d[p]
        BY <3>6
      <3>8. After(s, m) = IF Len(m.edges) = 1 THEN m.edges[1] ELSE NoNode
        BY <3>3, <3>6, <3>7, NoParallels DEF ids
      <3>9. to = d[p]
        BY <3>6, <3>8
      <3> QED
        BY <3>3, <3>5, <3>9
    <2> QED
      BY <2>2, <2>3
  <1>4. ASSUME NEW i \in 1..ItemsStarted(q), NEW j \in DOMAIN Branches(q, i),
               NEW k \in 1..Chain(q, i, j), pos = <<i, j, k>>
        PROVE  Goal
    <2>1. to = IF k = Chain(q, i, j) THEN Onward(q, d, i) ELSE d[<<i, j, k + 1>>]
      BY <1>4, AfterInner
    <2>2. CASE k = Chain(q, i, j)
      <3>1. Rank(q, pos) < Rank(q, <<i + 1>>)
        BY <1>4, RankGrows
      <3> HIDE DEF Goal, to
      <3> QED
        BY <1>1, <2>1, <2>2, <3>1
    <2>3. CASE k # Chain(q, i, j)
      <3>1. k + 1 \in 1..Chain(q, i, j)
        BY <2>3, PlacesCounted
      <3>2. IsPlace(q, <<i, j, k + 1>>)
        BY <3>1, PlaceKinds
      <3>3. Rank(q, pos) < Rank(q, <<i, j, k + 1>>)
        BY <1>4, RankGrows
      <3> HIDE DEF to
      <3> QED
        BY <2>1, <2>3, <3>2, <3>3
    <2> QED
      BY <2>2, <2>3
  <1> HIDE DEF Goal
  <1>5. CASE \E i \in 1..ItemsStarted(q) : pos = <<i>>
    BY <1>2, <1>5
  <1>6. CASE \E i \in 1..ItemsStarted(q) : \E j \in DOMAIN Branches(q, i) : pos = <<i, j>>
    BY <1>3, <1>6
  <1>7. CASE \E i \in 1..ItemsStarted(q) : \E j \in DOMAIN Branches(q, i) :
               \E k \in 1..Chain(q, i, j) : pos = <<i, j, k>>
    BY <1>4, <1>7
  <1> QED
    BY <1>5, <1>6, <1>7 DEF IsPlace

(* A column of the page, as the walk makes it. *)
ColumnOf(s, id) ==
  LET branches == Parallels(s, NodeOf(s, id))
  IN  [top |-> id,
       rows |-> IF branches = <<>> THEN << <<id>> >>
                ELSE [x \in DOMAIN branches |-> Row(s, branches[x])]]

(* convertJenkinsNodeGraph: the columns from every node on. *)
Walks(walk, s) ==
  LET ids == {n.id : n \in ToSet(s)}
      columns == {ColumnOf(s, id) : id \in ids}
  IN  /\ ConvertJenkinsNodeGraph(s) = (IF s = <<>> THEN <<>> ELSE walk[s[1].id])
      /\ \A id \in ids :
           /\ walk[id] \in Seq(columns)
           /\ walk[id] = (IF IsSequential(s, id) THEN <<>> ELSE <<ColumnOf(s, id)>>)
                           \o (IF After(s, NodeOf(s, id)) = NoNode THEN <<>>
                               ELSE walk[After(s, NodeOf(s, id))])

LEMMA WalkIs ==
  ASSUME NEW q, Numbered(q), NEW d, NEW s, Drawing(q, d, s)
  PROVE  \E walk : Walks(walk, s)
  <1> DEFINE ids == {n.id : n \in ToSet(s)}
             T == {ColumnOf(s, a) : a \in ids}
             head == [id \in ids |-> IF IsSequential(s, id) THEN <<>> ELSE <<ColumnOf(s, id)>>]
             nxt == [id \in ids |-> After(s, NodeOf(s, id))]
  <1>1. PICK rank \in [ids -> Nat], B \in Nat :
          /\ \A id \in ids : rank[id] <= B
          /\ \A pos : IsPlace(q, pos) => d[pos] \in ids /\ rank[d[pos]] = Rank(q, pos)
    BY RanksExist DEF Ranks
  <1>2. ASSUME NEW id \in ids
        PROVE  \/ After(s, NodeOf(s, id)) = NoNode
               \/ /\ After(s, NodeOf(s, id)) \in ids
                  /\ rank[id] < rank[After(s, NodeOf(s, id))]
    <2>1. PICK pos : IsPlace(q, pos) /\ id = d[pos]
      <3>1. PICK n \in ToSet(s) : id = n.id
        OBVIOUS
      <3>2. PICK pos : Shows(q, d, n, pos)
        BY <3>1, IdsArePlaces
      <3> QED
        BY <3>1, <3>2, ShowsPlace
    <2> DEFINE to == After(s, NodeOf(s, id))
    <2>2. \/ to = NoNode
          \/ \E p : IsPlace(q, p) /\ to = d[p] /\ Rank(q, pos) < Rank(q, p)
      BY <2>1, AfterLeads
    <2> HIDE DEF to, ids
    <2>3. ASSUME NEW p, IsPlace(q, p), to = d[p], Rank(q, pos) < Rank(q, p)
          PROVE  to \in ids /\ rank[id] < rank[to]
      BY <1>1, <2>1, <2>3
    <2> QED
      BY <2>2, <2>3 DEF to
  <1>3. NoNode \notin ids
    BY IdsArePlaces
  <1>4. \A id \in ids : head[id] \in Seq(T)
    <2> SUFFICES ASSUME NEW id \in ids PROVE head[id] \in Seq(T)
      OBVIOUS
    <2>1. ColumnOf(s, id) \in T
      OBVIOUS
    <2>2. head[id] = IF IsSequential(s, id) THEN <<>> ELSE <<ColumnOf(s, id)>>
      OBVIOUS
    <2> HIDE DEF T, head
    <2> QED
      BY <2>1, <2>2, EmptySeq
  <1> HIDE DEF ids, T
  <1>5. /\ \A id \in ids : nxt[id] = After(s, NodeOf(s, id))
        /\ \A id \in ids : head[id] = IF IsSequential(s, id) THEN <<>> ELSE <<ColumnOf(s, id)>>
    OBVIOUS
  <1>6. LeadsUp(ids, nxt, rank)
    BY <1>2, <1>3, <1>5 DEF LeadsUp
  <1> HIDE DEF head, nxt
  <1>7. PICK f : Trail(f, ids, head, nxt)
    <2>1. \A id \in ids : rank[id] <= B
      BY <1>1
    <2> QED
      BY <1>6, <2>1, TrailExists
  <1> DEFINE column(id) == LET branches == Parallels(s, NodeOf(s, id))
                           IN  [top |-> id,
                                rows |-> IF branches = <<>> THEN << <<id>> >>
                                         ELSE [x \in DOMAIN branches |-> Row(s, branches[x])]]
             walk[id \in ids] ==
               (IF IsSequential(s, id) THEN <<>> ELSE <<column(id)>>)
                 \o (LET next == After(s, NodeOf(s, id))
                     IN  IF next = NoNode THEN <<>> ELSE walk[next])
  <1>8. \A id : column(id) = ColumnOf(s, id)
    BY Zenon DEF ColumnOf
  <1>9. f = [id \in ids |->
               (IF IsSequential(s, id) THEN <<>> ELSE <<column(id)>>)
                 \o (LET next == After(s, NodeOf(s, id))
                     IN  IF next = NoNode THEN <<>> ELSE f[next])]
    <2> HIDE DEF column
    <2>1. ASSUME NEW id \in ids
          PROVE  head[id] \o (IF nxt[id] \in ids THEN f[nxt[id]] ELSE <<>>)
                   = (IF IsSequential(s, id) THEN <<>> ELSE <<column(id)>>)
                       \o (LET next == After(s, NodeOf(s, id))
                           IN  IF next = NoNode THEN <<>> ELSE f[next])
      <3>1. nxt[id] \in ids <=> After(s, NodeOf(s, id)) # NoNode
        BY <1>2, <1>3, <1>5
      <3> QED
        BY <1>5, <1>8, <3>1
    <2> QED
      BY <1>7, <2>1, Zenon DEF Trail
  <1>10. walk = [id \in ids |->
               (IF IsSequential(s, id) THEN <<>> ELSE <<column(id)>>)
                 \o (LET next == After(s, NodeOf(s, id))
                     IN  IF next = NoNode THEN <<>> ELSE walk[next])]
    BY <1>9, Zenon
  <1>11. ConvertJenkinsNodeGraph(s) = (IF s = <<>> THEN <<>> ELSE walk[s[1].id])
    BY Zenon DEF ConvertJenkinsNodeGraph, ids
  <1> HIDE DEF walk, column
  <1>12. ASSUME NEW id \in ids
         PROVE  walk[id] = (IF IsSequential(s, id) THEN <<>> ELSE <<ColumnOf(s, id)>>)
                            \o (IF After(s, NodeOf(s, id)) = NoNode THEN <<>>
                                ELSE walk[After(s, NodeOf(s, id))])
    BY <1>8, <1>10
  <1>13. Trail(walk, ids, head, nxt)
    <2>1. ASSUME NEW id \in ids
          PROVE  walk[id] = head[id] \o (IF nxt[id] \in ids THEN walk[nxt[id]] ELSE <<>>)
      <3>1. nxt[id] \in ids <=> After(s, NodeOf(s, id)) # NoNode
        BY <1>2, <1>3, <1>5
      <3> QED
        BY <1>5, <1>12, <3>1
    <2>2. walk = [id \in ids |-> walk[id]]
      BY <1>10
    <2> QED
      BY <2>1, <2>2 DEF Trail
  <1>14. \A id \in ids : walk[id] \in Seq(T)
    <2>1. \A id \in ids : rank[id] <= B
      BY <1>1
    <2> QED
      BY <1>4, <1>6, <1>13, <2>1, TrailTyped
  <1> QED
    BY <1>11, <1>12, <1>14 DEF Walks, ids, T

(* The column of an item. *)
Column(q, d, i) ==
  [top |-> d[<<i>>],
   rows |-> IF Branches(q, i) = <<>> THEN << <<d[<<i>>]>> >>
            ELSE [x \in DOMAIN Branches(q, i) |-> RowIds(q, d, i, ByName(q, i)[x])]]

LEMMA ColumnOfItem ==
  ASSUME NEW q, Numbered(q), NEW d, NEW s, Drawing(q, d, s), NEW i \in 1..ItemsStarted(q)
  PROVE  ColumnOf(s, d[<<i>>]) = Column(q, d, i)
  <1> DEFINE m == NodeOf(s, d[<<i>>])
             e == Parallels(s, m)
             rows == IF e = <<>> THEN << <<d[<<i>>]>> >> ELSE [x \in DOMAIN e |-> Row(s, e[x])]
  <1>1. ColumnOf(s, d[<<i>>]) = [top |-> d[<<i>>], rows |-> rows]
    BY Zenon DEF ColumnOf
  <1>2. CASE Branches(q, i) = <<>>
    <2>1. AsItem(q, d, m, i)
      BY NodesAre
    <2>2. m.edges = Follows(q, d, i)
      BY <1>2, <2>1 DEF AsItem
    <2> HIDE DEF m
    <2>3. e = <<>>
      BY <2>2, AfterFollows
    <2> HIDE DEF e
    <2> QED
      BY <1>1, <1>2, <2>3 DEF Column
  <1>3. CASE Branches(q, i) # <<>>
    <2> DEFINE ids == {n.id : n \in ToSet(s)}
               b == Len(Branches(q, i))
    <2>1. /\ e = BranchIds(q, d, i) /\ e \in Seq(ids) /\ Len(e) = b
          /\ b \in Nat \ {0} /\ DOMAIN Branches(q, i) = 1..b
          /\ \A x \in 1..b : ByName(q, i)[x] \in DOMAIN Branches(q, i)
      <3>1. e = BranchIds(q, d, i)
        BY <1>3, ParallelsOfItem
      <3>2. e \in Seq(ids) /\ Len(e) = b /\ b \in Nat \ {0}
        BY <1>3, ParallelsOfItem
      <3>3. /\ DOMAIN Branches(q, i) = 1..b
            /\ \A x \in 1..b : ByName(q, i)[x] \in DOMAIN Branches(q, i)
        BY <1>3, ParallelsOfItem, Zenon
      <3> HIDE DEF e, ids, b
      <3> QED
        BY <3>1, <3>2, <3>3
    <2> HIDE DEF e
    <2>2. e # <<>>
      BY <2>1, EmptySeq
    <2>3. DOMAIN e = 1..b /\ \A x \in 1..b : e[x] = d[<<i, ByName(q, i)[x]>>]
      BY <2>1 DEF BranchIds
    <2> HIDE DEF b
    <2>4. \A x \in 1..b : Row(s, e[x]) = RowIds(q, d, i, ByName(q, i)[x])
      <3> SUFFICES ASSUME NEW x \in 1..b
                   PROVE  Row(s, e[x]) = RowIds(q, d, i, ByName(q, i)[x])
        OBVIOUS
      <3>1. ByName(q, i)[x] \in DOMAIN Branches(q, i)
        BY <2>1
      <3>2. Row(s, d[<<i, ByName(q, i)[x]>>]) = RowIds(q, d, i, ByName(q, i)[x])
        BY <3>1, RowIs
      <3> QED
        BY <2>3, <3>2
    <2>5. [x \in DOMAIN e |-> Row(s, e[x])]
            = [x \in DOMAIN Branches(q, i) |-> RowIds(q, d, i, ByName(q, i)[x])]
      BY <2>1, <2>3, <2>4
    <2>6. rows = [x \in DOMAIN Branches(q, i) |-> RowIds(q, d, i, ByName(q, i)[x])]
      BY <2>2, <2>5, Zenon
    <2> HIDE DEF rows
    <2> QED
      BY <1>1, <1>3, <2>6 DEF Column
  <1> QED
    BY <1>2, <1>3

(* convertJenkinsNodeGraph draws the items in turn. *)
LEMMA ColumnsAre ==
  ASSUME NEW q, Numbered(q), NEW d, NEW s, Drawing(q, d, s)
  PROVE  ConvertJenkinsNodeGraph(s) = [i \in 1..ItemsStarted(q) |-> Column(q, d, i)]
  <1> DEFINE n == ItemsStarted(q)
             ids == {m.id : m \in ToSet(s)}
             T == {ColumnOf(s, a) : a \in ids}
             at == [i \in 1..n |-> Column(q, d, i)]
  <1>1. PICK walk :
           /\ ConvertJenkinsNodeGraph(s) = (IF s = <<>> THEN <<>> ELSE walk[s[1].id])
           /\ \A id \in ids :
                /\ walk[id] \in Seq(T)
                /\ walk[id] = (IF IsSequential(s, id) THEN <<>> ELSE <<ColumnOf(s, id)>>)
                                \o (IF After(s, NodeOf(s, id)) = NoNode THEN <<>>
                                    ELSE walk[After(s, NodeOf(s, id))])
    <2>1. PICK walk : Walks(walk, s)
      BY WalkIs
    <2> QED
      BY <2>1 DEF Walks
  <1>2. /\ n \in Nat /\ Len(s) \in Nat /\ DOMAIN s = 1..Len(s)
        /\ s = [x \in 1..Len(s) |-> s[x]]
    BY PlacesCounted DEF Drawing
  <1>3. NoNode \notin ids /\ \A pos : IsPlace(q, pos) => d[pos] \in ids
    BY IdsArePlaces
  <1>4. \A i \in 1..n : Column(q, d, i) \in T
    <2> SUFFICES ASSUME NEW i \in 1..n PROVE Column(q, d, i) \in T
      OBVIOUS
    <2>1. d[<<i>>] \in ids
      <3>1. IsPlace(q, <<i>>)
        BY PlaceKinds
      <3> QED
        BY <1>3, <3>1
    <2>2. ColumnOf(s, d[<<i>>]) \in T
      BY <2>1
    <2> QED
      BY <2>2, ColumnOfItem
  <1> HIDE DEF ids, T
  <1> DEFINE from(id) == IF id = NoNode THEN <<>> ELSE walk[id]
             V(i) == from(Onward(q, d, i))
  <1>5. ASSUME NEW i \in 1..n PROVE V(i) \in Seq(T) /\ V(i) = IF i = n THEN <<>> ELSE walk[d[<<i + 1>>]]
    <2>1. CASE i < n
      <3>1. i + 1 \in 1..n /\ i # n
        BY <1>2, <2>1
      <3>2. IsPlace(q, <<i + 1>>)
        BY <3>1, PlaceKinds
      <3>3. d[<<i + 1>>] \in ids /\ d[<<i + 1>>] # NoNode
        BY <1>3, <3>2
      <3>4. Onward(q, d, i) = d[<<i + 1>>]
        BY <2>1 DEF Onward
      <3> QED
        BY <1>1, <3>1, <3>3, <3>4
    <2>2. CASE ~(i < n)
      <3>1. V(i) = <<>>
        BY <2>2 DEF Onward
      <3>2. i = n
        BY <1>2, <2>2
      <3> HIDE DEF V
      <3> QED
        BY <3>1, <3>2, EmptySeq
    <2> QED
      BY <2>1, <2>2
  <1> HIDE DEF V
  <1>6. ASSUME NEW i \in 1..n, NEW j \in DOMAIN Branches(q, i), NEW k \in 1..Chain(q, i, j)
        PROVE  walk[d[<<i, j, k>>]] = V(i)
    <2> DEFINE c == Chain(q, i, j)
               Bad == {m \in 0..(c - 1) : walk[d[<<i, j, c - m>>]] # V(i)}
    <2>1. c \in Nat /\ k \in 1..c
      BY PlacesCounted
    <2>2. \A l \in 1..c : IsPlace(q, <<i, j, l>>) /\ d[<<i, j, l>>] \in ids
      BY <1>3, PlaceKinds
    <2>3. \A l \in 1..c : walk[d[<<i, j, l>>]] = IF l = c THEN V(i) ELSE walk[d[<<i, j, l + 1>>]]
      <3> SUFFICES ASSUME NEW l \in 1..c
                   PROVE  walk[d[<<i, j, l>>]]
                            = IF l = c THEN V(i) ELSE walk[d[<<i, j, l + 1>>]]
        OBVIOUS
      <3> DEFINE to == After(s, NodeOf(s, d[<<i, j, l>>]))
      <3>1. IsSequential(s, d[<<i, j, l>>])
        BY SequentialAre
      <3>2. to = IF l = c THEN Onward(q, d, i) ELSE d[<<i, j, l + 1>>]
        BY AfterInner
      <3> HIDE DEF to, from
      <3>3. walk[d[<<i, j, l>>]] = <<>> \o from(to)
        BY <1>1, <2>2, <3>1 DEF to, from
      <3>4. from(to) \in Seq(T) /\ from(to) = IF l = c THEN V(i) ELSE walk[d[<<i, j, l + 1>>]]
        <4>1. CASE l = c
          BY <1>5, <3>2, <4>1 DEF V
        <4>2. CASE l # c
          <5>1. l + 1 \in 1..c
            BY <2>1, <4>2
          <5>2. d[<<i, j, l + 1>>] \in ids /\ d[<<i, j, l + 1>>] # NoNode
            BY <1>3, <2>2, <5>1
          <5>3. from(to) = walk[d[<<i, j, l + 1>>]]
            BY <3>2, <4>2, <5>2 DEF from
          <5> QED
            BY <1>1, <4>2, <5>2, <5>3
        <4> QED
          BY <4>1, <4>2
      <3>5. \A t \in Seq(T) : <<>> \o t = t
        OBVIOUS
      <3> QED
        BY <3>3, <3>4, <3>5
    <2> HIDE DEF c
    <2>4. Bad = {}
      <3> SUFFICES ASSUME Bad # {} PROVE FALSE
        OBVIOUS
      <3>1. PICK m \in Bad : \A l \in Bad : m <= l
        <4>1. Bad \in SUBSET Nat
          BY <2>1
        <4> HIDE DEF Bad
        <4> QED
          BY <4>1, LeastExists
      <3>2. m \in 0..(c - 1) /\ walk[d[<<i, j, c - m>>]] # V(i)
        BY <3>1
      <3>3. c - m \in 1..c /\ m \in Nat
        BY <2>1, <3>2
      <3>4. c - m # c /\ walk[d[<<i, j, c - m + 1>>]] # V(i)
        BY <2>3, <3>2, <3>3
      <3>5. m - 1 \in 0..(c - 1) /\ c - m + 1 = c - (m - 1) /\ ~(m <= m - 1)
        BY <2>1, <3>2, <3>3, <3>4
      <3>6. m - 1 \in Bad
        BY <3>4, <3>5
      <3> HIDE DEF Bad
      <3> QED
        BY <3>1, <3>5, <3>6
    <2>5. c - k \in 0..(c - 1) /\ c - (c - k) = k
      BY <2>1
    <2> QED
      BY <2>4, <2>5
  <1>7. ASSUME NEW i \in 1..n PROVE walk[d[<<i>>]] = <<Column(q, d, i)>> \o V(i)
    <2> DEFINE to == After(s, NodeOf(s, d[<<i>>]))
    <2>1. IsPlace(q, <<i>>) /\ d[<<i>>] \in ids
      BY <1>3, PlaceKinds
    <2>2. from(to) = V(i)
      <3>1. CASE Branches(q, i) = <<>>
        <4>1. NodeOf(s, d[<<i>>]).edges = Follows(q, d, i)
          <5>1. AsItem(q, d, NodeOf(s, d[<<i>>]), i)
            BY NodesAre
          <5> QED
            BY <3>1, <5>1 DEF AsItem
        <4>2. to = Onward(q, d, i)
          BY <4>1, AfterFollows
        <4> HIDE DEF to
        <4> QED
          BY <4>2 DEF V
      <3>2. CASE Branches(q, i) # <<>>
        <4>1. \/ to = Onward(q, d, i)
              \/ \E j \in DOMAIN Branches(q, i) : 1 \in 1..Chain(q, i, j) /\ to = d[<<i, j, 1>>]
          BY <3>2, AfterBranches
        <4> HIDE DEF to
        <4>2. ASSUME NEW j \in DOMAIN Branches(q, i), 1 \in 1..Chain(q, i, j), to = d[<<i, j, 1>>]
              PROVE  from(to) = V(i)
          <5>1. IsPlace(q, <<i, j, 1>>)
            BY <4>2, PlaceKinds
          <5>2. to # NoNode
            BY <1>3, <4>2, <5>1
          <5> QED
            BY <1>6, <4>2, <5>2
        <4> HIDE DEF from
        <4> QED
          BY <4>1, <4>2 DEF V
      <3> QED
        BY <3>1, <3>2
    <2>3. ~IsSequential(s, d[<<i>>])
      BY SequentialAre
    <2>4. walk[d[<<i>>]] = <<ColumnOf(s, d[<<i>>])>> \o from(to)
      BY <1>1, <2>1, <2>3
    <2> HIDE DEF to, from
    <2> QED
      BY <2>2, <2>4, ColumnOfItem
  <1> HIDE DEF from
  <1>8. CASE n = 0
    <2>1. Len(s) = 0
      <3>1. SUFFICES ASSUME Len(s) # 0 PROVE FALSE
        OBVIOUS
      <3>2. 1 \in 1..Len(s)
        BY <1>2, <3>1
      <3>3. PICK pos : Shows(q, d, s[1], pos)
        BY <3>2 DEF Drawing
      <3>4. 1..n = {}
        BY <1>8
      <3> QED
        BY <3>3, <3>4, Zenon DEF Shows
    <2>2. 1..Len(s) = {} /\ 1..n = {}
      BY <1>8, <2>1
    <2>3. s = <<>> /\ at = <<>>
      BY <1>2, <2>2
    <2> HIDE DEF at
    <2> QED
      BY <1>1, <2>3 DEF at
  <1>9. CASE n # 0
    <2> DEFINE row == [i \in 1..n |-> walk[d[<<i>>]]]
    <2>1. Len(s) # 0 /\ s[1].id = d[<<1>>]
      BY <1>9 DEF Drawing
    <2>2. s # <<>>
      BY <2>1
    <2>3. 1 \in 1..n /\ n \in Nat \ {0}
      BY <1>2, <1>9
    <2>4. MadeInTurn(row, at, n)
      <3>1. ASSUME NEW i \in 1..n
            PROVE  row[i] = <<at[i]>> \o (IF i = n THEN <<>> ELSE row[i + 1])
        <4>1. i # n => i + 1 \in 1..n
          BY <1>2
        <4> HIDE DEF n
        <4> QED
          BY <1>5, <1>7, <4>1
      <3> HIDE DEF row, at
      <3> QED
        BY <3>1 DEF MadeInTurn
    <2>5. at \in [1..n -> T]
      BY <1>4
    <2>6. row[1] = walk[s[1].id]
      BY <2>1, <2>3
    <2> HIDE DEF row, at, n
    <2>7. row[1] = at
      BY <2>3, <2>4, <2>5, ListedInTurn
    <2> QED
      BY <1>1, <2>2, <2>6, <2>7 DEF at, n
  <1> QED
    BY <1>8, <1>9

(* What the page shows of a graph, as GraphDrawn puts it. *)
Drawn(s) ==
  LET columns == ConvertJenkinsNodeGraph(s)
      name(id) == NodeOf(s, id).name
  IN  [c \in DOMAIN columns |->
         [top |-> name(columns[c].top),
          rows |-> [x \in DOMAIN columns[c].rows |->
                      [y \in DOMAIN columns[c].rows[x] |-> name(columns[c].rows[x][y])]]]]

(* The names in the row of a branch. *)
RowNames(q, i, j) ==
  IF InnerStarted(q, i, j) < 2 THEN <<Branches(q, i)[j].name>>
  ELSE SubSeq(Inner(q, i, j), 1, InnerStarted(q, i, j))

LEMMA NamesInRow ==
  ASSUME NEW q, Numbered(q), NEW d, NEW s, Drawing(q, d, s),
         NEW i \in 1..ItemsStarted(q), NEW j \in DOMAIN Branches(q, i)
  PROVE  [y \in DOMAIN RowIds(q, d, i, j) |-> NodeOf(s, RowIds(q, d, i, j)[y]).name]
           = RowNames(q, i, j)
  <1> DEFINE c == InnerStarted(q, i, j)
  <1>1. /\ c \in 0..Len(Inner(q, i, j)) /\ i \in DOMAIN q.pipe
        /\ Inner(q, i, j) \in Seq(Nat) /\ Len(Inner(q, i, j)) \in Nat
    <2>1. c \in 0..Len(Inner(q, i, j)) /\ i \in DOMAIN q.pipe
      BY PlacesCounted
    <2>2. q.pipe \in Seq(Item)
      BY PipelinesAssumption DEF Numbered
    <2>3. q.pipe[i] \in Item
      BY <2>1, <2>2, ElementOfSeq, LenProperties
    <2>4. Branches(q, i) \in Seq([name : Nat, inner : Seq(Nat)])
      BY <2>3 DEF Item, Branches
    <2>5. Branches(q, i)[j] \in [name : Nat, inner : Seq(Nat)]
      BY <2>4, ElementOfSeq, LenProperties
    <2>6. Inner(q, i, j) \in Seq(Nat)
      BY <2>5 DEF Inner
    <2> QED
      BY <2>1, <2>6, LenProperties
  <1>2. CASE c < 2
    <2>1. RowIds(q, d, i, j) = <<d[<<i, j>>]>>
      BY <1>2 DEF Chain, RowIds
    <2>2. NodeOf(s, d[<<i, j>>]).name = Branches(q, i)[j].name
      <3>1. AsBranch(q, d, NodeOf(s, d[<<i, j>>]), i, j)
        BY NodesAre
      <3> QED
        BY <3>1 DEF AsBranch
    <2>3. RowNames(q, i, j) = <<Branches(q, i)[j].name>>
      BY <1>2 DEF RowNames
    <2> QED
      BY <2>1, <2>2, <2>3
  <1>3. CASE ~(c < 2)
    <2>1. Chain(q, i, j) = c /\ c # 0
      BY <1>3 DEF Chain
    <2>2. RowIds(q, d, i, j) = [y \in 1..c |-> d[<<i, j, y>>]]
      BY <2>1 DEF RowIds
    <2>3. ASSUME NEW y \in 1..c PROVE NodeOf(s, d[<<i, j, y>>]).name = Inner(q, i, j)[y]
      <3>1. AsInner(q, d, NodeOf(s, d[<<i, j, y>>]), i, j, y)
        BY <2>1, NodesAre
      <3> QED
        BY <3>1 DEF AsInner
    <2>4. RowNames(q, i, j) = SubSeq(Inner(q, i, j), 1, c)
      BY <1>3 DEF RowNames
    <2> HIDE DEF c
    <2>5. SubSeq(Inner(q, i, j), 1, c) = [y \in 1..c |-> Inner(q, i, j)[y]]
      BY <1>1
    <2> QED
      BY <2>2, <2>3, <2>4, <2>5
  <1> QED
    BY <1>2, <1>3

(* convertJenkinsNodeGraph: of a graph that shows what a run has started,  *)
(* the page draws all of it, each stage and branch once.                    *)
LEMMA ShapeDrawn ==
  ASSUME NEW q, Numbered(q), NEW d, NEW s, Drawing(q, d, s)
  PROVE  Drawn(s) = Shape(q)
  <1> DEFINE n == ItemsStarted(q)
             columns == ConvertJenkinsNodeGraph(s)
             name(id) == NodeOf(s, id).name
             rows(r) == [x \in DOMAIN r |-> [y \in DOMAIN r[x] |-> name(r[x][y])]]
             top(i) == IF q.pipe[i].orphan THEN ParallelName ELSE q.pipe[i].name
             named(i) == IF Branches(q, i) = <<>> THEN << <<q.pipe[i].name>> >>
                         ELSE [x \in DOMAIN Branches(q, i) |->
                                 RowNames(q, i, ByName(q, i)[x])]
  <1>1. Drawn(s) = [c \in DOMAIN columns |-> [top |-> name(columns[c].top),
                                              rows |-> rows(columns[c].rows)]]
    BY Zenon DEF Drawn
  <1>2. Shape(q) = [i \in 1..n |-> [top |-> top(i), rows |-> named(i)]]
    BY Zenon DEF Shape, RowNames
  <1>3. columns = [i \in 1..n |-> Column(q, d, i)]
    BY ColumnsAre
  <1>4. ASSUME NEW i \in 1..n
        PROVE name(Column(q, d, i).top) = top(i) /\ rows(Column(q, d, i).rows) = named(i)
    <2>1. AsItem(q, d, NodeOf(s, d[<<i>>]), i)
      BY NodesAre
    <2>2. name(d[<<i>>]) = top(i)
      BY <2>1 DEF AsItem
    <2>3. Column(q, d, i).top = d[<<i>>]
      BY DEF Column
    <2>4. CASE Branches(q, i) = <<>>
      <3>1. Column(q, d, i).rows = << <<d[<<i>>]>> >>
        BY <2>4 DEF Column
      <3>2. ~q.pipe[i].orphan
        <4>1. q.pipe[i].orphan => 1 \in DOMAIN Branches(q, i)
          BY PlacesCounted, PipeTypes DEF Numbered
        <4> QED
          BY <2>4, <4>1
      <3>3. named(i) = << <<q.pipe[i].name>> >> /\ name(d[<<i>>]) = q.pipe[i].name
        BY <2>2, <2>4, <3>2
      <3> DEFINE a == d[<<i>>]
      <3> HIDE DEF a, named, name
      <3>4. rows(<< <<a>> >>) = << <<name(a)>> >>
        OBVIOUS
      <3> QED
        BY <2>2, <2>3, <3>1, <3>3, <3>4 DEF a
    <2>5. CASE Branches(q, i) # <<>>
      <3> DEFINE b == DOMAIN Branches(q, i)
                 r == Column(q, d, i).rows
      <3>1. r = [x \in b |-> RowIds(q, d, i, ByName(q, i)[x])]
        BY <2>5 DEF Column
      <3>2. ASSUME NEW x \in b
            PROVE  [y \in DOMAIN r[x] |-> name(r[x][y])] = RowNames(q, i, ByName(q, i)[x])
        <4>1. ByName(q, i)[x] \in DOMAIN Branches(q, i)
          <5>1. q.pipe \in Pipelines /\ i \in DOMAIN q.pipe
            BY PlacesCounted DEF Numbered
          <5> QED
            BY <5>1, BranchesInOrder
        <4>2. [y \in DOMAIN RowIds(q, d, i, ByName(q, i)[x]) |->
                 name(RowIds(q, d, i, ByName(q, i)[x])[y])] = RowNames(q, i, ByName(q, i)[x])
          BY <4>1, NamesInRow
        <4>3. r[x] = RowIds(q, d, i, ByName(q, i)[x])
          BY <3>1
        <4> HIDE DEF r, name, b
        <4> QED
          BY <4>2, <4>3
      <3>3. DOMAIN r = b
        BY <3>1
      <3> HIDE DEF r, name, b
      <3>4. rows(r) = [x \in b |-> RowNames(q, i, ByName(q, i)[x])]
        BY <3>2, <3>3
      <3>5. named(i) = [x \in b |-> RowNames(q, i, ByName(q, i)[x])]
        BY <2>5 DEF b
      <3> QED
        BY <2>2, <2>3, <3>4, <3>5 DEF r
    <2> QED
      BY <2>4, <2>5
  <1> HIDE DEF columns, name, rows, top, named, n
  <1>5. DOMAIN columns = 1..n /\ \A i \in 1..n : columns[i] = Column(q, d, i)
    BY <1>3
  <1> QED
    BY <1>1, <1>2, <1>4, <1>5

-----------------------------------------------------------------------------
(* The nodes of a run draw it.                                             *)

(* parallelStart: every branch has its place in the order of the names. *)
LEMMA ByNameReaches ==
  ASSUME NEW q, q.pipe \in Pipelines, NEW i \in DOMAIN q.pipe, NEW j \in DOMAIN Branches(q, i)
  PROVE  \E x \in DOMAIN Branches(q, i) : ByName(q, i)[x] = j
  <1> DEFINE places == DOMAIN Branches(q, i)
             order == ByName(q, i)
  <1>1. /\ order \in [places -> places]
        /\ \A x, y \in places : order[x] = order[y] => x = y
    BY BranchesInOrder
  <1>2. IsFiniteSet(places)
    <2>1. Len(Branches(q, i)) \in Nat /\ places = 1..Len(Branches(q, i))
      BY PipeTypes
    <2> HIDE DEF places
    <2> QED
      BY <2>1, FS_Interval
  <1> HIDE DEF places, order
  <1>3. order \in Injection(places, places)
    BY <1>1 DEF Injection, IsInjective
  <1>4. order \in Surjection(places, places)
    BY <1>2, <1>3, FS_Injection
  <1> QED
    BY <1>4 DEF Surjection, places, order

(* The ids of the places of a run. *)
OwnIds(q) == [pos \in Seq(Nat) |-> PlaceId(q, pos)]

LEMMA OwnIdsAre ==
  ASSUME NEW q, Numbered(q)
  PROVE  /\ \A pos : IsPlace(q, pos) => pos \in Seq(Nat) /\ OwnIds(q)[pos] = PlaceId(q, pos)
         /\ \A i \in 1..ItemsStarted(q) :
              /\ i \in Nat /\ OwnIds(q)[<<i>>] = HeadId(q, i)
              /\ \A j \in DOMAIN Branches(q, i) :
                   /\ OwnIds(q)[<<i, j>>] = q.ids[<<i, j>>]
                   /\ \A k \in Nat : OwnIds(q)[<<i, j, k>>] = q.ids[<<i, j, k>>]
  <1>1. \A i \in 1..ItemsStarted(q) : i \in Nat /\ \A j \in DOMAIN Branches(q, i) : j \in Nat
    BY PlacesCounted
  <1>2. ASSUME NEW i \in 1..ItemsStarted(q)
        PROVE  i \in Nat /\ <<i>> \in Seq(Nat) /\ OwnIds(q)[<<i>>] = HeadId(q, i)
    <2>1. <<i>> \in Seq(Nat)
      BY <1>1
    <2> QED
      BY <1>1, <2>1 DEF OwnIds, PlaceId
  <1>3. ASSUME NEW i \in 1..ItemsStarted(q), NEW j \in DOMAIN Branches(q, i)
        PROVE  <<i, j>> \in Seq(Nat) /\ OwnIds(q)[<<i, j>>] = q.ids[<<i, j>>]
    <2>1. <<i, j>> \in Seq(Nat)
      BY <1>1
    <2> QED
      BY <2>1 DEF OwnIds, PlaceId
  <1>4. ASSUME NEW i \in 1..ItemsStarted(q), NEW j \in DOMAIN Branches(q, i), NEW k \in Nat
        PROVE  <<i, j, k>> \in Seq(Nat) /\ OwnIds(q)[<<i, j, k>>] = q.ids[<<i, j, k>>]
    <2>1. <<i, j, k>> \in Seq(Nat)
      BY <1>1
    <2> QED
      BY <2>1 DEF OwnIds, PlaceId
  <1>5. ASSUME NEW pos, IsPlace(q, pos) PROVE pos \in Seq(Nat)
    <2>1. CASE \E i \in 1..ItemsStarted(q) : pos = <<i>>
      BY <1>2, <2>1
    <2>2. CASE \E i \in 1..ItemsStarted(q) : \E j \in DOMAIN Branches(q, i) : pos = <<i, j>>
      BY <1>3, <2>2
    <2>3. CASE \E i \in 1..ItemsStarted(q) : \E j \in DOMAIN Branches(q, i) :
                 \E k \in 1..Chain(q, i, j) : pos = <<i, j, k>>
      <3>1. PICK i \in 1..ItemsStarted(q) : \E j \in DOMAIN Branches(q, i) :
                   \E k \in 1..Chain(q, i, j) : pos = <<i, j, k>>
        BY <2>3
      <3>2. PICK j \in DOMAIN Branches(q, i) : \E k \in 1..Chain(q, i, j) : pos = <<i, j, k>>
        BY <3>1
      <3>3. PICK k \in 1..Chain(q, i, j) : pos = <<i, j, k>>
        BY <3>2
      <3>4. k \in Nat
        BY PlacesCounted
      <3> QED
        BY <1>4, <3>3, <3>4
    <2> QED
      BY <1>5, <2>1, <2>2, <2>3 DEF IsPlace
  <1>6. \A pos \in Seq(Nat) : OwnIds(q)[pos] = PlaceId(q, pos)
    BY DEF OwnIds
  <1> QED
    BY <1>2, <1>3, <1>4, <1>5, <1>6

(* handleChunkDone, parallelStart: what the nodes of a run show. *)
LEMMA OwnNodes ==
  ASSUME NEW q, Numbered(q), NEW i \in 1..ItemsStarted(q)
  PROVE  /\ Shows(q, OwnIds(q), StageNode(q, i), <<i>>)
         /\ \A j \in DOMAIN Branches(q, i) :
              /\ Shows(q, OwnIds(q), BranchNode(q, i, j), <<i, j>>)
              /\ \A k \in 1..Chain(q, i, j) :
                   Shows(q, OwnIds(q), InnerNode(q, i, j, k), <<i, j, k>>)
  <1> DEFINE d == OwnIds(q)
  <1>1. /\ ItemsStarted(q) \in Nat /\ i \in Nat /\ i \in DOMAIN q.pipe
        /\ \A j \in DOMAIN Branches(q, i) : Chain(q, i, j) \in Nat
    BY PlacesCounted
  <1>2. \A l \in 1..ItemsStarted(q) :
          /\ d[<<l>>] = HeadId(q, l)
          /\ \A j \in DOMAIN Branches(q, l) :
               /\ d[<<l, j>>] = q.ids[<<l, j>>]
               /\ \A k \in Nat : d[<<l, j, k>>] = q.ids[<<l, j, k>>]
    BY OwnIdsAre
  <1> HIDE DEF d
  <1>3. NextStage(q, i) = Follows(q, d, i)
    <2>1. CASE i < ItemsStarted(q)
      <3>1. i + 1 \in 1..ItemsStarted(q)
        BY <1>1, <2>1
      <3>2. d[<<i + 1>>] = HeadId(q, i + 1)
        BY <1>2, <3>1
      <3> QED
        BY <2>1, <3>2 DEF NextStage, Follows
    <2>2. CASE ~(i < ItemsStarted(q))
      BY <2>2 DEF NextStage, Follows
    <2> QED
      BY <2>1, <2>2
  <1>4. AsItem(q, d, StageNode(q, i), i)
    <2> DEFINE m == StageNode(q, i)
    <2>1. m.parent = (IF i > 1 /\ Branches(q, i - 1) = <<>> THEN d[<<i - 1>>] ELSE NoNode)
      <3>1. i > 1 => i - 1 \in 1..ItemsStarted(q)
        BY <1>1
      <3>2. m.parent = IF i > 1 /\ Branches(q, i - 1) = <<>> THEN HeadId(q, i - 1) ELSE NoNode
        BY DEF StageNode
      <3> QED
        BY <1>2, <3>1, <3>2
    <2>2. m.edges = (IF Branches(q, i) = <<>> THEN Follows(q, d, i)
                     ELSE [x \in DOMAIN Branches(q, i) |-> d[<<i, ByName(q, i)[x]>>]])
      <3>1. m.edges = IF Branches(q, i) = <<>> THEN NextStage(q, i)
                      ELSE [x \in DOMAIN Branches(q, i) |-> q.ids[<<i, ByName(q, i)[x]>>]]
        BY DEF StageNode
      <3>2. \A x \in DOMAIN Branches(q, i) : ByName(q, i)[x] \in DOMAIN Branches(q, i)
        BY <1>1, BranchesInOrder DEF Numbered
      <3>3. [x \in DOMAIN Branches(q, i) |-> q.ids[<<i, ByName(q, i)[x]>>]]
              = [x \in DOMAIN Branches(q, i) |-> d[<<i, ByName(q, i)[x]>>]]
        BY <1>2, <3>2
      <3> QED
        BY <1>3, <3>1, <3>3
    <2>3. /\ m.id = d[<<i>>]
          /\ m.name = (IF q.pipe[i].orphan THEN ParallelName ELSE q.pipe[i].name)
          /\ m.type = "STAGE"
      BY <1>2 DEF StageNode
    <2> HIDE DEF m
    <2>4. AsItem(q, d, m, i)
      BY <2>1, <2>2, <2>3 DEF AsItem
    <2> QED
      BY <2>4 DEF m
  <1>5. ASSUME NEW j \in DOMAIN Branches(q, i) PROVE AsBranch(q, d, BranchNode(q, i, j), i, j)
    <2>1. d[<<i>>] = HeadId(q, i) /\ d[<<i, j>>] = q.ids[<<i, j>>]
          /\ d[<<i, j, 1>>] = q.ids[<<i, j, 1>>]
      BY <1>2
    <2> QED
      BY <1>3, <2>1 DEF BranchNode, AsBranch
  <1>6. ASSUME NEW j \in DOMAIN Branches(q, i), NEW k \in 1..Chain(q, i, j)
        PROVE  AsInner(q, d, InnerNode(q, i, j, k), i, j, k)
    <2>1. k \in Nat /\ k + 1 \in Nat /\ (k # 1 => k - 1 \in Nat)
      BY <1>1
    <2>2. /\ d[<<i, j>>] = q.ids[<<i, j>>] /\ d[<<i, j, k>>] = q.ids[<<i, j, k>>]
          /\ d[<<i, j, k + 1>>] = q.ids[<<i, j, k + 1>>]
          /\ k # 1 => d[<<i, j, k - 1>>] = q.ids[<<i, j, k - 1>>]
      BY <1>2, <2>1
    <2> QED
      BY <1>3, <2>2 DEF InnerNode, AsInner
  <1>7. /\ Shows(q, d, StageNode(q, i), <<i>>)
        /\ \A j \in DOMAIN Branches(q, i) :
              /\ Shows(q, d, BranchNode(q, i, j), <<i, j>>)
              /\ \A k \in 1..Chain(q, i, j) : Shows(q, d, InnerNode(q, i, j, k), <<i, j, k>>)
    BY <1>4, <1>5, <1>6 DEF Shows
  <1> QED
    BY <1>7 DEF d

(* A list of nodes that show places, among them some. *)
Part(q, s, places) ==
  /\ s \in Seq(AnyNode(q))
  /\ \A y \in 1..Len(s) : \E pos : Shows(q, OwnIds(q), s[y], pos)
  /\ \A pos \in places : \E y \in 1..Len(s) : s[y].id = OwnIds(q)[pos]

Parts(q, n, lists, P) ==
  lists = [i \in 1..n |-> lists[i]] /\ \A i \in 1..n : Part(q, lists[i], P[i])
Places(n, P) == UNION {P[i] : i \in 1..n}

LEMMA PartsFlat ==
  ASSUME NEW q, NEW n \in Nat, NEW lists, NEW P, Parts(q, n, lists, P)
  PROVE  /\ Part(q, FlattenSeq(lists), Places(n, P))
         /\ n # 0 /\ Len(lists[1]) # 0 =>
              Len(FlattenSeq(lists)) # 0 /\ FlattenSeq(lists)[1] = lists[1][1]
  <1> DEFINE t == FlattenSeq(lists)
             S == AnyNode(q)
  <1>1. lists = [i \in 1..n |-> lists[i]] /\ \A i \in 1..n : Part(q, lists[i], P[i])
    BY DEF Parts
  <1>2. lists \in Seq(Seq(S)) /\ Len(lists) = n
    <2>1. \A i \in 1..n : lists[i] \in Seq(S)
      BY <1>1 DEF Part
    <2> HIDE DEF S
    <2>2. [i \in 1..n |-> lists[i]] \in Seq(Seq(S))
      BY <2>1, IsASeq
    <2>3. DOMAIN lists = 1..n
      BY <1>1, Zenon
    <2>4. lists \in Seq(Seq(S))
      BY <1>1, <2>2, Zenon
    <2> QED
      BY <2>3, <2>4, LenProperties
  <1> HIDE DEF S
  <1>3. /\ t \in Seq(S)
        /\ \A i \in 1..n : \A x \in 1..Len(lists[i]) : \E y \in 1..Len(t) : t[y] = lists[i][x]
        /\ \A y \in 1..Len(t) : \E i \in 1..n : \E x \in 1..Len(lists[i]) : t[y] = lists[i][x]
        /\ n # 0 /\ Len(lists[1]) # 0 => Len(t) # 0 /\ t[1] = lists[1][1]
    <2>1. /\ t \in Seq(S)
          /\ \A i \in 1..Len(lists) : \A x \in 1..Len(lists[i]) :
               \E y \in 1..Len(t) : t[y] = lists[i][x]
          /\ \A y \in 1..Len(t) :
               \E i \in 1..Len(lists) : \E x \in 1..Len(lists[i]) : t[y] = lists[i][x]
          /\ Len(lists) # 0 /\ Len(lists[1]) # 0 => Len(t) # 0 /\ t[1] = lists[1][1]
      <3>1. lists \in Seq(Seq(S))
        BY <1>2
      <3> QED
        BY <3>1, FlattenKeeps, Zenon
    <2> HIDE DEF t
    <2> QED
      BY <1>2, <2>1
  <1> HIDE DEF t
  <1>4. ASSUME NEW y \in 1..Len(t) PROVE \E pos : Shows(q, OwnIds(q), t[y], pos)
    <2>1. PICK i \in 1..n : \E x \in 1..Len(lists[i]) : t[y] = lists[i][x]
      BY <1>3
    <2>2. PICK x \in 1..Len(lists[i]) : t[y] = lists[i][x]
      BY <2>1
    <2>3. \E pos : Shows(q, OwnIds(q), lists[i][x], pos)
      BY <1>1 DEF Part
    <2> QED
      BY <2>2, <2>3
  <1>5. ASSUME NEW pos \in Places(n, P)
        PROVE  \E y \in 1..Len(t) : t[y].id = OwnIds(q)[pos]
    <2>1. PICK i \in 1..n : pos \in P[i]
      BY Zenon DEF Places
    <2>2. PICK x \in 1..Len(lists[i]) : lists[i][x].id = OwnIds(q)[pos]
      BY <1>1, <2>1 DEF Part
    <2>3. PICK y \in 1..Len(t) : t[y] = lists[i][x]
      BY <1>3
    <2> QED
      BY <2>2, <2>3
  <1>6. Part(q, t, Places(n, P))
    BY <1>3, <1>4, <1>5 DEF Part, S
  <1> QED
    BY <1>3, <1>6 DEF t

LEMMA PartsConcat ==
  ASSUME NEW q, NEW s, NEW t, NEW P, NEW Q, Part(q, s, P), Part(q, t, Q)
  PROVE  Part(q, s \o t, P \cup Q) /\ (Len(s) # 0 => Len(s \o t) # 0 /\ (s \o t)[1] = s[1])
  <1> DEFINE u == s \o t
             S == AnyNode(q)
  <1>1. /\ u \in Seq(S) /\ Len(u) = Len(s) + Len(t)
        /\ \A y \in 1..(Len(s) + Len(t)) : u[y] = IF y <= Len(s) THEN s[y] ELSE t[y - Len(s)]
    BY ConcatProperties DEF Part
  <1>2. Len(s) \in Nat /\ Len(t) \in Nat
    BY LenProperties DEF Part
  <1> HIDE DEF u, S
  <1>3. ASSUME NEW y \in 1..Len(u) PROVE \E pos : Shows(q, OwnIds(q), u[y], pos)
    <2>1. CASE y <= Len(s)
      <3>1. y \in 1..Len(s) /\ u[y] = s[y]
        BY <1>1, <1>2, <2>1
      <3> QED
        BY <3>1 DEF Part
    <2>2. CASE ~(y <= Len(s))
      <3>1. y - Len(s) \in 1..Len(t) /\ u[y] = t[y - Len(s)]
        BY <1>1, <1>2, <2>2
      <3> QED
        BY <3>1 DEF Part
    <2> QED
      BY <2>1, <2>2
  <1>4. ASSUME NEW pos \in P \cup Q PROVE \E y \in 1..Len(u) : u[y].id = OwnIds(q)[pos]
    <2>1. CASE pos \in P
      <3>1. PICK y \in 1..Len(s) : s[y].id = OwnIds(q)[pos]
        BY <2>1 DEF Part
      <3>2. y \in 1..Len(u) /\ u[y] = s[y]
        BY <1>1, <1>2
      <3> QED
        BY <3>1, <3>2
    <2>2. CASE pos \in Q
      <3>1. PICK y \in 1..Len(t) : t[y].id = OwnIds(q)[pos]
        BY <2>2 DEF Part
      <3>2. y + Len(s) \in 1..Len(u) /\ u[y + Len(s)] = t[y]
        <4>1. y + Len(s) \in 1..(Len(s) + Len(t)) /\ ~(y + Len(s) <= Len(s))
              /\ y + Len(s) - Len(s) = y
          BY <1>2
        <4> QED
          BY <1>1, <4>1
      <3> QED
        BY <3>1, <3>2
    <2> QED
      BY <2>1, <2>2
  <1>5. Part(q, u, P \cup Q)
    BY <1>1, <1>3, <1>4 DEF Part, S
  <1>6. Len(s) # 0 => Len(u) # 0 /\ u[1] = s[1]
    BY <1>1, <1>2
  <1> QED
    BY <1>5, <1>6 DEF u

LEMMA ItemPart ==
  ASSUME NEW q, Numbered(q), NEW i \in 1..ItemsStarted(q)
  PROVE  /\ Part(q, ItemNodes(q, i), RowPlaces(q, i))
         /\ Len(ItemNodes(q, i)) # 0 /\ ItemNodes(q, i)[1] = StageNode(q, i)
  <1> DEFINE S == AnyNode(q)
             head == StageNode(q, i)
             row == [x \in DOMAIN Branches(q, i) |-> BranchNode(q, i, ByName(q, i)[x])]
             n == Len(Branches(q, i))
             u == <<head>> \o row
  <1>1. /\ q.pipe \in Pipelines /\ i \in DOMAIN q.pipe /\ i \in Nat
        /\ n \in Nat /\ DOMAIN Branches(q, i) = 1..n
    BY PlacesCounted DEF Numbered
  <1>2. head \in S
    BY <1>1 DEF AnyNode
  <1>3. ASSUME NEW x \in 1..n
        PROVE  /\ ByName(q, i)[x] \in DOMAIN Branches(q, i) /\ row[x] \in S
               /\ row[x] = BranchNode(q, i, ByName(q, i)[x])
    <2>1. ByName(q, i)[x] \in DOMAIN Branches(q, i)
      BY <1>1, BranchesInOrder
    <2>2. ByName(q, i)[x] \in Nat
      BY <1>1, <2>1
    <2> QED
      BY <1>1, <2>1, <2>2 DEF AnyNode
  <1>4. row \in Seq(S) /\ Len(row) = n
    <2>1. row = [x \in 1..n |-> row[x]]
      BY <1>1
    <2> HIDE DEF row, S, n
    <2>2. [x \in 1..n |-> row[x]] \in Seq(S)
      BY <1>1, <1>3, IsASeq
    <2>3. row \in Seq(S) /\ DOMAIN row = 1..n
      BY <2>1, <2>2, Zenon
    <2> QED
      BY <1>1, <2>3, LenProperties
  <1>5. ItemNodes(q, i) = u
    BY Zenon DEF ItemNodes
  <1>6. /\ Shows(q, OwnIds(q), head, <<i>>)
        /\ \A j \in DOMAIN Branches(q, i) : Shows(q, OwnIds(q), BranchNode(q, i, j), <<i, j>>)
    BY OwnNodes
  <1> HIDE DEF row, S, head
  <1>7. /\ u \in Seq(S) /\ Len(u) = n + 1 /\ u[1] = head
        /\ \A y \in 1..n : u[y + 1] = row[y]
    BY <1>2, <1>4, InFront
  <1> HIDE DEF u, n
  <1>8. ASSUME NEW y \in 1..Len(u) PROVE \E pos : Shows(q, OwnIds(q), u[y], pos)
    <2>1. CASE y = 1
      BY <1>6, <1>7, <2>1
    <2>2. CASE y # 1
      <3>1. y - 1 \in 1..n /\ y - 1 + 1 = y
        BY <1>1, <1>7, <2>2
      <3>2. u[y] = BranchNode(q, i, ByName(q, i)[y - 1])
            /\ ByName(q, i)[y - 1] \in DOMAIN Branches(q, i)
        BY <1>3, <1>7, <3>1
      <3> QED
        BY <1>6, <3>2
    <2> QED
      BY <2>1, <2>2
  <1>9. ASSUME NEW pos \in RowPlaces(q, i) PROVE \E y \in 1..Len(u) : u[y].id = OwnIds(q)[pos]
    <2>1. CASE pos = <<i>>
      <3>1. head.id = OwnIds(q)[pos]
        BY <1>6, <2>1, ShowsPlace
      <3>2. 1 \in 1..Len(u)
        BY <1>1, <1>7
      <3> QED
        BY <1>7, <3>1, <3>2
    <2>2. CASE pos # <<i>>
      <3>1. PICK j \in DOMAIN Branches(q, i) : pos = <<i, j>>
        BY <2>2 DEF RowPlaces
      <3>2. PICK x \in DOMAIN Branches(q, i) : ByName(q, i)[x] = j
        BY <1>1, ByNameReaches
      <3>3. x \in 1..n /\ x + 1 \in 1..Len(u)
        BY <1>1, <1>7, <3>2
      <3>4. u[x + 1] = BranchNode(q, i, j)
        BY <1>3, <1>7, <3>2, <3>3
      <3>5. BranchNode(q, i, j).id = OwnIds(q)[pos]
        BY <1>6, <3>1, ShowsPlace
      <3> QED
        BY <3>3, <3>4, <3>5
    <2> QED
      BY <2>1, <2>2
  <1>10. Part(q, u, RowPlaces(q, i))
    BY <1>7, <1>8, <1>9 DEF Part, S
  <1>11. Len(u) # 0
    BY <1>1, <1>7
  <1> QED
    BY <1>5, <1>7, <1>10, <1>11 DEF head

LEMMA ChainPart ==
  ASSUME NEW q, Numbered(q), NEW i \in 1..ItemsStarted(q), NEW j \in DOMAIN Branches(q, i)
  PROVE  Part(q, ChainNodes(q, i, j), ChainPlaces(q, i, j))
  <1> DEFINE s == ChainNodes(q, i, j)
             n == Chain(q, i, j)
  <1>1. s \in Seq(AnyNode(q))
    BY ChainPlaced DEF Placed
  <1>2. s = [k \in 1..n |-> InnerNode(q, i, j, k)]
    BY DEF ChainNodes
  <1>3. n \in Nat
    BY PlacesCounted
  <1>4. Len(s) = n
    <2>1. DOMAIN s = 1..n
      BY <1>2
    <2> HIDE DEF s, n
    <2> QED
      BY <1>1, <1>3, <2>1, LenProperties
  <1>5. ASSUME NEW k \in 1..n
        PROVE  s[k] = InnerNode(q, i, j, k) /\ Shows(q, OwnIds(q), s[k], <<i, j, k>>)
    <2>1. s[k] = InnerNode(q, i, j, k)
      BY <1>2
    <2> QED
      BY <2>1, OwnNodes
  <1>6. ASSUME NEW pos \in ChainPlaces(q, i, j) PROVE \E y \in 1..n : s[y].id = OwnIds(q)[pos]
    <2>1. PICK k \in 1..n : pos = <<i, j, k>>
      BY DEF ChainPlaces
    <2> QED
      BY <1>5, <2>1, ShowsPlace
  <1> HIDE DEF s, n
  <1>7. Part(q, s, ChainPlaces(q, i, j))
    BY <1>1, <1>4, <1>5, <1>6 DEF Part
  <1> QED
    BY <1>7 DEF s

LEMMA WithinPart ==
  ASSUME NEW q, Numbered(q), NEW i \in 1..ItemsStarted(q)
  PROVE  Part(q, WithinNodes(q, i), WithinPlaces(q, i))
  <1> DEFINE n == Len(Branches(q, i))
             lists == [j \in 1..n |-> ChainNodes(q, i, j)]
             P == [j \in 1..n |-> ChainPlaces(q, i, j)]
  <1>1. n \in Nat /\ DOMAIN Branches(q, i) = 1..n
    BY PlacesCounted
  <1>2. \A j \in 1..n : Part(q, lists[j], P[j])
    BY <1>1, ChainPart
  <1>3. WithinNodes(q, i) = FlattenSeq(lists)
    BY <1>1 DEF WithinNodes
  <1>4. WithinPlaces(q, i) = Places(n, P)
    BY <1>1 DEF WithinPlaces, Places
  <1>5. lists = [j \in 1..n |-> lists[j]]
    OBVIOUS
  <1> HIDE DEF lists, P, n
  <1>6. Part(q, FlattenSeq(lists), Places(n, P))
    <2>1. Parts(q, n, lists, P)
      BY <1>2, <1>5 DEF Parts
    <2> QED
      BY <1>1, <2>1, PartsFlat
  <1> QED
    BY <1>3, <1>4, <1>6

(* PipelineNodeGraphVisitor: the nodes of a run show all it has started. *)
LEMMA OwnDrawing ==
  ASSUME NEW q, Numbered(q)
  PROVE  Drawing(q, OwnIds(q), PipelineNodes(q))
  <1> DEFINE n == ItemsStarted(q)
             d == OwnIds(q)
             s == PipelineNodes(q)
             items == [i \in 1..n |-> ItemNodes(q, i)]
             rows == [i \in 1..n |-> RowPlaces(q, i)]
             inner == [i \in 1..n |-> WithinNodes(q, n + 1 - i)]
             chains == [i \in 1..n |-> WithinPlaces(q, n + 1 - i)]
             P == Places(n, rows)
             Q == Places(n, chains)
  <1>1. n \in Nat
    BY PlacesCounted
  <1>2. s = FlattenSeq(items) \o FlattenSeq(inner)
    BY Zenon DEF PipelineNodes, ItemNodes, WithinNodes, ChainNodes
  <1>3. \A i \in 1..n : n + 1 - i \in 1..n
    BY <1>1
  <1>4. items = [i \in 1..n |-> items[i]] /\ inner = [i \in 1..n |-> inner[i]]
    OBVIOUS
  <1>5. \A i \in 1..n : Part(q, items[i], rows[i])
    BY ItemPart
  <1>6. \A i \in 1..n : Part(q, inner[i], chains[i])
    BY <1>3, WithinPart
  <1>7. n # 0 => Len(items[1]) # 0 /\ items[1][1] = StageNode(q, 1)
    <2>1. n # 0 => 1 \in 1..n
      BY <1>1
    <2> QED
      BY <2>1, ItemPart
  <1>8. \A pos : IsPlace(q, pos) => pos \in P \cup Q
    <2> SUFFICES ASSUME NEW pos, IsPlace(q, pos) PROVE pos \in P \cup Q
      OBVIOUS
    <2>1. CASE \E i \in 1..n : pos = <<i>> \/ \E j \in DOMAIN Branches(q, i) : pos = <<i, j>>
      <3>1. PICK i \in 1..n : pos = <<i>> \/ \E j \in DOMAIN Branches(q, i) : pos = <<i, j>>
        BY <2>1
      <3>2. pos \in rows[i]
        BY <3>1 DEF RowPlaces
      <3> QED
        BY <3>2 DEF Places
    <2>2. CASE \E i \in 1..n : \E j \in DOMAIN Branches(q, i) :
                 \E k \in 1..Chain(q, i, j) : pos = <<i, j, k>>
      <3>1. PICK i \in 1..n : \E j \in DOMAIN Branches(q, i) :
                   \E k \in 1..Chain(q, i, j) : pos = <<i, j, k>>
        BY <2>2
      <3>2. pos \in WithinPlaces(q, i)
        BY <3>1 DEF WithinPlaces, ChainPlaces
      <3>3. n + 1 - i \in 1..n /\ n + 1 - (n + 1 - i) = i
        BY <1>1
      <3>4. pos \in chains[n + 1 - i]
        BY <3>2, <3>3
      <3> QED
        BY <3>3, <3>4 DEF Places
    <2> QED
      BY <2>1, <2>2 DEF IsPlace
  <1>9. s \in Seq(AnyNode(q)) /\ Distinct(s)
    BY NodesDistinct
  <1> HIDE DEF items, rows, inner, chains, n, s
  <1>10. /\ Part(q, FlattenSeq(items), P)
         /\ n # 0 /\ Len(items[1]) # 0 =>
              Len(FlattenSeq(items)) # 0 /\ FlattenSeq(items)[1] = items[1][1]
    <2>1. Parts(q, n, items, rows)
      BY <1>4, <1>5 DEF Parts
    <2> QED
      BY <1>1, <2>1, PartsFlat
  <1>11. Part(q, FlattenSeq(inner), Q)
    <2>1. Parts(q, n, inner, chains)
      BY <1>4, <1>6 DEF Parts
    <2> QED
      BY <1>1, <2>1, PartsFlat
  <1> HIDE DEF P, Q
  <1>12. /\ Part(q, s, P \cup Q)
         /\ Len(FlattenSeq(items)) # 0 => Len(s) # 0 /\ s[1] = FlattenSeq(items)[1]
    BY <1>2, <1>10, <1>11, PartsConcat
  <1>13. n # 0 => Len(s) # 0 /\ s[1].id = d[<<1>>]
    <2>1. n # 0 => Len(s) # 0 /\ s[1] = StageNode(q, 1)
      BY <1>7, <1>10, <1>12
    <2>2. n # 0 => 1 \in 1..n
      BY <1>1
    <2>3. n # 0 => StageNode(q, 1).id = d[<<1>>]
      BY <2>2, OwnNodes, ShowsPlace DEF n
    <2> QED
      BY <2>1, <2>3
  <1>14. Len(s) \in Nat /\ s = [x \in 1..Len(s) |-> s[x]]
    BY <1>9, LenProperties
  <1>15. \A pos : IsPlace(q, pos) => d[pos] = PlaceId(q, pos)
    BY OwnIdsAre
  <1> HIDE DEF d
  <1>16. \A a, b : IsPlace(q, a) /\ IsPlace(q, b) /\ d[a] = d[b] => a = b
    BY <1>15, PlaceIdsDiffer
  <1>17. ASSUME NEW a, IsPlace(q, a) PROVE d[a] # NoNode
    <2>1. q.next \in Nat /\ q.ids \in [DOMAIN q.ids -> 1..(q.next - 1)]
      BY DEF Numbered
    <2>2. \A p \in DOMAIN q.ids : q.ids[p] \in Nat \ {0}
      BY <2>1
    <2>3. ASSUME NEW i \in 1..n, a = <<i>> PROVE PlaceId(q, a) # 0
      <3>1. \/ HeadId(q, i) \in Nat \ {0}
            \/ \E p \in DOMAIN q.ids : HeadId(q, i) = -q.ids[p]
        BY <2>2, HeadIds DEF n
      <3>2. HeadId(q, i) # 0
        BY <2>2, <3>1
      <3> QED
        BY <2>3, <3>2 DEF PlaceId
    <2>4. ASSUME NEW i \in 1..n, NEW j \in DOMAIN Branches(q, i), a = <<i, j>>
          PROVE  PlaceId(q, a) # 0
      <3>1. a \in DOMAIN q.ids
        BY <2>4, HeadIds DEF n
      <3> QED
        BY <2>2, <2>4, <3>1 DEF PlaceId
    <2>5. ASSUME NEW i \in 1..n, NEW j \in DOMAIN Branches(q, i), NEW k \in 1..Chain(q, i, j),
                 a = <<i, j, k>>
          PROVE  PlaceId(q, a) # 0
      <3>1. a \in DOMAIN q.ids
        <4>1. i \in DOMAIN q.pipe
          BY PlacesCounted DEF n
        <4> QED
          BY <2>5, <4>1, StartedAre
      <3> QED
        BY <2>2, <2>5, <3>1 DEF PlaceId
    <2>6. PlaceId(q, a) # 0
      BY <1>17, <2>3, <2>4, <2>5 DEF IsPlace, n
    <2> QED
      BY <1>15, <1>17, <2>6 DEF NoNode
  <1>18. Drawing(q, d, s)
    BY <1>8, <1>9, <1>12, <1>13, <1>14, <1>16, <1>17 DEF Drawing, Part, d, n
  <1> QED
    BY <1>18 DEF d, s

(* convertJenkinsNodeGraph: a run that is shown by itself is drawn as far  *)
(* as it has come.                                                          *)
LEMMA OwnDrawn ==
  ASSUME NEW q, Numbered(q)
  PROVE  Drawn(PipelineNodes(q)) = Shape(q)
  BY OwnDrawing, ShapeDrawn

-----------------------------------------------------------------------------
(* The union of two graphs draws the earlier run.                          *)

(* What is above a place, its name and type: these a pipeline determines.  *)
Above(q, pos) ==
  IF Len(pos) = 1 THEN IF pos[1] > 1 /\ Branches(q, pos[1] - 1) = <<>> THEN <<pos[1] - 1>> ELSE <<>>
  ELSE IF Len(pos) = 2 THEN <<pos[1]>>
  ELSE IF pos[3] = 1 THEN <<pos[1], pos[2]>> ELSE <<pos[1], pos[2], pos[3] - 1>>
NameAt(q, pos) ==
  IF Len(pos) = 1 THEN IF q.pipe[pos[1]].orphan THEN ParallelName ELSE q.pipe[pos[1]].name
  ELSE IF Len(pos) = 2 THEN Branches(q, pos[1])[pos[2]].name
  ELSE Inner(q, pos[1], pos[2])[pos[3]]
TypeAt(pos) == IF Len(pos) = 2 THEN "PARALLEL" ELSE "STAGE"

LEMMA SamePlaces ==
  ASSUME NEW q1, NEW q2, q1.pipe = q2.pipe, NEW pos
  PROVE  Above(q1, pos) = Above(q2, pos) /\ NameAt(q1, pos) = NameAt(q2, pos)
  <1>1. \A i : Branches(q1, i) = Branches(q2, i)
    BY DEF Branches
  <1>2. \A i, j : Inner(q1, i, j) = Inner(q2, i, j)
    BY <1>1 DEF Inner
  <1> QED
    BY <1>1, <1>2 DEF Above, NameAt

LEMMA ShownAt ==
  ASSUME NEW q, Numbered(q), NEW d, NEW m, NEW pos, Shows(q, d, m, pos)
  PROVE  /\ m.name = NameAt(q, pos) /\ m.type = TypeAt(pos)
         /\ m.parent = (IF Above(q, pos) = <<>> THEN NoNode ELSE d[Above(q, pos)])
         /\ Above(q, pos) # <<>> =>
              /\ IsPlace(q, Above(q, pos))
              /\ Rank(q, Above(q, pos)) < Rank(q, pos)
         /\ Rank(q, pos) \in Nat
  <1> DEFINE Goal ==
         /\ m.name = NameAt(q, pos) /\ m.type = TypeAt(pos)
         /\ m.parent = (IF Above(q, pos) = <<>> THEN NoNode ELSE d[Above(q, pos)])
         /\ Above(q, pos) # <<>> =>
              /\ IsPlace(q, Above(q, pos))
              /\ Rank(q, Above(q, pos)) < Rank(q, pos)
         /\ Rank(q, pos) \in Nat
  <1> SUFFICES Goal
    OBVIOUS
  <1>1. ASSUME NEW i \in 1..ItemsStarted(q), pos = <<i>>, AsItem(q, d, m, i) PROVE Goal
    <2>1. Len(pos) = 1 /\ pos[1] = i
      BY <1>1
    <2>2. m.name = NameAt(q, pos) /\ m.type = TypeAt(pos)
      BY <1>1, <2>1 DEF AsItem, NameAt, TypeAt
    <2>3. Rank(q, pos) \in Nat
      BY <1>1, RankGrows
    <2>4. CASE i > 1 /\ Branches(q, i - 1) = <<>>
      <3>1. Above(q, pos) = <<i - 1>> /\ <<i - 1>> # <<>>
        BY <2>1, <2>4 DEF Above
      <3>2. i - 1 \in 1..ItemsStarted(q) /\ i - 1 + 1 = i
        BY <2>4, PlacesCounted
      <3>3. IsPlace(q, <<i - 1>>)
        BY <3>2, PlaceKinds
      <3>4. Rank(q, <<i - 1>>) < Rank(q, <<i - 1 + 1>>)
        BY <3>2, RankGrows
      <3>5. m.parent = d[<<i - 1>>]
        BY <1>1, <2>4 DEF AsItem
      <3> QED
        BY <1>1, <2>2, <2>3, <3>1, <3>2, <3>3, <3>4, <3>5
    <2>5. CASE ~(i > 1 /\ Branches(q, i - 1) = <<>>)
      <3>1. Above(q, pos) = <<>>
        BY <2>1, <2>5, Zenon DEF Above
      <3>2. m.parent = NoNode
        BY <1>1, <2>5 DEF AsItem
      <3> QED
        BY <2>2, <2>3, <3>1, <3>2
    <2> QED
      BY <2>4, <2>5
  <1>2. ASSUME NEW i \in 1..ItemsStarted(q), NEW j \in DOMAIN Branches(q, i), pos = <<i, j>>,
               AsBranch(q, d, m, i, j)
        PROVE  Goal
    <2>1. Len(pos) = 2 /\ pos[1] = i /\ pos[2] = j
      BY <1>2
    <2>2. m.name = NameAt(q, pos) /\ m.type = TypeAt(pos)
      BY <1>2, <2>1 DEF AsBranch, NameAt, TypeAt
    <2>3. Rank(q, pos) \in Nat /\ Rank(q, <<i>>) < Rank(q, pos)
      BY <1>2, RankGrows
    <2>4. Above(q, pos) = <<i>> /\ <<i>> # <<>>
      BY <2>1 DEF Above
    <2>5. IsPlace(q, <<i>>)
      BY PlaceKinds
    <2>6. m.parent = d[<<i>>]
      BY <1>2 DEF AsBranch
    <2> QED
      BY <2>2, <2>3, <2>4, <2>5, <2>6
  <1>3. ASSUME NEW i \in 1..ItemsStarted(q), NEW j \in DOMAIN Branches(q, i),
               NEW k \in 1..Chain(q, i, j), pos = <<i, j, k>>, AsInner(q, d, m, i, j, k)
        PROVE  Goal
    <2>1. Len(pos) = 3 /\ pos[1] = i /\ pos[2] = j /\ pos[3] = k
      BY <1>3
    <2>2. m.name = NameAt(q, pos) /\ m.type = TypeAt(pos)
      BY <1>3, <2>1 DEF AsInner, NameAt, TypeAt
    <2>3. Rank(q, pos) \in Nat
      BY <1>3, RankGrows
    <2>4. CASE k = 1
      <3>1. Above(q, pos) = <<i, j>> /\ <<i, j>> # <<>>
        BY <2>1, <2>4 DEF Above
      <3>2. IsPlace(q, <<i, j>>)
        BY PlaceKinds
      <3>3. Rank(q, <<i, j>>) < Rank(q, pos)
        BY <1>3, <2>4, RankGrows
      <3>4. m.parent = d[<<i, j>>]
        BY <1>3, <2>4 DEF AsInner
      <3> QED
        BY <2>2, <2>3, <3>1, <3>2, <3>3, <3>4
    <2>5. CASE k # 1
      <3>1. Above(q, pos) = <<i, j, k - 1>> /\ <<i, j, k - 1>> # <<>>
        BY <2>1, <2>5 DEF Above
      <3>2. k - 1 \in 1..Chain(q, i, j) /\ k - 1 + 1 = k
        BY <2>5, PlacesCounted
      <3>3. IsPlace(q, <<i, j, k - 1>>)
        BY <3>2, PlaceKinds
      <3>4. Rank(q, <<i, j, k - 1>>) < Rank(q, <<i, j, k - 1 + 1>>)
        BY <3>2, RankGrows
      <3>5. m.parent = d[<<i, j, k - 1>>]
        BY <1>3, <2>5 DEF AsInner
      <3> QED
        BY <1>3, <2>2, <2>3, <3>1, <3>2, <3>3, <3>4, <3>5
    <2> QED
      BY <2>4, <2>5
  <1> HIDE DEF Goal
  <1>4. CASE \E i \in 1..ItemsStarted(q) : pos = <<i>> /\ AsItem(q, d, m, i)
    BY <1>1, <1>4
  <1>5. CASE \E i \in 1..ItemsStarted(q) : \E j \in DOMAIN Branches(q, i) :
               pos = <<i, j>> /\ AsBranch(q, d, m, i, j)
    BY <1>2, <1>5
  <1>6. CASE \E i \in 1..ItemsStarted(q) : \E j \in DOMAIN Branches(q, i) :
               \E k \in 1..Chain(q, i, j) : pos = <<i, j, k>> /\ AsInner(q, d, m, i, j, k)
    BY <1>3, <1>6
  <1> QED
    BY <1>4, <1>5, <1>6 DEF Shows

(* A node is what its id finds. *)
LEMMA FindsItself ==
  ASSUME NEW q, NEW d, NEW s, Drawing(q, d, s), NEW n \in ToSet(s)
  PROVE  NodeOf(s, n.id) = n
  <1>1. PICK pos : IsPlace(q, pos) /\ Shows(q, d, n, pos)
    BY IdsArePlaces
  <1>2. n.id = d[pos]
    BY <1>1, ShowsPlace
  <1>3. NodeOf(s, n.id) \in ToSet(s) /\ NodeOf(s, n.id).id = n.id
    BY <1>1, <1>2, NodeAt
  <1>4. DOMAIN s = 1..Len(s)
    BY DEF Drawing
  <1>5. PICK x \in 1..Len(s) : s[x] = n
    BY <1>4 DEF ToSet
  <1>6. PICK y \in 1..Len(s) : s[y] = NodeOf(s, n.id)
    BY <1>3, <1>4 DEF ToSet
  <1>7. x = y
    BY <1>3, <1>5, <1>6 DEF Drawing, Distinct
  <1> QED
    BY <1>5, <1>6, <1>7

(* probablySameNode: the line of a node is its own type and name, and the  *)
(* line of its parent.                                                     *)
LEMMA LineIs ==
  ASSUME NEW q, Numbered(q), NEW d, NEW s, Drawing(q, d, s), NEW pos, IsPlace(q, pos)
  PROVE  \E T : \E t \in Seq(T) :
           /\ Line(s, NodeOf(s, d[pos])) = <<TypeAt(pos), NameAt(q, pos)>> \o t
           /\ t = IF Above(q, pos) = <<>> THEN <<>> ELSE Line(s, NodeOf(s, d[Above(q, pos)]))
           /\ TypeAt(pos) \in T /\ NameAt(q, pos) \in T
  <1> DEFINE ids == {n.id : n \in ToSet(s)}
  <1>1. PICK rank \in [ids -> Nat], B \in Nat :
          /\ \A id \in ids : rank[id] <= B
          /\ \A p : IsPlace(q, p) => d[p] \in ids /\ rank[d[p]] = Rank(q, p)
    BY RanksExist DEF Ranks
  <1> DEFINE T == {n.name : n \in ToSet(s)} \cup {n.type : n \in ToSet(s)}
             node(id) == NodeOf(s, id)
             head == [id \in ids |-> <<node(id).type, node(id).name>>]
             nxt == [id \in ids |-> node(id).parent]
  <1> DEFINE down == [id \in ids |-> B - rank[id]]
  <1>2. ASSUME NEW p, IsPlace(q, p)
        PROVE  /\ d[p] \in ids /\ node(d[p]).type = TypeAt(p) /\ node(d[p]).name = NameAt(q, p)
               /\ node(d[p]).parent = (IF Above(q, p) = <<>> THEN NoNode ELSE d[Above(q, p)])
               /\ Above(q, p) # <<>> =>
                    /\ d[Above(q, p)] \in ids /\ rank[d[Above(q, p)]] < rank[d[p]]
               /\ node(d[p]).type \in T /\ node(d[p]).name \in T
    <2>1. Shows(q, d, node(d[p]), p) /\ node(d[p]) \in ToSet(s)
      BY <1>2, NodeAt
    <2>2. /\ node(d[p]).type = TypeAt(p) /\ node(d[p]).name = NameAt(q, p)
          /\ node(d[p]).parent = (IF Above(q, p) = <<>> THEN NoNode ELSE d[Above(q, p)])
          /\ Above(q, p) # <<>> =>
               IsPlace(q, Above(q, p)) /\ Rank(q, Above(q, p)) < Rank(q, p)
      BY <2>1, ShownAt
    <2>3. node(d[p]).type \in T /\ node(d[p]).name \in T
      BY <2>1
    <2> HIDE DEF ids, node, T
    <2> QED
      BY <1>1, <1>2, <2>2, <2>3
  <1>3. ASSUME NEW id \in ids PROVE \E p : IsPlace(q, p) /\ id = d[p]
    <2>1. PICK n \in ToSet(s) : id = n.id
      BY <1>3
    <2>2. PICK p : IsPlace(q, p) /\ Shows(q, d, n, p)
      BY IdsArePlaces
    <2> QED
      BY <2>1, <2>2, ShowsPlace
  <1>4. NoNode \notin ids
    BY IdsArePlaces
  <1> HIDE DEF ids, node, T
  <1>5. /\ \A id \in ids : head[id] = <<node(id).type, node(id).name>> /\ nxt[id] = node(id).parent
        /\ \A id \in ids : down[id] = B - rank[id]
    OBVIOUS
  <1>6. \A id \in ids : head[id] \in Seq(T) /\ Len(head[id]) = 2
    <2> SUFFICES ASSUME NEW id \in ids PROVE head[id] \in Seq(T) /\ Len(head[id]) = 2
      OBVIOUS
    <2>1. node(id).type \in T /\ node(id).name \in T
      BY <1>2, <1>3
    <2>2. head[id] = <<node(id).type, node(id).name>>
      BY <1>5
    <2> HIDE DEF head
    <2> QED
      BY <2>1, <2>2
  <1> HIDE DEF head, nxt
  <1>7. down \in [ids -> Nat] /\ \A id \in ids : down[id] <= B
    <2>1. \A id \in ids : B - rank[id] \in Nat /\ B - rank[id] <= B
      <3> SUFFICES ASSUME NEW id \in ids PROVE B - rank[id] \in Nat /\ B - rank[id] <= B
        OBVIOUS
      <3>1. rank[id] \in Nat /\ rank[id] <= B
        BY <1>1
      <3> QED
        BY <3>1
    <2> QED
      BY <2>1
  <1>8. LeadsUp(ids, nxt, down)
    <2> SUFFICES ASSUME NEW id \in ids, nxt[id] \in ids PROVE down[id] < down[nxt[id]]
      BY DEF LeadsUp
    <2>1. PICK p : IsPlace(q, p) /\ id = d[p]
      BY <1>3
    <2>2. Above(q, p) # <<>> /\ nxt[id] = d[Above(q, p)]
      BY <1>2, <1>4, <1>5, <2>1
    <2>3. rank[nxt[id]] < rank[id] /\ rank[id] \in Nat /\ rank[nxt[id]] \in Nat
      BY <1>2, <2>1, <2>2
    <2>4. B - rank[id] < B - rank[nxt[id]]
      BY <2>3
    <2> HIDE DEF down
    <2> QED
      BY <1>5, <2>4
  <1> HIDE DEF down
  <1>9. PICK f : Trail(f, ids, head, nxt)
    BY <1>7, <1>8, TrailExists
  <1> DEFINE up[id \in ids] ==
               LET n == NodeOf(s, id)
               IN  <<n.type, n.name>> \o IF n.parent = NoNode THEN <<>> ELSE up[n.parent]
  <1>10. \A id \in ids : nxt[id] \in ids <=> node(id).parent # NoNode
    <2> SUFFICES ASSUME NEW id \in ids PROVE nxt[id] \in ids <=> node(id).parent # NoNode
      OBVIOUS
    <2>1. PICK p : IsPlace(q, p) /\ id = d[p]
      BY <1>3
    <2> QED
      BY <1>2, <1>4, <1>5, <2>1
  <1>11. f = [id \in ids |->
                LET n == NodeOf(s, id)
                IN  <<n.type, n.name>> \o IF n.parent = NoNode THEN <<>> ELSE f[n.parent]]
    <2>1. ASSUME NEW id \in ids
          PROVE  head[id] \o (IF nxt[id] \in ids THEN f[nxt[id]] ELSE <<>>)
                   = LET n == NodeOf(s, id)
                     IN  <<n.type, n.name>> \o IF n.parent = NoNode THEN <<>> ELSE f[n.parent]
      BY <1>5, <1>10 DEF node
    <2> QED
      BY <1>9, <2>1, Zenon DEF Trail
  <1>12. up = [id \in ids |->
                LET n == NodeOf(s, id)
                IN  <<n.type, n.name>> \o IF n.parent = NoNode THEN <<>> ELSE up[n.parent]]
    BY <1>11, Zenon
  <1>13. \A n : Line(s, n) = up[n.id]
    BY Zenon DEF Line, ids
  <1> HIDE DEF up
  <1>14. \A id \in ids :
           up[id] = <<node(id).type, node(id).name>>
                      \o IF node(id).parent = NoNode THEN <<>> ELSE up[node(id).parent]
    BY <1>12, Zenon DEF node
  <1>15. Trail(up, ids, head, nxt)
    <2>1. ASSUME NEW id \in ids
          PROVE  up[id] = head[id] \o (IF nxt[id] \in ids THEN up[nxt[id]] ELSE <<>>)
      BY <1>5, <1>10, <1>14
    <2>2. up = [id \in ids |-> up[id]]
      BY <1>12
    <2> QED
      BY <2>1, <2>2 DEF Trail
  <1>16. \A id \in ids : up[id] \in Seq(T)
    BY <1>6, <1>7, <1>8, <1>15, TrailTyped
  <1>17. ASSUME NEW p, IsPlace(q, p) PROVE Line(s, NodeOf(s, d[p])) = up[d[p]]
    <2>1. NodeOf(s, d[p]).id = d[p]
      BY <1>17, NodeAt
    <2> QED
      BY <1>13, <2>1
  <1> DEFINE t == IF Above(q, pos) = <<>> THEN <<>> ELSE up[d[Above(q, pos)]]
  <1>18. t \in Seq(T)
    <2>1. CASE Above(q, pos) = <<>>
      BY <2>1, EmptySeq
    <2>2. CASE Above(q, pos) # <<>>
      <3>1. d[Above(q, pos)] \in ids
        BY <1>2, <2>2
      <3> QED
        BY <1>16, <2>2, <3>1
    <2> QED
      BY <2>1, <2>2
  <1>19. up[d[pos]] = <<TypeAt(pos), NameAt(q, pos)>> \o t
    <2>1. /\ d[pos] \in ids /\ node(d[pos]).type = TypeAt(pos) /\ node(d[pos]).name = NameAt(q, pos)
          /\ node(d[pos]).parent = (IF Above(q, pos) = <<>> THEN NoNode ELSE d[Above(q, pos)])
          /\ Above(q, pos) # <<>> => d[Above(q, pos)] \in ids
      BY <1>2
    <2>2. node(d[pos]).parent = NoNode <=> Above(q, pos) = <<>>
      BY <1>4, <2>1
    <2> QED
      BY <1>14, <2>1, <2>2
  <1>20. t = IF Above(q, pos) = <<>> THEN <<>> ELSE Line(s, NodeOf(s, d[Above(q, pos)]))
    <2>1. CASE Above(q, pos) = <<>>
      BY <2>1
    <2>2. CASE Above(q, pos) # <<>>
      <3>1. IsPlace(q, Above(q, pos))
        BY <2>2, NodeAt, ShownAt
      <3> QED
        BY <1>17, <2>2, <3>1
    <2> QED
      BY <2>1, <2>2
  <1>21. TypeAt(pos) \in T /\ NameAt(q, pos) \in T
    BY <1>2
  <1> HIDE DEF t
  <1> QED
    BY <1>17, <1>18, <1>19, <1>20, <1>21

(* What the id of an earlier node becomes. *)
Renamed(cur, old, id) == Joined(cur, old, FindById([id |-> id], old)).id

(* union: where the nodes of the earlier run lead. *)
LEMMA UnionLeads ==
  ASSUME NEW S, NEW cur \in Seq(S), NEW old \in Seq(S), \A n \in S : IsNode(n),
         Compatible(cur, old), NEW i \in 1..Len(old)
  PROVE  /\ Union(cur, old)[i].parent = (IF old[i].parent = NoNode THEN NoNode
                                         ELSE Renamed(cur, old, old[i].parent))
         /\ Union(cur, old)[i].edges
              = [x \in DOMAIN old[i].edges |-> Renamed(cur, old, old[i].edges[x])]
  <1> DEFINE u == Union(cur, old)
             m == Joined(cur, old, i)
             parent(k) == IF old[k].parent = NoNode THEN NoNode
                          ELSE Renamed(cur, old, old[k].parent)
             edges(k) == [x \in DOMAIN old[k].edges |-> Renamed(cur, old, old[k].edges[x])]
  <1>1. u = [k \in DOMAIN old |->
               [Joined(cur, old, k) EXCEPT !.parent = parent(k), !.edges = edges(k)]]
    BY Zenon DEF Union, Joined, Found, Renamed
  <1>2. DOMAIN old = 1..Len(old)
    BY LenProperties
  <1>3. IsNode(m)
    <2>1. IsNode(old[i])
      BY ElementOfSeq
    <2>2. CASE Found(cur, old, i) = 0
      BY <2>1, <2>2 DEF Joined, IsNode
    <2>3. CASE Found(cur, old, i) # 0
      <3>1. Found(cur, old, i) \in 1..Len(cur)
        BY <2>3, FoundIs
      <3>2. cur[Found(cur, old, i)] \in S
        BY <3>1, ElementOfSeq
      <3> QED
        BY <2>3, <3>2 DEF Joined
    <2> QED
      BY <2>2, <2>3
  <1> HIDE DEF u, parent, edges, m
  <1>4. u[i] = [m EXCEPT !.parent = parent(i), !.edges = edges(i)]
    BY <1>1, <1>2, Zenon DEF m
  <1>5. u[i].parent = parent(i) /\ u[i].edges = edges(i)
    BY <1>3, <1>4 DEF IsNode
  <1> QED
    BY <1>5 DEF u, parent, edges

(* union: no id is there twice, whatever twins there are. *)
LEMMA UnionDistinct ==
  ASSUME NEW S, NEW cur \in Seq(S), NEW old \in Seq(S), \A n \in S : IsNode(n),
         Distinct(cur), Distinct(old), Compatible(cur, old)
  PROVE  Distinct(Union(cur, old))
  <1> DEFINE u == Union(cur, old)
             found(i) == Found(cur, old, i)
  <1>1. /\ u = [i \in 1..Len(old) |-> u[i]]
        /\ \A i \in 1..Len(old) : u[i].id = Joined(cur, old, i).id
    BY UnionPlaces
  <1>2. Len(u) = Len(old)
    BY <1>1, LenProperties
  <1>3. ASSUME NEW i \in 1..Len(old), found(i) = 0
        PROVE  /\ u[i].id = old[i].id
               /\ \A y \in 1..Len(cur) : Lookup(cur, cur[y], old) # i
    <2>1. IsNode(old[i])
      BY ElementOfSeq
    <2>2. Joined(cur, old, i) = [old[i] EXCEPT !.state = Unknown]
      BY <1>3 DEF Joined
    <2>3. Joined(cur, old, i).id = old[i].id
      BY <2>1, <2>2 DEF IsNode
    <2>4. 0 \notin 1..Len(cur)
      BY LenProperties
    <2>5. \A y \in 1..Len(cur) : Lookup(cur, cur[y], old) # i
      BY <1>3, <2>4, FoundIs
    <2> QED
      BY <1>1, <2>3, <2>5
  <1>4. ASSUME NEW i \in 1..Len(old), found(i) # 0
        PROVE  /\ found(i) \in 1..Len(cur) /\ Lookup(cur, cur[found(i)], old) = i
               /\ u[i].id = cur[found(i)].id
    <2>1. found(i) \in 1..Len(cur) /\ Lookup(cur, cur[found(i)], old) = i
      BY <1>4, FoundIs
    <2>2. Joined(cur, old, i) = cur[found(i)]
      BY <1>4 DEF Joined
    <2> QED
      BY <1>1, <2>1, <2>2
  <1> HIDE DEF u, found
  <1>5. ASSUME NEW y \in 1..Len(cur), NEW k \in 1..Len(old), cur[y].id = old[k].id
        PROVE  Lookup(cur, cur[y], old) = k
    <2> DEFINE place == FindById(cur[y], old)
    <2>1. place \in 1..Len(old) /\ old[place].id = cur[y].id
      BY <1>5, FoundById
    <2>2. place = k
      BY <1>5, <2>1 DEF Distinct
    <2>3. place # 0
      BY <2>1, LenProperties
    <2> QED
      BY <2>2, <2>3, LookedUp
  <1>6. ASSUME NEW i \in 1..Len(old), NEW k \in 1..Len(old), u[i].id = u[k].id
        PROVE  i = k
    <2>1. CASE found(i) = 0 /\ found(k) = 0
      <3>1. old[i].id = old[k].id
        BY <1>3, <1>6, <2>1
      <3> QED
        BY <3>1 DEF Distinct
    <2>2. CASE found(i) # 0 /\ found(k) # 0
      <3>1. cur[found(i)].id = cur[found(k)].id
        BY <1>4, <1>6, <2>2
      <3>2. found(i) = found(k)
        BY <1>4, <2>2, <3>1 DEF Distinct
      <3> QED
        BY <1>4, <2>2, <3>2
    <2>3. CASE found(i) = 0 /\ found(k) # 0
      <3>1. cur[found(k)].id = old[i].id /\ found(k) \in 1..Len(cur)
        BY <1>3, <1>4, <1>6, <2>3
      <3>2. Lookup(cur, cur[found(k)], old) = i
        BY <1>5, <3>1
      <3> QED
        BY <1>3, <2>3, <3>1, <3>2
    <2>4. CASE found(i) # 0 /\ found(k) = 0
      <3>1. cur[found(i)].id = old[k].id /\ found(i) \in 1..Len(cur)
        BY <1>3, <1>4, <1>6, <2>4
      <3>2. Lookup(cur, cur[found(i)], old) = k
        BY <1>5, <3>1
      <3> QED
        BY <1>3, <2>4, <3>1, <3>2
    <2> QED
      BY <2>1, <2>2, <2>3, <2>4
  <1>7. Distinct(u)
    BY <1>2, <1>6 DEF Distinct
  <1> QED
    BY <1>7 DEF u

(* A node that stands for another in a graph whose ids have changed. *)
Stands(n, m, r) ==
  /\ n.id = r[m.id] /\ n.name = m.name /\ n.type = m.type
  /\ n.parent = (IF m.parent = NoNode THEN NoNode ELSE r[m.parent])
  /\ n.edges = [x \in DOMAIN m.edges |-> r[m.edges[x]]]

LEMMA StandsForPlace ==
  ASSUME NEW q, Numbered(q), NEW d, NEW e, NEW r, NEW m, NEW n, NEW pos,
         Shows(q, d, m, pos), Stands(n, m, r),
         \A p : IsPlace(q, p) => d[p] # NoNode /\ r[d[p]] = e[p]
  PROVE  Shows(q, e, n, pos)
  <1>1. ItemsStarted(q) \in Nat
    BY PlacesCounted
  <1>2. ASSUME NEW i \in 1..ItemsStarted(q) PROVE d[<<i>>] # NoNode /\ r[d[<<i>>]] = e[<<i>>]
    BY PlaceKinds
  <1>3. ASSUME NEW i \in 1..ItemsStarted(q), NEW j \in DOMAIN Branches(q, i)
        PROVE  d[<<i, j>>] # NoNode /\ r[d[<<i, j>>]] = e[<<i, j>>]
    BY PlaceKinds
  <1>4. ASSUME NEW i \in 1..ItemsStarted(q), NEW j \in DOMAIN Branches(q, i),
               NEW k \in 1..Chain(q, i, j)
        PROVE  d[<<i, j, k>>] # NoNode /\ r[d[<<i, j, k>>]] = e[<<i, j, k>>]
    BY PlaceKinds
  <1>5. ASSUME NEW i \in 1..ItemsStarted(q), m.edges = Follows(q, d, i)
        PROVE  n.edges = Follows(q, e, i)
    <2>1. CASE i < ItemsStarted(q)
      <3>1. i + 1 \in 1..ItemsStarted(q)
        BY <1>1, <2>1
      <3>2. m.edges = <<d[<<i + 1>>]>>
        BY <1>5, <2>1 DEF Follows
      <3>3. n.edges = <<r[d[<<i + 1>>]]>>
        BY <3>2 DEF Stands
      <3>4. r[d[<<i + 1>>]] = e[<<i + 1>>]
        BY <1>2, <3>1
      <3> QED
        BY <2>1, <3>3, <3>4 DEF Follows
    <2>2. CASE ~(i < ItemsStarted(q))
      <3>1. m.edges = <<>> /\ Follows(q, e, i) = <<>>
        BY <1>5, <2>2 DEF Follows
      <3>2. n.edges = <<>>
        BY <3>1 DEF Stands
      <3> QED
        BY <3>1, <3>2
    <2> QED
      BY <2>1, <2>2
  <1>6. ASSUME NEW i \in 1..ItemsStarted(q), pos = <<i>>, AsItem(q, d, m, i)
        PROVE  AsItem(q, e, n, i)
    <2>1. n.id = e[<<i>>]
      BY <1>2, <1>6 DEF AsItem, Stands
    <2>2. n.name = m.name /\ n.type = m.type
      BY DEF Stands
    <2>3. n.parent = (IF i > 1 /\ Branches(q, i - 1) = <<>> THEN e[<<i - 1>>] ELSE NoNode)
      <3>1. i > 1 => i - 1 \in 1..ItemsStarted(q)
        BY <1>1
      <3>2. m.parent = IF i > 1 /\ Branches(q, i - 1) = <<>> THEN d[<<i - 1>>] ELSE NoNode
        BY <1>6 DEF AsItem
      <3>3. n.parent = IF m.parent = NoNode THEN NoNode ELSE r[m.parent]
        BY DEF Stands
      <3> QED
        BY <1>2, <3>1, <3>2, <3>3
    <2>4. n.edges = (IF Branches(q, i) = <<>> THEN Follows(q, e, i)
                     ELSE [x \in DOMAIN Branches(q, i) |-> e[<<i, ByName(q, i)[x]>>]])
      <3>1. CASE Branches(q, i) = <<>>
        <4>1. m.edges = Follows(q, d, i)
          BY <1>6, <3>1 DEF AsItem
        <4> QED
          BY <1>5, <3>1, <4>1
      <3>2. CASE Branches(q, i) # <<>>
        <4>1. m.edges = [x \in DOMAIN Branches(q, i) |-> d[<<i, ByName(q, i)[x]>>]]
          BY <1>6, <3>2 DEF AsItem
        <4>2. \A x \in DOMAIN Branches(q, i) : ByName(q, i)[x] \in DOMAIN Branches(q, i)
          <5>1. q.pipe \in Pipelines /\ i \in DOMAIN q.pipe
            BY PlacesCounted DEF Numbered
          <5> QED
            BY <5>1, BranchesInOrder
        <4>3. \A x \in DOMAIN Branches(q, i) :
                r[d[<<i, ByName(q, i)[x]>>]] = e[<<i, ByName(q, i)[x]>>]
          BY <1>3, <4>2
        <4>4. n.edges = [x \in DOMAIN m.edges |-> r[m.edges[x]]]
          BY DEF Stands
        <4>5. n.edges = [x \in DOMAIN Branches(q, i) |-> e[<<i, ByName(q, i)[x]>>]]
          BY <4>1, <4>3, <4>4
        <4> QED
          BY <3>2, <4>5
      <3> QED
        BY <3>1, <3>2
    <2> QED
      BY <1>6, <2>1, <2>2, <2>3, <2>4 DEF AsItem
  <1>7. ASSUME NEW i \in 1..ItemsStarted(q), NEW j \in DOMAIN Branches(q, i), AsBranch(q, d, m, i, j)
        PROVE  AsBranch(q, e, n, i, j)
    <2>1. n.id = e[<<i, j>>] /\ n.name = m.name /\ n.type = m.type /\ n.parent = e[<<i>>]
      BY <1>2, <1>3, <1>7 DEF AsBranch, Stands
    <2>2. n.edges = (IF Chain(q, i, j) = 0 THEN Follows(q, e, i) ELSE <<e[<<i, j, 1>>]>>)
      <3>1. CASE Chain(q, i, j) = 0
        <4>1. m.edges = Follows(q, d, i)
          BY <1>7, <3>1 DEF AsBranch
        <4> QED
          BY <1>5, <3>1, <4>1
      <3>2. CASE Chain(q, i, j) # 0
        <4>1. 1 \in 1..Chain(q, i, j)
          BY <3>2, PlacesCounted
        <4>2. m.edges = <<d[<<i, j, 1>>]>>
          BY <1>7, <3>2 DEF AsBranch
        <4>3. n.edges = <<r[d[<<i, j, 1>>]]>>
          BY <4>2 DEF Stands
        <4> QED
          BY <1>4, <3>2, <4>1, <4>3
      <3> QED
        BY <3>1, <3>2
    <2> QED
      BY <1>7, <2>1, <2>2 DEF AsBranch
  <1>8. ASSUME NEW i \in 1..ItemsStarted(q), NEW j \in DOMAIN Branches(q, i),
               NEW k \in 1..Chain(q, i, j), AsInner(q, d, m, i, j, k)
        PROVE  AsInner(q, e, n, i, j, k)
    <2>1. n.id = e[<<i, j, k>>] /\ n.name = m.name /\ n.type = m.type
      BY <1>4, <1>8 DEF AsInner, Stands
    <2>2. n.parent = (IF k = 1 THEN e[<<i, j>>] ELSE e[<<i, j, k - 1>>])
      <3>1. k # 1 => k - 1 \in 1..Chain(q, i, j)
        BY PlacesCounted
      <3>2. m.parent = IF k = 1 THEN d[<<i, j>>] ELSE d[<<i, j, k - 1>>]
        BY <1>8 DEF AsInner
      <3>3. n.parent = IF m.parent = NoNode THEN NoNode ELSE r[m.parent]
        BY DEF Stands
      <3> QED
        BY <1>3, <1>4, <3>1, <3>2, <3>3
    <2>3. n.edges = (IF k = Chain(q, i, j) THEN Follows(q, e, i) ELSE <<e[<<i, j, k + 1>>]>>)
      <3>1. CASE k = Chain(q, i, j)
        <4>1. m.edges = Follows(q, d, i)
          BY <1>8, <3>1 DEF AsInner
        <4> QED
          BY <1>5, <3>1, <4>1
      <3>2. CASE k # Chain(q, i, j)
        <4>1. k + 1 \in 1..Chain(q, i, j)
          BY <3>2, PlacesCounted
        <4>2. m.edges = <<d[<<i, j, k + 1>>]>>
          BY <1>8, <3>2 DEF AsInner
        <4>3. n.edges = <<r[d[<<i, j, k + 1>>]]>>
          BY <4>2 DEF Stands
        <4>4. r[d[<<i, j, k + 1>>]] = e[<<i, j, k + 1>>]
          BY <1>4, <4>1
        <4> QED
          BY <3>2, <4>3, <4>4
      <3> QED
        BY <3>1, <3>2
    <2> QED
      BY <1>8, <2>1, <2>2, <2>3 DEF AsInner
  <1>9. CASE \E i \in 1..ItemsStarted(q) : pos = <<i>> /\ AsItem(q, d, m, i)
    BY <1>6, <1>9 DEF Shows
  <1>10. CASE \E i \in 1..ItemsStarted(q) : \E j \in DOMAIN Branches(q, i) :
               pos = <<i, j>> /\ AsBranch(q, d, m, i, j)
    BY <1>7, <1>10 DEF Shows
  <1>11. CASE \E i \in 1..ItemsStarted(q) : \E j \in DOMAIN Branches(q, i) :
               \E k \in 1..Chain(q, i, j) : pos = <<i, j, k>> /\ AsInner(q, d, m, i, j, k)
    BY <1>8, <1>11 DEF Shows
  <1> QED
    BY <1>9, <1>10, <1>11 DEF Shows

(* The line of a node begins with its type and name. *)
LEMMA LineHead ==
  ASSUME NEW q, Numbered(q), NEW d, NEW s, Drawing(q, d, s), NEW n \in ToSet(s)
  PROVE  Line(s, n)[1] = n.type /\ Line(s, n)[2] = n.name
  <1>1. PICK pos : IsPlace(q, pos) /\ Shows(q, d, n, pos)
    BY IdsArePlaces
  <1>2. n.id = d[pos] /\ n.name = NameAt(q, pos) /\ n.type = TypeAt(pos)
    BY <1>1, ShowsPlace, ShownAt
  <1>3. NodeOf(s, d[pos]) = n
    BY <1>2, FindsItself
  <1>4. PICK T : \E t \in Seq(T) :
          /\ Line(s, NodeOf(s, d[pos])) = <<TypeAt(pos), NameAt(q, pos)>> \o t
          /\ TypeAt(pos) \in T /\ NameAt(q, pos) \in T
    BY <1>1, LineIs, Zenon
  <1>5. PICK t \in Seq(T) :
          /\ Line(s, NodeOf(s, d[pos])) = <<TypeAt(pos), NameAt(q, pos)>> \o t
          /\ TypeAt(pos) \in T /\ NameAt(q, pos) \in T
    BY <1>4
  <1> DEFINE a == TypeAt(pos)
             b == NameAt(q, pos)
  <1>6. Line(s, n) = <<a, b>> \o t /\ a \in T /\ b \in T
    BY <1>3, <1>5
  <1> HIDE DEF a, b
  <1>7. (<<a, b>> \o t)[1] = a /\ (<<a, b>> \o t)[2] = b
    BY <1>6, PairInFront
  <1> QED
    BY <1>2, <1>6, <1>7 DEF a, b

(* The ids of the places of an earlier run in the graph it is united in. *)
JoinedIds(q, q0) ==
  [pos \in Seq(Nat) |-> Renamed(PipelineNodes(q), PipelineNodes(q0), OwnIds(q0)[pos])]

(* union: every node stands where the one of the earlier run stood. *)
LEMMA UnionStands ==
  ASSUME NEW q, NEW q0, Numbered(q), Numbered(q0),
         Compatible(PipelineNodes(q), PipelineNodes(q0))
  PROVE  LET cur == PipelineNodes(q)
             old == PipelineNodes(q0)
             u == Union(cur, old)
         IN  /\ Len(old) \in Nat /\ u = [i \in 1..Len(old) |-> u[i]] /\ Distinct(u)
             /\ \A i \in 1..Len(old) : u[i].id \in {n.id : n \in ToSet(cur) \cup ToSet(old)}
             /\ \A pos : IsPlace(q0, pos) => pos \in Seq(Nat)
             /\ \E r : /\ \A i \in 1..Len(old) : Stands(u[i], old[i], r)
                       /\ \A pos : IsPlace(q0, pos) => r[OwnIds(q0)[pos]] = JoinedIds(q, q0)[pos]
  <1> DEFINE cur == PipelineNodes(q)
             old == PipelineNodes(q0)
             u == Union(cur, old)
             S == AnyNode(q) \cup AnyNode(q0)
             ids == {n.id : n \in ToSet(old)}
             named == ids \cup {n.parent : n \in ToSet(old)}
                          \cup UNION {{n.edges[x] : x \in DOMAIN n.edges} : n \in ToSet(old)}
             r == [id \in named |-> Renamed(cur, old, id)]
             d == OwnIds(q0)
  <1>1. Drawing(q, OwnIds(q), cur) /\ Drawing(q0, d, old)
    BY OwnDrawing
  <1>2. /\ cur \in Seq(AnyNode(q)) /\ Distinct(cur)
        /\ old \in Seq(AnyNode(q0)) /\ Distinct(old)
    BY NodesDistinct
  <1>3. \A n \in S : IsNode(n)
    BY AnyIsNode
  <1>4. Compatible(cur, old)
    OBVIOUS
  <1>5. \A pos : IsPlace(q0, pos) => pos \in Seq(Nat) /\ d[pos] \in ids
    BY <1>1, OwnIdsAre, IdsArePlaces
  <1>6. \A pos : IsPlace(q0, pos) => r[d[pos]] = JoinedIds(q, q0)[pos]
    BY <1>5 DEF JoinedIds
  <1> HIDE DEF cur, old, u, d
  <1>7. cur \in Seq(S) /\ old \in Seq(S)
    BY <1>2, SeqDef
  <1> HIDE DEF S
  <1>8. /\ u = [i \in 1..Len(old) |-> u[i]]
        /\ \A i \in 1..Len(old) :
             /\ u[i].id = Joined(cur, old, i).id
             /\ u[i].name = Joined(cur, old, i).name
             /\ u[i].type = Joined(cur, old, i).type
    BY <1>3, <1>4, <1>7, UnionPlaces DEF u
  <1>9. Distinct(u)
    BY <1>2, <1>3, <1>4, <1>7, UnionDistinct DEF u
  <1>10. /\ Len(old) \in Nat /\ DOMAIN old = 1..Len(old) /\ DOMAIN cur = 1..Len(cur)
    BY <1>7, LenProperties
  <1>11. ASSUME NEW i \in 1..Len(old)
         PROVE  /\ old[i] \in ToSet(old) /\ IsNode(old[i])
                /\ u[i].id = Renamed(cur, old, old[i].id)
    <2> DEFINE at == FindById([id |-> old[i].id], old)
    <2>1. \/ at = 0 /\ \A k \in 1..Len(old) : old[k].id # [id |-> old[i].id].id
          \/ at \in 1..Len(old) /\ old[at].id = [id |-> old[i].id].id
      BY <1>7, FoundById
    <2>2. at = i
      <3> HIDE DEF at
      <3>1. at \in 1..Len(old) /\ old[at].id = old[i].id
        BY <2>1
      <3> QED
        BY <1>2, <3>1 DEF Distinct
    <2>3. u[i].id = Renamed(cur, old, old[i].id)
      BY <1>8, <2>2 DEF Renamed
    <2>4. IsNode(old[i])
      BY <1>3, <1>7, ElementOfSeq
    <2> QED
      BY <1>10, <2>3, <2>4 DEF ToSet
  <1>12. ASSUME NEW i \in 1..Len(old)
         PROVE  /\ u[i].name = old[i].name /\ u[i].type = old[i].type
                /\ u[i].id \in {n.id : n \in ToSet(cur) \cup ToSet(old)}
    <2>1. CASE Found(cur, old, i) = 0
      <3>1. Joined(cur, old, i) = [old[i] EXCEPT !.state = Unknown]
        BY <2>1 DEF Joined
      <3>2. /\ Joined(cur, old, i).name = old[i].name /\ Joined(cur, old, i).type = old[i].type
            /\ Joined(cur, old, i).id = old[i].id
        BY <1>11, <3>1 DEF IsNode
      <3> QED
        BY <1>8, <1>11, <3>2
    <2>2. CASE Found(cur, old, i) # 0
      <3> DEFINE m == cur[Found(cur, old, i)]
      <3>1. Found(cur, old, i) \in 1..Len(cur) /\ Lookup(cur, m, old) = i
        BY <1>7, <2>2, FoundIs
      <3>2. m \in ToSet(cur)
        BY <1>10, <3>1 DEF ToSet
      <3>3. Joined(cur, old, i) = m
        BY <2>2 DEF Joined
      <3> HIDE DEF m
      <3>4. Line(old, old[i]) = Line(cur, m)
        <4>1. Line(old, old[Lookup(cur, m, old)]) = Line(cur, m)
          BY <1>4, <3>2, Zenon DEF Compatible
        <4> QED
          BY <3>1, <4>1
      <3>5. Line(cur, m)[1] = m.type /\ Line(cur, m)[2] = m.name
        BY <1>1, <3>2, LineHead
      <3>6. Line(old, old[i])[1] = old[i].type /\ Line(old, old[i])[2] = old[i].name
        BY <1>1, <1>11, LineHead
      <3> QED
        BY <1>8, <3>2, <3>3, <3>4, <3>5, <3>6
    <2> QED
      BY <2>1, <2>2
  <1>13. ASSUME NEW i \in 1..Len(old) PROVE Stands(u[i], old[i], r)
    <2>1. /\ u[i].parent = (IF old[i].parent = NoNode THEN NoNode
                            ELSE Renamed(cur, old, old[i].parent))
          /\ u[i].edges = [x \in DOMAIN old[i].edges |-> Renamed(cur, old, old[i].edges[x])]
      BY <1>3, <1>4, <1>7, UnionLeads DEF u
    <2>2. /\ old[i].id \in named /\ old[i].parent \in named
          /\ \A x \in DOMAIN old[i].edges : old[i].edges[x] \in named
      BY <1>11
    <2> HIDE DEF named
    <2>3. /\ r[old[i].id] = Renamed(cur, old, old[i].id)
          /\ r[old[i].parent] = Renamed(cur, old, old[i].parent)
          /\ \A x \in DOMAIN old[i].edges : r[old[i].edges[x]] = Renamed(cur, old, old[i].edges[x])
      BY <2>2
    <2> HIDE DEF r
    <2>4. u[i].edges = [x \in DOMAIN old[i].edges |-> r[old[i].edges[x]]]
      BY <2>1, <2>3
    <2>5. u[i].id = r[old[i].id]
      BY <1>11, <2>3
    <2>6. u[i].parent = IF old[i].parent = NoNode THEN NoNode ELSE r[old[i].parent]
      BY <2>1, <2>3
    <2> QED
      BY <1>12, <2>4, <2>5, <2>6 DEF Stands
  <1> HIDE DEF r, named
  <1>14. \E f : /\ \A i \in 1..Len(old) : Stands(u[i], old[i], f)
                /\ \A pos : IsPlace(q0, pos) => f[d[pos]] = JoinedIds(q, q0)[pos]
    BY <1>6, <1>13
  <1>15. \A pos : IsPlace(q0, pos) => pos \in Seq(Nat)
    BY <1>5
  <1>16. \A i \in 1..Len(old) : u[i].id \in {n.id : n \in ToSet(cur) \cup ToSet(old)}
    BY <1>12
  <1> QED
    BY <1>8, <1>9, <1>10, <1>14, <1>15, <1>16, Zenon DEF cur, old, u, d

(* union: the graph shows all the earlier run has started, renamed. *)
LEMMA UnionDrawing ==
  ASSUME NEW q, NEW q0, Numbered(q), Numbered(q0),
         Compatible(PipelineNodes(q), PipelineNodes(q0))
  PROVE  Drawing(q0, JoinedIds(q, q0), Union(PipelineNodes(q), PipelineNodes(q0)))
  <1> DEFINE cur == PipelineNodes(q)
             old == PipelineNodes(q0)
             u == Union(cur, old)
             d == OwnIds(q0)
             e == JoinedIds(q, q0)
  <1>1. Drawing(q, OwnIds(q), cur) /\ Drawing(q0, d, old)
    BY OwnDrawing
  <1>2. /\ Len(old) \in Nat /\ u = [i \in 1..Len(old) |-> u[i]] /\ Distinct(u)
        /\ \A i \in 1..Len(old) : u[i].id \in {n.id : n \in ToSet(cur) \cup ToSet(old)}
        /\ \A pos : IsPlace(q0, pos) => pos \in Seq(Nat)
    BY UnionStands
  <1>3. PICK r : /\ \A i \in 1..Len(old) : Stands(u[i], old[i], r)
                 /\ \A pos : IsPlace(q0, pos) => r[d[pos]] = e[pos]
    BY UnionStands
  <1> HIDE DEF cur, old, u, d, e
  <1>4. Len(u) = Len(old)
    BY <1>2, LenProperties, SeqDef
  <1>5. \A pos : IsPlace(q0, pos) => d[pos] # NoNode /\ r[d[pos]] = e[pos]
    BY <1>1, <1>3 DEF Drawing
  <1>6. ASSUME NEW i \in 1..Len(old) PROVE \E pos : Shows(q0, e, u[i], pos)
    <2>1. PICK pos : Shows(q0, d, old[i], pos)
      BY <1>1 DEF Drawing
    <2>2. Shows(q0, e, u[i], pos)
      BY <1>3, <1>5, <2>1, StandsForPlace
    <2> QED
      BY <2>2
  <1>7. ASSUME NEW pos, IsPlace(q0, pos)
        PROVE  \E i \in 1..Len(old) : old[i].id = d[pos] /\ u[i].id = e[pos]
    <2>1. PICK i \in 1..Len(old) : old[i].id = d[pos]
      BY <1>1, <1>7 DEF Drawing
    <2>2. u[i].id = r[d[pos]]
      BY <1>3, <2>1 DEF Stands
    <2> QED
      BY <1>3, <1>7, <2>1, <2>2
  <1>8. ASSUME NEW a, NEW b, IsPlace(q0, a), IsPlace(q0, b), e[a] = e[b] PROVE a = b
    <2>1. PICK i \in 1..Len(old) : old[i].id = d[a] /\ u[i].id = e[a]
      BY <1>7, <1>8
    <2>2. PICK k \in 1..Len(old) : old[k].id = d[b] /\ u[k].id = e[b]
      BY <1>7, <1>8
    <2>3. i = k
      BY <1>2, <1>4, <1>8, <2>1, <2>2 DEF Distinct
    <2> QED
      BY <1>1, <1>8, <2>1, <2>2, <2>3 DEF Drawing
  <1>9. ASSUME NEW a, IsPlace(q0, a) PROVE e[a] # NoNode
    <2>1. PICK i \in 1..Len(old) : u[i].id = e[a]
      BY <1>7, <1>9
    <2>2. NoNode \notin {n.id : n \in ToSet(cur)} /\ NoNode \notin {n.id : n \in ToSet(old)}
      BY <1>1, IdsArePlaces
    <2> QED
      BY <1>2, <2>1, <2>2
  <1>10. ASSUME ItemsStarted(q0) # 0 PROVE Len(u) # 0 /\ u[1].id = e[<<1>>]
    <2>1. Len(old) # 0 /\ old[1].id = d[<<1>>]
      BY <1>1, <1>10 DEF Drawing
    <2>2. 1 \in 1..Len(old)
      BY <1>2, <2>1
    <2>3. u[1].id = r[d[<<1>>]]
      BY <1>3, <2>1, <2>2 DEF Stands
    <2>4. IsPlace(q0, <<1>>)
      <3>1. 1 \in 1..ItemsStarted(q0)
        BY <1>10, PlacesCounted
      <3> QED
        BY <3>1, PlaceKinds
    <2> QED
      BY <1>4, <1>5, <2>1, <2>3, <2>4
  <1>11. u = [i \in 1..Len(u) |-> u[i]]
    BY <1>2, <1>4
  <1>12. Drawing(q0, e, u)
    BY <1>2, <1>4, <1>6, <1>7, <1>8, <1>9, <1>10, <1>11 DEF Drawing
  <1> QED
    BY <1>12 DEF e, u, cur, old

(* convertJenkinsNodeGraph: what is united with an earlier run is drawn as *)
(* that one.                                                                *)
LEMMA UnionDrawn ==
  ASSUME NEW q, NEW q0, Numbered(q), Numbered(q0),
         Compatible(PipelineNodes(q), PipelineNodes(q0))
  PROVE  Drawn(Union(PipelineNodes(q), PipelineNodes(q0))) = Shape(q0)
  BY UnionDrawing, ShapeDrawn

(* An item of which every branch has started its last stage; a run that    *)
(* has started all there is.                                               *)
WholeItem(q, i) ==
  \A j \in DOMAIN Branches(q, i) :
    Inner(q, i, j) # <<>> => <<i, j, Len(Inner(q, i, j))>> \in DOMAIN q.ids
Whole(q) == ItemsStarted(q) = Len(q.pipe) /\ \A i \in 1..ItemsStarted(q) : WholeItem(q, i)

(* A whole run has every place that another run of its pipeline has. *)
LEMMA WholePlaces ==
  ASSUME NEW q, NEW q0, Numbered(q), Numbered(q0), q.pipe = q0.pipe, Whole(q0),
         NEW pos, IsPlace(q, pos)
  PROVE  IsPlace(q0, pos)
  <1>1. /\ \A i : Branches(q0, i) = Branches(q, i)
        /\ \A i, j : Inner(q0, i, j) = Inner(q, i, j)
    BY SameItems
  <1>2. \A i \in 1..ItemsStarted(q) : i \in 1..ItemsStarted(q0) /\ i \in DOMAIN q0.pipe
    <2>1. /\ ItemsStarted(q) \in Nat /\ ItemsStarted(q) <= Len(q.pipe)
          /\ ItemsStarted(q0) \in Nat /\ ItemsStarted(q0) = Len(q.pipe)
      BY PlacesCounted DEF Whole
    <2>2. \A i \in 1..ItemsStarted(q) : i \in DOMAIN q.pipe
      BY PlacesCounted
    <2> QED
      BY <2>1, <2>2
  <1>3. ASSUME NEW i \in 1..ItemsStarted(q), NEW j \in DOMAIN Branches(q, i),
               NEW k \in 1..Chain(q, i, j)
        PROVE  k \in 1..Chain(q0, i, j)
    <2> DEFINE n == Len(Inner(q0, i, j))
    <2>1. n \in Nat /\ DOMAIN Inner(q0, i, j) = 1..n
      BY <1>1, <1>2, PipeTypes DEF Numbered
    <2>2. InnerStarted(q, i, j) \in 0..n /\ Chain(q, i, j) \in Nat
      BY <1>1, PlacesCounted
    <2>3. Chain(q, i, j) = InnerStarted(q, i, j) /\ InnerStarted(q, i, j) >= 2
      BY <2>1, <2>2 DEF Chain
    <2>4. <<i, j, n>> \in DOMAIN q0.ids
      <3>1. WholeItem(q0, i) /\ j \in DOMAIN Branches(q0, i)
        BY <1>1, <1>2 DEF Whole
      <3>2. n >= 2
        BY <2>1, <2>2, <2>3
      <3>3. Inner(q0, i, j) # <<>>
        <4>1. Inner(q0, i, j) = <<>> => DOMAIN Inner(q0, i, j) = {}
          OBVIOUS
        <4>2. 1 \in 1..n
          BY <2>1, <3>2
        <4> QED
          BY <2>1, <4>1, <4>2
      <3> QED
        BY <3>1, <3>3 DEF WholeItem
    <2>5. PICK m \in 0..n : InnerUpTo(q0, i, j, m)
      BY <1>1, <1>2 DEF Numbered
    <2>6. InnerStarted(q0, i, j) = m
      BY <1>1, <1>2, <2>5, InnerCounted
    <2>7. m = n
      <3>1. n \in DOMAIN Inner(q0, i, j)
        BY <2>1, <2>2, <2>3
      <3>2. n <= m
        BY <2>4, <2>5, <3>1 DEF InnerUpTo
      <3> HIDE DEF n
      <3> QED
        BY <2>1, <3>2
    <2> HIDE DEF n
    <2>8. Chain(q0, i, j) = n
      BY <2>1, <2>2, <2>3, <2>6, <2>7 DEF Chain
    <2> QED
      BY <2>1, <2>2, <2>3, <2>8
  <1>4. CASE \E i \in 1..ItemsStarted(q) : pos = <<i>>
    BY <1>2, <1>4 DEF IsPlace
  <1>5. CASE \E i \in 1..ItemsStarted(q) : \E j \in DOMAIN Branches(q, i) : pos = <<i, j>>
    BY <1>1, <1>2, <1>5 DEF IsPlace
  <1>6. CASE \E i \in 1..ItemsStarted(q) : \E j \in DOMAIN Branches(q, i) :
               \E k \in 1..Chain(q, i, j) : pos = <<i, j, k>>
    <2>1. PICK i \in 1..ItemsStarted(q) : \E j \in DOMAIN Branches(q, i) :
                 \E k \in 1..Chain(q, i, j) : pos = <<i, j, k>>
      BY <1>6
    <2>2. PICK j \in DOMAIN Branches(q, i) : \E k \in 1..Chain(q, i, j) : pos = <<i, j, k>>
      BY <2>1
    <2>3. PICK k \in 1..Chain(q, i, j) : pos = <<i, j, k>>
      BY <2>2
    <2> QED
      BY <1>1, <1>2, <1>3, <2>3 DEF IsPlace
  <1> QED
    BY <1>4, <1>5, <1>6 DEF IsPlace

(* probablySameNode: what two runs of one pipeline show at a place has one *)
(* line of names and types.                                                *)
LEMMA LinesSame ==
  ASSUME NEW q, NEW q0, Numbered(q), Numbered(q0), q.pipe = q0.pipe,
         NEW d, NEW s, Drawing(q, d, s), NEW d0, NEW s0, Drawing(q0, d0, s0),
         \A p : IsPlace(q, p) => IsPlace(q0, p), NEW pos, IsPlace(q, pos)
  PROVE  Line(s, NodeOf(s, d[pos])) = Line(s0, NodeOf(s0, d0[pos]))
  <1> DEFINE line(p) == Line(s, NodeOf(s, d[p]))
             line0(p) == Line(s0, NodeOf(s0, d0[p]))
             bad == {m \in Nat : \E p : IsPlace(q, p) /\ Rank(q, p) = m /\ line(p) # line0(p)}
  <1>1. ASSUME NEW p, IsPlace(q, p),
               Above(q, p) # <<>> =>
                 IsPlace(q, Above(q, p)) /\ line(Above(q, p)) = line0(Above(q, p))
        PROVE  line(p) = line0(p)
    <2>1. IsPlace(q0, p)
      BY <1>1
    <2>2. \E T : \E t \in Seq(T) :
            /\ line(p) = <<TypeAt(p), NameAt(q, p)>> \o t
            /\ t = IF Above(q, p) = <<>> THEN <<>> ELSE line(Above(q, p))
      BY <1>1, LineIs
    <2>3. \E T : \E t \in Seq(T) :
            /\ line0(p) = <<TypeAt(p), NameAt(q0, p)>> \o t
            /\ t = IF Above(q0, p) = <<>> THEN <<>> ELSE line0(Above(q0, p))
      BY <2>1, LineIs
    <2>4. Above(q, p) = Above(q0, p) /\ NameAt(q, p) = NameAt(q0, p)
      BY SamePlaces
    <2> HIDE DEF line, line0
    <2>5. line(p) = <<TypeAt(p), NameAt(q, p)>>
                      \o (IF Above(q, p) = <<>> THEN <<>> ELSE line(Above(q, p)))
      BY <2>2
    <2>6. line0(p) = <<TypeAt(p), NameAt(q, p)>>
                       \o (IF Above(q, p) = <<>> THEN <<>> ELSE line0(Above(q, p)))
      BY <2>3, <2>4
    <2> QED
      BY <1>1, <2>5, <2>6
  <1>2. ASSUME NEW p, IsPlace(q, p)
        PROVE  /\ Rank(q, p) \in Nat
               /\ Above(q, p) # <<>> =>
                    IsPlace(q, Above(q, p)) /\ Rank(q, Above(q, p)) < Rank(q, p)
    <2>1. Shows(q, d, NodeOf(s, d[p]), p)
      BY <1>2, NodeAt
    <2> QED
      BY <2>1, ShownAt
  <1> HIDE DEF line, line0
  <1>3. bad = {}
    <2> SUFFICES ASSUME bad # {} PROVE FALSE
      OBVIOUS
    <2>1. bad \in SUBSET Nat
      OBVIOUS
    <2>2. PICK m \in bad : \A k \in bad : m <= k
      <3> HIDE DEF bad
      <3> QED
        BY <2>1, LeastExists
    <2>3. PICK p : IsPlace(q, p) /\ Rank(q, p) = m /\ line(p) # line0(p)
      BY <2>2
    <2>4. /\ Above(q, p) # <<>> /\ IsPlace(q, Above(q, p))
          /\ line(Above(q, p)) # line0(Above(q, p))
      BY <1>1, <1>2, <2>3
    <2> DEFINE a == Above(q, p)
    <2> HIDE DEF a
    <2>5. IsPlace(q, a) /\ line(a) # line0(a) /\ Rank(q, a) < m
      BY <1>2, <2>3, <2>4 DEF a
    <2>6. Rank(q, a) \in Nat
      BY <1>2, <2>5
    <2>7. Rank(q, a) \in bad
      BY <2>5, <2>6
    <2>8. m \in Nat
      BY <2>1, <2>2
    <2> HIDE DEF bad
    <2> QED
      BY <2>2, <2>5, <2>6, <2>7, <2>8
  <1>4. line(pos) = line0(pos)
    <2>1. Rank(q, pos) \in Nat
      BY <1>2
    <2> QED
      BY <1>3, <2>1
  <1> QED
    BY <1>4 DEF line, line0

(* Without a clash an id means one place in both runs. *)
LEMMA OneMeaning ==
  ASSUME NEW q, NEW q0, Numbered(q), Numbered(q0), ~Clash(q, q0),
         NEW a, NEW b, IsPlace(q, a), IsPlace(q0, b), PlaceId(q, a) = PlaceId(q0, b)
  PROVE  a = b
  <1> DEFINE Known(p, x) ==
               /\ IsPlace(p, x)
               /\ \/ x \in DOMAIN p.ids /\ PlaceId(p, x) = p.ids[x]
                  \/ \E i : x = <<i>> /\ \E j : <<i, j>> \in DOMAIN p.ids
                                                /\ PlaceId(p, x) = -p.ids[<<i, j>>]
  <1>1. ASSUME NEW p, Numbered(p), NEW x, IsPlace(p, x) PROVE Known(p, x)
    <2>1. ASSUME NEW i \in 1..ItemsStarted(p), x = <<i>> PROVE Known(p, x)
      <3>1. PlaceId(p, x) = HeadId(p, i)
        BY <2>1 DEF PlaceId
      <3>2. CASE ~p.pipe[i].orphan /\ <<i>> \in DOMAIN p.ids /\ HeadId(p, i) = p.ids[<<i>>]
        BY <1>1, <2>1, <3>1, <3>2
      <3>3. CASE \E j \in DOMAIN Branches(p, i) : HeadId(p, i) = -p.ids[<<i, j>>]
        <4>1. PICK j \in DOMAIN Branches(p, i) : HeadId(p, i) = -p.ids[<<i, j>>]
          BY <3>3
        <4>2. <<i, j>> \in DOMAIN p.ids
          BY <1>1, HeadIds
        <4> QED
          BY <1>1, <2>1, <3>1, <4>1, <4>2
      <3> HIDE DEF Known
      <3> QED
        BY <1>1, <3>2, <3>3, HeadIds
    <2>2. ASSUME NEW i \in 1..ItemsStarted(p), NEW j \in DOMAIN Branches(p, i), x = <<i, j>>
          PROVE  Known(p, x)
      <3>1. x \in DOMAIN p.ids
        BY <1>1, <2>2, HeadIds
      <3>2. PlaceId(p, x) = p.ids[x]
        BY <2>2 DEF PlaceId
      <3> QED
        BY <1>1, <3>1, <3>2
    <2>3. ASSUME NEW i \in 1..ItemsStarted(p), NEW j \in DOMAIN Branches(p, i),
                 NEW k \in 1..Chain(p, i, j), x = <<i, j, k>>
          PROVE  Known(p, x)
      <3>1. x \in DOMAIN p.ids
        <4>1. i \in DOMAIN p.pipe
          BY <1>1, PlacesCounted
        <4> QED
          BY <1>1, <2>3, <4>1, StartedAre
      <3>2. PlaceId(p, x) = p.ids[x]
        BY <2>3 DEF PlaceId
      <3> QED
        BY <1>1, <3>1, <3>2
    <2> HIDE DEF Known
    <2>4. CASE \E i \in 1..ItemsStarted(p) : x = <<i>>
      BY <2>1, <2>4
    <2>5. CASE \E i \in 1..ItemsStarted(p) : \E j \in DOMAIN Branches(p, i) : x = <<i, j>>
      BY <2>2, <2>5
    <2>6. CASE \E i \in 1..ItemsStarted(p) : \E j \in DOMAIN Branches(p, i) :
                 \E k \in 1..Chain(p, i, j) : x = <<i, j, k>>
      BY <2>3, <2>6
    <2> QED
      BY <1>1, <2>4, <2>5, <2>6 DEF IsPlace
  <1>2. Known(q, a) /\ Known(q0, b)
    <2> HIDE DEF Known
    <2> QED
      BY <1>1
  <1>3. /\ \A x \in DOMAIN q.ids : q.ids[x] \in Nat \ {0}
        /\ \A x \in DOMAIN q0.ids : q0.ids[x] \in Nat \ {0}
    BY DEF Numbered
  <1>4. \A x \in DOMAIN q.ids, y \in DOMAIN q0.ids : q.ids[x] = q0.ids[y] => x = y
    BY DEF Clash
  <1>5. CASE a \in DOMAIN q.ids /\ PlaceId(q, a) = q.ids[a]
             /\ b \in DOMAIN q0.ids /\ PlaceId(q0, b) = q0.ids[b]
    BY <1>4, <1>5
  <1>6. ASSUME NEW i, NEW j, NEW k, NEW l, a = <<i>>, <<i, j>> \in DOMAIN q.ids,
               PlaceId(q, a) = -q.ids[<<i, j>>], b = <<k>>, <<k, l>> \in DOMAIN q0.ids,
               PlaceId(q0, b) = -q0.ids[<<k, l>>]
        PROVE  a = b
    <2>1. q.ids[<<i, j>>] = q0.ids[<<k, l>>]
      BY <1>3, <1>6
    <2>2. <<i, j>> = <<k, l>>
      BY <1>4, <1>6, <2>1
    <2> QED
      BY <1>6, <2>2
  <1>7. ASSUME NEW i, NEW j, <<i, j>> \in DOMAIN q.ids, PlaceId(q, a) = -q.ids[<<i, j>>],
               b \in DOMAIN q0.ids, PlaceId(q0, b) = q0.ids[b]
        PROVE  FALSE
    <2>1. q.ids[<<i, j>>] \in Nat \ {0} /\ q0.ids[b] \in Nat \ {0}
      BY <1>3, <1>7
    <2>2. -q.ids[<<i, j>>] = q0.ids[b]
      BY <1>7
    <2> QED
      BY <2>1, <2>2
  <1>8. ASSUME NEW i, NEW j, <<i, j>> \in DOMAIN q0.ids, PlaceId(q0, b) = -q0.ids[<<i, j>>],
               a \in DOMAIN q.ids, PlaceId(q, a) = q.ids[a]
        PROVE  FALSE
    BY <1>3, <1>8
  <1> QED
    BY <1>2, <1>5, <1>6, <1>7, <1>8

(* union: a node of the run is found, and has the line of what is found, if *)
(* the earlier run is whole, its pipeline the same, its ids do not clash    *)
(* with those of the run and its names are not ambiguous.                   *)
LEMMA FoundAlike ==
  ASSUME NEW q, NEW q0, Numbered(q), Numbered(q0), q.pipe = q0.pipe, Whole(q0),
         ~Clash(q, q0), ~Ambiguous(PipelineNodes(q0)), NEW n \in ToSet(PipelineNodes(q))
  PROVE  LET i == Lookup(PipelineNodes(q), n, PipelineNodes(q0))
         IN  i # 0 /\ Line(PipelineNodes(q0), PipelineNodes(q0)[i]) = Line(PipelineNodes(q), n)
  <1> DEFINE cur == PipelineNodes(q)
             old == PipelineNodes(q0)
             d == OwnIds(q)
             d0 == OwnIds(q0)
             i == Lookup(cur, n, old)
  <1>1. Drawing(q, d, cur) /\ Drawing(q0, d0, old)
    BY OwnDrawing
  <1>2. \A p : IsPlace(q, p) => IsPlace(q0, p)
    BY WholePlaces
  <1>3. \A p : /\ Above(q, p) = Above(q0, p) /\ NameAt(q, p) = NameAt(q0, p)
    BY SamePlaces
  <1>4. old \in Seq(AnyNode(q0)) /\ n \in ToSet(cur) /\ ~Ambiguous(old)
    BY NodesDistinct
  <1>5. /\ \A p : IsPlace(q, p) => d[p] = PlaceId(q, p)
        /\ \A p : IsPlace(q0, p) => d0[p] = PlaceId(q0, p)
    BY OwnIdsAre
  <1> HIDE DEF cur, old, d, d0
  <1>6. DOMAIN old = 1..Len(old) /\ Len(old) \in Nat
    BY <1>4, LenProperties
  <1>7. PICK pos : IsPlace(q, pos) /\ Shows(q, d, n, pos)
    BY <1>1, <1>4, IdsArePlaces
  <1>8. n.id = d[pos] /\ NodeOf(cur, d[pos]) = n
    BY <1>1, <1>4, <1>7, ShowsPlace, FindsItself
  <1> DEFINE o == NodeOf(old, d0[pos])
  <1>9. o \in ToSet(old) /\ Shows(q0, d0, o, pos) /\ o.id = d0[pos]
    BY <1>1, <1>2, <1>7, NodeAt
  <1>10. Line(cur, n) = Line(old, o)
    <2>1. Line(cur, NodeOf(cur, d[pos])) = Line(old, NodeOf(old, d0[pos]))
      BY <1>1, <1>2, <1>7, LinesSame
    <2> QED
      BY <1>8, <2>1
  <1>11. o.name = n.name /\ ParentName(old, o) = ParentName(cur, n)
    <2> DEFINE up == Above(q, pos)
    <2>1. /\ n.name = NameAt(q, pos)
          /\ n.parent = (IF up = <<>> THEN NoNode ELSE d[up])
          /\ up # <<>> => IsPlace(q, up)
      BY <1>7, ShownAt
    <2>2. /\ o.name = NameAt(q, pos)
          /\ o.parent = (IF up = <<>> THEN NoNode ELSE d0[up])
      BY <1>3, <1>9, ShownAt
    <2> HIDE DEF o, up
    <2>3. CASE up = <<>>
      BY <2>1, <2>2, <2>3 DEF ParentName
    <2>4. CASE up # <<>>
      <3>1. IsPlace(q, up) /\ IsPlace(q0, up)
        BY <1>2, <2>1, <2>4
      <3>2. d[up] # NoNode /\ d0[up] # NoNode
        BY <1>1, <3>1 DEF Drawing
      <3>3. NodeOf(cur, d[up]).name = NameAt(q, up)
        <4>1. Shows(q, d, NodeOf(cur, d[up]), up)
          BY <1>1, <3>1, NodeAt
        <4> QED
          BY <4>1, ShownAt
      <3>4. NodeOf(old, d0[up]).name = NameAt(q, up)
        <4>1. Shows(q0, d0, NodeOf(old, d0[up]), up)
          BY <1>1, <3>1, NodeAt
        <4> QED
          BY <1>3, <4>1, ShownAt
      <3>5. ParentName(cur, n) = <<NameAt(q, up)>>
        BY <2>1, <2>4, <3>2, <3>3 DEF ParentName
      <3>6. ParentName(old, o) = <<NameAt(q, up)>>
        BY <2>2, <2>4, <3>2, <3>4 DEF ParentName
      <3> QED
        BY <2>1, <2>2, <3>5, <3>6
    <2> QED
      BY <2>3, <2>4
  <1> HIDE DEF o, i
  <1>12. CASE FindById(n, old) # 0
    <2>1. /\ FindById(n, old) \in 1..Len(old) /\ old[FindById(n, old)].id = n.id
          /\ i = FindById(n, old)
      BY <1>4, <1>12, FoundById, LookedUp DEF i
    <2>2. old[i] \in ToSet(old) /\ old[i].id = n.id /\ i # 0
      BY <1>6, <1>12, <2>1 DEF ToSet
    <2>3. PICK p : IsPlace(q0, p) /\ Shows(q0, d0, old[i], p)
      BY <1>1, <2>2, IdsArePlaces
    <2>4. old[i].id = d0[p]
      BY <2>3, ShowsPlace
    <2>5. PlaceId(q, pos) = PlaceId(q0, p)
      BY <1>5, <1>7, <1>8, <2>2, <2>3, <2>4
    <2>6. p = pos
      BY <1>7, <2>3, <2>5, OneMeaning
    <2>7. old[i] = o
      BY <1>1, <2>2, <2>4, <2>6, FindsItself DEF o
    <2> QED
      BY <1>10, <2>2, <2>7 DEF i, cur, old
  <1>13. CASE FindById(n, old) = 0
    <2> DEFINE I == {x \in 1..Len(old) :
                       old[x].name = n.name /\ ParentName(old, old[x]) = ParentName(cur, n)}
    <2>1. i = IF I # {} THEN Min(I) ELSE 0
      BY <1>13, Zenon DEF i, Lookup, FindByParentage, SelectInSeq
    <2>2. I \in SUBSET Nat
      BY <1>6
    <2>3. PICK x \in 1..Len(old) : old[x] = o
      BY <1>6, <1>9 DEF ToSet
    <2>4. x \in I
      BY <1>11, <2>3
    <2>5. \E y \in I : \A z \in I : y <= z
      <3> HIDE DEF I
      <3> QED
        BY <2>2, <2>4, LeastExists
    <2>6. Min(I) \in I
      BY <2>5, Zenon DEF Min
    <2>7. i \in I
      BY <2>1, <2>4, <2>6, Zenon
    <2>8. /\ i \in 1..Len(old) /\ old[i] \in ToSet(old)
          /\ old[i].name = o.name /\ ParentName(old, old[i]) = ParentName(old, o)
      BY <1>6, <1>11, <2>7 DEF ToSet
    <2>9. Line(old, old[i]) = Line(old, o)
      BY <1>4, <1>9, <2>8, Zenon DEF Ambiguous
    <2>10. i # 0
      BY <1>6, <2>8
    <2> QED
      BY <1>10, <2>9, <2>10 DEF i, cur, old
  <1> QED
    BY <1>12, <1>13

(* union: when the graph of a run is compatible with that of an earlier one. *)
LEMMA RunsCompatible ==
  ASSUME NEW q, NEW q0, Numbered(q), Numbered(q0), q.pipe = q0.pipe, Whole(q0),
         ~Clash(q, q0), ~Ambiguous(PipelineNodes(q0))
  PROVE  Compatible(PipelineNodes(q), PipelineNodes(q0))
  BY FoundAlike DEF Compatible

-----------------------------------------------------------------------------
(* A run that succeeds has started all there is.                           *)

LEMMA PositionIsSeq ==
  ASSUME NEW q, q.pipe \in Pipelines, NEW pos, IsPosition(q, pos)
  PROVE  pos \in Seq(Nat)
  <1>1. /\ \A i \in DOMAIN q.pipe : i \in Nat
        /\ \A i \in DOMAIN q.pipe : \A j \in DOMAIN Branches(q, i) : j \in Nat
        /\ \A i \in DOMAIN q.pipe : \A j \in DOMAIN Branches(q, i) :
             \A k \in DOMAIN Inner(q, i, j) : k \in Nat
    <2>1. Len(q.pipe) \in Nat /\ DOMAIN q.pipe = 1..Len(q.pipe)
      BY PipeTypes
    <2>2. ASSUME NEW i \in DOMAIN q.pipe
          PROVE  Len(Branches(q, i)) \in Nat /\ DOMAIN Branches(q, i) = 1..Len(Branches(q, i))
      BY PipeTypes
    <2>3. ASSUME NEW i \in DOMAIN q.pipe, NEW j \in DOMAIN Branches(q, i)
          PROVE  Len(Inner(q, i, j)) \in Nat /\ DOMAIN Inner(q, i, j) = 1..Len(Inner(q, i, j))
      BY PipeTypes
    <2> QED
      BY <2>1, <2>2, <2>3
  <1>2. CASE \E i \in DOMAIN q.pipe : ~q.pipe[i].orphan /\ pos = <<i>>
    <2>1. PICK i \in Nat : pos = <<i>>
      BY <1>1, <1>2
    <2> QED
      BY <2>1
  <1>3. CASE \E i \in DOMAIN q.pipe : \E j \in DOMAIN Branches(q, i) : pos = <<i, j>>
    <2>1. PICK i \in Nat, j \in Nat : pos = <<i, j>>
      BY <1>1, <1>3
    <2> QED
      BY <2>1
  <1>4. CASE \E i \in DOMAIN q.pipe : \E j \in DOMAIN Branches(q, i) :
               \E k \in DOMAIN Inner(q, i, j) : pos = <<i, j, k>>
    <2>1. PICK i \in Nat, j \in Nat, k \in Nat : pos = <<i, j, k>>
      BY <1>1, <1>4
    <2> QED
      BY <2>1
  <1> QED
    BY <1>2, <1>3, <1>4 DEF IsPosition

(* Only leaves that have started end. *)
LeavesEnd(q) == \A pos \in DOMAIN q.ended : pos \in DOMAIN q.ids /\ IsLeaf(q, pos)

(* An item that has succeeded has started all it has. *)
LEMMA SucceededWhole ==
  ASSUME NEW q, Numbered(q), LeavesEnd(q), NEW i \in DOMAIN q.pipe,
         State(q, <<i>>) = "SUCCESS"
  PROVE  WholeItem(q, i)
  <1> SUFFICES ASSUME NEW j \in DOMAIN Branches(q, i), Inner(q, i, j) # <<>>
               PROVE  <<i, j, Len(Inner(q, i, j))>> \in DOMAIN q.ids
    BY DEF WholeItem
  <1>1. /\ Len(q.pipe) \in Nat /\ DOMAIN q.pipe = 1..Len(q.pipe)
        /\ Len(Branches(q, i)) \in Nat /\ DOMAIN Branches(q, i) = 1..Len(Branches(q, i))
    BY PipeTypes DEF Numbered
  <1>2. i \in Nat /\ j \in Nat
    BY <1>1
  <1>3. Ended(q, <<i>>) /\ ~FailedIn(q, <<i>>)
    BY DEF State
  <1>4. Len(<<i>>) = 1 /\ <<i>>[1] = i /\ Branches(q, i) # <<>>
    <2>1. Branches(q, i) = <<>> => DOMAIN Branches(q, i) = {}
      OBVIOUS
    <2> QED
      BY <2>1
  <1>5. BranchEnded(q, i, j)
    BY <1>3, <1>4 DEF Ended
  <1>6. CASE <<i, j>> \in DOMAIN q.ended
    <2>1. IsLeaf(q, <<i, j>>)
      BY <1>6 DEF LeavesEnd
    <2>2. Len(<<i, j>>) = 2 /\ <<i, j>>[1] = i /\ <<i, j>>[2] = j
      OBVIOUS
    <2>3. Inner(q, i, j) = <<>>
      BY <2>1, <2>2 DEF IsLeaf
    <2> QED
      BY <2>3
  <1>7. CASE FailedIn(q, <<i, j>>)
    <2>1. PICK l \in DOMAIN q.ended : IsPrefix(<<i, j>>, l) /\ q.ended[l] = "FAILURE"
      BY <1>7 DEF FailedIn
    <2>2. l \in Seq(Nat)
      <3>1. IsPosition(q, l) /\ q.pipe \in Pipelines
        BY DEF LeavesEnd, Numbered
      <3> QED
        BY <3>1, PositionIsSeq
    <2>3. IsPrefix(<<i>>, l)
      BY <1>2, <2>1, <2>2 DEF IsPrefix
    <2> QED
      BY <1>3, <2>1, <2>3 DEF FailedIn
  <1>8. CASE <<i, j, Len(Inner(q, i, j))>> \in DOMAIN q.ended
    BY <1>8 DEF LeavesEnd
  <1> QED
    BY <1>5, <1>6, <1>7, <1>8 DEF BranchEnded

(* What has started stays so. *)
LEMMA ItemsGrow ==
  ASSUME NEW q, Numbered(q), NEW new, Numbered(new), new.pipe = q.pipe,
         DOMAIN q.ids \subseteq DOMAIN new.ids
  PROVE  ItemsStarted(q) <= ItemsStarted(new)
  <1> DEFINE c == ItemsStarted(q)
             m == ItemsStarted(new)
  <1>1. /\ c \in 0..Len(q.pipe) /\ ItemsUpTo(q, c) /\ m \in 0..Len(q.pipe) /\ ItemsUpTo(new, m)
    BY StartedAre
  <1>2. /\ q.pipe \in Pipelines /\ Len(q.pipe) \in Nat /\ DOMAIN q.pipe = 1..Len(q.pipe)
    BY PipeTypes DEF Numbered
  <1>3. \A i : Branches(new, i) = Branches(q, i)
    BY SameItems
  <1> SUFFICES c <= m
    OBVIOUS
  <1> HIDE DEF c, m
  <1>4. CASE c = 0
    BY <1>1, <1>2, <1>4
  <1>5. CASE c # 0
    <2>1. c \in DOMAIN q.pipe /\ c <= c
      BY <1>1, <1>2, <1>5
    <2>2. CASE ~q.pipe[c].orphan
      BY <1>1, <2>1, <2>2 DEF ItemsUpTo
    <2>3. CASE q.pipe[c].orphan
      <3>1. 1 \in DOMAIN Branches(q, c)
        BY <1>2, <2>1, <2>3, PipeTypes
      <3>2. <<c, 1>> \in DOMAIN q.ids
        BY <1>1, <2>1, <3>1 DEF ItemsUpTo
      <3> QED
        BY <1>1, <1>3, <2>1, <3>1, <3>2 DEF ItemsUpTo
    <2> QED
      BY <2>2, <2>3
  <1> QED
    BY <1>4, <1>5

(* No more items have started than have their ids. *)
LEMMA ItemsAtMost ==
  ASSUME NEW q, Numbered(q), NEW c \in Nat,
         \A i \in DOMAIN q.pipe : i > c =>
           /\ ~q.pipe[i].orphan => <<i>> \notin DOMAIN q.ids
           /\ \A j \in DOMAIN Branches(q, i) : <<i, j>> \notin DOMAIN q.ids
  PROVE  ItemsStarted(q) <= c
  <1> DEFINE m == ItemsStarted(q)
  <1>1. m \in 0..Len(q.pipe) /\ ItemsUpTo(q, m)
    BY StartedAre
  <1>2. q.pipe \in Pipelines /\ Len(q.pipe) \in Nat /\ DOMAIN q.pipe = 1..Len(q.pipe)
    BY PipeTypes DEF Numbered
  <1> HIDE DEF m
  <1>3. SUFFICES ASSUME m > c PROVE FALSE
    BY <1>1, <1>2 DEF m
  <1>4. m \in DOMAIN q.pipe /\ m <= m
    BY <1>1, <1>2, <1>3
  <1>5. CASE ~q.pipe[m].orphan
    BY <1>1, <1>3, <1>4, <1>5 DEF ItemsUpTo
  <1>6. CASE q.pipe[m].orphan
    <2>1. 1 \in DOMAIN Branches(q, m)
      BY <1>2, <1>4, <1>6, PipeTypes
    <2> QED
      BY <1>1, <1>3, <1>4, <2>1 DEF ItemsUpTo
  <1> QED
    BY <1>5, <1>6

(* What a run has started follows from what has succeeded: the items before *)
(* the last are whole, and so is a run that has succeeded.                  *)
Progress(q) ==
  /\ LeavesEnd(q)
  /\ \A i \in 1..(ItemsStarted(q) - 1) : WholeItem(q, i)
  /\ q.result = "SUCCESS" => Whole(q)

(* What starts leaves whole what is whole. *)
LEMMA StillWhole ==
  ASSUME NEW q, NEW new, new.pipe = q.pipe, DOMAIN q.ids \subseteq DOMAIN new.ids, NEW i,
         WholeItem(q, i)
  PROVE  WholeItem(new, i)
  BY SameItems DEF WholeItem

LEMMA StillLeaves ==
  ASSUME NEW q, NEW new, new.pipe = q.pipe, DOMAIN q.ids \subseteq DOMAIN new.ids,
         DOMAIN new.ended = DOMAIN q.ended, LeavesEnd(q)
  PROVE  LeavesEnd(new)
  <1>1. \A pos : IsLeaf(new, pos) <=> IsLeaf(q, pos)
    BY SameItems DEF IsLeaf
  <1> QED
    BY <1>1 DEF LeavesEnd

(* StartItem *)
LEMMA ItemProgress ==
  ASSUME NEW q, Numbered(q), Progress(q), q.result = Unknown,
         NEW i \in DOMAIN q.pipe, i = ItemsStarted(q) + 1,
         i > 1 => State(q, <<i - 1>>) = "SUCCESS",
         NEW new, Numbered(new), new.pipe = q.pipe, new.ids = Added(q, ItemPositions(q, i)),
         new.ended = q.ended, new.result = q.result
  PROVE  Progress(new)
  <1> DEFINE D == DOMAIN q.ids
             N == {pos \in {<<i>>} : ~q.pipe[i].orphan} \cup {<<i, j>> : j \in DOMAIN Branches(q, i)}
             c == ItemsStarted(q)
  <1>1. /\ q.pipe \in Pipelines /\ Len(q.pipe) \in Nat /\ DOMAIN q.pipe = 1..Len(q.pipe)
        /\ c \in Nat /\ i \in Nat
    BY PipeTypes, PlacesCounted DEF Numbered
  <1>2. DOMAIN new.ids = D \cup N
    <2>1. ToSet(ItemPositions(q, i)) = N
      BY <1>1, ItemPlaces
    <2>2. DOMAIN Added(q, ItemPositions(q, i)) = D \cup ToSet(ItemPositions(q, i))
      BY DEF Added
    <2> QED
      BY <2>1, <2>2
  <1>3. ItemsUpTo(q, c)
    BY StartedAre
  <1>4. \A k, j : Branches(new, k) = Branches(q, k) /\ Inner(new, k, j) = Inner(q, k, j)
    BY SameItems
  <1>5. ItemsStarted(new) <= i
    <2>1. ASSUME NEW k \in DOMAIN q.pipe, k > i
          PROVE  /\ ~q.pipe[k].orphan => <<k>> \notin D \cup N
                 /\ \A j \in DOMAIN Branches(q, k) : <<k, j>> \notin D \cup N
      <3>1. k \in Nat /\ ~(k <= c) /\ k # i
        BY <1>1, <2>1
      <3>2. ~q.pipe[k].orphan => <<k>> \notin D
        BY <1>3, <3>1 DEF ItemsUpTo
      <3>3. \A j \in DOMAIN Branches(q, k) : <<k, j>> \notin D
        BY <1>3, <3>1 DEF ItemsUpTo
      <3>4. <<k>> \notin N /\ \A j : <<k, j>> \notin N
        BY <3>1
      <3> HIDE DEF D, N
      <3> QED
        BY <3>2, <3>3, <3>4
    <2> HIDE DEF D, N
    <2> QED
      BY <1>1, <1>2, <1>4, <2>1, ItemsAtMost
  <1> HIDE DEF N, c
  <1>6. ASSUME NEW k \in 1..(ItemsStarted(new) - 1) PROVE WholeItem(new, k)
    <2>1. ItemsStarted(new) \in Nat
      BY PlacesCounted
    <2>2. k \in Nat /\ k <= i - 1
      BY <1>1, <1>5, <2>1
    <2>3. CASE k = i - 1
      <3>1. k \in DOMAIN q.pipe /\ State(q, <<k>>) = "SUCCESS"
        BY <1>1, <2>2, <2>3
      <3>2. WholeItem(q, k)
        BY <3>1, SucceededWhole DEF Progress
      <3> QED
        BY <1>2, <3>2, StillWhole
    <2>4. CASE k # i - 1
      <3>1. k \in 1..(ItemsStarted(q) - 1)
        BY <1>1, <2>2, <2>4 DEF c
      <3>2. WholeItem(q, k)
        BY <3>1 DEF Progress
      <3> QED
        BY <1>2, <3>2, StillWhole
    <2> QED
      BY <2>3, <2>4
  <1>7. LeavesEnd(new)
    BY <1>2, StillLeaves DEF Progress
  <1>8. new.result # "SUCCESS"
    BY DEF Unknown
  <1> QED
    BY <1>6, <1>7, <1>8 DEF Progress

(* StartInner *)
LEMMA InnerProgress ==
  ASSUME NEW q, Numbered(q), Progress(q), NEW i, NEW j, NEW k,
         NEW new, Numbered(new), new.pipe = q.pipe, new.ids = Added(q, << <<i, j, k>> >>),
         new.ended = q.ended, new.result = q.result
  PROVE  Progress(new)
  <1> DEFINE D == DOMAIN q.ids
             N == {<<i, j, k>>}
             c == ItemsStarted(q)
  <1>1. /\ q.pipe \in Pipelines /\ Len(q.pipe) \in Nat /\ DOMAIN q.pipe = 1..Len(q.pipe)
        /\ c \in Nat /\ ItemsStarted(new) \in Nat
    BY PipeTypes, PlacesCounted DEF Numbered
  <1>2. DOMAIN new.ids = D \cup N
    <2>1. ToSet(<< <<i, j, k>> >>) = N
      BY DEF ToSet
    <2>2. DOMAIN Added(q, << <<i, j, k>> >>) = D \cup ToSet(<< <<i, j, k>> >>)
      BY DEF Added
    <2> QED
      BY <2>1, <2>2
  <1>3. ItemsUpTo(q, c)
    BY StartedAre
  <1>4. \A a, b : Branches(new, a) = Branches(q, a) /\ Inner(new, a, b) = Inner(q, a, b)
    BY SameItems
  <1>5. ItemsStarted(new) = c
    <2>1. ASSUME NEW a \in DOMAIN q.pipe, a > c
          PROVE  /\ ~q.pipe[a].orphan => <<a>> \notin D \cup N
                 /\ \A b \in DOMAIN Branches(q, a) : <<a, b>> \notin D \cup N
      <3>1. a \in Nat /\ ~(a <= c)
        BY <1>1, <2>1
      <3>2. ~q.pipe[a].orphan => <<a>> \notin D
        BY <1>3, <3>1 DEF ItemsUpTo
      <3>3. \A b \in DOMAIN Branches(q, a) : <<a, b>> \notin D
        BY <1>3, <3>1 DEF ItemsUpTo
      <3>4. <<a>> \notin N
        OBVIOUS
      <3>5. \A b : <<a, b>> \notin N
        OBVIOUS
      <3> HIDE DEF D, N
      <3> QED
        BY <3>2, <3>3, <3>4, <3>5
    <2>2. D \subseteq DOMAIN new.ids
      BY <1>2
    <2> HIDE DEF N
    <2>3. c <= ItemsStarted(new)
      BY <2>2, ItemsGrow
    <2> HIDE DEF D, c
    <2>4. ItemsStarted(new) <= c
      BY <1>1, <1>2, <1>4, <2>1, ItemsAtMost
    <2> QED
      BY <1>1, <2>3, <2>4
  <1> HIDE DEF N
  <1>6. \A a : WholeItem(q, a) => WholeItem(new, a)
    BY <1>2, StillWhole
  <1>7. \A a \in 1..(ItemsStarted(new) - 1) : WholeItem(new, a)
    BY <1>5, <1>6 DEF Progress
  <1>8. LeavesEnd(new)
    BY <1>2, StillLeaves DEF Progress
  <1>9. new.result = "SUCCESS" => Whole(new)
    BY <1>5, <1>6 DEF Progress, Whole
  <1> QED
    BY <1>7, <1>8, <1>9 DEF Progress

(* Finish, Step, EndRun: nothing starts. *)
LEMMA ElseProgress ==
  ASSUME NEW q, Progress(q), NEW new, new.pipe = q.pipe, new.ids = q.ids,
         LeavesEnd(new), new.result = "SUCCESS" => q.result = "SUCCESS" \/ Whole(q)
  PROVE  Progress(new)
  <1>1. \A a : WholeItem(q, a) => WholeItem(new, a)
    BY StillWhole
  <1>2. ItemsStarted(new) = ItemsStarted(q)
    BY DEF ItemsStarted, HasStarted
  <1> QED
    BY <1>1, <1>2 DEF Progress, Whole

(* EndRun: a run that ends with success is whole. *)
LEMMA SuccessWhole ==
  ASSUME NEW q, Numbered(q), Progress(q), AboutToEnd(q),
         State(q, <<ItemsStarted(q)>>) = "SUCCESS"
  PROVE  Whole(q)
  <1> DEFINE n == ItemsStarted(q)
  <1>1. /\ q.pipe \in Pipelines /\ Len(q.pipe) \in Nat /\ DOMAIN q.pipe = 1..Len(q.pipe)
        /\ n \in Nat
    BY PipeTypes, PlacesCounted DEF Numbered
  <1>2. ~FailedIn(q, <<n>>)
    BY DEF State
  <1>3. n > 0 /\ n = Len(q.pipe)
    BY <1>2 DEF AboutToEnd
  <1>4. n \in DOMAIN q.pipe
    BY <1>1, <1>3
  <1>5. WholeItem(q, n)
    BY <1>4, SucceededWhole DEF Progress
  <1>6. ASSUME NEW i \in 1..n PROVE WholeItem(q, i)
    <2>1. CASE i = n
      BY <1>5, <2>1
    <2>2. CASE i # n
      <3>1. i \in 1..(n - 1)
        BY <1>1, <2>2
      <3> QED
        BY <3>1 DEF Progress
    <2> QED
      BY <2>1, <2>2
  <1> QED
    BY <1>3, <1>6 DEF Whole

(* The inductive invariant of what is drawn. *)
RunsProgress == \A r \in 1..Len(run) : Progress(run[r])

(* A run changes, or is added. *)
LEMMA ProgressChanges ==
  ASSUME RunsNumbered, RunsProgress, NEW r \in DOMAIN run, NEW q, Progress(q),
         run' = [run EXCEPT ![r] = q]
  PROVE  RunsProgress'
  <1> DEFINE n == Len(run)
  <1>1. n \in Nat /\ run = [x \in 1..n |-> run[x]] /\ DOMAIN run = 1..n
    BY DEF RunsNumbered
  <1>2. run' = [x \in 1..n |-> run'[x]] /\ \A x \in 1..n : run'[x] = IF x = r THEN q ELSE run[x]
    BY <1>1
  <1>3. Len(run') = n
    BY <1>1, <1>2, LenProperties, SeqDef
  <1>4. ASSUME NEW x \in 1..n PROVE Progress(run'[x])
    <2>1. CASE x = r
      BY <1>2, <2>1
    <2>2. CASE x # r
      BY <1>2, <2>2 DEF RunsProgress
    <2> QED
      BY <2>1, <2>2
  <1>5. (\A x \in 1..Len(run) : Progress(run[x]))'
    BY <1>3, <1>4 DEF Progress, LeavesEnd, Whole, WholeItem, ItemsStarted, HasStarted, IsLeaf,
                      Branches, Inner
  <1> QED
    BY <1>5 DEF RunsProgress

LEMMA ProgressBegins ==
  ASSUME RunsNumbered, RunsProgress, NEW q, Progress(q), run' = Append(run, q)
  PROVE  RunsProgress'
  <1> DEFINE n == Len(run)
             S == {run[r] : r \in 1..n} \cup {q}
  <1>1. n \in Nat /\ run = [r \in 1..n |-> run[r]]
    BY DEF RunsNumbered
  <1>2. run \in Seq(S)
    <2>1. \A r \in 1..n : run[r] \in S
      OBVIOUS
    <2> HIDE DEF S, n
    <2>2. [r \in 1..n |-> run[r]] \in Seq(S)
      BY <1>1, <2>1, IsASeq
    <2> QED
      BY <1>1, <2>2, Zenon
  <1>3. /\ run' \in Seq(S) /\ Len(run') = n + 1
        /\ \A r \in 1..n : run'[r] = run[r]
        /\ run'[n + 1] = q
    BY <1>2, AppendProperties
  <1>4. ASSUME NEW r \in 1..Len(run') PROVE Progress(run'[r])
    <2>1. r \in 1..n \/ r = n + 1
      BY <1>1, <1>3
    <2>2. CASE r \in 1..n
      BY <1>3, <2>2 DEF RunsProgress
    <2>3. CASE r = n + 1
      BY <1>3, <2>3
    <2> QED
      BY <2>1, <2>2, <2>3
  <1>5. (\A r \in 1..Len(run) : Progress(run[r]))'
    BY <1>4 DEF Progress, LeavesEnd, Whole, WholeItem, ItemsStarted, HasStarted, IsLeaf,
                Branches, Inner
  <1> QED
    BY <1>5 DEF RunsProgress

(* Start changes no end. *)
LEMMA BegunKeeps ==
  ASSUME NEW q, IsRun(q), NEW positions
  PROVE  Begun(q, positions).ended = q.ended /\ Begun(q, positions).result = q.result
  <1> DEFINE ids == Added(q, positions)
             next == q.next + Len(positions)
  <1> HIDE DEF ids, next
  <1>1. [q EXCEPT !.ids = ids, !.next = next]
          = [pipe |-> q.pipe, ids |-> ids, ended |-> q.ended, next |-> next, result |-> q.result]
    BY ChangedIds, Zenon
  <1>2. Begun(q, positions) = [q EXCEPT !.ids = ids, !.next = next]
    BY Zenon DEF Begun, ids, next
  <1> QED
    BY <1>1, <1>2

LEMMA StartItemProgress ==
  ASSUME RunsNumbered, RunsProgress, NEW r \in DOMAIN run, StartItem(r)
  PROVE  RunsProgress'
  <1> DEFINE q == run[r]
             i == ItemsStarted(q) + 1
             positions == ItemPositions(q, i)
             new == Begun(q, positions)
  <1>1. /\ i \in DOMAIN q.pipe /\ Start(r, positions) /\ q.result = Unknown
        /\ i > 1 => State(q, <<i - 1>>) = "SUCCESS"
    BY DEF StartItem, ItemPositions
  <1>2. Numbered(q) /\ IsRun(q) /\ Progress(q)
    BY DEF RunsNumbered, RunsProgress
  <1> HIDE DEF positions
  <1>3. /\ run' = [run EXCEPT ![r] = new] /\ IsRun(new)
        /\ new.pipe = q.pipe /\ new.ids = Added(q, positions)
        /\ new.next = q.next + Len(positions)
    BY <1>1, Starts
  <1>4. new.ended = q.ended /\ new.result = q.result
    BY <1>2, BegunKeeps
  <1> HIDE DEF new, q, i
  <1>5. i = ItemsStarted(q) + 1 /\ positions = ItemPositions(q, i)
    BY DEF i, positions
  <1>6. Numbered(new)
    BY <1>1, <1>2, <1>3, <1>5, ItemNumbered
  <1>7. Progress(new)
    BY <1>1, <1>2, <1>3, <1>4, <1>5, <1>6, ItemProgress
  <1> QED
    BY <1>3, <1>7, ProgressChanges

LEMMA StartInnerProgress ==
  ASSUME RunsNumbered, RunsProgress, NEW r \in DOMAIN run, NEW i, NEW j, StartInner(r, i, j)
  PROVE  RunsProgress'
  <1> DEFINE q == run[r]
             k == InnerStarted(q, i, j) + 1
             positions == << <<i, j, k>> >>
             new == Begun(q, positions)
  <1>1. <<i, j>> \in DOMAIN q.ids /\ k \in DOMAIN Inner(q, i, j) /\ Start(r, positions)
    BY DEF StartInner
  <1>2. Numbered(q) /\ IsRun(q) /\ Progress(q) /\ Len(positions) = 1
    BY DEF RunsNumbered, RunsProgress
  <1> HIDE DEF positions
  <1>3. /\ run' = [run EXCEPT ![r] = new] /\ IsRun(new)
        /\ new.pipe = q.pipe /\ new.ids = Added(q, positions)
        /\ new.next = q.next + Len(positions)
    BY <1>1, Starts
  <1>4. new.ended = q.ended /\ new.result = q.result
    BY <1>2, BegunKeeps
  <1> HIDE DEF new, q, k
  <1>5. k = InnerStarted(q, i, j) + 1 /\ positions = << <<i, j, k>> >>
    BY DEF k, positions
  <1>6. Numbered(new)
    BY <1>1, <1>2, <1>3, <1>5, InnerNumbered
  <1>7. Progress(new)
    BY <1>2, <1>3, <1>4, <1>5, <1>6, InnerProgress
  <1> QED
    BY <1>3, <1>7, ProgressChanges

LEMMA FinishProgress ==
  ASSUME RunsNumbered, RunsProgress, NEW r \in DOMAIN run, NEW leaf, NEW result,
         Finish(r, leaf, result)
  PROVE  RunsProgress'
  <1> DEFINE q == run[r]
             ends == [l \in DOMAIN q.ended \cup {leaf} |-> IF l = leaf THEN result ELSE q.ended[l]]
             new == [q EXCEPT !.ended = ends]
  <1>1. IsRun(q) /\ Progress(q)
    BY DEF RunsNumbered, RunsProgress
  <1>2. run' = [run EXCEPT ![r].ended = ends] /\ leaf \in Running(q)
    BY DEF Finish
  <1>3. leaf \in DOMAIN q.ids /\ IsLeaf(q, leaf)
    BY <1>2 DEF Running, Leaves
  <1>4. DOMAIN ends = DOMAIN q.ended \cup {leaf}
    OBVIOUS
  <1> HIDE DEF ends
  <1>5. run' = [run EXCEPT ![r] = new]
    BY <1>2
  <1> HIDE DEF q
  <1>6. new = [pipe |-> q.pipe, ids |-> q.ids, ended |-> ends, next |-> q.next, result |-> q.result]
    BY <1>1, ChangedElse
  <1> HIDE DEF new
  <1>7. new.pipe = q.pipe /\ new.ids = q.ids /\ new.ended = ends /\ new.result = q.result
    BY <1>6
  <1>8. LeavesEnd(new)
    <2>1. \A pos : IsLeaf(new, pos) <=> IsLeaf(q, pos)
      BY <1>7, SameItems DEF IsLeaf
    <2> QED
      BY <1>1, <1>3, <1>4, <1>7, <2>1 DEF LeavesEnd, Progress
  <1>9. Progress(new)
    BY <1>1, <1>7, <1>8, ElseProgress
  <1> QED
    BY <1>5, <1>9, ProgressChanges

LEMMA StepProgress ==
  ASSUME RunsNumbered, RunsProgress, NEW r \in DOMAIN run, Step(r)
  PROVE  RunsProgress'
  <1> DEFINE q == run[r]
             next == q.next + 1
             new == [q EXCEPT !.next = next]
  <1>1. IsRun(q) /\ Progress(q)
    BY DEF RunsNumbered, RunsProgress
  <1>2. run' = [run EXCEPT ![r] = new]
    BY DEF Step
  <1> HIDE DEF q, next
  <1>3. new = [pipe |-> q.pipe, ids |-> q.ids, ended |-> q.ended, next |-> next,
               result |-> q.result]
    BY <1>1, ChangedElse
  <1> HIDE DEF new
  <1>4. /\ new.pipe = q.pipe /\ new.ids = q.ids /\ new.ended = q.ended
        /\ new.result = q.result
    BY <1>3
  <1>5. LeavesEnd(new)
    BY <1>1, <1>4, StillLeaves DEF Progress
  <1>6. Progress(new)
    BY <1>1, <1>4, <1>5, ElseProgress
  <1> QED
    BY <1>2, <1>6, ProgressChanges

LEMMA EndRunProgress ==
  ASSUME RunsNumbered, RunsProgress, NEW r \in DOMAIN run, EndRun(r)
  PROVE  RunsProgress'
  <1> DEFINE q == run[r]
             result == State(q, <<ItemsStarted(q)>>)
             new == [q EXCEPT !.result = result]
  <1>1. IsRun(q) /\ Progress(q) /\ Numbered(q)
    BY DEF RunsNumbered, RunsProgress
  <1>2. run' = [run EXCEPT ![r].result = result] /\ AboutToEnd(q)
    BY DEF EndRun
  <1>3. result = "SUCCESS" => Whole(q)
    BY <1>1, <1>2, SuccessWhole
  <1> HIDE DEF result
  <1>4. run' = [run EXCEPT ![r] = new]
    BY <1>2
  <1> HIDE DEF q
  <1>5. new = [pipe |-> q.pipe, ids |-> q.ids, ended |-> q.ended, next |-> q.next,
               result |-> result]
    BY <1>1, ChangedElse
  <1> HIDE DEF new
  <1>6. /\ new.pipe = q.pipe /\ new.ids = q.ids /\ new.ended = q.ended
        /\ new.result = result
    BY <1>5
  <1>7. LeavesEnd(new)
    BY <1>1, <1>6, StillLeaves DEF Progress
  <1>8. Progress(new)
    BY <1>1, <1>3, <1>6, <1>7, ElseProgress
  <1> QED
    BY <1>4, <1>8, ProgressChanges

LEMMA LaunchProgress ==
  ASSUME RunsNumbered, RunsProgress, Launch
  PROVE  RunsProgress'
  <1>1. PICK p \in Pipelines :
          run' = Append(run, [pipe |-> p, ids |-> <<>>, ended |-> <<>>, next |-> 1,
                              result |-> Unknown])
    BY DEF Launch
  <1> DEFINE q == [pipe |-> p, ids |-> <<>>, ended |-> <<>>, next |-> 1, result |-> Unknown]
  <1>2. /\ q.pipe \in Pipelines /\ q.ids = <<>> /\ q.ended = <<>> /\ q.next = 1
        /\ q.result # "SUCCESS"
    BY DEF Unknown
  <1>3. run' = Append(run, q)
    BY <1>1
  <1> HIDE DEF q
  <1>4. Numbered(q)
    BY <1>2, NoneNumbered
  <1>5. DOMAIN q.ids = {} /\ DOMAIN q.ended = {}
    BY <1>2
  <1>6. ItemsStarted(q) <= 0
    BY <1>4, <1>5, ItemsAtMost
  <1>7. ItemsStarted(q) \in Nat
    BY <1>4, PlacesCounted
  <1>8. 1..(ItemsStarted(q) - 1) = {}
    BY <1>6, <1>7
  <1>9. Progress(q)
    BY <1>2, <1>5, <1>8 DEF Progress, LeavesEnd
  <1> QED
    BY <1>3, <1>9, ProgressBegins

(* Every step keeps the progress of the runs. *)
LEMMA NextProgress ==
  ASSUME RunsNumbered, RunsProgress, [GraphNext]_graphVars
  PROVE  RunsProgress'
  <1>1. CASE Launch
    BY <1>1, LaunchProgress
  <1>2. ASSUME NEW r \in DOMAIN run, StartItem(r) PROVE RunsProgress'
    BY <1>2, StartItemProgress
  <1>3. ASSUME NEW r \in DOMAIN run, NEW i, NEW j, StartInner(r, i, j) PROVE RunsProgress'
    BY <1>3, StartInnerProgress
  <1>4. ASSUME NEW r \in DOMAIN run, NEW leaf, NEW result, Finish(r, leaf, result)
        PROVE  RunsProgress'
    BY <1>4, FinishProgress
  <1>5. ASSUME NEW r \in DOMAIN run, Step(r) PROVE RunsProgress'
    BY <1>5, StepProgress
  <1>6. ASSUME NEW r \in DOMAIN run, EndRun(r) PROVE RunsProgress'
    BY <1>6, EndRunProgress
  <1>7. CASE UNCHANGED graphVars
    <2>1. run' = run
      BY <1>7 DEF graphVars
    <2>2. \A x \in 1..Len(run') : Progress(run'[x])
      BY <2>1 DEF RunsProgress
    <2>3. (\A x \in 1..Len(run) : Progress(run[x]))'
      BY <2>2 DEF Progress, LeavesEnd, Whole, WholeItem, ItemsStarted, HasStarted, IsLeaf,
                  Branches, Inner
    <2> QED
      BY <2>3 DEF RunsProgress
  <1> QED
    BY <1>1, <1>2, <1>3, <1>4, <1>5, <1>6, <1>7 DEF GraphNext

(* A run that has succeeded has started every item of its pipeline, and    *)
(* every stage of every branch.                                            *)
SuccessWasWhole == \A r \in 1..Len(run) : run[r].result = "SUCCESS" => Whole(run[r])

(* However the items and branches of a run end, it succeeds only once all   *)
(* of its pipeline has started: EndRun waits for the last item, and an item  *)
(* follows another only when that has ended well.                           *)
THEOREM SuccessfulWhole == GraphSpec => []SuccessWasWhole
  <1>1. GraphInit => RunsProgress
    <2> SUFFICES ASSUME GraphInit PROVE RunsProgress
      OBVIOUS
    <2>1. run = <<>> /\ Len(run) = 0
      BY DEF GraphInit
    <2>2. 1..Len(run) = {}
      BY <2>1
    <2> QED
      BY <2>2 DEF RunsProgress
  <1>2. RunsNumbered /\ RunsProgress /\ [GraphNext]_graphVars => RunsProgress'
    BY NextProgress
  <1>3. RunsProgress => SuccessWasWhole
    BY DEF RunsProgress, Progress, SuccessWasWhole
  <1> QED
    BY <1>1, <1>2, <1>3, RunsNumberedHolds, PTL DEF GraphSpec

(* PipelineNodeContainerImpl: the run that a graph is united with has      *)
(* succeeded.                                                              *)
LEMMA LastSucceeded ==
  ASSUME Len(run) \in Nat, LastSuccessful # 0
  PROVE  LastSuccessful \in 1..Len(run) /\ run[LastSuccessful].result = "SUCCESS"
  <1> DEFINE I == {y \in 1..Len(run) : run[y].result = "SUCCESS"}
  <1>1. LastSuccessful = IF I # {} THEN Max(I) ELSE 0
    BY Zenon DEF LastSuccessful, SelectLastInSeq
  <1>2. I \subseteq 1..Len(run) /\ I \in SUBSET (0..Len(run)) /\ I \subseteq Int
    OBVIOUS
  <1>3. I # {} /\ LastSuccessful = Max(I)
    BY <1>1
  <1>4. \E y \in I : \A k \in I : k <= y
    <2> HIDE DEF I
    <2> QED
      BY <1>2, <1>3, GreatestExists
  <1>5. \E y \in I : \A k \in I : y >= k
    <2> HIDE DEF I
    <2> QED
      BY <1>2, <1>4
  <1>6. Max(I) \in I
    BY <1>5, Zenon DEF Max
  <1> QED
    BY <1>3, <1>6

(* What GraphDrawn says of one run. *)
DrawnRight(r) ==
  \/ United(r) /\ Drawn(Nodes(r)) = Shape(run[LastSuccessful])
  \/ /\ Drawn(Nodes(r)) = Shape(run[r])
     /\ United(r) => \/ run[r].pipe # run[LastSuccessful].pipe
                     \/ Clash(run[r], run[LastSuccessful])
                     \/ Ambiguous(PipelineNodes(run[LastSuccessful]))

LEMMA RunDrawn ==
  ASSUME RunsNumbered, SuccessWasWhole, NEW r \in 1..Len(run)
  PROVE  DrawnRight(r)
  <1> DEFINE cur == PipelineNodes(run[r])
             old == PipelineNodes(run[LastSuccessful])
  <1> SUFFICES DrawnRight(r)
    OBVIOUS
  <1>1. Numbered(run[r]) /\ Len(run) \in Nat
    BY DEF RunsNumbered
  <1>2. Drawn(cur) = Shape(run[r])
    BY <1>1, OwnDrawn
  <1> HIDE DEF cur, old
  <1>3. CASE ~United(r)
    <2>1. Nodes(r) = cur
      BY <1>3 DEF Nodes, cur
    <2> QED
      BY <1>2, <1>3, <2>1 DEF DrawnRight
  <1>4. CASE United(r)
    <2>1. LastSuccessful \in 1..Len(run) /\ LastSuccessful # 0
      BY <1>1, <1>4 DEF United
    <2>2. Numbered(run[LastSuccessful]) /\ Whole(run[LastSuccessful])
      BY <1>1, <2>1, LastSucceeded DEF RunsNumbered, SuccessWasWhole
    <2>3. Nodes(r) = Union(cur, old)
      BY <1>4, Zenon DEF Nodes, cur, old
    <2>4. CASE Compatible(cur, old)
      <3>1. Drawn(Union(cur, old)) = Shape(run[LastSuccessful])
        BY <1>1, <2>2, <2>4, UnionDrawn DEF cur, old
      <3> QED
        BY <1>4, <2>3, <3>1, Zenon DEF DrawnRight
    <2>5. CASE ~Compatible(cur, old)
      <3>1. Union(cur, old) = cur
        BY <2>5, Zenon DEF Union
      <3>2. \/ run[r].pipe # run[LastSuccessful].pipe
            \/ Clash(run[r], run[LastSuccessful])
            \/ Ambiguous(old)
        BY <1>1, <2>2, <2>5, RunsCompatible DEF cur, old
      <3>3. Drawn(Nodes(r)) = Shape(run[r])
        BY <1>2, <2>3, <3>1, Zenon
      <3> QED
        BY <3>2, <3>3, Zenon DEF DrawnRight, old
    <2> QED
      BY <2>4, <2>5
  <1> QED
    BY <1>3, <1>4

(* A run is drawn as far as it has come, or as the successful run before   *)
(* it; and it is drawn by itself only where that is all there is to show.  *)
THEOREM GraphDrawnHolds == GraphSpec => []GraphDrawn
  <1>1. RunsNumbered /\ SuccessWasWhole => GraphDrawn
    <2> SUFFICES ASSUME RunsNumbered, SuccessWasWhole PROVE GraphDrawn
      OBVIOUS
    <2>1. DOMAIN run = 1..Len(run)
      BY DEF RunsNumbered
    <2>2. \A r \in DOMAIN run : DrawnRight(r)
      BY <2>1, RunDrawn
    <2> QED
      BY <2>2, Zenon DEF GraphDrawn, DrawnRight, Drawn
  <1> QED
    BY <1>1, RunsNumberedHolds, SuccessfulWhole, PTL
=============================================================================
