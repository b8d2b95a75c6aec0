------------------------------ MODULE LogFollow ------------------------------
(***************************************************************************)
(* The log of a step (LogPager, opened by Step) or of a whole run          *)
(* (GeneralLogPager, opened by FreeStyle): it is fetched once, the end of  *)
(* it only or all of it, and then followed by a chain of timers and        *)
(* requests, each for what came after the one before.                      *)
(*                                                                         *)
(* A log is a row of pieces 1..len.  Every request waits a moment before   *)
(* it is sent (the debounce of KaraokeApi), and the server reads the log   *)
(* at some time between the request and its answer.                        *)
(***************************************************************************)
EXTENDS Naturals, Sequences, SequencesExt, FiniteSets

CONSTANTS
  None,
  TailSize,     \* pieces of a log that are sent unless more is asked for
  MaxLen,       \* bound: pieces of the log
  MaxOpens,     \* bound: times a step is opened
  MaxTurns,     \* bound: times the user stops or resumes to follow
  MaxFailures   \* bound: requests that fail

ASSUME BoundsAssumption ==
  /\ TailSize \in Nat \ {0} /\ MaxLen \in Nat
  /\ MaxOpens \in Nat /\ MaxTurns \in Nat /\ MaxFailures \in Nat
ASSUME NoneAssumption == None \notin Nat

VARIABLES
  kind,        \* "step" or "general": whose log it is
  len, done,   \* server: the log, and whether it is complete
  finished,    \* the page knows that the run is finished
  karaoke,     \* augmenter.karaoke: the page follows along
  away,        \* the page was left
  full,        \* the query of the page asks for the whole log (start=0)
  shown,       \* the log in the bunker: its pieces, and hasMore
  gets,        \* requests under way
  timer,       \* this.timeout, or None
  lost,        \* timers that were forgotten and still run
  opens, turns, failures,  \* counts up to the bounds
  stopped,     \* history: a timer was cleared
  cut          \* history: a request was given the response of another, or
               \* a chain was ended after the run, or its end was missed

serverVars == <<len, done>>
pageVars == <<kind, finished, karaoke, away, full, opens, turns>>
pagerVars == <<shown, gets, timer, lost, failures, stopped, cut>>
vars == <<serverVars, pageVars, pagerVars>>

Pieces(a, b) == [i \in 1..(IF a <= b THEN b - a + 1 ELSE 0) |-> a + i - 1]

Request(type, start, log, follow) ==
  [type |-> type, start |-> start, log |-> log, follow |-> follow,
   at |-> "waits", from |-> 0, wasDone |-> FALSE]

-----------------------------------------------------------------------------
(* The server.                                                             *)

LogGrows ==
  /\ ~done /\ len < MaxLen
  /\ len' = len + 1
  /\ UNCHANGED <<done, pageVars, pagerVars>>

LogEnds ==
  /\ ~done /\ done' = TRUE
  /\ UNCHANGED <<len, pageVars, pagerVars>>

-----------------------------------------------------------------------------
(* The pager.                                                              *)

Clear ==
  /\ timer' = None
  /\ stopped' = (stopped \/ timer # None)

(* fetchLog, fetchGeneralLog: drops the timer and fetches the log anew.    *)
FetchLog(start, follow) ==
  /\ Clear
  /\ gets' = Append(gets, Request("fetch", start, <<>>, follow))
  /\ UNCHANGED <<shown, lost, failures, cut>>

(* A request for a url that is under way gets the same response, whose     *)
(* text cannot be read twice: it fails, and nothing comes of it.           *)
Send(i) ==
  /\ gets[i].at = "waits"
  /\ LET same == \E j \in DOMAIN gets : gets[j].at = "sent" /\ gets[j].start = gets[i].start
     IN /\ cut' = (cut \/ same)
        /\ gets' = IF same THEN RemoveAt(gets, i)
                   ELSE [gets EXCEPT ![i].at = "sent", ![i].from = len, ![i].wasDone = done]
  /\ UNCHANGED <<serverVars, pageVars, shown, timer, lost, failures, stopped>>

(* Readings of the log between the request and its answer: its length, and *)
(* the start of the next request if there is more to come.                 *)
Readings(get) ==
  {r \in [size : get.from..len, next : (get.from..len) \cup {None}] :
     /\ r.next \in {None, r.size}
     /\ r.next = None => done /\ r.size = len
     /\ r.next # None => ~get.wasDone}

(* The timer of the next request; one that another chain of requests had   *)
(* set is not cleared, only forgotten.                                     *)
Follow(log, next) ==
  /\ timer' = [log |-> log, start |-> next]
  /\ lost' = IF timer = None THEN lost ELSE lost \cup {timer}

(* Faulty variant: an empty log is followed as well                        *)
FetchAnsweredEmpty(i) ==
  \E r \in Readings(gets[i]) :
    LET get == gets[i]
        first == IF get.start = 0 \/ r.size <= TailSize THEN 1 ELSE r.size - TailSize + 1
        log == [pieces |-> Pieces(first, r.size),
                hasMore |-> get.start # 0 /\ r.size > TailSize]
    IN /\ gets' = RemoveAt(gets, i)
       /\ shown' = IF r.size > 0 THEN log ELSE shown
       /\ timer' = IF r.next # None /\ get.follow
                   THEN [log |-> log, start |-> r.next] ELSE timer
       /\ UNCHANGED <<lost, failures, stopped, cut>>

(* The log that has come is shown, and followed if that was asked for.     *)
FetchAnswered(i) ==
  \E r \in Readings(gets[i]) :
    LET get == gets[i]
        first == IF get.start = 0 \/ r.size <= TailSize THEN 1 ELSE r.size - TailSize + 1
        log == [pieces |-> Pieces(first, r.size),
                hasMore |-> get.start # 0 /\ r.size > TailSize]
    IN /\ gets' = RemoveAt(gets, i)
       /\ shown' = IF r.size > 0 THEN log ELSE shown
       /\ timer' = IF r.next # None /\ r.size > 0 /\ get.follow
                   THEN [log |-> log, start |-> r.next] ELSE timer
       /\ UNCHANGED <<lost, failures, stopped, cut>>

(* Faulty variant: what has come is added to the log that is shown         *)
FollowAnsweredOnShown(i) ==
  \E r \in Readings(gets[i]) :
    LET get == gets[i]
        log == [shown EXCEPT !.pieces = @ \o Pieces(get.start + 1, r.size)]
    IN /\ gets' = RemoveAt(gets, i)
       /\ shown' = IF r.size > get.start THEN log ELSE shown
       /\ IF r.next # None THEN Follow(log, r.next) ELSE UNCHANGED <<timer, lost>>
       /\ UNCHANGED <<failures, stopped, cut>>

(* Faulty variant: an answer without text ends the chain                   *)
FollowAnsweredWhileText(i) ==
  \E r \in Readings(gets[i]) :
    LET get == gets[i]
        log == [get.log EXCEPT !.pieces = @ \o Pieces(get.start + 1, r.size)]
    IN /\ gets' = RemoveAt(gets, i)
       /\ shown' = IF r.size > get.start THEN log ELSE shown
       /\ IF r.next # None /\ r.size > get.start
          THEN Follow(log, r.next) ELSE UNCHANGED <<timer, lost>>
       /\ UNCHANGED <<failures, stopped, cut>>

(* followLog, followGeneralLog: what has come is added to the log that the *)
(* request started from.                                                   *)
FollowAnswered(i) ==
  \E r \in Readings(gets[i]) :
    LET get == gets[i]
        log == [get.log EXCEPT !.pieces = @ \o Pieces(get.start + 1, r.size)]
    IN /\ gets' = RemoveAt(gets, i)
       /\ shown' = IF r.size > get.start THEN log ELSE shown
       /\ IF r.next # None THEN Follow(log, r.next) ELSE UNCHANGED <<timer, lost>>
       /\ UNCHANGED <<failures, stopped, cut>>

Answered(i) ==
  /\ gets[i].at = "sent"
  /\ IF gets[i].type = "fetch" THEN FetchAnswered(i) ELSE FollowAnswered(i)
  /\ UNCHANGED <<serverVars, pageVars>>

(* the catch of a request stores no error and ends its chain               *)
Fails(i) ==
  /\ gets[i].at = "sent" /\ failures < MaxFailures
  /\ failures' = failures + 1
  /\ gets' = RemoveAt(gets, i)
  /\ UNCHANGED <<serverVars, pageVars, shown, timer, lost, stopped, cut>>

(* A timer that fires clears the one that is known, its own or not.        *)
TimerFires(t) ==
  /\ \/ t = timer /\ UNCHANGED lost
     \/ t \in lost /\ lost' = lost \ {t}
  /\ timer' = None
  /\ gets' = Append(gets, Request("follow", t.start, t.log, TRUE))
  /\ UNCHANGED <<serverVars, pageVars, shown, failures, stopped, cut>>

-----------------------------------------------------------------------------
(* The page.                                                               *)

(* Step, getLogForNode: opening a step fetches its log unless there is one.*)
OpenStep ==
  /\ kind = "step" /\ opens < MaxOpens /\ opens' = opens + 1
  /\ shown = None
  /\ FetchLog(None, karaoke)
  /\ UNCHANGED <<serverVars, kind, finished, karaoke, away, full, turns>>

(* The link to the whole log, which is not followed.                       *)
ShowFullLog ==
  /\ ~away /\ shown # None /\ shown.hasMore /\ ~full
  /\ full' = TRUE
  /\ FetchLog(0, FALSE)
  /\ UNCHANGED <<serverVars, kind, finished, karaoke, away, opens, turns>>

(* Scrolling up stops to follow along; the end key resumes, and so do new  *)
(* properties of the page, which make a new Augmenter.  FreeStyle clears   *)
(* the timer when it stops, a step does not.                               *)
Turn ==
  /\ ~finished /\ ~away /\ turns < MaxTurns /\ turns' = turns + 1
  /\ karaoke' = ~karaoke
  /\ IF kind = "general" /\ karaoke THEN Clear ELSE UNCHANGED <<timer, stopped>>
  /\ UNCHANGED <<serverVars, kind, finished, away, full, opens, shown, gets,
                 lost, failures, cut>>

(* The page is told that the run is finished: FreeStyle fetches the log    *)
(* again.                                                                  *)
RunFinished ==
  /\ done /\ ~away /\ ~finished /\ finished' = TRUE
  /\ karaoke' = FALSE
  /\ IF kind = "general"
     THEN FetchLog(IF full THEN 0 ELSE None, FALSE)
     ELSE UNCHANGED pagerVars
  /\ UNCHANGED <<serverVars, kind, away, full, opens, turns>>

(* New properties of a page that does not follow along: FreeStyle clears   *)
(* the timer that a late answer may have set.                              *)
NewProperties ==
  /\ kind = "general" /\ ~away /\ ~karaoke /\ timer # None
  /\ Clear
  /\ cut' = (cut \/ finished)
  /\ UNCHANGED <<serverVars, pageVars, shown, gets, lost, failures>>

(* FreeStyle.componentWillUnmount *)
Leave ==
  /\ kind = "general" /\ ~away /\ away' = TRUE
  /\ turns < MaxTurns /\ turns' = turns + 1
  /\ Clear
  /\ cut' = (cut \/ (finished /\ timer # None))
  /\ UNCHANGED <<serverVars, kind, finished, karaoke, full, opens, shown, gets,
                 lost, failures>>

(* The page is opened again with its url: KaraokeService has a pager for   *)
(* the run already, and nothing is fetched.                                *)
Return ==
  /\ away /\ away' = FALSE
  /\ finished' \in {finished, done}
  /\ karaoke' = ~finished'
  /\ cut' = (cut \/ finished' # finished)
  /\ UNCHANGED <<serverVars, kind, full, opens, turns, shown, gets, timer, lost,
                 failures, stopped>>
-----------------------------------------------------------------------------
Init ==
  /\ kind \in {"step", "general"}
  /\ len = 0 /\ done = FALSE /\ finished = FALSE /\ karaoke = TRUE
  /\ away = FALSE /\ full = FALSE
  /\ shown = None /\ timer = None /\ lost = {}
  /\ gets = IF kind = "general" THEN <<Request("fetch", None, <<>>, TRUE)>> ELSE <<>>
  /\ opens = 0 /\ turns = 0 /\ failures = 0 /\ stopped = FALSE /\ cut = FALSE

Timers == lost \cup ({timer} \ {None})

Pager ==
  \/ \E i \in DOMAIN gets : Send(i) \/ Answered(i)
  \/ \E t \in Timers : TimerFires(t)

Next ==
  \/ LogGrows \/ LogEnds
  \/ Pager \/ \E i \in DOMAIN gets : Fails(i)
  \/ OpenStep \/ ShowFullLog \/ Turn \/ RunFinished \/ NewProperties
  \/ Leave \/ Return

(* Requests are answered and timers fire.                                  *)
Fairness == WF_vars(Pager)

Spec == Init /\ [][Next]_vars /\ Fairness
-----------------------------------------------------------------------------
(* Properties.                                                             *)

IsLog(log) ==
  /\ log.hasMore \in BOOLEAN
  /\ log.pieces = Pieces(log.pieces[1], Last(log.pieces))

(* Types; a timer holds a log that is one stretch, and only a step that is *)
(* opened again before its log has come leads to a timer that is forgotten,*)
(* fewer of them than the times it was opened.                             *)
TypeOK ==
  /\ kind \in {"step", "general"}
  /\ len \in 0..MaxLen
  /\ {done, finished, karaoke, away, full, stopped, cut} \subseteq BOOLEAN
  /\ \A i \in DOMAIN gets :
       /\ gets[i].type \in {"fetch", "follow"} /\ gets[i].at \in {"waits", "sent"}
       /\ gets[i].start \in {None} \cup 0..len /\ gets[i].from \in 0..len
       /\ gets[i].type = "follow" => IsLog(gets[i].log)
  /\ \A t \in Timers : t.start \in 1..len /\ IsLog(t.log)
  /\ lost # {} => kind = "step" /\ Cardinality(lost) < opens

(* LogPager.fetchLog, followLog: the log on the page is one stretch of the *)
(* log on the server, nothing twice and nothing left out, whatever chains  *)
(* of requests overlap; and it begins at the beginning unless the page     *)
(* offers to show the whole log.                                           *)
LogContiguous ==
  shown # None =>
    /\ IsLog(shown) /\ shown.pieces # <<>>
    /\ Last(shown.pieces) <= len
    /\ ~shown.hasMore => shown.pieces[1] = 1

Following == Timers # {} \/ \E i \in DOMAIN gets : gets[i].type = "follow"

Complete == len > 0 => shown # None /\ Last(shown.pieces) = len

(* A log that is followed is complete in the end, unless a request fails,  *)
(* the timer is cleared for good or the log is asked for once more, which  *)
(* may store an older reading over a newer one; and the log of a run whose *)
(* end the page was told of is, even so                                    *)
(* (FreeStyle.componentWillReceiveProps), unless the request for it fails  *)
(* or is given the response of another, or a late answer to a request of   *)
(* before stores an older reading and its chain is ended, or the page was  *)
(* left when the run ended.                                                *)
LogCompletes ==
  /\ (done /\ Following) ~> (Complete \/ failures > 0 \/ stopped \/ full \/ opens > 1)
  /\ (kind = "general" /\ finished) ~> ([]Complete \/ failures > 0 \/ cut)
=============================================================================
