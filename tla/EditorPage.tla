----------------------------- MODULE EditorPage -----------------------------
(***************************************************************************)
(* The page of the pipeline editor around SaveContent: it loads the        *)
(* Jenkinsfile of a branch, saves it to the same or another branch, deals  *)
(* with conflicts, and after a save starts a run or has the multibranch    *)
(* project indexed and waits for the end of the indexing (EditorPage.jsx,  *)
(* SaveApi.js).                                                            *)
(***************************************************************************)
EXTENDS SaveContent

CONSTANTS MaxSaves,    \* bound: saves of all pages, and pushes of other people
                       \* unless a save over somebody's changes follows
          MaxIndexings \* bound: indexings that end

ASSUME PageAssumption == MaxSaves \in Nat /\ MaxIndexings \in Nat

VARIABLES
  page,       \* what each page is doing
  branch,     \* the branch it was opened for (Master when it is closed)
  sha,        \* state.sha
  isSaved,    \* state.isSaved
  seen,       \* history variable: the contents the user has read
  offered,    \* the dialog offers to keep or to discard the changes
  last,       \* the last save of the page, by its number
  handlers,   \* handlers for indexing events: page and save
  timers,     \* running timers of SaveApi.index
  saves, indexings

pageVars == <<page, branch, sha, isSaved, seen, offered, last, handlers, timers, saves, indexings>>
vars == <<repoVars, pageVars>>

(* gone: left for the activity list with a save under way                  *)
Pages == {"closed", "editing", "saving", "starting", "indexing", "stuck", "gone"}

SaveIds == Editors \X (1..MaxSaves)

Init ==
  /\ RepoInit
  /\ page = [e \in Editors |-> "closed"]
  /\ branch = [e \in Editors |-> Master]
  /\ sha = [e \in Editors |-> None]
  /\ isSaved = [e \in Editors |-> FALSE]
  /\ seen = [e \in Editors |-> {}]
  /\ offered = [e \in Editors |-> FALSE]
  /\ last = [e \in Editors |-> 0]
  /\ handlers = {} /\ timers = {}
  /\ saves = 0
  /\ indexings = 0

(* loadContent: the sha in the state is kept if there is no file.          *)
LoadContent(e, b) ==
  /\ Reads(b)
  /\ sha' = [sha EXCEPT ![e] = IF Blob(head[b]) = None THEN @ ELSE LoadedSha(b)]
  /\ seen' = [seen EXCEPT ![e] = @ \cup {Blob(head[b])}]

(* The page is opened for a branch and loads its Jenkinsfile.              *)
Open(e, b) ==
  /\ page[e] = "closed" /\ head[b] # None
  /\ page' = [page EXCEPT ![e] = "editing"]
  /\ branch' = [branch EXCEPT ![e] = b]
  /\ LoadContent(e, b)
  /\ UNCHANGED <<scm, stray, log, head, lock, req, published, pushes, failures,
                 isSaved, offered, last, handlers, timers, saves, indexings>>

Closed(e) ==
  /\ page' = [page EXCEPT ![e] = "closed"]
  /\ branch' = [branch EXCEPT ![e] = Master]
  /\ sha' = [sha EXCEPT ![e] = None]
  /\ isSaved' = [isSaved EXCEPT ![e] = FALSE]
  /\ seen' = [seen EXCEPT ![e] = {}]
  /\ offered' = [offered EXCEPT ![e] = FALSE]
  /\ last' = [last EXCEPT ![e] = 0]

(* The user goes to another page; handler and timer of an indexing and a   *)
(* save under way stay.  A run that is being started leads to the activity *)
(* list anyway.                                                            *)
Leave(e) ==
  /\ \/ page[e] \in {"editing", "indexing", "stuck"} /\ Closed(e)
     \/ /\ page[e] = "saving" /\ page' = [page EXCEPT ![e] = "gone"]
        /\ UNCHANGED <<branch, sha, isSaved, seen, offered, last>>
  /\ UNCHANGED <<repoVars, handlers, timers, saves, indexings>>

(* save() has the pipeline written as a Jenkinsfile first.                 *)
Converts(e, to) ==
  req' = [req EXCEPT ![e] = [Idle EXCEPT !.step = "converting", !.source = branch[e], !.target = to]]

Answered(e) == req' = [req EXCEPT ![e] = Idle]

(* "Save & run" in the dialog, for the same or another branch.             *)
Save(e, to) ==
  /\ page[e] = "editing" /\ saves + pushes < MaxSaves
  /\ saves' = saves + 1 /\ last' = [last EXCEPT ![e] = saves + 1]
  /\ page' = [page EXCEPT ![e] = "saving"]
  /\ offered' = [offered EXCEPT ![e] = FALSE]
  /\ Converts(e, to)
  /\ UNCHANGED <<scm, stray, log, head, cached, lock, published, pushes, failures,
                 branch, sha, isSaved, seen, handlers, timers, indexings>>

(* "Keep my changes": the content is loaded for its sha, put aside, and    *)
(* the pipeline in the editor is saved.                                    *)
OverwriteChanges(e) ==
  /\ page[e] = "editing" /\ offered[e] /\ saves < MaxSaves
  /\ saves' = saves + 1 /\ last' = [last EXCEPT ![e] = saves + 1]
  /\ page' = [page EXCEPT ![e] = "saving"]
  /\ offered' = [offered EXCEPT ![e] = FALSE]
  /\ LoadContent(e, branch[e])
  /\ Converts(e, branch[e])
  /\ UNCHANGED <<scm, stray, log, head, lock, published, pushes, failures,
                 branch, isSaved, handlers, timers, indexings>>

(* "Discard my changes": the loaded content replaces what was edited.      *)
DiscardChanges(e) ==
  /\ page[e] = "editing" /\ offered[e]
  /\ offered' = [offered EXCEPT ![e] = FALSE]
  /\ LoadContent(e, branch[e])
  /\ UNCHANGED <<scm, stray, log, head, lock, req, published, pushes, failures,
                 page, branch, isSaved, last, handlers, timers, saves, indexings>>

(* The Jenkinsfile is there: the sha of the state by now goes with it.     *)
ScriptConverted(e) ==
  /\ req[e].step = "converting"
  /\ req' = [req EXCEPT ![e] = [@ EXCEPT !.step = "sent", !.sha = sha[e], !.given = sha[e] # None]]
  /\ UNCHANGED <<scm, stray, log, head, cached, lock, published, pushes, failures>>
  /\ UNCHANGED pageVars

(* The conversion fails.  Errors in its answer are for the dialog; of a    *)
(* request that fails nobody is told (fetchClassic.js:11-22), and the      *)
(* dialog goes on saying that it saves.                                    *)
ConversionFails(e) ==
  /\ req[e].step = "converting"
  /\ failures < MaxFailures /\ failures' = failures + 1
  /\ \/ Goto(e, "failed") /\ UNCHANGED page
     \/ /\ page[e] = "saving" /\ page' = [page EXCEPT ![e] = "stuck"]
        /\ Answered(e)
  /\ UNCHANGED <<scm, stray, log, head, cached, lock, published, pushes,
                 branch, sha, isSaved, seen, offered, last, handlers, timers, saves, indexings>>

---------------------------------------------------------------------------
(* Whether the answer names the branch: GitHub's does not.                 *)
SameBranch(e) == scm # "github" /\ branch[e] = req[e].target

(* Faulty variant: only a later save on the same branch is followed up.    *)
SaveSucceedsAgain(e) ==
  /\ page[e] = "saving" /\ req[e].step = "ok" /\ isSaved[e] /\ SameBranch(e)
  /\ page' = [page EXCEPT ![e] = "starting"]
  /\ sha' = [sha EXCEPT ![e] = None]
  /\ Answered(e)
  /\ UNCHANGED <<scm, stray, log, head, cached, lock, published, pushes, failures,
                 branch, isSaved, seen, offered, last, handlers, timers, saves, indexings>>

(* The save was answered with success.  The state gets data.sha, which no  *)
(* answer has (it is in data.content).  A later save on the same branch    *)
(* starts a run, any other one has the project indexed: a timer and a      *)
(* handler for the events are set up.                                      *)
SaveSucceeds(e) ==
  /\ page[e] = "saving" /\ req[e].step = "ok"
  /\ IF isSaved[e] /\ SameBranch(e)
     THEN page' = [page EXCEPT ![e] = "starting"] /\ UNCHANGED <<handlers, timers>>
     ELSE /\ page' = [page EXCEPT ![e] = "indexing"]
          /\ handlers' = handlers \cup {<<e, last[e]>>}
          /\ timers' = timers \cup {<<e, last[e]>>}
  /\ sha' = [sha EXCEPT ![e] = None]
  /\ isSaved' = [isSaved EXCEPT ![e] = TRUE]
  /\ Answered(e)
  /\ UNCHANGED <<scm, stray, log, head, cached, lock, published, pushes, failures,
                 branch, seen, offered, last, saves, indexings>>

(* The save failed: SaveDialog.showError.  GitHub's 409 for the branch of  *)
(* the page offers to keep or discard the changes; any other error, a 409  *)
(* for another branch included, is only shown.                             *)
SaveFails(e) ==
  /\ page[e] = "saving" /\ req[e].step \in {"failed", "conflict"}
  /\ page' = [page EXCEPT ![e] = "editing"]
  /\ offered' = [offered EXCEPT ![e] = req[e].step = "conflict" /\ req[e].target = branch[e]]
  /\ Answered(e)
  /\ UNCHANGED <<scm, stray, log, head, cached, lock, published, pushes, failures,
                 branch, sha, isSaved, seen, last, handlers, timers, saves, indexings>>

(* The POST that starts the run is answered: the page goes to the          *)
(* activity list; or it fails and the dialog shows the error.              *)
RunStarted(e) ==
  /\ page[e] = "starting" /\ Closed(e)
  /\ UNCHANGED <<repoVars, handlers, timers, saves, indexings>>

RunFails(e) ==
  /\ page[e] = "starting"
  /\ failures < MaxFailures /\ failures' = failures + 1
  /\ page' = [page EXCEPT ![e] = "editing"]
  /\ UNCHANGED <<scm, stray, log, head, cached, lock, req, published, pushes,
                 branch, sha, isSaved, seen, offered, last, handlers, timers, saves, indexings>>

(* The answer to a save whose page is gone: it still has the project       *)
(* indexed.                                                                *)
AnsweredLate(e) ==
  /\ page[e] = "gone" /\ req[e].step \in {"ok", "failed", "conflict"}
  /\ page' = [page EXCEPT ![e] = "closed"]
  /\ IF req[e].step = "ok" /\ ~(isSaved[e] /\ SameBranch(e))
     THEN /\ handlers' = handlers \cup {<<e, last[e]>>}
          /\ timers' = timers \cup {<<e, last[e]>>}
     ELSE UNCHANGED <<handlers, timers>>
  /\ branch' = [branch EXCEPT ![e] = Master]
  /\ sha' = [sha EXCEPT ![e] = None]
  /\ isSaved' = [isSaved EXCEPT ![e] = FALSE]
  /\ seen' = [seen EXCEPT ![e] = {}]
  /\ last' = [last EXCEPT ![e] = 0]
  /\ Answered(e)
  /\ UNCHANGED <<scm, stray, log, head, cached, lock, published, pushes, failures,
                 offered, saves, indexings>>

(* Faulty variant: a page with a save under way counts as closed.          *)
LeftForgetting(e) == "closed"

LeftBy(e) == IF page[e] \in {"saving", "gone"} THEN "gone" ELSE "closed"

(* Some multibranch project has been indexed: every handler is called,     *)
(* none looks which project it was, and removed with its timer.  Success   *)
(* takes the user to the activity list, whatever page is shown by now.     *)
IndexingSucceeds ==
  LET left == {h[1] : h \in handlers}
      done == {e \in left : LeftBy(e) = "closed"}
  IN
  /\ indexings < MaxIndexings /\ indexings' = indexings + 1
  /\ handlers' = {} /\ timers' = timers \ handlers
  /\ page' = [e \in Editors |-> IF e \in left THEN LeftBy(e) ELSE page[e]]
  /\ branch' = [e \in Editors |-> IF e \in done THEN Master ELSE branch[e]]
  /\ sha' = [e \in Editors |-> IF e \in done THEN None ELSE sha[e]]
  /\ isSaved' = [e \in Editors |-> e \notin done /\ isSaved[e]]
  /\ seen' = [e \in Editors |-> IF e \in done THEN {} ELSE seen[e]]
  /\ offered' = [e \in Editors |-> e \notin left /\ offered[e]]
  /\ last' = [e \in Editors |-> IF e \in done THEN 0 ELSE last[e]]
  /\ UNCHANGED <<repoVars, saves>>

(* A failure is shown in the dialog that waits, stuck or not.              *)
IndexingFails ==
  LET told == {e \in Editors : <<e, last[e]>> \in handlers} IN
  /\ indexings < MaxIndexings /\ indexings' = indexings + 1
  /\ handlers' = {} /\ timers' = timers \ handlers
  /\ page' = [e \in Editors |-> IF e \in told /\ page[e] \in {"indexing", "stuck"} THEN "editing" ELSE page[e]]
  /\ UNCHANGED <<repoVars, branch, sha, isSaved, seen, offered, last, saves>>

(* The timer of SaveApi.index fires.  The arguments of _cleanup are        *)
(* shifted by one: no handler is removed, and onError is called without an *)
(* error, which showError cannot take: the dialog goes on saying that it   *)
(* saves.                                                                  *)
TimerFires(s) ==
  /\ s \in timers
  /\ timers' = timers \ {s}
  /\ page' = [page EXCEPT ![s[1]] = IF @ = "indexing" /\ last[s[1]] = s[2] THEN "stuck" ELSE @]
  /\ UNCHANGED <<repoVars, branch, sha, isSaved, seen, offered, last, handlers, saves, indexings>>

---------------------------------------------------------------------------
Server(e) == SaveStep(e) /\ UNCHANGED pageVars

Answer(e) ==
  \/ ScriptConverted(e) \/ ConversionFails(e)
  \/ SaveSucceeds(e) \/ SaveFails(e) \/ AnsweredLate(e) \/ RunStarted(e) \/ RunFails(e)

Others ==
  /\ saves + pushes < MaxSaves
  /\ \E b, from \in Branches, touches \in BOOLEAN : Push(b, from, touches)
  /\ UNCHANGED pageVars

Next ==
  \/ \E e \in Editors :
       \/ \E b \in Branches : Open(e, b) \/ Save(e, b)
       \/ OverwriteChanges(e) \/ DiscardChanges(e) \/ Leave(e)
       \/ Server(e) \/ Answer(e)
  \/ \E s \in SaveIds : TimerFires(s)
  \/ IndexingSucceeds \/ IndexingFails
  \/ Others

(* Requests are worked on and answered, timers fire.  Nobody has to save,  *)
(* push or index anything.                                                 *)
Fairness ==
  /\ \A e \in Editors : WF_vars(Server(e)) /\ WF_vars(Answer(e))
  /\ \A s \in SaveIds : WF_vars(TimerFires(s))

Spec == Init /\ [][Next]_vars /\ Fairness

---------------------------------------------------------------------------
TypeOK ==
  /\ RepoTypeOK
  /\ page \in [Editors -> Pages]
  /\ \A e \in Editors : page[e] \in {"saving", "gone"} <=> req[e].step # "idle"
  /\ branch \in [Editors -> Branches]
  /\ sha \in [Editors -> 0..Len(log)]
  /\ isSaved \in [Editors -> BOOLEAN]
  /\ seen \in [Editors -> SUBSET (0..Len(log))]
  /\ offered \in [Editors -> BOOLEAN]
  /\ last \in [Editors -> 0..MaxSaves]
  /\ handlers \subseteq SaveIds /\ timers \subseteq SaveIds
  /\ saves \in 0..MaxSaves
  /\ indexings \in 0..MaxIndexings

(* A save that names the sha it has read replaces only content that its    *)
(* user has read, or has been asked about: the file that was on the branch *)
(* is in seen.  git does not look, and after its first save a page has no  *)
(* sha (EditorPage.jsx:645).                                               *)
ReplacesOnlySeen ==
  \A e \in Editors :
    LET r == req[e]  c == req'[e].made IN
    c \notin {None, r.made} /\ r.given /\ scm # "git" /\ head[r.target] # None
      => Blob(head[r.target]) \in seen[e]

BranchesKept == [][HistoryKept]_vars
OverwritesSeen == [][ReplacesOnlySeen]_vars

(* A save comes to an end: the page is left or its dialog can be used      *)
(* again, unless the dialog is stuck: because the timer of its indexing    *)
(* ran out (SaveApi.js:14, EditorPage.jsx:60), or the request that writes  *)
(* the Jenkinsfile failed.                                                 *)
SaveSettles ==
  \A e \in Editors :
    page[e] \in {"saving", "starting", "indexing"} ~> page[e] \in {"editing", "closed", "stuck"}
=============================================================================
