-------------------------- MODULE EditorPageProofs --------------------------
(***************************************************************************)
(* Theorems about EditorPage and SaveContent, for any editors, branches    *)
(* and bounds: the types, that the cached clone of git holds what was on a *)
(* branch, that branches only grow but for the forced push, and that a     *)
(* save that names what it has read replaces nothing else.  And about      *)
(* Editor and PipelineTree, for all Jenkinsfiles and bounds: that nobody   *)
(* leaves the editor with changes without being asked, that every pipeline *)
(* stays a tree, that the panels show what is in it, and that no step is   *)
(* lost but those that are deleted.                                        *)
(*                                                                         *)
(* The parts, in this order: EditorPage; what LeaveWarned needs of Editor; *)
(* trees and the functions of PipelineStore on them; the panels over a     *)
(* tree; the steps of Editor, one lemma each; the theorems about it.       *)
(***************************************************************************)
EXTENDS EditorPage, Editor, DataFacts, FiniteSetTheorems, SequenceTheorems, TLAPS

Commit == [past: SUBSET Nat, blob: Nat]

LogOK ==
  /\ log \in Seq(Commit)
  /\ \A c \in 1..Len(log) : c \in log[c].past /\ log[c].past \subseteq 1..c /\ log[c].blob <= c

Commits == 0..Len(log)

(* What a request names are commits, or contents named by commits.         *)
ReqInLog ==
  \A e \in Editors :
    /\ req[e].sha <= Len(log) /\ req[e].base <= Len(log)
    /\ req[e].fetched <= Len(log) /\ req[e].made <= Len(log)

HeadsPublished == \A b \in Branches : Past(head[b]) \subseteq published

(* A git save between its commit and its push: it has the clone to itself, *)
(* its commit is on the source branch there, on top of what was fetched,   *)
(* and what it rolls back to has been on a branch, or is what a roll back  *)
(* has left.                                                               *)
Committed(e) ==
  /\ scm = "git" /\ lock = e
  /\ cached[req[e].source] = req[e].made /\ req[e].made # None
  /\ Past(req[e].base) \subseteq published \cup stray
  /\ Past(req[e].made) \subseteq published \cup {req[e].made}
  /\ req[e].source = req[e].target /\ req[e].fetched # None =>
       req[e].fetched \in Past(req[e].made)

CommitsHeld == \A e \in Editors : req[e].step = "committed" => Committed(e)

(* The clone holds what was on a branch, but for the commit under way and  *)
(* what a failing roll back has left.                                      *)
CachePublished ==
  \A b \in Branches :
    \/ Past(cached[b]) \subseteq published \cup stray
    \/ \E e \in Editors : lock = e /\ req[e].step = "committed" /\ req[e].source = b

CreatesFromBase ==
  \A e \in Editors : req[e].step = "create" => req[e].base # None

(* The user has read what this sha stands for.                             *)
Read(e, s) == IF scm = "github" THEN s \in seen[e] ELSE Blob(s) \in seen[e]

ShaRead ==
  \A e \in Editors : sha[e] # None => scm # "git" /\ Read(e, sha[e])

GivenShaRead ==
  \A e \in Editors :
    /\ req[e].step # "idle" /\ req[e].given => scm # "git" /\ Read(e, req[e].sha)
    /\ req[e].step = "lookup" => ~req[e].given

SavesNumbered ==
  \A e \in Editors : page[e] \in {"saving", "gone"} => last[e] # 0

RepoInv ==
  RepoTypeOK /\ ReqInLog /\ HeadsPublished /\ CommitsHeld /\ CachePublished /\ CreatesFromBase

PageInv == TypeOK /\ ShaRead /\ GivenShaRead /\ SavesNumbered

IInv == RepoInv /\ PageInv

-----------------------------------------------------------------------------
(* The log.                                                                *)

(* Commits are never changed and never go.                                 *)
LogGrows ==
  /\ Len(log) \in Nat /\ Len(log') \in Nat /\ Len(log) <= Len(log')
  /\ \A c \in 1..Len(log) : log'[c] = log[c]

(* A new commit on top of another one, or of none.                         *)
Extended(parent, blob) ==
  log' = Append(log, [past |-> Past(parent) \cup {NewCommit}, blob |-> blob])

(* CommitOn, Push: the log stays well formed and keeps what it has.        *)
LEMMA LogExtended ==
  ASSUME LogOK, NEW parent \in Commits, NEW blob \in 0..NewCommit, Extended(parent, blob)
  PROVE  /\ LogOK' /\ LogGrows
         /\ Len(log') = NewCommit
         /\ log'[NewCommit].past = Past(parent) \cup {NewCommit}
         /\ log'[NewCommit].blob = blob
  <1> DEFINE new == [past |-> Past(parent) \cup {NewCommit}, blob |-> blob]
  <1>1. Len(log) \in Nat
    BY LenProperties DEF LogOK
  <1>2. Past(parent) \in SUBSET (1..Len(log))
    <2>1. CASE parent = None
      BY <2>1 DEF Past
    <2>2. CASE parent # None
      BY <1>1, <2>2 DEF Past, None, Commits, LogOK
    <2> QED
      BY <2>1, <2>2
  <1>3. new \in Commit
    BY <1>1, <1>2 DEF Commit, NewCommit
  <1> HIDE DEF new
  <1>4. log' = Append(log, new)
    BY DEF new, Extended
  <1>5. /\ log' \in Seq(Commit)
        /\ Len(log') = NewCommit
        /\ \A c \in 1..Len(log) : log'[c] = log[c]
        /\ log'[NewCommit] = new
    BY <1>3, <1>4, AppendProperties DEF LogOK, NewCommit
  <1>6. ASSUME NEW c \in 1..Len(log')
        PROVE  c \in log'[c].past /\ log'[c].past \subseteq 1..c /\ log'[c].blob <= c
    <2>1. CASE c \in 1..Len(log)
      BY <2>1, <1>5 DEF LogOK
    <2>2. CASE c = NewCommit
      BY <2>2, <1>1, <1>2, <1>5 DEF new, NewCommit
    <2> QED
      BY <2>1, <2>2, <1>1, <1>5 DEF NewCommit
  <1> QED
    BY <1>1, <1>5, <1>6 DEF LogOK, LogGrows, NewCommit, new

LEMMA RepoTypeLog ==
  RepoTypeOK => LogOK /\ Len(log) \in Nat
  BY LenProperties DEF RepoTypeOK, LogOK, Commit

LEMMA LogUnchanged ==
  ASSUME RepoTypeOK, UNCHANGED log
  PROVE  LogGrows
  BY RepoTypeLog DEF LogGrows

(* SetHead: heads move to commits of the log, which are then published.    *)
HeadsMoved ==
  /\ head' \in [Branches -> 0..Len(log')]
  /\ published \subseteq published' /\ published' \subseteq 1..Len(log')
  /\ \A b \in Branches :
       head'[b] # head[b] => head'[b] # None /\ log'[head'[b]].past \subseteq published'

LEMMA SetHeadMoves ==
  ASSUME RepoTypeOK, LogGrows, LogOK', NEW b \in Branches, NEW c \in 1..Len(log'), SetHead(b, c)
  PROVE  HeadsMoved
  <1>1. log'[c].past \subseteq 1..Len(log')
    BY DEF LogOK, LogGrows
  <1>2. head' \in [Branches -> 0..Len(log')]
    BY DEF RepoTypeOK, LogGrows, SetHead
  <1>3. published \subseteq published' /\ published' \subseteq 1..Len(log')
    <2>1. published' = published \cup log'[c].past
      BY DEF SetHead
    <2>2. published \subseteq 1..Len(log')
      BY DEF RepoTypeOK, LogGrows
    <2> QED
      BY <1>1, <2>1, <2>2
  <1>4. ASSUME NEW d \in Branches, head'[d] # head[d]
        PROVE  head'[d] # None /\ log'[head'[d]].past \subseteq published'
    BY <1>4 DEF RepoTypeOK, LogGrows, SetHead, None
  <1> QED
    BY <1>2, <1>3, <1>4 DEF HeadsMoved

LEMMA HeadsStay ==
  ASSUME RepoTypeOK, LogGrows, UNCHANGED <<head, published>>
  PROVE  HeadsMoved
  BY DEF RepoTypeOK, LogGrows, HeadsMoved

LEMMA PublishedHeads ==
  ASSUME RepoInv, LogGrows, HeadsMoved
  PROVE  HeadsPublished'
  <1>1. ASSUME NEW b \in Branches
        PROVE  Past(head[b])' \subseteq published'
    <2>1. CASE head'[b] # head[b]
      BY <2>1 DEF HeadsMoved, Past
    <2>2. CASE head'[b] = head[b]
      <3>1. head[b] = None \/ head[b] \in 1..Len(log)
        BY DEF RepoInv, RepoTypeOK, None, LogGrows
      <3> QED
        BY <2>2, <3>1 DEF RepoInv, HeadsPublished, HeadsMoved, LogGrows, Past
    <2> QED
      BY <2>1, <2>2
  <1> QED
    BY <1>1 DEF HeadsPublished

-----------------------------------------------------------------------------
(* The server.                                                             *)

(* The requests of the other editors stay.                                 *)
OthersStay(e) ==
  /\ req' \in [Editors -> Request]
  /\ \A d \in Editors : d # e => req'[d] = req[d]

(* Goto: the rest of the request stays.                                    *)
MovedOn(e, step) ==
  /\ OthersStay(e)
  /\ req'[e].step = step
  /\ req'[e].source = req[e].source /\ req'[e].target = req[e].target
  /\ req'[e].sha = req[e].sha /\ req'[e].given = req[e].given
  /\ req'[e].base = req[e].base /\ req'[e].fetched = req[e].fetched
  /\ req'[e].made = req[e].made

LEMMA GotoMoves ==
  ASSUME RepoTypeOK, NEW e \in Editors, NEW step \in SaveSteps, Goto(e, step)
  PROVE  MovedOn(e, step)
  <1> DEFINE r == [req[e] EXCEPT !.step = step]
  <1>1. req[e] \in Request
    BY DEF RepoTypeOK
  <1>2. req' = [req EXCEPT ![e] = r]
    BY DEF Goto
  <1>3. /\ r \in Request /\ r.step = step
        /\ r.source = req[e].source /\ r.target = req[e].target
        /\ r.sha = req[e].sha /\ r.given = req[e].given
        /\ r.base = req[e].base /\ r.fetched = req[e].fetched
        /\ r.made = req[e].made
    BY <1>1 DEF Request
  <1> HIDE DEF r
  <1>4. req'[e] = r
    BY <1>2 DEF RepoTypeOK
  <1> QED
    BY <1>2, <1>3, <1>4 DEF RepoTypeOK, MovedOn, OthersStay

(* A step of the server keeps a request under way with what it names.      *)
Worked(e) ==
  /\ UNCHANGED scm /\ LogGrows /\ OthersStay(e)
  /\ req[e].step # "idle" /\ req'[e].step # "idle"
  /\ req'[e].given = req[e].given
  /\ req[e].given => req'[e].sha = req[e].sha /\ req'[e].step # "lookup"

(* One lemma per step: it keeps RepoInv, and the request under way.        *)

LEMMA GitOpenKeeps ==
  ASSUME RepoInv, NEW e \in Editors, GitOpen(e)
  PROVE  RepoInv' /\ Worked(e)
  <1> DEFINE s == IF head[req[e].source] = None THEN "failed" ELSE "open"
  <1> USE DEF RepoInv
  <1>1. s \in SaveSteps /\ Goto(e, s)
    BY DEF GitOpen, SaveSteps
  <1>2. s \in {"failed", "open"}
    OBVIOUS
  <1> HIDE DEF s
  <1>3. MovedOn(e, s)
    BY <1>1, GotoMoves
  <1>4. /\ lock = Nobody /\ UNCHANGED <<scm, stray, log, head, lock, published, pushes, failures>>
        /\ cached' \in [Branches -> Commits]
        /\ \A b \in Branches : cached'[b] \in {cached[b], head[b]}
    BY DEF GitOpen, RepoTypeOK, Commits, Request
  <1>5. LogGrows
    BY <1>4, LogUnchanged
  <1>6. RepoTypeOK'
    BY <1>3, <1>4 DEF RepoTypeOK, Commits, MovedOn, OthersStay
  <1>7. ReqInLog' /\ CreatesFromBase'
    BY <1>2, <1>3, <1>4 DEF ReqInLog, CreatesFromBase, MovedOn, OthersStay
  <1>8. HeadsPublished'
    BY <1>4 DEF HeadsPublished, Past
  <1>9. CommitsHeld'
    BY <1>2, <1>3, <1>4, NobodyAssumption DEF CommitsHeld, Committed, MovedOn, OthersStay
  <1>10. CachePublished'
    BY <1>4, NobodyAssumption DEF CachePublished, HeadsPublished, Past
  <1>11. Worked(e)
    BY <1>2, <1>3, <1>4, <1>5 DEF GitOpen, Worked, MovedOn
  <1> QED
    BY <1>6, <1>7, <1>8, <1>9, <1>10, <1>11

LEMMA GitFetchFailsKeeps ==
  ASSUME RepoInv, NEW e \in Editors, GitFetchFails(e)
  PROVE  RepoInv' /\ Worked(e)
  <1> USE DEF RepoInv
  <1>1. MovedOn(e, "failed")
    BY GotoMoves DEF GitFetchFails, SaveSteps
  <1>2. UNCHANGED <<scm, stray, log, head, cached, lock, published, pushes>> /\ failures' \in 0..MaxFailures
    BY BoundsAssumption DEF GitFetchFails, RepoTypeOK
  <1>3. LogGrows
    BY <1>2, LogUnchanged
  <1>4. RepoTypeOK'
    BY <1>1, <1>2 DEF RepoTypeOK, MovedOn, OthersStay
  <1>5. ReqInLog' /\ CreatesFromBase' /\ HeadsPublished'
    BY <1>1, <1>2 DEF ReqInLog, CreatesFromBase, HeadsPublished, Past, MovedOn, OthersStay
  <1>6. lock = Nobody
    BY DEF GitFetchFails
  <1>7. CommitsHeld' /\ CachePublished'
    BY <1>1, <1>2, <1>6, NobodyAssumption
    DEF CommitsHeld, Committed, CachePublished, Past, MovedOn, OthersStay
  <1>8. Worked(e)
    BY <1>1, <1>2, <1>3 DEF GitFetchFails, Worked, MovedOn
  <1> QED
    BY <1>4, <1>5, <1>7, <1>8

(* The commit goes on top of what was fetched, with the clone locked.      *)
LEMMA GitCommitKeeps ==
  ASSUME RepoInv, NEW e \in Editors, GitCommit(e)
  PROVE  RepoInv' /\ Worked(e)
  <1> DEFINE from == req[e].source
  <1> USE DEF RepoInv
  <1>1. /\ req[e] \in Request /\ from \in Branches /\ req[e].target \in Branches
        /\ Len(log) \in Nat
        /\ {head[from], head[req[e].target], cached[from]} \subseteq Commits
    <2>1. req[e] \in Request /\ Len(log) \in Nat
      BY RepoTypeLog DEF RepoTypeOK
    <2>2. from \in Branches /\ req[e].target \in Branches
      BY <2>1 DEF Request
    <2>3. head \in [Branches -> Commits] /\ cached \in [Branches -> Commits]
      BY DEF RepoTypeOK, Commits
    <2> QED
      BY <2>1, <2>2, <2>3
  <1>2. Extended(head[from], NewCommit) /\ NewCommit \in 0..NewCommit
    BY <1>1 DEF GitCommit, CommitOn, Extended, NewCommit
  <1>3. /\ LogOK' /\ LogGrows /\ Len(log') = NewCommit
        /\ log'[NewCommit].past = Past(head[from]) \cup {NewCommit}
    BY <1>1, <1>2, RepoTypeLog, LogExtended
  <1>4. /\ OthersStay(e) /\ req'[e].step = "committed"
        /\ req'[e].source = req[e].source /\ req'[e].target = req[e].target
        /\ req'[e].sha = req[e].sha /\ req'[e].given = req[e].given
        /\ req'[e].base = cached[from] /\ req'[e].fetched = head[req[e].target]
        /\ req'[e].made = NewCommit
    <2> DEFINE r == [req[e] EXCEPT !.step = "committed", !.base = cached[from],
                                   !.fetched = head[req[e].target], !.made = NewCommit]
    <2>1. r \in Request
      <3>1. /\ "committed" \in SaveSteps /\ NewCommit \in Nat
            /\ cached[from] \in Nat /\ head[req[e].target] \in Nat
        BY <1>1 DEF SaveSteps, NewCommit, Commits
      <3> QED
        BY <1>1, <3>1 DEF Request
    <2>2. req' = [req EXCEPT ![e] = r]
      BY DEF GitCommit
    <2>3. /\ r.step = "committed" /\ r.source = req[e].source /\ r.target = req[e].target
          /\ r.sha = req[e].sha /\ r.given = req[e].given /\ r.base = cached[from]
          /\ r.fetched = head[req[e].target] /\ r.made = NewCommit
      BY <1>1 DEF Request
    <2> HIDE DEF r
    <2> QED
      BY <2>1, <2>2, <2>3 DEF RepoTypeOK, OthersStay
  <1>5. /\ scm = "git" /\ lock = Nobody /\ lock' = e /\ req[e].step = "open"
        /\ cached' = [head EXCEPT ![from] = NewCommit]
        /\ UNCHANGED <<scm, stray, head, published, pushes, failures>>
    BY DEF GitCommit
  <1>6. RepoTypeOK'
    <2>1. cached' \in [Branches -> 0..Len(log')]
      BY <1>1, <1>3, <1>5 DEF RepoTypeOK, NewCommit, LogGrows
    <2>2. log' \in Seq([past: SUBSET Nat, blob: Nat])
      BY <1>3 DEF LogOK, Commit
    <2>3. /\ head' \in [Branches -> 0..Len(log')]
          /\ published' \in SUBSET (1..Len(log')) /\ stray' \in SUBSET (1..Len(log'))
      <3>1. Len(log) \in Nat /\ Len(log') \in Nat /\ Len(log) <= Len(log')
        BY <1>3 DEF LogGrows
      <3> QED
        BY <1>5, <3>1 DEF RepoTypeOK
    <2>4. /\ scm' \in Scms /\ lock' \in Editors \cup {Nobody}
          /\ pushes' \in 0..MaxPushes /\ failures' \in 0..MaxFailures
      BY <1>5 DEF RepoTypeOK
    <2>5. req' \in [Editors -> Request]
      BY <1>4 DEF OthersStay
    <2> QED
      BY <1>3, <2>1, <2>2, <2>3, <2>4, <2>5 DEF RepoTypeOK, LogOK
  <1>7. ReqInLog' /\ CreatesFromBase'
    <2>1. ASSUME NEW d \in Editors, d # e
          PROVE  /\ req'[d].sha <= Len(log') /\ req'[d].base <= Len(log')
                 /\ req'[d].fetched <= Len(log') /\ req'[d].made <= Len(log')
      <3>1. req[d] \in Request
        BY DEF RepoTypeOK
      <3> QED
        BY <1>3, <1>4, <2>1, <3>1 DEF ReqInLog, OthersStay, LogGrows, Request
    <2>2. /\ req'[e].sha <= Len(log') /\ req'[e].base <= Len(log')
          /\ req'[e].fetched <= Len(log') /\ req'[e].made <= Len(log')
      BY <1>1, <1>3, <1>4 DEF ReqInLog, LogGrows, NewCommit, Request, Commits
    <2>3. ReqInLog'
      BY <2>1, <2>2 DEF ReqInLog
    <2> QED
      BY <1>4, <2>3 DEF CreatesFromBase, OthersStay
  <1>8. HeadsPublished'
    BY <1>3, <1>5, HeadsStay, PublishedHeads
  <1>9. ASSUME NEW c \in Commits
        PROVE  Past(c)' = Past(c)
    BY <1>3, <1>9 DEF Past, LogGrows, Commits, None
  <1>10. CachePublished'
    <2> SUFFICES ASSUME NEW b \in Branches, b # from
                 PROVE  Past(cached[b])' \subseteq published'
      BY <1>4, <1>5 DEF CachePublished
    <2> QED
      BY <1>5, <1>8 DEF HeadsPublished, RepoTypeOK, Past
  <1>11. CommitsHeld'
    <2>1. ASSUME NEW d \in Editors, d # e
          PROVE  req'[d].step # "committed"
      BY <1>4, <1>5, <2>1, NobodyAssumption DEF CommitsHeld, Committed, OthersStay
    <2>2. Past(cached[from]) \subseteq published \cup stray
      BY <1>1, <1>5, NobodyAssumption DEF CachePublished
    <2>3. Past(req[e].base)' \subseteq (published \cup stray)'
      BY <1>1, <1>4, <1>5, <1>9, <2>2 DEF Past
    <2>4. head[from] # None => head[from] \in log'[NewCommit].past
      <3>1. head[from] # None => head[from] \in 1..Len(log)
        BY <1>1 DEF None, Commits
      <3>2. head[from] # None => head[from] \in Past(head[from])
        BY <3>1 DEF RepoTypeOK, Past
      <3> QED
        BY <1>3, <3>2
    <2>5. NewCommit # None /\ cached'[from] = NewCommit
      BY <1>1, <1>5 DEF NewCommit, None, RepoTypeOK
    <2>6. log'[NewCommit].past \subseteq published' \cup {NewCommit}
      BY <1>1, <1>3, <1>5 DEF HeadsPublished
    <2> QED
      BY <1>4, <1>5, <2>1, <2>3, <2>4, <2>5, <2>6 DEF CommitsHeld, Committed, Past
  <1>12. Worked(e)
    BY <1>3, <1>4, <1>5 DEF Worked
  <1> QED
    BY <1>6, <1>7, <1>8, <1>10, <1>11, <1>12

(* The push, done or not, and the roll back after it.                      *)
LEMMA PushEnds ==
  ASSUME RepoInv, NEW e \in Editors, NEW done \in BOOLEAN, NEW step \in {"ok", "failed"},
         scm = "git", req[e].step = "committed",
         UNCHANGED <<scm, log, pushes>>, failures' \in 0..MaxFailures,
         \/ SetHead(req[e].target, cached[req[e].source])
         \/ UNCHANGED <<head, published>>,
         RolledBack(e, done), Goto(e, step)
  PROVE  RepoInv' /\ Worked(e)
  <1> USE DEF RepoInv
  <1>1. MovedOn(e, step)
    BY GotoMoves DEF SaveSteps
  <1>2. LogGrows /\ LogOK'
    BY LogUnchanged, RepoTypeLog DEF LogOK
  <1>3. req[e] \in Request /\ Committed(e) /\ req[e].base \in Commits
    BY RepoTypeLog DEF RepoTypeOK, CommitsHeld, ReqInLog, Request, Commits
  <1>4. HeadsMoved
    <2>1. cached[req[e].source] \in 1..Len(log') /\ req[e].target \in Branches
      BY <1>3 DEF Committed, RepoTypeOK, None, Request
    <2> QED
      BY <1>2, <2>1, SetHeadMoves, HeadsStay
  <1>5. /\ lock = e /\ lock' = Nobody
        /\ cached' \in [Branches -> Commits]
        /\ stray \subseteq stray' /\ stray' \subseteq 1..Len(log)
        /\ \/ cached'[req[e].source] = req[e].base
           \/ cached' = cached /\ req[e].made \in published' \cup stray'
        /\ \A b \in Branches : b # req[e].source => cached'[b] = cached[b]
    <2>1. req[e].made \in 1..Len(log) /\ req[e].source \in Branches
      BY <1>3 DEF Committed, RepoTypeOK, Request, None
    <2> QED
      BY <1>3, <2>1 DEF RolledBack, Committed, RepoTypeOK, Commits
  <1>6. RepoTypeOK'
    BY <1>1, <1>2, <1>4, <1>5 DEF RepoTypeOK, MovedOn, OthersStay, HeadsMoved, Commits
  <1>7. ReqInLog' /\ CreatesFromBase'
    BY <1>1 DEF ReqInLog, CreatesFromBase, MovedOn, OthersStay
  <1>8. HeadsPublished'
    BY <1>2, <1>4, PublishedHeads
  <1>9. CommitsHeld'
    BY <1>1, <1>5 DEF CommitsHeld, Committed, MovedOn, OthersStay
  <1>10. CachePublished'
    <2> SUFFICES ASSUME NEW b \in Branches
                 PROVE  Past(cached[b])' \subseteq (published \cup stray)'
      BY DEF CachePublished
    <2>1. published \cup stray \subseteq (published \cup stray)' /\ published \subseteq published'
      BY <1>4, <1>5 DEF HeadsMoved
    <2>2. CASE b = req[e].source
      <3>1. CASE cached'[b] = req[e].base
        BY <1>3, <2>1, <3>1 DEF Committed, Past
      <3>2. CASE cached' = cached /\ req[e].made \in published' \cup stray'
        BY <1>3, <2>1, <2>2, <3>2 DEF Committed, Past
      <3> QED
        BY <1>5, <2>2, <3>1, <3>2
    <2>3. CASE b # req[e].source
      BY <1>5, <2>1, <2>3 DEF CachePublished, Past
    <2> QED
      BY <2>2, <2>3
  <1>11. Worked(e)
    BY <1>1, <1>2 DEF Worked, MovedOn
  <1> QED
    BY <1>6, <1>7, <1>8, <1>9, <1>10, <1>11

LEMMA GitPushKeeps ==
  ASSUME RepoInv, NEW e \in Editors, GitPush(e) \/ GitPushFails(e)
  PROVE  RepoInv' /\ Worked(e)
  <1>1. CASE GitPush(e)
    <2>1. failures' \in 0..MaxFailures
      BY <1>1 DEF GitPush, RepoInv, RepoTypeOK
    <2> QED
      BY <1>1, <2>1, PushEnds DEF GitPush
  <1>2. CASE GitPushFails(e)
    <2>1. failures' \in 0..MaxFailures
      BY <1>2, BoundsAssumption DEF GitPushFails, RepoInv, RepoTypeOK
    <2> QED
      BY <1>2, <2>1, PushEnds DEF GitPushFails
  <1> QED
    BY <1>1, <1>2
(* GitHub and Bitbucket: nothing is done to the clone, and no commit waits *)
(* there.                                                                  *)
LEMMA ForgeKeeps ==
  ASSUME RepoInv, NEW e \in Editors, scm # "git", UNCHANGED <<scm, stray, cached, lock, pushes>>,
         LogOK', LogGrows, HeadsMoved, OthersStay(e), failures' \in 0..MaxFailures,
         req'[e].sha <= Len(log'), req'[e].base <= Len(log'),
         req'[e].fetched <= Len(log'), req'[e].made <= Len(log'),
         req'[e].step # "committed", req'[e].step = "create" => req'[e].base # None
  PROVE  RepoInv'
  <1> USE DEF RepoInv
  <1>1. RepoTypeOK'
    <2>1. log' \in Seq([past: SUBSET Nat, blob: Nat])
      BY DEF LogOK, Commit
    <2>2. cached' \in [Branches -> 0..Len(log')] /\ stray' \in SUBSET (1..Len(log'))
      BY DEF RepoTypeOK, LogGrows
    <2> QED
      BY <2>1, <2>2 DEF RepoTypeOK, LogOK, HeadsMoved, OthersStay
  <1>2. ReqInLog'
    <2>1. ASSUME NEW d \in Editors, d # e
          PROVE  /\ req'[d].sha <= Len(log') /\ req'[d].base <= Len(log')
                 /\ req'[d].fetched <= Len(log') /\ req'[d].made <= Len(log')
      <3>1. req[d] \in Request
        BY DEF RepoTypeOK
      <3> QED
        BY <2>1, <3>1 DEF ReqInLog, OthersStay, LogGrows, Request
    <2> QED
      BY <2>1 DEF ReqInLog
  <1>3. HeadsPublished'
    BY PublishedHeads
  <1>4. CommitsHeld' /\ CreatesFromBase'
    BY DEF CommitsHeld, Committed, CreatesFromBase, OthersStay
  <1>5. CachePublished'
    <2> SUFFICES ASSUME NEW b \in Branches
                 PROVE  Past(cached[b])' \subseteq (published \cup stray)'
      BY DEF CachePublished
    <2>1. Past(cached[b]) \subseteq published \cup stray
      BY DEF CachePublished, CommitsHeld, Committed
    <2>2. cached[b] = None \/ cached[b] \in 1..Len(log)
      BY DEF RepoTypeOK, None, LogGrows
    <2> QED
      BY <2>1, <2>2 DEF Past, LogGrows, HeadsMoved
  <1> QED
    BY <1>1, <1>2, <1>3, <1>4, <1>5

(* A request that is done with, and perhaps what it has made.              *)
LEMMA Remade ==
  ASSUME RepoTypeOK, NEW e \in Editors, NEW step \in SaveSteps, NEW c \in Nat,
         req' = [req EXCEPT ![e].step = step, ![e].made = c]
  PROVE  /\ OthersStay(e) /\ req'[e].step = step /\ req'[e].made = c
         /\ req'[e].sha = req[e].sha /\ req'[e].given = req[e].given
         /\ req'[e].base = req[e].base /\ req'[e].fetched = req[e].fetched
  <1> DEFINE r == [req[e] EXCEPT !.step = step, !.made = c]
  <1>1. req[e] \in Request
    BY DEF RepoTypeOK
  <1>2. req' = [req EXCEPT ![e] = r]
    OBVIOUS
  <1>3. /\ r \in Request /\ r.step = step /\ r.made = c
        /\ r.sha = req[e].sha /\ r.given = req[e].given
        /\ r.base = req[e].base /\ r.fetched = req[e].fetched
    BY <1>1 DEF Request
  <1> HIDE DEF r
  <1>4. req \in [Editors -> Request] /\ r \in Request
    BY <1>3 DEF RepoTypeOK
  <1>5. OthersStay(e) /\ req'[e] = r
    BY <1>2, <1>4 DEF OthersStay
  <1> QED
    BY <1>3, <1>5

(* The request stays what it was, but for its step: nothing is made.       *)
LEMMA ForgeGoes ==
  ASSUME RepoInv, NEW e \in Editors, scm # "git", UNCHANGED <<scm, stray, log, cached, lock, pushes, failures>>,
         HeadsMoved, NEW step \in SaveSteps, Goto(e, step), step \notin {"committed", "create", "idle"},
         step = "lookup" => ~req[e].given,
         req[e].step # "idle"
  PROVE  RepoInv' /\ Worked(e)
  <1> USE DEF RepoInv
  <1>1. MovedOn(e, step)
    BY GotoMoves
  <1>2. LogGrows /\ LogOK' /\ failures' \in 0..MaxFailures
    BY LogUnchanged, RepoTypeLog DEF LogOK, RepoTypeOK
  <1>3. RepoInv'
    BY <1>1, <1>2, ForgeKeeps DEF ReqInLog, MovedOn
  <1> QED
    BY <1>1, <1>2, <1>3 DEF Worked, MovedOn

(* A commit is made on a branch, on top of its head or where it starts.    *)
LEMMA ForgeCommits ==
  ASSUME RepoInv, NEW e \in Editors, scm # "git", UNCHANGED <<scm, stray, cached, lock, pushes>>,
         failures' \in 0..MaxFailures,
         NEW b \in Branches, NEW parent \in Commits, CommitOn(parent), SetHead(b, NewCommit),
         NEW step \in {"ok", "failed"}, req[e].step # "idle",
         req' = [req EXCEPT ![e].step = step, ![e].made = NewCommit]
  PROVE  RepoInv' /\ Worked(e)
  <1> USE DEF RepoInv
  <1>1. Len(log) \in Nat /\ LogOK /\ NewCommit \in Nat /\ NewCommit \in 0..NewCommit
    BY RepoTypeLog DEF NewCommit
  <1>2. Extended(parent, NewCommit)
    BY DEF CommitOn, Extended
  <1>3. LogOK' /\ LogGrows /\ Len(log') = NewCommit
    BY <1>1, <1>2, LogExtended
  <1>4. HeadsMoved
    <2>1. NewCommit \in 1..Len(log')
      BY <1>1, <1>3 DEF NewCommit
    <2> QED
      BY <1>3, <2>1, SetHeadMoves
  <1>5. /\ OthersStay(e) /\ req'[e].step = step /\ req'[e].made = NewCommit
        /\ req'[e].sha = req[e].sha /\ req'[e].given = req[e].given
        /\ req'[e].base = req[e].base /\ req'[e].fetched = req[e].fetched
    <2>1. step \in SaveSteps
      BY DEF SaveSteps
    <2> QED
      BY <1>1, <2>1, Remade
  <1>6. /\ req'[e].sha <= Len(log') /\ req'[e].base <= Len(log')
        /\ req'[e].fetched <= Len(log') /\ req'[e].made <= Len(log')
    <2>1. req[e] \in Request
      BY DEF RepoTypeOK
    <2> QED
      BY <1>1, <1>3, <1>5, <2>1 DEF ReqInLog, LogGrows, Request
  <1>7. RepoInv'
    BY <1>3, <1>4, <1>5, <1>6, ForgeKeeps DEF RepoInv
  <1> QED
    BY <1>3, <1>5, <1>7 DEF Worked

LEMMA GithubFindBranchKeeps ==
  ASSUME RepoInv, NEW e \in Editors, GithubFindBranch(e)
  PROVE  RepoInv' /\ Worked(e)
  <1>1. /\ scm # "git" /\ UNCHANGED <<scm, stray, log, head, cached, lock, published, pushes, failures>>
        /\ req[e].step = "sent"
    BY DEF GithubFindBranch
  <1>2. RepoTypeOK /\ LogGrows /\ LogOK' /\ HeadsMoved
    BY <1>1, LogUnchanged, RepoTypeLog, HeadsStay DEF RepoInv, LogOK
  <1>3. CASE Goto(e, "put") \/ Goto(e, "failed")
    <2>1. "put" \in SaveSteps /\ "failed" \in SaveSteps
      BY DEF SaveSteps
    <2> QED
      BY <1>1, <1>2, <1>3, <2>1, ForgeGoes
  <1>4. CASE /\ head[req[e].source] # None
             /\ req' = [req EXCEPT ![e].step = "create", ![e].base = head[req[e].source]]
    <2> DEFINE base == head[req[e].source]
               r == [req[e] EXCEPT !.step = "create", !.base = base]
    <2>1. /\ req[e] \in Request /\ "create" \in SaveSteps /\ Len(log) \in Nat
          /\ base \in 1..Len(log) /\ base \in Nat
      <3>1. req[e] \in Request /\ "create" \in SaveSteps /\ Len(log) \in Nat
        BY <1>2, RepoTypeLog DEF RepoTypeOK, SaveSteps
      <3>2. req[e].source \in Branches
        BY <3>1 DEF Request
      <3> QED
        BY <1>2, <1>4, <3>1, <3>2 DEF RepoTypeOK, None
    <2>2. req' = [req EXCEPT ![e] = r]
      BY <1>4
    <2>3. /\ r \in Request /\ r.step = "create" /\ r.base = base
          /\ r.sha = req[e].sha /\ r.given = req[e].given
          /\ r.fetched = req[e].fetched /\ r.made = req[e].made
      BY <2>1 DEF Request
    <2> HIDE DEF r
    <2>4. OthersStay(e) /\ req'[e] = r
      BY <1>2, <2>2, <2>3 DEF OthersStay, RepoTypeOK
    <2>5. RepoInv'
      <3>1. /\ r.sha <= Len(log) /\ r.base <= Len(log)
            /\ r.fetched <= Len(log) /\ r.made <= Len(log)
        BY <2>1, <2>3 DEF RepoInv, ReqInLog
      <3>2. r.step # "committed" /\ r.base # None
        BY <1>4, <2>3
      <3>3. failures' \in 0..MaxFailures /\ Len(log') = Len(log)
        BY <1>1 DEF RepoInv, RepoTypeOK
      <3> QED
        BY <1>1, <1>2, <2>4, <3>1, <3>2, <3>3, ForgeKeeps
    <2> QED
      BY <1>1, <1>2, <2>3, <2>4, <2>5 DEF Worked
  <1> QED
    BY <1>3, <1>4 DEF GithubFindBranch

LEMMA GithubCreateBranchKeeps ==
  ASSUME RepoInv, NEW e \in Editors, GithubCreateBranch(e)
  PROVE  RepoInv' /\ Worked(e)
  <1>1. /\ scm # "git" /\ UNCHANGED <<scm, stray, log, cached, lock, pushes, failures>>
        /\ req[e].step = "create"
    BY DEF GithubCreateBranch
  <1>2. RepoTypeOK /\ LogGrows /\ LogOK'
    BY <1>1, LogUnchanged, RepoTypeLog DEF RepoInv, LogOK
  <1>3. {"put", "lookup", "failed"} \subseteq SaveSteps
    BY DEF SaveSteps
  <1>4. CASE Goto(e, "failed") /\ UNCHANGED <<head, published>>
    BY <1>1, <1>2, <1>3, <1>4, HeadsStay, ForgeGoes
  <1>5. CASE /\ SetHead(req[e].target, req[e].base)
             /\ Goto(e, IF req[e].given THEN "put" ELSE "lookup")
    <2>1. req[e] \in Request /\ req[e].base \in 1..Len(log')
      BY <1>1 DEF RepoInv, RepoTypeOK, ReqInLog, CreatesFromBase, Request, None
    <2>2. HeadsMoved
      BY <1>2, <1>5, <2>1, SetHeadMoves DEF Request
    <2>3. CASE req[e].given
      BY <1>1, <1>3, <1>5, <2>2, <2>3, ForgeGoes
    <2>4. CASE ~req[e].given
      BY <1>1, <1>3, <1>5, <2>2, <2>4, ForgeGoes
    <2> QED
      BY <2>3, <2>4
  <1> QED
    BY <1>4, <1>5 DEF GithubCreateBranch

LEMMA GithubLookupKeeps ==
  ASSUME RepoInv, NEW e \in Editors, GithubLookup(e), ~req[e].given
  PROVE  RepoInv' /\ Worked(e)
  <1>1. /\ scm # "git" /\ UNCHANGED <<scm, stray, log, head, cached, lock, published, pushes, failures>>
        /\ req[e].step = "lookup"
    BY DEF GithubLookup
  <1>2. RepoTypeOK /\ LogOK /\ LogGrows /\ LogOK' /\ HeadsMoved /\ Len(log) \in Nat
    BY <1>1, LogUnchanged, RepoTypeLog, HeadsStay DEF RepoInv, LogOK
  <1> DEFINE blob == Blob(head[Master])
             r == [req[e] EXCEPT !.step = "put", !.sha = blob]
  <1>3. blob \in Nat /\ blob <= Len(log)
    <2>1. head[Master] \in 0..Len(log)
      BY <1>2, MasterAssumption DEF RepoTypeOK
    <2>2. ASSUME NEW c \in 1..Len(log)
          PROVE  log[c].blob \in Nat /\ log[c].blob <= c
      <3>1. log[c] \in Commit
        BY <1>2, ElementOfSeq DEF LogOK
      <3> QED
        BY <1>2, <3>1 DEF LogOK, Commit
    <2> QED
      BY <1>2, <2>1, <2>2 DEF Blob, None
  <1>4. req[e] \in Request /\ "put" \in SaveSteps
    BY <1>2 DEF RepoTypeOK, SaveSteps
  <1>5. req' = [req EXCEPT ![e] = r]
    BY DEF GithubLookup
  <1> HIDE DEF blob
  <1>6. /\ r \in Request /\ r.step = "put" /\ r.base = req[e].base
        /\ r.sha = blob /\ r.given = req[e].given
        /\ r.fetched = req[e].fetched /\ r.made = req[e].made
    BY <1>3, <1>4 DEF Request
  <1> HIDE DEF r
  <1>7. OthersStay(e) /\ req'[e] = r
    BY <1>2, <1>5, <1>6 DEF OthersStay, RepoTypeOK
  <1>8. RepoInv'
    BY <1>1, <1>2, <1>3, <1>6, <1>7, ForgeKeeps DEF RepoInv, ReqInLog, RepoTypeOK
  <1> QED
    BY <1>1, <1>2, <1>6, <1>7, <1>8 DEF Worked

LEMMA GithubPutKeeps ==
  ASSUME RepoInv, NEW e \in Editors, GithubPut(e)
  PROVE  RepoInv' /\ Worked(e)
  <1>1. scm # "git" /\ UNCHANGED <<scm, stray, cached, lock, pushes>> /\ req[e].step = "put"
    BY DEF GithubPut
  <1>2. RepoTypeOK /\ req[e].target \in Branches /\ head[req[e].target] \in Commits
    BY DEF RepoInv, RepoTypeOK, Request, Commits
  <1>3. CASE Blob(head[req[e].target]) # req[e].sha
    <2> DEFINE step == IF req[e].sha = None THEN "failed" ELSE "conflict"
    <2>1. Goto(e, step) /\ UNCHANGED <<log, head, published, failures>>
      BY <1>3 DEF GithubPut
    <2>2. step \in SaveSteps /\ step \in {"failed", "conflict"}
      BY DEF SaveSteps
    <2> HIDE DEF step
    <2>3. HeadsMoved
      BY <1>2, <2>1, LogUnchanged, HeadsStay
    <2> QED
      BY <1>1, <2>1, <2>2, <2>3, ForgeGoes
  <1>4. CASE Blob(head[req[e].target]) = req[e].sha
    <2>1. /\ CommitOn(head[req[e].target]) /\ SetHead(req[e].target, NewCommit)
          /\ failures' \in 0..MaxFailures
      BY <1>2, <1>4, BoundsAssumption DEF GithubPut, RepoTypeOK
    <2>2. PICK step \in {"ok", "failed"} :
            req' = [req EXCEPT ![e].step = step, ![e].made = NewCommit]
      BY <1>4 DEF GithubPut
    <2> QED
      BY <1>1, <1>2, <2>1, <2>2, ForgeCommits
  <1> QED
    BY <1>3, <1>4

LEMMA BitbucketKeeps ==
  ASSUME RepoInv, NEW e \in Editors, BitbucketServerPut(e) \/ BitbucketCloudPost(e)
  PROVE  RepoInv' /\ Worked(e)
  <1>1. scm # "git" /\ UNCHANGED <<scm, stray, cached, lock, pushes, failures>> /\ req[e].step = "sent"
    BY DEF BitbucketServerPut, BitbucketCloudPost
  <1>2. /\ RepoTypeOK /\ req[e].target \in Branches
        /\ head[req[e].target] \in Commits /\ head[req[e].source] \in Commits
        /\ head[Master] \in Commits /\ req[e].sha \in Commits
    <2>1. RepoTypeOK /\ req[e] \in Request /\ Len(log) \in Nat
      BY RepoTypeLog DEF RepoInv, RepoTypeOK
    <2>2. req[e].target \in Branches /\ req[e].source \in Branches /\ req[e].sha \in Nat
      BY <2>1 DEF Request
    <2>3. req[e].sha \in Commits
      BY <2>1, <2>2 DEF RepoInv, ReqInLog, Commits
    <2> QED
      BY <2>1, <2>2, <2>3, MasterAssumption DEF RepoTypeOK, Commits
  <1>3. failures' \in 0..MaxFailures
    BY <1>1, <1>2 DEF RepoTypeOK
  <1>4. CASE /\ \E parent \in Commits : CommitOn(parent)
             /\ SetHead(req[e].target, NewCommit)
             /\ req' = [req EXCEPT ![e].step = "ok", ![e].made = NewCommit]
    BY <1>1, <1>2, <1>3, <1>4, ForgeCommits
  <1>5. CASE \E step \in {"ok", "failed"} : Goto(e, step) /\ UNCHANGED <<log, head, published>>
    <2>1. PICK step \in {"ok", "failed"} : Goto(e, step) /\ UNCHANGED <<log, head, published>>
      BY <1>5
    <2>2. step \in SaveSteps
      BY DEF SaveSteps
    <2>3. HeadsMoved
      BY <1>2, <2>1, LogUnchanged, HeadsStay
    <2> QED
      BY <1>1, <2>1, <2>2, <2>3, ForgeGoes
  <1>6. CASE BitbucketServerPut(e)
    BY <1>2, <1>4, <1>5, <1>6 DEF BitbucketServerPut
  <1>7. CASE BitbucketCloudPost(e)
    BY <1>2, <1>4, <1>5, <1>7 DEF BitbucketCloudPost
  <1> QED
    BY <1>6, <1>7

LEMMA SaveStepKeeps ==
  ASSUME RepoInv, NEW e \in Editors, SaveStep(e), req[e].step = "lookup" => ~req[e].given
  PROVE  RepoInv' /\ Worked(e)
  BY GitOpenKeeps, GitCommitKeeps, GitFetchFailsKeeps, GitPushKeeps, GithubFindBranchKeeps,
     GithubCreateBranchKeeps, GithubLookupKeeps, GithubPutKeeps, BitbucketKeeps
  DEF SaveStep, GithubLookup

(* Others push.                                                            *)
LEMMA PushKeeps ==
  ASSUME RepoInv, NEW b \in Branches, NEW from \in Branches, NEW touches \in BOOLEAN,
         Push(b, from, touches)
  PROVE  RepoInv' /\ LogGrows
  <1> USE DEF RepoInv
  <1>1. /\ UNCHANGED <<scm, stray, cached, lock, req, failures>> /\ pushes' \in 0..MaxPushes
        /\ head[from] \in Commits /\ Len(log) \in Nat /\ LogOK
    <2>1. LogOK /\ Len(log) \in Nat
      BY RepoTypeLog
    <2>2. head \in [Branches -> Commits] /\ pushes \in 0..MaxPushes
      BY DEF RepoTypeOK, Commits
    <2>3. UNCHANGED <<scm, stray, cached, lock, req, failures>> /\ pushes < MaxPushes /\ pushes' = pushes + 1
      BY DEF Push
    <2> QED
      BY <2>1, <2>2, <2>3, BoundsAssumption
  <1> DEFINE blob == IF touches THEN NewCommit ELSE Blob(head[from])
  <1>2. blob \in 0..NewCommit
    <2>1. ASSUME NEW c \in 1..Len(log)
          PROVE  log[c].blob \in Nat /\ log[c].blob <= c
      <3>1. log[c] \in Commit
        BY <1>1, ElementOfSeq DEF LogOK
      <3> QED
        BY <1>1, <3>1 DEF LogOK, Commit
    <2> QED
      BY <1>1, <2>1 DEF NewCommit, Blob, None, Commits
  <1>3. Extended(head[from], blob)
    BY DEF Push, Extended
  <1> HIDE DEF blob
  <1>4. LogOK' /\ LogGrows /\ Len(log') = NewCommit
    BY <1>1, <1>2, <1>3, LogExtended
  <1>5. HeadsMoved
    <2>1. NewCommit \in 1..Len(log') /\ SetHead(b, NewCommit)
      BY <1>1, <1>4 DEF NewCommit, Push
    <2> QED
      BY <1>4, <2>1, SetHeadMoves
  <1>6. RepoTypeOK'
    <2>1. log' \in Seq([past: SUBSET Nat, blob: Nat]) /\ cached' \in [Branches -> 0..Len(log')]
          /\ stray' \in SUBSET (1..Len(log'))
      BY <1>1, <1>4 DEF LogOK, Commit, RepoTypeOK, LogGrows
    <2> QED
      BY <1>1, <1>4, <1>5, <2>1 DEF RepoTypeOK, LogOK, HeadsMoved
  <1>7. HeadsPublished'
    BY <1>4, <1>5, PublishedHeads
  <1>8. ASSUME NEW c \in Commits
        PROVE  Past(c)' = Past(c)
    BY <1>4 DEF Past, LogGrows, Commits, None
  <1>9. published \subseteq published'
    BY <1>5 DEF HeadsMoved
  <1>10. ASSUME NEW d \in Editors
         PROVE  /\ req[d].sha \in Commits /\ req[d].base \in Commits
                /\ req[d].fetched \in Commits /\ req[d].made \in Commits
    BY <1>1 DEF RepoTypeOK, ReqInLog, Request, Commits
  <1>11. ReqInLog' /\ CreatesFromBase'
    BY <1>1, <1>4, <1>10 DEF ReqInLog, CreatesFromBase, LogGrows, Commits
  <1>12. CommitsHeld'
    <2> SUFFICES ASSUME NEW d \in Editors, req[d].step = "committed"
                 PROVE  Committed(d)'
      BY <1>1 DEF CommitsHeld
    <2>1. Committed(d)
      BY DEF CommitsHeld
    <2>2. Past(req[d].base)' = Past(req[d].base) /\ Past(req[d].made)' = Past(req[d].made)
      BY <1>1, <1>8, <1>10 DEF Past
    <2> QED
      BY <1>1, <1>9, <2>1, <2>2 DEF Committed
  <1>13. CachePublished'
    <2>1. ASSUME NEW d \in Branches
          PROVE  Past(cached[d])' = Past(cached[d])
      <3>1. cached[d] \in Commits
        BY DEF RepoTypeOK, Commits
      <3> QED
        BY <1>1, <1>8, <3>1 DEF Past
    <2> QED
      BY <1>1, <1>9, <2>1 DEF CachePublished
  <1> QED
    BY <1>4, <1>6, <1>7, <1>11, <1>12, <1>13

-----------------------------------------------------------------------------
(* The page.                                                               *)

(* The page may have the clone brought up to date, and may send a request  *)
(* or take its answer, which ends it.                                      *)
Paged ==
  /\ UNCHANGED <<scm, stray, log, head, lock, published, pushes>> /\ failures' \in 0..MaxFailures
  /\ cached' = cached \/ (lock = Nobody /\ cached' = head)
  /\ req' \in [Editors -> Request]
  /\ \A d \in Editors :
       \/ req'[d] = req[d]
       \/ /\ req[d].step \notin {"committed", "create"} /\ req'[d].step \notin {"committed", "create"}
          /\ req'[d].sha <= Len(log) /\ req'[d].base <= Len(log)
          /\ req'[d].fetched <= Len(log) /\ req'[d].made <= Len(log)

LEMMA PageKeeps ==
  ASSUME RepoInv, Paged
  PROVE  RepoInv' /\ LogGrows
  <1> USE DEF RepoInv
  <1>1. LogGrows
    BY LogUnchanged DEF Paged
  <1>2. RepoTypeOK'
    <2>1. cached' \in [Branches -> 0..Len(log')]
      BY DEF Paged, RepoTypeOK
    <2> QED
      BY <2>1 DEF Paged, RepoTypeOK
  <1>3. ReqInLog' /\ CreatesFromBase'
    BY DEF Paged, ReqInLog, CreatesFromBase
  <1>4. HeadsPublished'
    BY DEF Paged, HeadsPublished, Past
  <1>5. CommitsHeld'
    <2> SUFFICES ASSUME NEW d \in Editors, req'[d].step = "committed"
                 PROVE  Committed(d)'
      BY DEF CommitsHeld
    <2>1. req'[d] = req[d] /\ Committed(d)
      BY DEF Paged, CommitsHeld
    <2>2. cached' = cached
      BY <2>1, NobodyAssumption DEF Paged, Committed
    <2> QED
      BY <2>1, <2>2 DEF Paged, Committed, Past
  <1>6. CachePublished'
    <2>1. CASE cached' = cached
      BY <2>1 DEF Paged, CachePublished, Past
    <2>2. CASE lock = Nobody /\ cached' = head
      BY <2>2 DEF Paged, CachePublished, HeadsPublished, Past
    <2> QED
      BY <2>1, <2>2 DEF Paged
  <1> QED
    BY <1>1, <1>2, <1>3, <1>4, <1>5, <1>6

(* A content or commit that was read stays what it was.                    *)
LEMMA ReadStays ==
  ASSUME LogGrows, UNCHANGED scm, NEW e \in Editors, NEW s \in Commits,
         seen[e] \subseteq seen'[e], Read(e, s)
  PROVE  Read(e, s)'
  BY DEF Read, Blob, LogGrows, Commits, None

LEMMA ServerKeepsPage ==
  ASSUME PageInv, RepoInv, RepoInv', NEW e \in Editors, Worked(e), UNCHANGED pageVars
  PROVE  PageInv'
  <1> USE DEF PageInv
  <1>1. TypeOK'
    <2>1. RepoTypeOK'
      BY DEF RepoInv
    <2>2. \A d \in Editors : page'[d] \in {"saving", "gone"} <=> req'[d].step # "idle"
      BY DEF TypeOK, pageVars, Worked, OthersStay
    <2>3. sha' \in [Editors -> 0..Len(log')] /\ seen' \in [Editors -> SUBSET (0..Len(log'))]
      BY DEF TypeOK, pageVars, Worked, LogGrows
    <2> QED
      BY <2>1, <2>2, <2>3 DEF TypeOK, pageVars
  <1>2. ShaRead'
    <2> SUFFICES ASSUME NEW d \in Editors, sha[d] # None
                 PROVE  scm' # "git" /\ Read(d, sha[d])'
      BY DEF ShaRead, pageVars
    <2>1. sha[d] \in Commits
      BY DEF TypeOK, Commits
    <2>2. Read(d, sha[d]) /\ scm # "git" /\ UNCHANGED <<scm, seen, sha>>
      BY DEF ShaRead, Worked, pageVars
    <2>3. \A s \in Commits : Read(d, s) => Read(d, s)'
      BY <2>2, ReadStays DEF Worked
    <2> QED
      BY <2>1, <2>2, <2>3 DEF Read, Blob
  <1>3. GivenShaRead'
    <2>1. UNCHANGED <<scm, seen>> /\ LogGrows
      BY DEF Worked, pageVars
    <2>2. ASSUME NEW d \in Editors, d # e
          PROVE  /\ req'[d].step # "idle" /\ req'[d].given => scm' # "git" /\ Read(d, req[d].sha)'
                 /\ req'[d].step = "lookup" => ~req'[d].given
      <3>1. req'[d] = req[d] /\ req[d].sha \in Commits
        BY <2>2 DEF Worked, OthersStay, RepoInv, ReqInLog, RepoTypeOK, Request, Commits
      <3> QED
        BY <2>1, <3>1, ReadStays DEF GivenShaRead, Read, Blob
    <2>3. /\ req'[e].step # "idle" /\ req'[e].given => scm' # "git" /\ Read(e, req[e].sha)'
          /\ req'[e].step = "lookup" => ~req'[e].given
      <3>1. req[e].sha \in Commits
        BY DEF Worked, OthersStay, RepoInv, ReqInLog, RepoTypeOK, Request, Commits
      <3> QED
        BY <2>1, <3>1, ReadStays DEF GivenShaRead, Worked, Read, Blob
    <2> QED
      BY <2>2, <2>3 DEF GivenShaRead
  <1>4. SavesNumbered'
    BY DEF SavesNumbered, pageVars
  <1> QED
    BY <1>1, <1>2, <1>3, <1>4

(* The types of the page's variables.                                      *)
PageTypes ==
  /\ page \in [Editors -> Pages]
  /\ branch \in [Editors -> Branches]
  /\ sha \in [Editors -> Commits]
  /\ isSaved \in [Editors -> BOOLEAN]
  /\ seen \in [Editors -> SUBSET Commits]
  /\ offered \in [Editors -> BOOLEAN]
  /\ last \in [Editors -> 0..MaxSaves]
  /\ handlers \subseteq SaveIds /\ timers \subseteq SaveIds
  /\ saves \in 0..MaxSaves
  /\ indexings \in 0..MaxIndexings

(* What PageInv says of one page.                                          *)
Sound(e) ==
  /\ page[e] \in {"saving", "gone"} <=> req[e].step # "idle"
  /\ sha[e] # None => scm # "git" /\ Read(e, sha[e])
  /\ req[e].step # "idle" /\ req[e].given => scm # "git" /\ Read(e, req[e].sha)
  /\ req[e].step = "lookup" => ~req[e].given
  /\ page[e] \in {"saving", "gone"} => last[e] # 0

LEMMA PagesSound ==
  RepoTypeOK => (PageInv <=> PageTypes /\ \A e \in Editors : Sound(e))
  BY DEF PageInv, TypeOK, PageTypes, Commits, ShaRead, GivenShaRead, SavesNumbered, Sound

SameFor(e) ==
  /\ page'[e] = page[e] /\ sha'[e] = sha[e] /\ seen'[e] = seen[e] /\ last'[e] = last[e]
  /\ req'[e] = req[e]

(* A step of the pages keeps the invariant if every page is sound after    *)
(* it, or is as it was.                                                    *)
LEMMA PageStepKeeps ==
  ASSUME IInv, Paged, PageTypes', \A e \in Editors : SameFor(e) \/ Sound(e)'
  PROVE  IInv'
  <1>1. RepoInv' /\ RepoTypeOK /\ RepoTypeOK'
    BY PageKeeps DEF IInv, RepoInv
  <1>2. ASSUME NEW e \in Editors, SameFor(e)
        PROVE  Sound(e)'
    <2>1. Sound(e) /\ UNCHANGED <<scm, stray, log>>
      BY <1>1, PagesSound DEF IInv, Paged
    <2> QED
      BY <1>2, <2>1 DEF SameFor, Sound, Read, Blob
  <1>3. \A e \in Editors : Sound(e)'
    BY <1>2
  <1>4. PageInv'
    BY <1>1, <1>3
    DEF PageInv, TypeOK, PageTypes, Commits, ShaRead, GivenShaRead, SavesNumbered, Sound
  <1> QED
    BY <1>1, <1>4 DEF IInv

(* Requests that are not touched.                                          *)
LEMMA RepoStays ==
  ASSUME IInv, UNCHANGED <<scm, stray, log, head, lock, req, published, pushes>>,
         failures' \in 0..MaxFailures, cached' = cached \/ (lock = Nobody /\ cached' = head)
  PROVE  Paged
  BY DEF IInv, RepoInv, RepoTypeOK, Paged

LEMMA LoadContentReads ==
  ASSUME IInv, NEW e \in Editors, NEW b \in Branches, LoadContent(e, b), UNCHANGED <<log, scm>>
  PROVE  /\ cached' = cached \/ (lock = Nobody /\ cached' = head)
         /\ sha' \in [Editors -> Commits']
         /\ seen' \in [Editors -> SUBSET (Commits')]
         /\ \A d \in Editors : d # e => sha'[d] = sha[d] /\ seen'[d] = seen[d]
         /\ sha'[e] # None => scm' # "git" /\ Read(e, sha[e])'
  <1>1. RepoTypeOK /\ PageTypes /\ Sound(e) /\ LogOK /\ Len(log) \in Nat
    BY PagesSound, RepoTypeLog DEF IInv, RepoInv
  <1>2. cached' = cached \/ (lock = Nobody /\ cached' = head)
    BY DEF LoadContent, Reads
  <1>3. head[b] \in Commits /\ Blob(head[b]) \in Commits
    <2>1. head[b] \in Commits
      BY <1>1 DEF RepoTypeOK, Commits
    <2>2. CASE head[b] = None
      BY <1>1, <2>2 DEF Blob, Commits, None
    <2>3. CASE head[b] # None
      <3>1. head[b] \in 1..Len(log)
        BY <1>1, <2>1, <2>3 DEF Commits, None
      <3>2. log[head[b]] \in Commit
        BY <1>1, <3>1, ElementOfSeq DEF LogOK
      <3> QED
        BY <1>1, <2>3, <3>1, <3>2 DEF LogOK, Commit, Blob, Commits
    <2> QED
      BY <2>1, <2>2, <2>3
  <1> DEFINE blob == Blob(head[b])
             s == IF blob = None THEN sha[e] ELSE LoadedSha(b)
  <1>4. s \in Commits
    BY <1>1, <1>3 DEF PageTypes, LoadedSha, Commits, None
  <1>5. sha' = [sha EXCEPT ![e] = s] /\ seen' = [seen EXCEPT ![e] = @ \cup {blob}]
    BY DEF LoadContent
  <1>6. /\ sha'[e] = s /\ seen'[e] = seen[e] \cup {blob}
        /\ sha' \in [Editors -> Commits'] /\ seen' \in [Editors -> SUBSET (Commits')]
        /\ \A d \in Editors : d # e => sha'[d] = sha[d] /\ seen'[d] = seen[d]
    BY <1>1, <1>3, <1>4, <1>5 DEF PageTypes, Commits
  <1>7. ASSUME s # None
        PROVE  scm # "git" /\ (IF scm = "github" THEN s \in seen'[e] ELSE Blob(s) \in seen'[e])
    BY <1>1, <1>6, <1>7 DEF Sound, Read, LoadedSha
  <1> QED
    BY <1>2, <1>6, <1>7 DEF Read, Blob

(* One lemma per action of the page.  Loading and saving.                  *)
LEMMA OpenKeeps ==
  ASSUME IInv, NEW e \in Editors, NEW b \in Branches, Open(e, b)
  PROVE  IInv'
  <1>1. RepoTypeOK /\ PageTypes /\ \A d \in Editors : Sound(d)
    BY PagesSound DEF IInv, RepoInv
  <1>2. /\ LoadContent(e, b)
        /\ UNCHANGED <<scm, stray, log, head, lock, req, published, pushes, failures,
                       isSaved, offered, last, handlers, timers, saves, indexings>>
        /\ page[e] = "closed"
        /\ page' = [page EXCEPT ![e] = "editing"] /\ branch' = [branch EXCEPT ![e] = b]
    BY DEF Open
  <1>3. /\ cached' = cached \/ (lock = Nobody /\ cached' = head)
        /\ sha' \in [Editors -> Commits'] /\ seen' \in [Editors -> SUBSET (Commits')]
        /\ \A d \in Editors : d # e => sha'[d] = sha[d] /\ seen'[d] = seen[d]
        /\ sha'[e] # None => scm' # "git" /\ Read(e, sha[e])'
    BY <1>2, LoadContentReads
  <1>4. Paged
    BY <1>1, <1>2, <1>3, RepoStays DEF RepoTypeOK
  <1>5. PageTypes'
    BY <1>1, <1>2, <1>3 DEF PageTypes, Pages
  <1>6. \A d \in Editors : d # e => SameFor(d)
    BY <1>1, <1>2, <1>3 DEF PageTypes, SameFor
  <1>7. Sound(e)'
    <2>1. req'[e].step = "idle" /\ page'[e] = "editing"
      BY <1>1, <1>2 DEF Sound, PageTypes
    <2> QED
      BY <1>3, <2>1 DEF Sound
  <1> QED
    BY <1>4, <1>5, <1>6, <1>7, PageStepKeeps

LEMMA DiscardChangesKeeps ==
  ASSUME IInv, NEW e \in Editors, DiscardChanges(e)
  PROVE  IInv'
  <1>1. RepoTypeOK /\ PageTypes /\ \A d \in Editors : Sound(d)
    BY PagesSound DEF IInv, RepoInv
  <1>2. /\ LoadContent(e, branch[e]) /\ branch[e] \in Branches
        /\ UNCHANGED <<scm, stray, log, head, lock, req, published, pushes, failures,
                       page, branch, isSaved, last, handlers, timers, saves, indexings>>
        /\ page[e] = "editing"
        /\ offered' = [offered EXCEPT ![e] = FALSE]
    BY <1>1 DEF DiscardChanges, PageTypes
  <1>3. /\ cached' = cached \/ (lock = Nobody /\ cached' = head)
        /\ sha' \in [Editors -> Commits'] /\ seen' \in [Editors -> SUBSET (Commits')]
        /\ \A d \in Editors : d # e => sha'[d] = sha[d] /\ seen'[d] = seen[d]
        /\ sha'[e] # None => scm' # "git" /\ Read(e, sha[e])'
    BY <1>2, LoadContentReads
  <1>4. Paged
    BY <1>1, <1>2, <1>3, RepoStays DEF RepoTypeOK
  <1>5. PageTypes'
    BY <1>1, <1>2, <1>3 DEF PageTypes
  <1>6. \A d \in Editors : d # e => SameFor(d)
    BY <1>2, <1>3 DEF SameFor
  <1>7. Sound(e)'
    <2>1. req'[e].step = "idle" /\ page'[e] = "editing"
      BY <1>1, <1>2 DEF Sound
    <2> QED
      BY <1>3, <2>1 DEF Sound
  <1> QED
    BY <1>4, <1>5, <1>6, <1>7, PageStepKeeps

(* The request of a save, before the Jenkinsfile is there.                 *)
LEMMA ConvertsNames ==
  ASSUME RepoTypeOK, NEW e \in Editors, branch[e] \in Branches, NEW to \in Branches,
         Converts(e, to)
  PROVE  /\ req' \in [Editors -> Request]
         /\ \A d \in Editors : d # e => req'[d] = req[d]
         /\ req'[e].step = "converting" /\ req'[e].sha = None /\ ~req'[e].given
         /\ req'[e].base = None /\ req'[e].fetched = None /\ req'[e].made = None
  <1> DEFINE r == [Idle EXCEPT !.step = "converting", !.source = branch[e], !.target = to]
  <1>1. req' = [req EXCEPT ![e] = r]
    BY DEF Converts
  <1>2. "converting" \in SaveSteps /\ None \in Nat /\ Master \in Branches
    BY MasterAssumption DEF SaveSteps, None
  <1>3. /\ r \in Request /\ r.step = "converting" /\ r.sha = None /\ r.given = FALSE
        /\ r.base = None /\ r.fetched = None /\ r.made = None
    BY <1>2 DEF Idle, Request
  <1> HIDE DEF r
  <1> QED
    BY <1>1, <1>3 DEF RepoTypeOK

LEMMA SaveKeeps ==
  ASSUME IInv, NEW e \in Editors, NEW to \in Branches, Save(e, to)
  PROVE  IInv'
  <1>1. /\ RepoTypeOK /\ PageTypes /\ \A d \in Editors : Sound(d)
        /\ Len(log) \in Nat /\ branch[e] \in Branches /\ sha[e] \in Commits
    BY PagesSound, RepoTypeLog DEF IInv, RepoInv, PageTypes
  <1>2. /\ UNCHANGED <<scm, stray, log, head, cached, lock, published, pushes, failures,
                       branch, sha, isSaved, seen, handlers, timers, indexings>>
        /\ page[e] = "editing" /\ page' = [page EXCEPT ![e] = "saving"]
        /\ last' = [last EXCEPT ![e] = saves + 1] /\ saves' = saves + 1
        /\ offered' = [offered EXCEPT ![e] = FALSE]
        /\ Converts(e, to) /\ saves + pushes < MaxSaves
    BY DEF Save
  <1>3. /\ req' \in [Editors -> Request] /\ \A d \in Editors : d # e => req'[d] = req[d]
        /\ req'[e].step = "converting" /\ req'[e].sha = None /\ ~req'[e].given
        /\ req'[e].base = None /\ req'[e].fetched = None /\ req'[e].made = None
    BY <1>1, <1>2, ConvertsNames
  <1>4. req[e].step = "idle"
    BY <1>1, <1>2 DEF Sound
  <1>5. saves + 1 \in 1..MaxSaves
    BY <1>1, <1>2, PageAssumption, BoundsAssumption DEF PageTypes, RepoTypeOK
  <1>6. Paged
    BY <1>1, <1>2, <1>3, <1>4 DEF Paged, RepoTypeOK, Commits, None
  <1>7. PageTypes'
    BY <1>1, <1>2, <1>5 DEF PageTypes, Pages, Commits
  <1>8. \A d \in Editors : d # e => SameFor(d)
    BY <1>1, <1>2, <1>3 DEF PageTypes, SameFor
  <1>9. Sound(e)'
    <2>1. page'[e] = "saving" /\ last'[e] # 0
      BY <1>1, <1>2, <1>5 DEF PageTypes
    <2>2. sha[e] # None => scm' # "git" /\ Read(e, sha[e])'
      BY <1>1, <1>2 DEF Sound, Read, Blob
    <2> QED
      BY <1>2, <1>3, <2>1, <2>2 DEF Sound, Read, Blob
  <1> QED
    BY <1>6, <1>7, <1>8, <1>9, PageStepKeeps

LEMMA OverwriteChangesKeeps ==
  ASSUME IInv, NEW e \in Editors, OverwriteChanges(e)
  PROVE  IInv'
  <1>1. /\ RepoTypeOK /\ PageTypes /\ \A d \in Editors : Sound(d)
        /\ Len(log) \in Nat /\ branch[e] \in Branches
    BY PagesSound, RepoTypeLog DEF IInv, RepoInv, PageTypes
  <1>2. /\ UNCHANGED <<scm, stray, log, head, lock, published, pushes, failures,
                       branch, isSaved, handlers, timers, indexings>>
        /\ page[e] = "editing" /\ page' = [page EXCEPT ![e] = "saving"]
        /\ last' = [last EXCEPT ![e] = saves + 1] /\ saves' = saves + 1
        /\ offered' = [offered EXCEPT ![e] = FALSE]
        /\ LoadContent(e, branch[e]) /\ Converts(e, branch[e]) /\ saves < MaxSaves
    BY DEF OverwriteChanges
  <1>3. /\ cached' = cached \/ (lock = Nobody /\ cached' = head)
        /\ sha' \in [Editors -> Commits'] /\ seen' \in [Editors -> SUBSET (Commits')]
        /\ \A d \in Editors : d # e => sha'[d] = sha[d] /\ seen'[d] = seen[d]
        /\ sha'[e] # None => scm' # "git" /\ Read(e, sha[e])'
    BY <1>1, <1>2, LoadContentReads
  <1>4. sha'[e] \in Commits
    BY <1>2, <1>3 DEF Commits
  <1>5. /\ req' \in [Editors -> Request] /\ \A d \in Editors : d # e => req'[d] = req[d]
        /\ req'[e].step = "converting" /\ req'[e].sha = None /\ ~req'[e].given
        /\ req'[e].base = None /\ req'[e].fetched = None /\ req'[e].made = None
    BY <1>1, <1>2, ConvertsNames
  <1>6. req[e].step = "idle"
    BY <1>1, <1>2 DEF Sound
  <1>7. saves + 1 \in 1..MaxSaves
    BY <1>1, <1>2, PageAssumption DEF PageTypes
  <1>8. Paged
    BY <1>1, <1>2, <1>3, <1>4, <1>5, <1>6 DEF Paged, RepoTypeOK, Commits, None
  <1>9. PageTypes'
    <2>1. /\ page' \in [Editors -> Pages] /\ last' \in [Editors -> 0..MaxSaves]
          /\ offered' \in [Editors -> BOOLEAN] /\ saves' \in 0..MaxSaves
      BY <1>1, <1>2, <1>7 DEF PageTypes, Pages
    <2> QED
      BY <1>1, <1>2, <1>3, <2>1 DEF PageTypes, SaveIds
  <1>10. \A d \in Editors : d # e => SameFor(d)
    BY <1>1, <1>2, <1>3, <1>5 DEF PageTypes, SameFor
  <1>11. Sound(e)'
    <2>1. page'[e] = "saving" /\ last'[e] # 0
      BY <1>1, <1>2, <1>7 DEF PageTypes
    <2> QED
      BY <1>2, <1>3, <1>5, <2>1 DEF Sound, Read, Blob
  <1> QED
    BY <1>8, <1>9, <1>10, <1>11, PageStepKeeps

-----------------------------------------------------------------------------
(* Answers and indexings.                                                  *)

(* The answer to a save is taken: the request is idle again.               *)
LEMMA AnswerTaken ==
  ASSUME IInv, NEW e \in Editors, Answered(e), req[e].step \notin {"committed", "create"},
         UNCHANGED <<scm, stray, log, head, cached, lock, published, pushes>>,
         failures' \in 0..MaxFailures
  PROVE  /\ Paged /\ req'[e].step = "idle" /\ req'[e].made = None
         /\ \A d \in Editors : d # e => req'[d] = req[d]
  <1>1. RepoTypeOK /\ ReqInLog /\ Len(log) \in Nat
    BY RepoTypeLog DEF IInv, RepoInv
  <1>2. /\ Idle \in Request /\ Idle.step = "idle" /\ Idle.sha = 0 /\ Idle.base = 0
        /\ Idle.fetched = 0 /\ Idle.made = None /\ None = 0
    BY MasterAssumption DEF Idle, Request, SaveSteps, None
  <1>3. req' = [req EXCEPT ![e] = Idle]
    BY DEF Answered
  <1> HIDE DEF Idle
  <1> QED
    BY <1>1, <1>2, <1>3 DEF Paged, RepoTypeOK

(* The Jenkinsfile is there: the sha that goes with it is one that was     *)
(* read.                                                                   *)
LEMMA ScriptConvertedKeeps ==
  ASSUME IInv, NEW e \in Editors, ScriptConverted(e)
  PROVE  IInv'
  <1>1. /\ RepoTypeOK /\ PageTypes /\ ReqInLog /\ (\A d \in Editors : Sound(d))
        /\ Len(log) \in Nat /\ sha[e] \in Commits /\ req[e] \in Request
    BY PagesSound, RepoTypeLog DEF IInv, RepoInv, PageTypes, RepoTypeOK
  <1> DEFINE s == sha[e]
             g == s # None
             r == [req[e] EXCEPT !.step = "sent", !.sha = s, !.given = g]
  <1>2. /\ UNCHANGED <<scm, stray, log, head, cached, lock, published, pushes, failures>>
        /\ UNCHANGED pageVars /\ req[e].step = "converting"
        /\ req' = [req EXCEPT ![e] = r]
    BY DEF ScriptConverted
  <1>3. s \in Nat /\ g \in BOOLEAN /\ "sent" \in SaveSteps /\ (g <=> s # None) /\ s = sha[e]
    BY <1>1 DEF Commits, SaveSteps
  <1> HIDE DEF s, g
  <1>4. /\ r \in Request /\ r.step = "sent" /\ r.sha = s /\ r.given = g
        /\ r.base = req[e].base /\ r.fetched = req[e].fetched /\ r.made = req[e].made
    BY <1>1, <1>3 DEF Request
  <1> HIDE DEF r
  <1>5. req'[e] = r /\ \A d \in Editors : d # e => req'[d] = req[d]
    BY <1>1, <1>2, <1>4 DEF RepoTypeOK
  <1>6. Paged
    BY <1>1, <1>2, <1>3, <1>4, <1>5 DEF Paged, RepoTypeOK, ReqInLog, Commits
  <1>7. PageTypes'
    BY <1>1, <1>2 DEF PageTypes, pageVars, Commits, SaveIds
  <1>8. \A d \in Editors : d # e => SameFor(d)
    BY <1>2, <1>5 DEF SameFor, pageVars
  <1>9. Sound(e)'
    <2>1. page[e] \in {"saving", "gone"} /\ last[e] # 0
      BY <1>1, <1>2 DEF Sound
    <2>2. sha[e] # None => scm # "git" /\ Read(e, sha[e])
      BY <1>1 DEF Sound
    <2> QED
      BY <1>2, <1>3, <1>4, <1>5, <2>1, <2>2 DEF Sound, pageVars, Read, Blob
  <1> QED
    BY <1>6, <1>7, <1>8, <1>9, PageStepKeeps

LEMMA ConversionFailsKeeps ==
  ASSUME IInv, NEW e \in Editors, ConversionFails(e)
  PROVE  IInv'
  <1>1. /\ RepoTypeOK /\ PageTypes /\ ReqInLog /\ (\A d \in Editors : Sound(d))
        /\ Len(log) \in Nat
    BY PagesSound, RepoTypeLog DEF IInv, RepoInv
  <1>2. /\ UNCHANGED <<scm, stray, log, head, cached, lock, published, pushes>>
        /\ UNCHANGED <<branch, sha, isSaved, seen, offered, last, handlers, timers, saves, indexings>>
        /\ req[e].step = "converting" /\ failures' \in 0..MaxFailures
    BY <1>1, BoundsAssumption DEF ConversionFails, RepoTypeOK
  <1>3. CASE Goto(e, "failed") /\ UNCHANGED page
    <2>1. MovedOn(e, "failed")
      BY <1>1, <1>3, GotoMoves DEF SaveSteps
    <2>2. Paged
      BY <1>1, <1>2, <2>1 DEF Paged, MovedOn, OthersStay, ReqInLog, RepoTypeOK
    <2>3. PageTypes'
      BY <1>1, <1>2, <1>3 DEF PageTypes, Commits, SaveIds
    <2>4. \A d \in Editors : d # e => SameFor(d)
      BY <1>2, <1>3, <2>1 DEF SameFor, MovedOn, OthersStay
    <2>5. Sound(e)'
      BY <1>1, <1>2, <1>3, <2>1 DEF Sound, MovedOn, Read, Blob
    <2> QED
      BY <2>2, <2>3, <2>4, <2>5, PageStepKeeps
  <1>4. CASE page' = [page EXCEPT ![e] = "stuck"] /\ Answered(e)
    <2>1. Paged /\ req'[e].step = "idle" /\ \A d \in Editors : d # e => req'[d] = req[d]
      BY <1>2, <1>4, AnswerTaken
    <2>2. PageTypes'
      BY <1>1, <1>2, <1>4 DEF PageTypes, Pages, Commits, SaveIds
    <2>3. \A d \in Editors : d # e => SameFor(d)
      BY <1>1, <1>2, <1>4, <2>1 DEF SameFor, PageTypes
    <2>4. Sound(e)'
      <3>1. page'[e] = "stuck"
        BY <1>1, <1>4 DEF PageTypes
      <3> QED
        BY <1>1, <1>2, <2>1, <3>1 DEF Sound, Read, Blob
    <2> QED
      BY <2>1, <2>2, <2>3, <2>4, PageStepKeeps
  <1> QED
    BY <1>3, <1>4 DEF ConversionFails

LEMMA SaveSucceedsKeeps ==
  ASSUME IInv, NEW e \in Editors, SaveSucceeds(e)
  PROVE  IInv'
  <1>1. RepoTypeOK /\ PageTypes /\ (\A d \in Editors : Sound(d)) /\ Len(log) \in Nat
    BY PagesSound, RepoTypeLog DEF IInv, RepoInv
  <1>2. /\ UNCHANGED <<scm, stray, log, head, cached, lock, published, pushes, failures,
                       branch, seen, offered, last, saves, indexings>>
        /\ page[e] = "saving" /\ req[e].step = "ok" /\ Answered(e)
        /\ sha' = [sha EXCEPT ![e] = None] /\ isSaved' = [isSaved EXCEPT ![e] = TRUE]
    BY DEF SaveSucceeds
  <1>3. Paged /\ req'[e].step = "idle" /\ \A d \in Editors : d # e => req'[d] = req[d]
    BY <1>1, <1>2, AnswerTaken DEF RepoTypeOK
  <1>4. PICK p \in {"starting", "indexing"} : page' = [page EXCEPT ![e] = p]
    BY DEF SaveSucceeds
  <1>5. <<e, last[e]>> \in SaveIds
    BY <1>1, <1>2, PageAssumption DEF Sound, PageTypes, SaveIds
  <1>6. handlers' \subseteq SaveIds /\ timers' \subseteq SaveIds
    <2>1. \/ UNCHANGED <<handlers, timers>>
          \/ /\ handlers' = handlers \cup {<<e, last[e]>>}
             /\ timers' = timers \cup {<<e, last[e]>>}
      BY DEF SaveSucceeds
    <2> QED
      BY <1>1, <1>5, <2>1 DEF PageTypes
  <1>7. PageTypes'
    BY <1>1, <1>2, <1>4, <1>6 DEF PageTypes, Pages, Commits, None, SaveIds
  <1>8. \A d \in Editors : d # e => SameFor(d)
    BY <1>1, <1>2, <1>3, <1>4 DEF PageTypes, SameFor
  <1>9. Sound(e)'
    <2>1. page'[e] \in {"starting", "indexing"} /\ sha'[e] = None
      BY <1>1, <1>2, <1>4 DEF PageTypes
    <2> QED
      BY <1>3, <2>1 DEF Sound
  <1> QED
    BY <1>3, <1>7, <1>8, <1>9, PageStepKeeps

LEMMA SaveFailsKeeps ==
  ASSUME IInv, NEW e \in Editors, SaveFails(e)
  PROVE  IInv'
  <1>1. RepoTypeOK /\ PageTypes /\ (\A d \in Editors : Sound(d)) /\ Len(log) \in Nat
    BY PagesSound, RepoTypeLog DEF IInv, RepoInv
  <1>2. /\ UNCHANGED <<scm, stray, log, head, cached, lock, published, pushes, failures,
                       branch, sha, isSaved, seen, last, handlers, timers, saves, indexings>>
        /\ page[e] = "saving" /\ req[e].step \in {"failed", "conflict"} /\ Answered(e)
        /\ page' = [page EXCEPT ![e] = "editing"]
        /\ offered' \in [Editors -> BOOLEAN]
    BY <1>1 DEF SaveFails, PageTypes
  <1>3. Paged /\ req'[e].step = "idle" /\ \A d \in Editors : d # e => req'[d] = req[d]
    BY <1>1, <1>2, AnswerTaken DEF RepoTypeOK
  <1>4. PageTypes'
    BY <1>1, <1>2 DEF PageTypes, Pages, Commits, SaveIds
  <1>5. \A d \in Editors : d # e => SameFor(d)
    BY <1>1, <1>2, <1>3 DEF PageTypes, SameFor
  <1>6. Sound(e)'
    <2>1. page'[e] = "editing"
      BY <1>1, <1>2 DEF PageTypes
    <2> QED
      BY <1>1, <1>2, <1>3, <2>1 DEF Sound, Read, Blob
  <1> QED
    BY <1>3, <1>4, <1>5, <1>6, PageStepKeeps

LEMMA AnsweredLateKeeps ==
  ASSUME IInv, NEW e \in Editors, AnsweredLate(e)
  PROVE  IInv'
  <1>1. RepoTypeOK /\ PageTypes /\ (\A d \in Editors : Sound(d)) /\ Len(log) \in Nat
    BY PagesSound, RepoTypeLog DEF IInv, RepoInv
  <1>2. /\ UNCHANGED <<scm, stray, log, head, cached, lock, published, pushes, failures,
                       offered, saves, indexings>>
        /\ branch' = [branch EXCEPT ![e] = Master]
        /\ page[e] = "gone" /\ req[e].step \in {"ok", "failed", "conflict"} /\ Answered(e)
        /\ page' = [page EXCEPT ![e] = "closed"] /\ sha' = [sha EXCEPT ![e] = None]
        /\ isSaved' = [isSaved EXCEPT ![e] = FALSE]
        /\ seen' = [seen EXCEPT ![e] = {}] /\ last' = [last EXCEPT ![e] = 0]
    BY DEF AnsweredLate
  <1>3. Paged /\ req'[e].step = "idle" /\ \A d \in Editors : d # e => req'[d] = req[d]
    BY <1>1, <1>2, AnswerTaken DEF RepoTypeOK
  <1>4. <<e, last[e]>> \in SaveIds
    BY <1>1, <1>2, PageAssumption DEF Sound, PageTypes, SaveIds
  <1>5. handlers' \subseteq SaveIds /\ timers' \subseteq SaveIds
    <2>1. \/ UNCHANGED <<handlers, timers>>
          \/ /\ handlers' = handlers \cup {<<e, last[e]>>}
             /\ timers' = timers \cup {<<e, last[e]>>}
      BY DEF AnsweredLate
    <2> QED
      BY <1>1, <1>4, <2>1 DEF PageTypes
  <1>6. PageTypes'
    BY <1>1, <1>2, <1>5, PageAssumption, MasterAssumption DEF PageTypes, Pages, Commits, None, SaveIds
  <1>7. \A d \in Editors : d # e => SameFor(d)
    BY <1>1, <1>2, <1>3 DEF PageTypes, SameFor
  <1>8. Sound(e)'
    <2>1. page'[e] = "closed" /\ sha'[e] = None
      BY <1>1, <1>2 DEF PageTypes
    <2> QED
      BY <1>3, <2>1 DEF Sound
  <1> QED
    BY <1>3, <1>6, <1>7, <1>8, PageStepKeeps

(* Leaving the page without a save under way.                              *)
LEMMA ClosedKeeps ==
  ASSUME IInv, NEW e \in Editors, Closed(e), page[e] \in {"editing", "starting", "indexing", "stuck"},
         UNCHANGED <<repoVars, handlers, timers, saves, indexings>>
  PROVE  IInv'
  <1>1. RepoTypeOK /\ PageTypes /\ (\A d \in Editors : Sound(d)) /\ Len(log) \in Nat
    BY PagesSound, RepoTypeLog DEF IInv, RepoInv
  <1>2. /\ UNCHANGED <<scm, stray, log, head, cached, lock, req, published, pushes, failures>>
        /\ UNCHANGED <<handlers, timers, saves, indexings>>
        /\ branch' = [branch EXCEPT ![e] = Master]
        /\ page' = [page EXCEPT ![e] = "closed"] /\ sha' = [sha EXCEPT ![e] = None]
        /\ isSaved' = [isSaved EXCEPT ![e] = FALSE] /\ offered' = [offered EXCEPT ![e] = FALSE]
        /\ seen' = [seen EXCEPT ![e] = {}] /\ last' = [last EXCEPT ![e] = 0]
    BY DEF Closed, repoVars
  <1>3. Paged
    BY <1>1, <1>2, RepoStays DEF RepoTypeOK
  <1>4. PageTypes'
    BY <1>1, <1>2, PageAssumption, MasterAssumption DEF PageTypes, Pages, Commits, None, SaveIds
  <1>5. \A d \in Editors : d # e => SameFor(d)
    BY <1>1, <1>2 DEF PageTypes, SameFor
  <1>6. Sound(e)'
    <2>1. page'[e] = "closed" /\ sha'[e] = None /\ req'[e].step = "idle"
      BY <1>1, <1>2 DEF PageTypes, Sound
    <2> QED
      BY <2>1 DEF Sound
  <1> QED
    BY <1>3, <1>4, <1>5, <1>6, PageStepKeeps

(* Leaving it, or with a save under way, whose answer is still to come.    *)
LEMMA LeaveKeeps ==
  ASSUME IInv, NEW e \in Editors, Leave(e)
  PROVE  IInv'
  <1>1. CASE Closed(e) /\ page[e] \in {"editing", "indexing", "stuck"}
    BY <1>1, ClosedKeeps DEF Leave
  <1>2. CASE /\ page[e] = "saving" /\ page' = [page EXCEPT ![e] = "gone"]
             /\ UNCHANGED <<branch, sha, isSaved, seen, offered, last>>
    <2>1. RepoTypeOK /\ PageTypes /\ \A d \in Editors : Sound(d)
      BY PagesSound DEF IInv, RepoInv
    <2>2. /\ UNCHANGED <<scm, stray, log, head, cached, lock, req, published, pushes, failures>>
          /\ UNCHANGED <<handlers, timers, saves, indexings>>
      BY DEF Leave, repoVars
    <2>3. Paged
      BY <2>1, <2>2, RepoStays DEF RepoTypeOK
    <2>4. PageTypes'
      BY <1>2, <2>1, <2>2 DEF PageTypes, Pages, Commits, SaveIds
    <2>5. \A d \in Editors : d # e => SameFor(d)
      BY <1>2, <2>1, <2>2 DEF PageTypes, SameFor
    <2>6. Sound(e)'
      <3>1. page'[e] = "gone"
        BY <1>2, <2>1 DEF PageTypes
      <3> QED
        BY <1>2, <2>1, <2>2, <3>1 DEF Sound, Read, Blob
    <2> QED
      BY <2>3, <2>4, <2>5, <2>6, PageStepKeeps
  <1> QED
    BY <1>1, <1>2 DEF Leave

LEMMA RunFailsKeeps ==
  ASSUME IInv, NEW e \in Editors, RunFails(e)
  PROVE  IInv'
  <1>1. RepoTypeOK /\ PageTypes /\ (\A d \in Editors : Sound(d)) /\ Len(log) \in Nat
    BY PagesSound, RepoTypeLog DEF IInv, RepoInv
  <1>2. /\ UNCHANGED <<scm, stray, log, head, cached, lock, req, published, pushes,
                       branch, sha, isSaved, seen, offered, last, handlers, timers, saves, indexings>>
        /\ page[e] = "starting" /\ page' = [page EXCEPT ![e] = "editing"]
        /\ failures' \in 0..MaxFailures
    BY <1>1, BoundsAssumption DEF RunFails, RepoTypeOK
  <1>3. Paged
    BY <1>2, RepoStays
  <1>4. PageTypes'
    BY <1>1, <1>2 DEF PageTypes, Pages, Commits, SaveIds
  <1>5. \A d \in Editors : d # e => SameFor(d)
    BY <1>1, <1>2 DEF PageTypes, SameFor
  <1>6. Sound(e)'
    <2>1. page'[e] = "editing"
      BY <1>1, <1>2 DEF PageTypes
    <2> QED
      BY <1>1, <1>2, <2>1 DEF Sound, Read, Blob
  <1> QED
    BY <1>3, <1>4, <1>5, <1>6, PageStepKeeps

LEMMA IndexingSucceedsKeeps ==
  ASSUME IInv, IndexingSucceeds
  PROVE  IInv'
  <1> DEFINE left == {h[1] : h \in handlers}
             done == {e \in left : LeftBy(e) = "closed"}
  <1>1. RepoTypeOK /\ PageTypes /\ (\A d \in Editors : Sound(d)) /\ Len(log) \in Nat
    BY PagesSound, RepoTypeLog DEF IInv, RepoInv
  <1>2. /\ UNCHANGED <<scm, stray, log, head, cached, lock, req, published, pushes, failures>>
        /\ UNCHANGED saves
        /\ branch' = [e \in Editors |-> IF e \in done THEN Master ELSE branch[e]]
        /\ indexings < MaxIndexings /\ indexings' = indexings + 1
        /\ handlers' = {} /\ timers' = timers \ handlers
        /\ page' = [e \in Editors |-> IF e \in left THEN LeftBy(e) ELSE page[e]]
        /\ sha' = [e \in Editors |-> IF e \in done THEN None ELSE sha[e]]
        /\ isSaved' = [e \in Editors |-> e \notin done /\ isSaved[e]]
        /\ seen' = [e \in Editors |-> IF e \in done THEN {} ELSE seen[e]]
        /\ offered' = [e \in Editors |-> e \notin left /\ offered[e]]
        /\ last' = [e \in Editors |-> IF e \in done THEN 0 ELSE last[e]]
    BY DEF IndexingSucceeds, repoVars
  <1>3. \A e \in left : e \in done <=> page[e] \notin {"saving", "gone"}
    BY DEF LeftBy
  <1> HIDE DEF left, done
  <1>4. Paged
    BY <1>1, <1>2, RepoStays DEF RepoTypeOK
  <1>5. PageTypes'
    <2>1. page' \in [Editors -> Pages]
      <3>1. \A e \in Editors : LeftBy(e) \in Pages /\ page[e] \in Pages
        BY <1>1 DEF PageTypes, LeftBy, Pages
      <3> QED
        BY <1>2, <3>1
    <2>2. /\ sha' \in [Editors -> Commits] /\ seen' \in [Editors -> SUBSET Commits]
          /\ last' \in [Editors -> 0..MaxSaves] /\ branch' \in [Editors -> Branches]
      BY <1>1, <1>2, PageAssumption, MasterAssumption DEF PageTypes, Commits, None
    <2>3. isSaved' \in [Editors -> BOOLEAN] /\ offered' \in [Editors -> BOOLEAN]
      BY <1>2
    <2>4. handlers' \subseteq SaveIds /\ timers' \subseteq SaveIds
      BY <1>1, <1>2 DEF PageTypes
    <2>5. indexings' \in 0..MaxIndexings
      BY <1>1, <1>2, PageAssumption DEF PageTypes
    <2> QED
      BY <1>1, <1>2, <2>1, <2>2, <2>3, <2>4, <2>5 DEF PageTypes, Commits, SaveIds
  <1>6. ASSUME NEW d \in Editors
        PROVE  SameFor(d) \/ Sound(d)'
    <2>1. CASE d \notin left
      BY <1>1, <1>2, <2>1 DEF SameFor, done
    <2>2. CASE d \in left /\ d \in done
      <3>1. req'[d].step = "idle" /\ page'[d] = "closed" /\ sha'[d] = None
        BY <1>1, <1>2, <1>3, <2>2 DEF Sound, LeftBy
      <3> QED
        BY <3>1 DEF Sound
    <2>3. CASE d \in left /\ d \notin done
      <3>1. /\ page[d] \in {"saving", "gone"} /\ page'[d] = "gone" /\ req'[d] = req[d]
            /\ sha'[d] = sha[d] /\ seen'[d] = seen[d] /\ last'[d] = last[d]
        BY <1>2, <1>3, <2>3 DEF LeftBy
      <3> QED
        BY <1>1, <1>2, <3>1 DEF Sound, Read, Blob
    <2> QED
      BY <2>1, <2>2, <2>3
  <1> QED
    BY <1>4, <1>5, <1>6, PageStepKeeps

(* A step after which some pages that wait can be used again, or are stuck *)
(* in their dialog.                                                        *)
LEMMA PagesToldKeeps ==
  ASSUME IInv,
         UNCHANGED <<repoVars, branch, sha, isSaved, seen, offered, last, saves>>,
         page' \in [Editors -> Pages],
         \A e \in Editors : \/ page'[e] = page[e]
                            \/ /\ page[e] \in {"indexing", "stuck"}
                               /\ page'[e] \in {"editing", "stuck"},
         handlers' \subseteq handlers, timers' \subseteq timers,
         indexings' \in 0..MaxIndexings
  PROVE  IInv'
  <1>1. RepoTypeOK /\ PageTypes /\ (\A d \in Editors : Sound(d)) /\ Len(log) \in Nat
    BY PagesSound, RepoTypeLog DEF IInv, RepoInv
  <1>2. UNCHANGED <<scm, stray, log, head, cached, lock, req, published, pushes, failures>>
    BY DEF repoVars
  <1>3. Paged
    BY <1>1, <1>2, RepoStays DEF RepoTypeOK
  <1>4. PageTypes'
    BY <1>1, <1>2 DEF PageTypes, Commits, SaveIds
  <1>5. ASSUME NEW d \in Editors
        PROVE  Sound(d)'
    <2>1. Sound(d)
      BY <1>1
    <2>2. page'[d] \in {"saving", "gone"} <=> page[d] \in {"saving", "gone"}
      OBVIOUS
    <2> QED
      BY <1>2, <2>1, <2>2 DEF Sound, Read, Blob
  <1> QED
    BY <1>3, <1>4, <1>5, PageStepKeeps

LEMMA IndexingFailsKeeps ==
  ASSUME IInv, IndexingFails
  PROVE  IInv'
  <1>1. PageTypes
    BY PagesSound DEF IInv, RepoInv
  <1>2. /\ handlers' \subseteq handlers /\ timers' \subseteq timers
        /\ indexings' \in 0..MaxIndexings
    BY <1>1, PageAssumption DEF IndexingFails, PageTypes
  <1>3. \A e \in Editors : \/ page'[e] = page[e]
                           \/ page[e] \in {"indexing", "stuck"} /\ page'[e] = "editing"
    BY DEF IndexingFails
  <1>4. page' \in [Editors -> Pages]
    BY <1>1 DEF IndexingFails, PageTypes, Pages
  <1>5. UNCHANGED <<repoVars, branch, sha, isSaved, seen, offered, last, saves>>
    BY DEF IndexingFails
  <1> QED
    BY <1>2, <1>3, <1>4, <1>5, PagesToldKeeps

LEMMA TimerFiresKeeps ==
  ASSUME IInv, NEW s \in SaveIds, TimerFires(s)
  PROVE  IInv'
  <1>1. PageTypes
    BY PagesSound DEF IInv, RepoInv
  <1>2. /\ handlers' \subseteq handlers /\ timers' \subseteq timers
        /\ indexings' \in 0..MaxIndexings
    BY <1>1 DEF TimerFires, PageTypes
  <1>3. /\ page' \in [Editors -> Pages]
        /\ \A e \in Editors : \/ page'[e] = page[e]
                              \/ page[e] = "indexing" /\ page'[e] = "stuck"
    BY <1>1 DEF TimerFires, PageTypes, Pages
  <1>4. UNCHANGED <<repoVars, branch, sha, isSaved, seen, offered, last, saves>>
    BY DEF TimerFires
  <1> QED
    BY <1>2, <1>3, <1>4, PagesToldKeeps

LEMMA OthersKeep ==
  ASSUME IInv, Others
  PROVE  IInv'
  <1>1. RepoInv' /\ LogGrows
    BY PushKeeps DEF Others, IInv
  <1>2. UNCHANGED <<scm, stray, req, page, branch, sha, isSaved, seen, offered, last,
                    handlers, timers, saves, indexings>>
    BY DEF Others, Push, pageVars
  <1>3. RepoTypeOK /\ RepoTypeOK' /\ PageTypes /\ \A d \in Editors : Sound(d)
    BY <1>1, PagesSound DEF IInv, RepoInv
  <1>4. PageTypes'
    BY <1>1, <1>2, <1>3 DEF PageTypes, Commits, LogGrows, SaveIds
  <1>5. ASSUME NEW d \in Editors
        PROVE  Sound(d)'
    <2>1. sha[d] \in Commits /\ req[d].sha \in Commits
      BY <1>3 DEF PageTypes, IInv, RepoInv, ReqInLog, RepoTypeOK, Request, Commits
    <2>2. /\ Read(d, sha[d]) => Read(d, sha[d])'
          /\ Read(d, req[d].sha) => Read(d, req[d].sha)'
      BY <1>1, <1>2, <2>1 DEF Read, Blob, LogGrows, Commits, None
    <2> QED
      BY <1>2, <1>3, <2>2 DEF Sound
  <1> QED
    BY <1>1, <1>3, <1>4, <1>5
    DEF IInv, PageInv, TypeOK, PageTypes, Commits, ShaRead, GivenShaRead, SavesNumbered, Sound

-----------------------------------------------------------------------------
(* The invariant.                                                          *)

(* IInv is inductive: it holds at the start, and every step keeps it.      *)
LEMMA InitHolds ==
  Init => IInv
  <1> SUFFICES ASSUME Init
               PROVE  IInv
    OBVIOUS
  <1>1. PICK b \in {None, 1} : log = <<[past |-> {1}, blob |-> b]>>
    BY DEF Init, RepoInit
  <1>2. /\ Len(log) = 1 /\ log[1].past = {1} /\ log[1].blob \in {0, 1}
        /\ log \in Seq([past: SUBSET Nat, blob: Nat])
    BY <1>1 DEF None
  <1>3. /\ head \in [Branches -> 0..1] /\ cached = head /\ lock = Nobody
        /\ req = [e \in Editors |-> Idle] /\ published = {1} /\ stray = {} /\ scm \in Scms
        /\ pushes = 0 /\ failures = 0
    BY DEF Init, RepoInit, None
  <1>4. Idle \in Request
    BY MasterAssumption DEF Idle, Request, SaveSteps, None
  <1>5. /\ Idle.step = "idle" /\ Idle.sha = 0 /\ Idle.base = 0
        /\ Idle.fetched = 0 /\ Idle.made = 0
    BY DEF Idle, None
  <1>6. RepoTypeOK
    BY <1>2, <1>3, <1>4, BoundsAssumption DEF RepoTypeOK
  <1>7. RepoInv
    <2>1. ReqInLog /\ CommitsHeld /\ CreatesFromBase
      BY <1>2, <1>3, <1>5 DEF ReqInLog, CommitsHeld, CreatesFromBase
    <2>2. HeadsPublished /\ CachePublished
      BY <1>2, <1>3 DEF HeadsPublished, CachePublished, Past, None
    <2> QED
      BY <1>6, <2>1, <2>2 DEF RepoInv
  <1>8. PageTypes
    BY <1>2, MasterAssumption, PageAssumption DEF Init, PageTypes, Pages, Commits, None
  <1>9. \A e \in Editors : Sound(e)
    BY <1>3, <1>5 DEF Init, Sound
  <1> QED
    BY <1>6, <1>7, <1>8, <1>9, PagesSound DEF IInv

LEMMA Unchanging ==
  ASSUME IInv, UNCHANGED vars
  PROVE  IInv'
  <1>1. UNCHANGED <<scm, stray, log, head, cached, lock, req, published, pushes, failures, page, branch,
                    sha, isSaved, seen, offered, last, handlers, timers, saves, indexings>>
    BY DEF vars, repoVars, pageVars
  <1>2. RepoTypeOK /\ PageTypes
    BY PagesSound DEF IInv, RepoInv
  <1>3. Paged
    BY <1>1, <1>2 DEF Paged, RepoTypeOK
  <1>4. PageTypes'
    BY <1>1, <1>2 DEF PageTypes, Commits, SaveIds
  <1>5. \A e \in Editors : SameFor(e)
    BY <1>1 DEF SameFor
  <1> QED
    BY <1>3, <1>4, <1>5, PageStepKeeps

LEMMA NextKeeps ==
  ASSUME IInv, [Next]_vars
  PROVE  IInv'
  <1>1. CASE \E e \in Editors : Server(e)
    <2>1. PICK e \in Editors : Server(e)
      BY <1>1
    <2>2. RepoInv' /\ Worked(e)
      BY <2>1, SaveStepKeeps DEF Server, IInv, PageInv, GivenShaRead
    <2>3. PageInv'
      BY <2>1, <2>2, ServerKeepsPage DEF Server, IInv
    <2> QED
      BY <2>2, <2>3 DEF IInv
  <1>2. CASE \E e \in Editors : Answer(e)
    <2>1. PICK e \in Editors : Answer(e)
      BY <1>2
    <2>2. CASE RunStarted(e)
      BY <2>2, ClosedKeeps DEF RunStarted
    <2>3. CASE ScriptConverted(e) \/ ConversionFails(e)
      BY <2>3, ScriptConvertedKeeps, ConversionFailsKeeps
    <2>4. CASE SaveSucceeds(e) \/ SaveFails(e) \/ AnsweredLate(e) \/ RunFails(e)
      BY <2>4, SaveSucceedsKeeps, SaveFailsKeeps, AnsweredLateKeeps, RunFailsKeeps
    <2> QED
      BY <2>1, <2>2, <2>3, <2>4 DEF Answer
  <1>3. CASE \E e \in Editors, b \in Branches : Open(e, b) \/ Save(e, b)
    BY <1>3, OpenKeeps, SaveKeeps
  <1>4. CASE \E e \in Editors : OverwriteChanges(e) \/ DiscardChanges(e) \/ Leave(e)
    BY <1>4, OverwriteChangesKeeps, DiscardChangesKeeps, LeaveKeeps
  <1>5. CASE (\E s \in SaveIds : TimerFires(s)) \/ IndexingSucceeds \/ IndexingFails
    BY <1>5, TimerFiresKeeps, IndexingSucceedsKeeps, IndexingFailsKeeps
  <1>6. CASE Others
    BY <1>6, OthersKeep
  <1>7. CASE UNCHANGED vars
    BY <1>7, Unchanging
  <1> QED
    BY <1>1, <1>2, <1>3, <1>4, <1>5, <1>6, <1>7 DEF Next

LEMMA Invariant ==
  Spec => []IInv
  BY InitHolds, NextKeeps, PTL DEF Spec

-----------------------------------------------------------------------------
(* The theorems.                                                           *)

(* Types, and what goes with them: every commit that a branch, the clone   *)
(* or a request names is in the log, its history holds itself and only     *)
(* earlier ones, and a page waits for a save exactly while its request is  *)
(* under way (EditorPage.jsx, AbstractScmContentProvider.java).            *)
THEOREM TypeCorrect ==
  Spec => []TypeOK
  <1>1. IInv => TypeOK
    BY DEF IInv, PageInv
  <1> QED
    BY Invariant, <1>1, PTL

(* Whatever fails and in whatever order saves, reads and pushes come,      *)
(* between saves the cached clone holds only what was on a branch: the     *)
(* roll back takes every commit of a save out of it again                  *)
(* (GitBareRepoReadSaveRequest.save).                                      *)
THEOREM CacheHolds ==
  Spec => []CacheOnlyPublished
  <1>1. IInv => CacheOnlyPublished
    BY NobodyAssumption DEF IInv, RepoInv, CachePublished, CacheOnlyPublished
  <1> QED
    BY Invariant, <1>1, PTL

(* A branch that starts, or gets a commit on top of its head.              *)
LEMMA CommittedOnTop ==
  ASSUME RepoTypeOK, NEW b \in Branches, NEW parent \in Commits, NEW blob \in 0..NewCommit,
         Extended(parent, blob), SetHead(b, NewCommit), head[b] \in {None, parent}
  PROVE  HistoryKept
  <1>1. LogOK /\ Len(log) \in Nat /\ log'[NewCommit].past = Past(parent) \cup {NewCommit}
    BY RepoTypeLog, LogExtended
  <1>2. parent # None => parent \in Past(parent)
    BY <1>1 DEF LogOK, Past, Commits, None
  <1>3. head' = [head EXCEPT ![b] = NewCommit] /\ head \in [Branches -> 0..Len(log)]
    BY DEF SetHead, RepoTypeOK
  <1> QED
    BY <1>1, <1>2, <1>3 DEF HistoryKept

LEMMA ForcedPush ==
  ASSUME RepoInv, NEW e \in Editors, GitPush(e) \/ GitPushFails(e)
  PROVE  HistoryKept
  <1>1. /\ RepoTypeOK /\ scm = "git" /\ req[e].step = "committed" /\ UNCHANGED log
        /\ Committed(e)
    BY DEF GitPush, GitPushFails, RepoInv, CommitsHeld
  <1>2. CASE UNCHANGED head
    BY <1>2 DEF HistoryKept
  <1>3. CASE SetHead(req[e].target, cached[req[e].source])
    <2> SUFFICES ASSUME NEW b \in Branches, head'[b] # head[b], head[b] # None, ~ForcedOver(b)
                 PROVE  head[b] \in log'[head'[b]].past
      BY DEF HistoryKept
    <2>1. b = req[e].target /\ head'[b] = req[e].made /\ req[e].made # None
      BY <1>1, <1>3 DEF SetHead, RepoTypeOK, Committed
    <2>2. req[e].source = b /\ req[e].fetched = head[b]
      BY <1>1, <2>1 DEF ForcedOver
    <2> QED
      BY <1>1, <2>1, <2>2 DEF Committed, Past
  <1> QED
    BY <1>2, <1>3 DEF GitPush, GitPushFails

LEMMA HistoryStep ==
  ASSUME IInv, [Next]_vars
  PROVE  HistoryKept
  <1>1. /\ RepoInv /\ RepoTypeOK /\ Len(log) \in Nat /\ NewCommit \in 0..NewCommit
        /\ (\A b \in Branches : head[b] \in Commits) /\ Master \in Branches
        /\ \A e \in Editors : /\ req[e].target \in Branches /\ req[e].source \in Branches
                              /\ req[e].sha \in Commits
    <2>1. RepoInv /\ RepoTypeOK /\ Len(log) \in Nat /\ Master \in Branches
      BY RepoTypeLog, MasterAssumption DEF IInv, RepoInv
    <2>2. ASSUME NEW e \in Editors
          PROVE  /\ req[e].target \in Branches /\ req[e].source \in Branches
                 /\ req[e].sha \in Commits
      <3>1. req[e] \in Request /\ req[e].sha <= Len(log)
        BY <2>1 DEF RepoInv, RepoTypeOK, ReqInLog
      <3> QED
        BY <3>1 DEF Request, Commits
    <2>3. (\A b \in Branches : head[b] \in Commits) /\ NewCommit \in 0..NewCommit
      BY <2>1 DEF RepoTypeOK, Commits, NewCommit
    <2> QED
      BY <2>1, <2>2, <2>3
  <1>2. CASE UNCHANGED head
    BY <1>2 DEF HistoryKept
  <1>3. ASSUME NEW b \in Branches, NEW parent \in Commits, CommitOn(parent),
               SetHead(b, NewCommit), head[b] \in {None, parent}
        PROVE  HistoryKept
    BY <1>1, <1>3, CommittedOnTop DEF CommitOn, Extended
  <1>4. CASE \E e \in Editors : Server(e)
    <2>1. PICK e \in Editors : SaveStep(e)
      BY <1>4 DEF Server
    <2>2. CASE GitPush(e) \/ GitPushFails(e)
      BY <1>1, <2>2, ForcedPush
    <2>3. CASE GithubCreateBranch(e)
      <3>1. (head[req[e].target] = None /\ SetHead(req[e].target, req[e].base)) \/ UNCHANGED head
        BY <2>3 DEF GithubCreateBranch
      <3> QED
        BY <1>1, <1>2, <3>1 DEF HistoryKept, SetHead, RepoTypeOK
    <2>4. CASE GithubPut(e)
      BY <1>1, <1>2, <1>3, <2>4 DEF GithubPut
    <2>5. CASE BitbucketServerPut(e)
      BY <1>1, <1>2, <1>3, <2>5 DEF BitbucketServerPut
    <2>6. CASE BitbucketCloudPost(e)
      BY <1>1, <1>2, <1>3, <2>6 DEF BitbucketCloudPost
    <2>7. GitOpen(e) \/ GitCommit(e) \/ GitFetchFails(e) \/ GithubFindBranch(e) \/ GithubLookup(e)
            => UNCHANGED head
      BY DEF GitOpen, GitCommit, GitFetchFails, GithubFindBranch, GithubLookup
    <2> QED
      BY <1>2, <2>1, <2>2, <2>3, <2>4, <2>5, <2>6, <2>7 DEF SaveStep
  <1>5. CASE Others
    <2>1. PICK b, from \in Branches, touches \in BOOLEAN : Push(b, from, touches)
      BY <1>5 DEF Others
    <2> DEFINE blob == IF touches THEN NewCommit ELSE Blob(head[from])
    <2>2. /\ Extended(head[from], blob) /\ SetHead(b, NewCommit)
          /\ head[b] = None \/ b = from
      BY <2>1 DEF Push, Extended
    <2>3. blob \in 0..NewCommit
      <3>1. ASSUME NEW c \in 1..Len(log)
            PROVE  log[c].blob \in Nat /\ log[c].blob <= c
        <4>1. LogOK /\ log[c] \in Commit
          BY <1>1, RepoTypeLog, ElementOfSeq DEF LogOK
        <4> QED
          BY <4>1 DEF LogOK, Commit
      <3>2. head[from] \in Commits
        BY <1>1
      <3> QED
        BY <1>1, <3>1, <3>2 DEF NewCommit, Blob, None, Commits
    <2> HIDE DEF blob
    <2> QED
      BY <1>1, <2>2, <2>3, CommittedOnTop
  <1>6. UNCHANGED head \/ Others \/ \E e \in Editors : Server(e)
    <2>1. ASSUME NEW e \in Editors, Answer(e) \/ Leave(e)
          PROVE  UNCHANGED head
      <3>1. ScriptConverted(e) \/ ConversionFails(e) => UNCHANGED head
        BY DEF ScriptConverted, ConversionFails
      <3>2. SaveSucceeds(e) \/ SaveFails(e) \/ AnsweredLate(e) => UNCHANGED head
        BY DEF SaveSucceeds, SaveFails, AnsweredLate
      <3>3. RunStarted(e) \/ RunFails(e) \/ Leave(e) => UNCHANGED head
        BY DEF RunStarted, RunFails, Leave, repoVars
      <3> QED
        BY <2>1, <3>1, <3>2, <3>3 DEF Answer
    <2>2. ASSUME NEW e \in Editors,
                 OverwriteChanges(e) \/ DiscardChanges(e) \/ \E b \in Branches : Open(e, b) \/ Save(e, b)
          PROVE  UNCHANGED head
      BY <2>2 DEF Open, Save, OverwriteChanges, DiscardChanges
    <2>3. ASSUME (\E s \in SaveIds : TimerFires(s)) \/ IndexingSucceeds \/ IndexingFails
          PROVE  UNCHANGED head
      BY <2>3 DEF TimerFires, IndexingSucceeds, IndexingFails, repoVars
    <2>4. UNCHANGED vars => UNCHANGED head
      BY DEF vars, repoVars
    <2> QED
      BY <2>1, <2>2, <2>3, <2>4 DEF Next
  <1> QED
    BY <1>2, <1>4, <1>5, <1>6

(* A branch only ever grows: what was its head stays in its history,       *)
(* unless git's forced push puts another branch there, or replaces what    *)
(* was pushed after the save had fetched (GitUtils.push).                  *)
THEOREM BranchesKeptHolds ==
  Spec => BranchesKept
  BY Invariant, HistoryStep, PTL DEF Spec, BranchesKept

(* The commit that a step of the server makes.                             *)
LEMMA ServerReplacesSeen ==
  ASSUME IInv, NEW e \in Editors, SaveStep(e), req'[e].made \notin {None, req[e].made},
         req[e].given, scm # "git", head[req[e].target] # None
  PROVE  Blob(head[req[e].target]) \in seen[e]
  <1>1. RepoTypeOK /\ Sound(e) /\ req[e] \in Request
    BY PagesSound DEF IInv, RepoInv, RepoTypeOK
  <1>2. ASSUME NEW step \in SaveSteps, Goto(e, step)
        PROVE  FALSE
    BY <1>1, <1>2, GotoMoves DEF MovedOn
  <1>3. CASE GithubPut(e)
    <2>1. Blob(head[req[e].target]) = req[e].sha
      BY <1>2, <1>3 DEF GithubPut, SaveSteps
    <2> QED
      BY <1>1, <1>3, <2>1 DEF GithubPut, Sound, Read
  <1>4. CASE BitbucketServerPut(e)
    <2>1. Blob(head[req[e].target]) = Blob(req[e].sha)
      BY <1>2, <1>4 DEF BitbucketServerPut, SaveSteps
    <2> QED
      BY <1>1, <1>4, <2>1 DEF BitbucketServerPut, Sound, Read
  <1>5. CASE BitbucketCloudPost(e)
    <2>1. head[req[e].target] = req[e].sha
      BY <1>2, <1>5 DEF BitbucketCloudPost, SaveSteps
    <2> QED
      BY <1>1, <1>5, <2>1 DEF BitbucketCloudPost, Sound, Read
  <1>6. GithubFindBranch(e) \/ GithubCreateBranch(e) \/ GithubLookup(e) => req'[e].made = req[e].made
    <2>1. GithubFindBranch(e) => req'[e].made = req[e].made
      BY <1>1, <1>2 DEF GithubFindBranch, RepoTypeOK, Request, SaveSteps
    <2>2. GithubLookup(e) => req'[e].made = req[e].made
      BY <1>1 DEF GithubLookup, RepoTypeOK, Request
    <2>3. GithubCreateBranch(e) => req'[e].made = req[e].made
      BY <1>1, <1>2 DEF GithubCreateBranch, SaveSteps
    <2> QED
      BY <2>1, <2>2, <2>3
  <1> QED
    BY <1>3, <1>4, <1>5, <1>6
    DEF SaveStep, GitOpen, GitCommit, GitFetchFails, GitPush, GitPushFails

(* The page makes no commit.                                               *)
LEMMA PageMakesNone ==
  ASSUME IInv, [Next]_vars, \A e \in Editors : ~Server(e), NEW d \in Editors
  PROVE  req'[d].made \in {None, req[d].made}
  <1>1. RepoTypeOK /\ PageTypes /\ req[d] \in Request
    BY PagesSound DEF IInv, RepoInv, RepoTypeOK
  <1>2. ASSUME NEW e \in Editors, NEW step \in SaveSteps, Goto(e, step)
        PROVE  req'[d].made = req[d].made
    BY <1>1, <1>2, GotoMoves DEF MovedOn, OthersStay
  <1>3. ASSUME NEW e \in Editors, NEW to, Converts(e, to)
        PROVE  req'[d].made \in {None, req[d].made}
    <2> DEFINE r == [Idle EXCEPT !.step = "converting", !.source = branch[e], !.target = to]
    <2>1. req' = [req EXCEPT ![e] = r]
      BY <1>3 DEF Converts
    <2>2. r.made = None
      BY DEF Idle
    <2> HIDE DEF r
    <2> QED
      BY <1>1, <2>1, <2>2 DEF RepoTypeOK
  <1>4. ASSUME NEW e \in Editors, NEW b \in Branches, Open(e, b) \/ Save(e, b)
        PROVE  req'[d].made \in {None, req[d].made}
    <2>1. CASE Open(e, b)
      BY <2>1 DEF Open
    <2>2. CASE Save(e, b)
      BY <1>3, <2>2 DEF Save
    <2> QED
      BY <1>4, <2>1, <2>2
  <1>5. ASSUME NEW e \in Editors, OverwriteChanges(e) \/ DiscardChanges(e) \/ Leave(e)
        PROVE  req'[d].made \in {None, req[d].made}
    <2>1. CASE OverwriteChanges(e)
      BY <1>3, <2>1 DEF OverwriteChanges
    <2>2. CASE DiscardChanges(e) \/ Leave(e)
      BY <2>2 DEF DiscardChanges, Leave, repoVars
    <2> QED
      BY <1>5, <2>1, <2>2
  <1>6. ASSUME NEW e \in Editors, Answer(e)
        PROVE  req'[d].made \in {None, req[d].made}
    <2>1. ASSUME Answered(e)
          PROVE  req'[d].made \in {None, req[d].made}
      <3>1. req' = [req EXCEPT ![e] = Idle] /\ Idle.made = None
        BY <2>1 DEF Answered, Idle
      <3> HIDE DEF Idle
      <3> QED
        BY <1>1, <3>1 DEF RepoTypeOK
    <2>2. CASE SaveSucceeds(e) \/ SaveFails(e) \/ AnsweredLate(e)
      BY <2>1, <2>2 DEF SaveSucceeds, SaveFails, AnsweredLate
    <2>3. CASE RunStarted(e) \/ RunFails(e)
      BY <2>3 DEF RunStarted, RunFails, repoVars
    <2>4. CASE ConversionFails(e)
      <3>1. Goto(e, "failed") \/ Answered(e)
        BY <2>4 DEF ConversionFails
      <3>2. "failed" \in SaveSteps
        BY DEF SaveSteps
      <3> QED
        BY <1>2, <2>1, <3>1, <3>2
    <2>5. CASE ScriptConverted(e)
      <3> DEFINE r == [req[e] EXCEPT !.step = "sent", !.sha = sha[e], !.given = sha[e] # None]
      <3>1. /\ req' = [req EXCEPT ![e] = r]
            /\ e = d => r.made = req[d].made
        BY <1>1, <2>5 DEF ScriptConverted, Request
      <3> HIDE DEF r
      <3>2. DOMAIN req = Editors
        BY <1>1 DEF RepoTypeOK
      <3>3. req'[d] = IF e = d THEN r ELSE req[d]
        BY <3>1, <3>2
      <3> QED
        BY <3>1, <3>3
    <2> QED
      BY <1>6, <2>2, <2>3, <2>4, <2>5 DEF Answer
  <1>7. (\E s \in SaveIds : TimerFires(s)) \/ IndexingSucceeds \/ IndexingFails => UNCHANGED req
    BY DEF TimerFires, IndexingSucceeds, IndexingFails, repoVars
  <1>8. Others \/ UNCHANGED vars => UNCHANGED req
    BY DEF Others, Push, vars, repoVars
  <1> QED
    BY <1>4, <1>5, <1>6, <1>7, <1>8 DEF Next

LEMMA OverwriteStep ==
  ASSUME IInv, [Next]_vars
  PROVE  ReplacesOnlySeen
  <1> SUFFICES ASSUME NEW d \in Editors, req'[d].made \notin {None, req[d].made},
                      req[d].given, scm # "git", head[req[d].target] # None
               PROVE  Blob(head[req[d].target]) \in seen[d]
    BY DEF ReplacesOnlySeen
  <1>1. PICK e \in Editors : Server(e)
    BY PageMakesNone
  <1>2. Worked(e)
    BY <1>1, SaveStepKeeps DEF Server, IInv, PageInv, GivenShaRead
  <1>3. d = e
    BY <1>2 DEF Worked, OthersStay
  <1> QED
    BY <1>1, <1>3, ServerReplacesSeen DEF Server

(* With GitHub and Bitbucket, however pages, saves and other people's      *)
(* pushes interleave, a save that names the sha it has read replaces only  *)
(* content that its user has read: the sha in the state, the one of the    *)
(* request and the one the server compares with stand for the same content *)
(* (EditorPage.jsx:645, GithubScmSaveFileRequest.save, BitbucketCloudApi). *)
THEOREM OverwritesSeenHolds ==
  Spec => OverwritesSeen
  BY Invariant, OverwriteStep, PTL DEF Spec, OverwritesSeen

-----------------------------------------------------------------------------
(* The editor in the page.                                                 *)

(* The fields of a pipeline, whatever they hold.                           *)
Shape == DOMAIN EmptyPipeline

(* A sequence, whatever its elements are.                                  *)
IsList(s) == Len(s) \in Nat /\ s = [i \in 1..Len(s) |-> s[i]]

IsObject(o) == DOMAIN o = {"tree", "errors"} /\ DOMAIN o.tree = Shape

(* The objects of pipelines, and what refers to them.                      *)
PipesHeld(ps) == IsList(ps) /\ \A r \in 1..Len(ps) : IsObject(ps[r])
ChecksHeld(cs, n) == IsList(cs) /\ \A i \in 1..Len(cs) : cs[i].pipe \in 1..n

ObjectsHeld ==
  PipesHeld(pipes) /\ store \in 0..Len(pipes) /\ ChecksHeld(checks, Len(pipes))

(* The save dialog is on a page with a pipeline.                           *)
DialogShown == dialog # "closed" => Shown

(* What is being saved is what the store holds.                            *)
SavedHeld == dialog = "saving" /\ ~swapped => body = Json(Current)

(* What is not known to be modified is what the Jenkinsfile holds, but     *)
(* for a change that was not told.                                         *)
Known ==
  synced # Nothing /\ ~swapped =>
    /\ Shown
    /\ ~pipelineIsModified => lastPipeline = synced
    /\ ~pipelineIsModified /\ ~quiet => lastPipeline = Json(Current)

(* The inductive invariant of Editor.                                      *)
EditorInv == ObjectsHeld /\ DialogShown /\ SavedHeld /\ Known

-----------------------------------------------------------------------------
(* Lists are sequences of their elements, and sequences are lists.         *)
LEMMA ListIsSeq ==
  ASSUME NEW s, IsList(s)
  PROVE  s \in Seq({s[i] : i \in 1..Len(s)}) /\ DOMAIN s = 1..Len(s)
  <1> DEFINE S == {s[i] : i \in 1..Len(s)}
  <1>1. \A i \in 1..Len(s) : s[i] \in S
    OBVIOUS
  <1>2. s \in [1..Len(s) -> S]
    <2> HIDE DEF S
    <2>1. [i \in 1..Len(s) |-> s[i]] \in [1..Len(s) -> S]
      BY <1>1
    <2> QED
      BY <2>1, Zenon DEF IsList
  <1> HIDE DEF S
  <1>3. s \in Seq(S)
    BY <1>2, SeqDef DEF IsList
  <1> QED
    BY <1>2, <1>3 DEF S

LEMMA SeqIsList ==
  ASSUME NEW S, NEW s \in Seq(S)
  PROVE  IsList(s)
  <1>1. Len(s) \in Nat /\ s \in [1..Len(s) -> S]
    BY LenProperties
  <1> QED
    BY <1>1, Zenon DEF IsList

(* One more element.                                                       *)
LEMMA AppendList ==
  ASSUME NEW s, IsList(s), NEW e
  PROVE  /\ IsList(Append(s, e)) /\ Len(Append(s, e)) = Len(s) + 1
         /\ \A i \in 1..Len(s) : Append(s, e)[i] = s[i]
         /\ Append(s, e)[Len(s) + 1] = e
  <1> DEFINE S == {s[i] : i \in 1..Len(s)} \cup {e}
  <1>1. s \in Seq(S)
    <2> DEFINE T == {s[k] : k \in 1..Len(s)}
    <2>1. T \subseteq S
      OBVIOUS
    <2>2. s \in Seq(T)
      BY ListIsSeq
    <2> HIDE DEF S, T
    <2> QED
      BY <2>1, <2>2, SeqMonotonic
  <1>2. e \in S
    OBVIOUS
  <1> HIDE DEF S
  <1>3. Append(s, e) \in Seq(S)
    BY <1>1, <1>2, AppendProperties
  <1>4. IsList(Append(s, e))
    BY <1>3, SeqIsList
  <1> QED
    BY <1>1, <1>2, <1>4, AppendProperties

(* One element less.                                                       *)
LEMMA ListWithout ==
  ASSUME NEW s, IsList(s), NEW i \in 1..Len(s)
  PROVE  /\ IsList(RemoveAt(s, i)) /\ Len(RemoveAt(s, i)) = Len(s) - 1
         /\ \A j \in 1..(Len(s) - 1) :
              RemoveAt(s, i)[j] = IF j < i THEN s[j] ELSE s[j + 1]
  <1> DEFINE S == {s[k] : k \in 1..Len(s)}
  <1>1. s \in Seq(S)
    BY ListIsSeq
  <1> HIDE DEF S
  <1>2. /\ RemoveAt(s, i) \in Seq(S) /\ Len(RemoveAt(s, i)) = Len(s) - 1
        /\ \A j \in 1..(Len(s) - 1) :
              RemoveAt(s, i)[j] = IF j < i THEN s[j] ELSE s[j + 1]
    BY <1>1, WithoutPlace DEF RemoveAt
  <1> QED
    BY <1>2, SeqIsList

(* Another element in the place of one.                                    *)
LEMMA ReplacedInList ==
  ASSUME NEW s, IsList(s), NEW i \in 1..Len(s), NEW e
  PROVE  /\ IsList([s EXCEPT ![i] = e]) /\ Len([s EXCEPT ![i] = e]) = Len(s)
         /\ \A j \in 1..Len(s) : [s EXCEPT ![i] = e][j] = IF j = i THEN e ELSE s[j]
  <1> DEFINE S == {s[k] : k \in 1..Len(s)} \cup {e}
  <1>1. s \in Seq(S)
    <2> DEFINE T == {s[k] : k \in 1..Len(s)}
    <2>1. T \subseteq S
      OBVIOUS
    <2>2. s \in Seq(T)
      BY ListIsSeq
    <2> HIDE DEF S, T
    <2> QED
      BY <2>1, <2>2, SeqMonotonic
  <1>2. e \in S
    OBVIOUS
  <1> HIDE DEF S
  <1>3. [s EXCEPT ![i] = e] \in Seq(S)
    BY <1>1, <1>2, ExceptSeq
  <1>4. IsList([s EXCEPT ![i] = e])
    BY <1>3, SeqIsList
  <1> QED
    BY <1>1, <1>2, <1>4, ExceptSeq

-----------------------------------------------------------------------------
(* The same of the pipeline objects: a new one, one with another tree,     *)
(* and one with other errors.                                              *)
LEMMA NewObject ==
  ASSUME PipesHeld(pipes), NEW p, DOMAIN p = Shape
  PROVE  LET ps == Append(pipes, [tree |-> p, errors |-> FALSE])
         IN /\ PipesHeld(ps) /\ Len(ps) = Len(pipes) + 1
            /\ ps[Len(pipes) + 1].tree = p
  <1> DEFINE o == [tree |-> p, errors |-> FALSE]
             ps == Append(pipes, o)
  <1>1. IsObject(o) /\ o.tree = p
    BY DEF IsObject
  <1> HIDE DEF o
  <1>2. /\ IsList(ps) /\ Len(ps) = Len(pipes) + 1
        /\ \A i \in 1..Len(pipes) : ps[i] = pipes[i]
        /\ ps[Len(pipes) + 1] = o
    BY AppendList DEF PipesHeld
  <1>3. Len(pipes) \in Nat
    BY DEF PipesHeld, IsList
  <1> HIDE DEF ps
  <1>4. ASSUME NEW r \in 1..Len(ps) PROVE IsObject(ps[r])
    <2>1. r \in 1..Len(pipes) \/ r = Len(pipes) + 1
      BY <1>2, <1>3
    <2> QED
      BY <1>1, <1>2, <2>1 DEF PipesHeld
  <1> QED
    BY <1>1, <1>2, <1>4 DEF PipesHeld, ps, o

LEMMA ChangedObject ==
  ASSUME PipesHeld(pipes), NEW r \in 1..Len(pipes), NEW p, DOMAIN p = Shape
  PROVE  LET ps == [pipes EXCEPT ![r].tree = p]
         IN /\ PipesHeld(ps) /\ Len(ps) = Len(pipes)
            /\ ps[r].tree = p
  <1> DEFINE o == [pipes[r] EXCEPT !.tree = p]
             ps == [pipes EXCEPT ![r] = o]
  <1>1. IsObject(o) /\ o.tree = p
    BY DEF IsObject, PipesHeld
  <1> HIDE DEF o
  <1>2. /\ IsList(ps) /\ Len(ps) = Len(pipes)
        /\ \A j \in 1..Len(pipes) : ps[j] = IF j = r THEN o ELSE pipes[j]
    <2>1. IsList(pipes)
      BY DEF PipesHeld
    <2>2. /\ IsList([pipes EXCEPT ![r] = o])
          /\ Len([pipes EXCEPT ![r] = o]) = Len(pipes)
      BY <2>1, ReplacedInList
    <2>3. \A j \in 1..Len(pipes) : [pipes EXCEPT ![r] = o][j] = IF j = r THEN o ELSE pipes[j]
      BY <2>1, ReplacedInList
    <2> QED
      BY <2>2, <2>3
  <1> HIDE DEF ps
  <1>3. \A j \in 1..Len(ps) : IsObject(ps[j])
    BY <1>1, <1>2 DEF PipesHeld
  <1> QED
    BY <1>1, <1>2, <1>3 DEF PipesHeld, ps, o

LEMMA MarkedObject ==
  ASSUME PipesHeld(pipes), NEW r \in 1..Len(pipes), NEW e
  PROVE  LET ps == [pipes EXCEPT ![r].errors = e]
         IN /\ PipesHeld(ps) /\ Len(ps) = Len(pipes)
            /\ \A j \in 1..Len(pipes) : ps[j].tree = pipes[j].tree
  <1> DEFINE o == [pipes[r] EXCEPT !.errors = e]
             ps == [pipes EXCEPT ![r] = o]
  <1>1. IsObject(o) /\ o.tree = pipes[r].tree
    BY DEF IsObject, PipesHeld
  <1> HIDE DEF o
  <1>2. /\ IsList(ps) /\ Len(ps) = Len(pipes)
        /\ \A j \in 1..Len(pipes) : ps[j] = IF j = r THEN o ELSE pipes[j]
    <2>1. IsList(pipes)
      BY DEF PipesHeld
    <2>2. /\ IsList([pipes EXCEPT ![r] = o])
          /\ Len([pipes EXCEPT ![r] = o]) = Len(pipes)
      BY <2>1, ReplacedInList
    <2>3. \A j \in 1..Len(pipes) : [pipes EXCEPT ![r] = o][j] = IF j = r THEN o ELSE pipes[j]
      BY <2>1, ReplacedInList
    <2> QED
      BY <2>2, <2>3
  <1> HIDE DEF ps
  <1>3. \A j \in 1..Len(ps) : IsObject(ps[j])
    BY <1>1, <1>2 DEF PipesHeld
  <1>4. \A j \in 1..Len(pipes) : ps[j].tree = pipes[j].tree
    BY <1>1, <1>2
  <1> QED
    BY <1>2, <1>3, <1>4 DEF PipesHeld, ps, o

(* What the server is sent does not depend on the marks of pristine        *)
(* steps.                                                                  *)
LEMMA CleanedSame ==
  ASSUME NEW p, NEW S, DOMAIN p = Shape
  PROVE  Json(CleanPristine(p, S)) = Json(p) /\ DOMAIN CleanPristine(p, S) = Shape
  <1> DEFINE q == CleanPristine(p, S)
  <1>1. /\ DOMAIN q = Shape
        /\ q.branches = p.branches /\ q.steps = p.steps /\ q.settings = p.settings
    BY DEF CleanPristine, Shape, EmptyPipeline
  <1> HIDE DEF q
  <1>2. Stages(q) = Stages(p)
    BY <1>1, Zenon DEF Stages
  <1>3. Steps(q) = Steps(p)
    BY <1>1, <1>2, Zenon DEF Steps, Inside
  <1>4. \A n : Childless(q, n) <=> Childless(p, n)
    BY <1>1, Zenon DEF Childless
  <1>5. Json(q) = Json(p)
    BY <1>1, <1>2, <1>3, <1>4 DEF Json
  <1> QED
    BY <1>1, <1>5 DEF q

(* A validation is of an object there is.                                  *)
LEMMA ValidateKeeps ==
  ASSUME ChecksHeld(checks, Len(pipes)), NEW r \in 1..Len(pipes), NEW p, NEW d,
         ValidateFor(r, p, d)
  PROVE  ChecksHeld(checks', Len(pipes))
  <1>1. CASE UNCHANGED checks
    BY <1>1
  <1>2. CASE checks' = Append(checks, [pipe |-> r, valid |-> Valid(p), dialog |-> d, page |-> pageNumber])
    <2> DEFINE c == [pipe |-> r, valid |-> Valid(p), dialog |-> d, page |-> pageNumber]
    <2>1. c.pipe \in 1..Len(pipes)
      OBVIOUS
    <2> HIDE DEF c
    <2>2. checks' = Append(checks, c)
      BY <1>2 DEF c
    <2>3. Len(checks) \in Nat
      BY DEF ChecksHeld, IsList
    <2>4. /\ IsList(checks') /\ Len(checks') = Len(checks) + 1
          /\ \A i \in 1..Len(checks) : checks'[i] = checks[i]
          /\ checks'[Len(checks) + 1] = c
      BY <2>2, AppendList DEF ChecksHeld
    <2>5. ASSUME NEW i \in 1..Len(checks') PROVE checks'[i].pipe \in 1..Len(pipes)
      <3>1. i \in 1..Len(checks) \/ i = Len(checks) + 1
        BY <2>3, <2>4
      <3> QED
        BY <2>1, <2>4, <3>1 DEF ChecksHeld
    <2> QED
      BY <2>4, <2>5 DEF ChecksHeld
  <1> QED
    BY <1>1, <1>2 DEF ValidateFor

-----------------------------------------------------------------------------
(* A change of the tree that the listeners are told.                       *)
LEMMA ToldChange ==
  ASSUME EditorInv, Editing, NEW p, DOMAIN p = Shape, Change(p), CheckForModification(p),
         ChecksHeld(checks', Len(pipes))
  PROVE  EditorInv'
  <1>1. store \in 1..Len(pipes) /\ Len(pipes) \in Nat /\ dialog = "closed" /\ Shown
    BY DEF EditorInv, ObjectsHeld, PipesHeld, IsList, Editing, Shown
  <1>2. PipesHeld(pipes') /\ Len(pipes') = Len(pipes) /\ pipes'[store].tree = p
    <2>1. pipes' = [pipes EXCEPT ![store].tree = p]
      BY DEF Change
    <2> QED
      BY <1>1, <2>1, ChangedObject DEF EditorInv, ObjectsHeld
  <1>3. /\ store' = store /\ open' = open /\ dialog' = dialog /\ synced' = synced
        /\ swapped' = swapped
    BY DEF Change
  <1>4. ObjectsHeld'
    BY <1>1, <1>2, <1>3 DEF ObjectsHeld
  <1>5. Current' = p
    BY <1>2, <1>3 DEF Current, Tree
  <1>6. Shown'
    BY <1>1, <1>3 DEF Shown
  <1>7. DialogShown' /\ SavedHeld'
    BY <1>1, <1>3 DEF DialogShown, SavedHeld
  <1>8. Known'
    <2>1. SUFFICES ASSUME synced # Nothing, ~swapped
                   PROVE  ~pipelineIsModified' =>
                            lastPipeline' = synced /\ lastPipeline' = Json(p)
      BY <1>3, <1>5, <1>6 DEF Known
    <2>2. SUFFICES ASSUME ~pipelineIsModified' PROVE lastPipeline' = synced /\ lastPipeline' = Json(p)
      OBVIOUS
    <2>3. ~pipelineIsModified /\ lastPipeline \in {Nothing, Json(p)} /\ lastPipeline' = Json(p)
      BY <2>2 DEF CheckForModification
    <2>4. lastPipeline = synced
      BY <2>1, <2>3 DEF EditorInv, Known
    <2> QED
      BY <2>1, <2>3, <2>4
  <1> QED
    BY <1>4, <1>7, <1>8 DEF EditorInv

(* One that they are not told.                                             *)
LEMMA QuietChange ==
  ASSUME EditorInv, Editing, NEW p, DOMAIN p = Shape, Change(p),
         quiet' = TRUE, UNCHANGED <<lastPipeline, pipelineIsModified>>,
         ChecksHeld(checks', Len(pipes))
  PROVE  EditorInv'
  <1>1. store \in 1..Len(pipes) /\ Len(pipes) \in Nat /\ dialog = "closed" /\ Shown
    BY DEF EditorInv, ObjectsHeld, PipesHeld, IsList, Editing, Shown
  <1>2. PipesHeld(pipes') /\ Len(pipes') = Len(pipes)
    <2>1. pipes' = [pipes EXCEPT ![store].tree = p]
      BY DEF Change
    <2> QED
      BY <1>1, <2>1, ChangedObject DEF EditorInv, ObjectsHeld
  <1>3. /\ store' = store /\ open' = open /\ dialog' = dialog /\ synced' = synced
        /\ swapped' = swapped
    BY DEF Change
  <1>4. ObjectsHeld'
    BY <1>1, <1>2, <1>3 DEF ObjectsHeld
  <1>5. Shown'
    BY <1>1, <1>3 DEF Shown
  <1>6. DialogShown' /\ SavedHeld'
    BY <1>1, <1>3 DEF DialogShown, SavedHeld
  <1>7. Known'
    BY <1>3, <1>5 DEF EditorInv, Known
  <1> QED
    BY <1>4, <1>6, <1>7 DEF EditorInv

(* A step that leaves the server with the same pipeline, and the page as   *)
(* it is: marks are taken off, or nothing is changed.                      *)
LEMMA SamePipeline ==
  ASSUME EditorInv, PipesHeld(pipes'), Len(pipes') = Len(pipes),
         store # 0 => Json(Current') = Json(Current),
         ChecksHeld(checks', Len(pipes)),
         UNCHANGED <<store, open, lastPipeline, pipelineIsModified, dialog, body, historyVars>>
  PROVE  EditorInv'
  <1>1. /\ store' = store /\ open' = open /\ lastPipeline' = lastPipeline
        /\ pipelineIsModified' = pipelineIsModified /\ dialog' = dialog /\ body' = body
        /\ synced' = synced /\ quiet' = quiet /\ swapped' = swapped
    BY DEF historyVars
  <1>2. Shown' <=> Shown
    BY <1>1 DEF Shown
  <1>3. ObjectsHeld'
    BY <1>1 DEF EditorInv, ObjectsHeld
  <1>4. DialogShown'
    BY <1>1, <1>2 DEF EditorInv, DialogShown
  <1>5. SavedHeld'
    <2>1. SUFFICES ASSUME dialog = "saving", ~swapped PROVE body = Json(Current')
      BY <1>1 DEF SavedHeld
    <2>2. store # 0
      BY <2>1 DEF EditorInv, DialogShown, Shown
    <2> QED
      BY <2>1, <2>2 DEF EditorInv, SavedHeld
  <1>6. Known'
    <2>1. SUFFICES ASSUME synced # Nothing, ~swapped
                   PROVE  /\ Shown
                          /\ ~pipelineIsModified => lastPipeline = synced
                          /\ ~pipelineIsModified /\ ~quiet => lastPipeline = Json(Current')
      BY <1>1, <1>2 DEF Known
    <2>2. Shown
      BY <2>1 DEF EditorInv, Known
    <2>3. Json(Current') = Json(Current)
      BY <2>2 DEF Shown
    <2> QED
      BY <2>1, <2>3 DEF EditorInv, Known
  <1> QED
    BY <1>3, <1>4, <1>5, <1>6 DEF EditorInv

(* Marks are taken off.                                                    *)
LEMMA CleanedPipeline ==
  ASSUME EditorInv, Editing, NEW S,
         pipes' = [pipes EXCEPT ![store].tree = CleanPristine(Current, S)],
         ChecksHeld(checks', Len(pipes)),
         UNCHANGED <<store, open, lastPipeline, pipelineIsModified, dialog, body, historyVars>>
  PROVE  EditorInv'
  <1> DEFINE p == CleanPristine(Current, S)
  <1>1. PipesHeld(pipes) /\ store \in 1..Len(pipes)
    BY DEF EditorInv, ObjectsHeld, Editing, Shown, PipesHeld, IsList
  <1>2. DOMAIN Current = Shape
    BY <1>1 DEF PipesHeld, IsObject, Current, Tree
  <1>3. DOMAIN p = Shape /\ Json(p) = Json(Current)
    BY <1>2, CleanedSame
  <1>4. pipes' = [pipes EXCEPT ![store].tree = p]
    OBVIOUS
  <1> HIDE DEF p
  <1>5. PipesHeld(pipes') /\ Len(pipes') = Len(pipes) /\ pipes'[store].tree = p
    <2>1. DOMAIN p = Shape
      BY <1>3
    <2>2. LET ps == [pipes EXCEPT ![store].tree = p]
          IN PipesHeld(ps) /\ Len(ps) = Len(pipes) /\ ps[store].tree = p
      BY <1>1, <2>1, ChangedObject
    <2> QED
      BY <1>4, <2>2, Zenon
  <1>6. Current' = p
    BY <1>5 DEF Current, Tree
  <1> QED
    BY <1>3, <1>5, <1>6, SamePipeline

(* The pipeline is replaced by another object, or by the same once more.   *)
LEMMA Replaced ==
  ASSUME EditorInv, PipesHeld(pipes'), ChecksHeld(checks', Len(pipes')),
         NEW r \in 1..Len(pipes'), SetPipeline(r, pipes'[r].tree),
         r # store \/ Json(Current') = Json(Current),
         swapped' <=> (swapped \/ (dialog = "saving" /\ r # store)),
         synced' = synced \/ (open /\ synced' = Json(pipes'[r].tree)),
         open' = open, body' = body,
         dialog' # "closed" => dialog # "closed" \/ open,
         dialog' = "saving" => dialog = "saving"
  PROVE  EditorInv'
  <1> DEFINE p == pipes'[r].tree
  <1>1. store' = r /\ Current' = p /\ Len(pipes') \in Nat
    BY DEF SetPipeline, Current, Tree, PipesHeld, IsList
  <1>2. open => Shown'
    BY <1>1 DEF Shown
  <1>3. ObjectsHeld'
    BY <1>1 DEF ObjectsHeld
  <1>4. DialogShown'
    BY <1>2 DEF EditorInv, DialogShown, Shown
  <1>5. SavedHeld'
    BY <1>1 DEF EditorInv, SavedHeld
  <1>6. Known'
    <2>1. SUFFICES ASSUME synced' # Nothing, ~swapped'
                   PROVE  /\ Shown'
                          /\ ~pipelineIsModified' => lastPipeline' = synced' /\ lastPipeline' = Json(p)
      BY <1>1 DEF Known
    <2>2. ~swapped
      BY <2>1
    <2>3. open
      BY <2>1, <2>2 DEF EditorInv, Known, Shown
    <2>4. CheckForModification(p)
      BY <2>3 DEF SetPipeline
    <2>5. SUFFICES ASSUME ~pipelineIsModified' PROVE lastPipeline' = synced' /\ lastPipeline' = Json(p)
      BY <1>2, <2>3
    <2>6. ~pipelineIsModified /\ lastPipeline \in {Nothing, Json(p)} /\ lastPipeline' = Json(p)
      BY <2>4, <2>5 DEF CheckForModification
    <2>7. CASE synced' = Json(p)
      BY <2>6, <2>7
    <2>8. CASE synced' = synced
      <3>1. lastPipeline = synced
        BY <2>1, <2>2, <2>6, <2>8 DEF EditorInv, Known
      <3> QED
        BY <2>1, <2>6, <2>8, <3>1
    <2> QED
      BY <2>7, <2>8
  <1> QED
    BY <1>3, <1>4, <1>5, <1>6 DEF EditorInv

-----------------------------------------------------------------------------
(* The functions of PipelineStore change fields of a pipeline.             *)
LEMMA OperationsKeepShape ==
  ASSUME NEW p, DOMAIN p = Shape
  PROVE  /\ \A new : DOMAIN CreateSequentialStage(p, new) = Shape
         /\ \A parent, zeroth, new : DOMAIN CreateParallelStage(p, parent, zeroth, new) = Shape
         /\ \A s : DOMAIN DeleteStageFrom(p, s) = Shape
         /\ \A parent, new, container : DOMAIN AddStepTo(p, parent, new, container) = Shape
         /\ \A x : DOMAIN DeleteStepFrom(p, x) = Shape
         /\ \A x, target, position : DOMAIN MoveStepIn(p, x, target, position) = Shape
  <1>1. \A from, to : DOMAIN Moved(p, from, to) = Shape
    BY DEF Moved
  <1>2. \A new : DOMAIN CreateSequentialStage(p, new) = Shape
    BY DEF CreateSequentialStage
  <1>3. ASSUME NEW parent, NEW zeroth, NEW new
        PROVE  DOMAIN CreateParallelStage(p, parent, zeroth, new) = Shape
    BY <1>1 DEF CreateParallelStage
  <1>4. ASSUME NEW s PROVE DOMAIN DeleteStageFrom(p, s) = Shape
    BY <1>1 DEF DeleteStageFrom
  <1>5. \A parent, new, container : DOMAIN AddStepTo(p, parent, new, container) = Shape
    BY DEF AddStepTo
  <1>6. \A x : DOMAIN DeleteStepFrom(p, x) = Shape
    BY DEF DeleteStepFrom
  <1>7. ASSUME NEW x, NEW target, NEW position
        PROVE  DOMAIN MoveStepIn(p, x, target, position) = Shape
    <2> DEFINE out == DeleteStepFrom(p, x)
    <2>1. DOMAIN out = Shape
      BY <1>6
    <2> HIDE DEF out
    <2>2. \A list, l : DOMAIN [out EXCEPT !.steps[list] = l] = Shape
      BY <2>1
    <2>3. CASE position = FirstChild
      <3>1. MoveStepIn(p, x, target, position) = [out EXCEPT !.steps[target] = Cons(x, @)]
        BY <2>3, SMT DEF MoveStepIn, out, FirstChild, LastChild
      <3> QED
        BY <2>1, <3>1
    <2>4. CASE position = LastChild
      <3>1. MoveStepIn(p, x, target, position) = [out EXCEPT !.steps[target] = Append(@, x)]
        BY <2>4, SMT DEF MoveStepIn, out, FirstChild, LastChild
      <3> QED
        BY <2>1, <3>1
    <2>5. CASE position \notin {FirstChild, LastChild}
      <3>1. \/ MoveStepIn(p, x, target, position) = out
            \/ MoveStepIn(p, x, target, position) =
                 LET list == FindParent(out, target)
                     i == Index(out.steps[list], target)
                 IN [out EXCEPT !.steps[list] = InsertAt(@, IF position = Before THEN i ELSE i + 1, x)]
        BY <2>5, SMT DEF MoveStepIn, out
      <3> QED
        BY <2>1, <3>1
    <2> QED
      BY <2>3, <2>4, <2>5
  <1> QED
    BY <1>2, <1>3, <1>4, <1>5, <1>6, <1>7

(* A Jenkinsfile is loaded as a pipeline.                                  *)
LEMMA FileShape ==
  (\A f \in Files : DOMAIN f = Shape) /\ \A f \in Files \cup {NoFile} : DOMAIN TreeOf(f) = Shape
  <1>1. \A p \in Pipelines : DOMAIN p = Shape
    BY DEF Pipelines, Shape, EmptyPipeline
  <1>2. \A f \in Files : DOMAIN f = Shape
    BY <1>1, FilesAssumption
  <1> QED
    BY <1>2 DEF TreeOf, Shape

LEMMA MoreObjects ==
  ASSUME NEW cs, NEW n \in Nat, ChecksHeld(cs, n)
  PROVE  ChecksHeld(cs, n + 1)
  BY DEF ChecksHeld

-----------------------------------------------------------------------------
LEMMA EditorInitHolds ==
  EditorInit => EditorInv
  <1> SUFFICES ASSUME EditorInit PROVE EditorInv
    OBVIOUS
  <1>1. Len(pipes) = 0 /\ IsList(pipes)
    BY EmptySeq, SeqIsList DEF EditorInit
  <1>2. Len(checks) = 0 /\ IsList(checks)
    BY EmptySeq, SeqIsList DEF EditorInit
  <1>3. ObjectsHeld
    BY <1>1, <1>2 DEF ObjectsHeld, PipesHeld, ChecksHeld, EditorInit
  <1>4. DialogShown /\ SavedHeld /\ Known
    BY DEF DialogShown, SavedHeld, Known, EditorInit
  <1> QED
    BY <1>3, <1>4 DEF EditorInv

LEMMA EditorStepHolds == EditorInv /\ [EditorNext]_editorVars => EditorInv'
  <1> SUFFICES ASSUME EditorInv, [EditorNext]_editorVars PROVE EditorInv'
    OBVIOUS
  <1> USE DEF EditorInv
  <1>1. PipesHeld(pipes) /\ store \in 0..Len(pipes) /\ ChecksHeld(checks, Len(pipes)) /\ Len(pipes) \in Nat
    BY DEF ObjectsHeld, PipesHeld, IsList
  <1>2. ASSUME Editing
        PROVE  store \in 1..Len(pipes) /\ DOMAIN Current = Shape /\ dialog = "closed"
    BY <1>1, <1>2 DEF Editing, Shown, PipesHeld, IsObject, Current, Tree
  <1>3. ASSUME NEW p, Editing, Validate(p) PROVE ChecksHeld(checks', Len(pipes))
    BY <1>1, <1>2, <1>3, ValidateKeeps DEF Validate
  <1>4. CASE UNCHANGED editorVars
    <2>1. /\ UNCHANGED <<pipes, checks>>
          /\ UNCHANGED <<store, open, lastPipeline, pipelineIsModified, dialog, body, historyVars>>
      BY <1>4 DEF editorVars, storeVars, editorPageVars, checkVars, historyVars
    <2> QED
      BY <1>1, <2>1, SamePipeline DEF Current, Tree
  <1>5. CASE OpenPage
    <2>1. /\ UNCHANGED <<pipes, checks, dialog, swapped, synced>> /\ store' = 0 /\ ~open
      BY <1>5 DEF OpenPage, checkVars, historyVars
    <2>2. dialog = "closed" /\ (synced = Nothing \/ swapped)
      BY <2>1 DEF DialogShown, Known, Shown
    <2> QED
      BY <1>1, <2>1, <2>2 DEF ObjectsHeld, DialogShown, SavedHeld, Known
  <1>6. ASSUME NEW q \in loading, NEW f \in Files \cup {NoFile}, ContentLoaded(q, f)
        PROVE  EditorInv'
    <2> DEFINE p == TreeOf(f)
               r == Len(pipes) + 1
    <2>1. DOMAIN p = Shape
      BY <1>6, FileShape
    <2>2. /\ pipes' = Append(pipes, [tree |-> p, errors |-> FALSE]) /\ SetPipeline(r, p)
          /\ NoteSwap(r)
      BY <1>6 DEF ContentLoaded, NewPipe
    <2>3. /\ synced' = IF open /\ q = pageNumber THEN Json(p) ELSE synced
          /\ open' = open /\ dialog' = dialog /\ body' = body /\ checks' = checks
      BY <1>6 DEF ContentLoaded, checkVars
    <2> HIDE DEF p
    <2>4. PipesHeld(pipes') /\ Len(pipes') = r /\ pipes'[r].tree = p
      BY <1>1, <2>1, <2>2, NewObject
    <2>5. r # store /\ r \in 1..Len(pipes')
      BY <1>1, <2>4
    <2>6. ChecksHeld(checks', Len(pipes'))
      BY <1>1, <2>3, <2>4, MoreObjects
    <2>7. SetPipeline(r, pipes'[r].tree) /\ (swapped' <=> (swapped \/ (dialog = "saving" /\ r # store)))
      BY <2>2, <2>4, <2>5 DEF NoteSwap
    <2>8. synced' = synced \/ (open /\ synced' = Json(pipes'[r].tree))
      BY <2>3, <2>4
    <2> HIDE DEF r
    <2> QED
      BY <2>3, <2>4, <2>5, <2>6, <2>7, <2>8, Replaced
  <1>7. ASSUME LeaveEditor PROVE EditorInv'
    <2>1. /\ dialog' = "closed" /\ synced' = Nothing /\ UNCHANGED <<pipes, store, checks>>
      BY <1>7 DEF LeaveEditor, storeVars, checkVars
    <2> QED
      BY <1>1, <2>1 DEF ObjectsHeld, DialogShown, SavedHeld, Known
  <1>8. CASE LeavePage
    BY <1>7, <1>8 DEF LeavePage
  <1>9. ASSUME NEW f \in Files, CopyPaste(f) PROVE EditorInv'
    <2> DEFINE r == Len(pipes) + 1
    <2>1. DOMAIN f = Shape
      BY FileShape
    <2>2. pipes' = Append(pipes, [tree |-> f, errors |-> FALSE]) /\ SetPipeline(r, f) /\ Editing
      BY <1>9 DEF CopyPaste, NewPipe
    <2>3. /\ open' = open /\ dialog' = dialog /\ body' = body /\ checks' = checks
          /\ synced' = synced /\ swapped' = swapped
      BY <1>9 DEF CopyPaste, checkVars
    <2>4. PipesHeld(pipes') /\ Len(pipes') = r /\ pipes'[r].tree = f
      BY <1>1, <2>1, <2>2, NewObject
    <2>5. r # store /\ r \in 1..Len(pipes') /\ dialog = "closed"
      BY <1>1, <1>2, <2>2, <2>4
    <2>6. ChecksHeld(checks', Len(pipes'))
      BY <1>1, <2>3, <2>4, MoreObjects
    <2>7. SetPipeline(r, pipes'[r].tree)
      BY <2>2, <2>4
    <2>8. swapped' <=> (swapped \/ (dialog = "saving" /\ r # store))
      BY <2>3, <2>5
    <2> HIDE DEF r
    <2> QED
      BY <2>3, <2>4, <2>5, <2>6, <2>7, <2>8, Replaced
  <1>10. ASSUME NEW parent \in Nodes, CreateStage(parent) PROVE EditorInv'
    <2> DEFINE new == nextId + 1
               p == IF parent = Root THEN CreateSequentialStage(Current, new)
                    ELSE CreateParallelStage(Current, parent, nextId, new)
    <2>1. Editing /\ Change(p) /\ CheckForModification(p) /\ UNCHANGED checks
      BY <1>10 DEF CreateStage, checkVars
    <2>2. DOMAIN p = Shape
      BY <1>2, <2>1, OperationsKeepShape
    <2>3. ChecksHeld(checks', Len(pipes))
      BY <1>1, <2>1
    <2> HIDE DEF p
    <2> QED
      BY <2>1, <2>2, <2>3, ToldChange
  <1>11. ASSUME NEW s \in Nodes \cup {Nothing}, GraphSelectedStageChanged(s) PROVE EditorInv'
    <2>1. /\ Editing /\ Validate(Current) /\ UNCHANGED pipes
          /\ UNCHANGED <<store, open, lastPipeline, pipelineIsModified, dialog, body, historyVars>>
      BY <1>11 DEF GraphSelectedStageChanged, Select, editorPageVars
    <2> QED
      BY <1>1, <1>3, <2>1, SamePipeline DEF Current, Tree
  <1>12. CASE ClickGraph
    <2>1. /\ Editing /\ Validate(CleanPristine(Current, Nodes))
          /\ pipes' = [pipes EXCEPT ![store].tree = CleanPristine(Current, Nodes)]
          /\ UNCHANGED <<store, open, lastPipeline, pipelineIsModified, dialog, body, historyVars>>
      BY <1>12 DEF ClickGraph, Select, editorPageVars
    <2>2. ChecksHeld(checks', Len(pipes))
      BY <1>3, <2>1
    <2> QED
      BY <2>1, <2>2, CleanedPipeline
  <1>13. ASSUME NEW x \in Nodes, SelectedStepChanged(x) PROVE EditorInv'
    <2>1. /\ UNCHANGED <<pipes, checks>>
          /\ UNCHANGED <<store, open, lastPipeline, pipelineIsModified, dialog, body, historyVars>>
      BY <1>13 DEF SelectedStepChanged, Select, editorPageVars
    <2> QED
      BY <1>1, <2>1, SamePipeline DEF Current, Tree
  <1>14. CASE OpenSelectStepDialog
    <2>1. /\ UNCHANGED <<pipes, checks>>
          /\ UNCHANGED <<store, open, lastPipeline, pipelineIsModified, dialog, body, historyVars>>
      BY <1>14 DEF OpenSelectStepDialog, Select, editorPageVars
    <2> QED
      BY <1>1, <2>1, SamePipeline DEF Current, Tree
  <1>15. CASE CloseSheet
    <2>1. /\ Editing
          /\ UNCHANGED <<store, open, lastPipeline, pipelineIsModified, dialog, body, historyVars>>
      BY <1>15 DEF CloseSheet, Select, editorPageVars
    <2>2. \/ UNCHANGED <<pipes, checks>>
          \/ \E S : /\ pipes' = [pipes EXCEPT ![store].tree = CleanPristine(Current, S)]
                    /\ Validate(CleanPristine(Current, S))
      BY <1>15, Zenon DEF CloseSheet
    <2>3. CASE UNCHANGED <<pipes, checks>>
      BY <1>1, <2>1, <2>3, SamePipeline DEF Current, Tree
    <2>4. ASSUME NEW S, pipes' = [pipes EXCEPT ![store].tree = CleanPristine(Current, S)],
                 Validate(CleanPristine(Current, S))
          PROVE  EditorInv'
      <3>1. ChecksHeld(checks', Len(pipes))
        BY <1>3, <2>1, <2>4
      <3> QED
        BY <2>1, <2>4, <3>1, CleanedPipeline
    <2> QED
      BY <2>2, <2>3, <2>4, Zenon
  <1>16. ASSUME NEW container \in BOOLEAN, AddStep(container) PROVE EditorInv'
    <2> DEFINE parent == IF picking = Root THEN selectedStage ELSE picking
               added == AddStepTo(Current, parent, nextId, container)
               p == [added EXCEPT !.pristine = @ \cup {nextId}]
    <2>1. Editing /\ Change(p) /\ CheckForModification(p) /\ Validate(p)
      BY <1>16, Zenon DEF AddStep
    <2>2. DOMAIN p = Shape
      <3>1. DOMAIN added = Shape
        BY <1>2, <2>1, OperationsKeepShape
      <3> QED
        BY <3>1
    <2> HIDE DEF p
    <2>3. ChecksHeld(checks', Len(pipes))
      BY <1>3, <2>1
    <2> QED
      BY <2>1, <2>2, <2>3, ToldChange
  <1>17. CASE DeleteStep
    <2> DEFINE p == DeleteStepFrom(Current, Last(selectedSteps))
    <2>1. Editing /\ Change(p) /\ CheckForModification(p) /\ Validate(p)
      BY <1>17, Zenon DEF DeleteStep
    <2>2. DOMAIN p = Shape
      BY <1>2, <2>1, OperationsKeepShape
    <2> HIDE DEF p
    <2>3. ChecksHeld(checks', Len(pipes))
      BY <1>3, <2>1
    <2> QED
      BY <2>1, <2>2, <2>3, ToldChange
  <1>18. CASE DeleteStage
    <2> DEFINE p == DeleteStageFrom(Current, selectedStage)
    <2>1. Editing /\ Change(p) /\ CheckForModification(p) /\ Validate(p)
      BY <1>18, Zenon DEF DeleteStage
    <2>2. DOMAIN p = Shape
      BY <1>2, <2>1, OperationsKeepShape
    <2> HIDE DEF p
    <2>3. ChecksHeld(checks', Len(pipes))
      BY <1>3, <2>1
    <2> QED
      BY <2>1, <2>2, <2>3, ToldChange
  <1>19. ASSUME NEW x, NEW target, NEW position, MoveStep(x, target, position) PROVE EditorInv'
    <2> DEFINE p == MoveStepIn(Current, x, target, position)
    <2>1. /\ Editing /\ Change(p) /\ UNCHANGED checks
          /\ \/ quiet' = TRUE /\ UNCHANGED <<lastPipeline, pipelineIsModified>>
             \/ CheckForModification(p)
      BY <1>19 DEF MoveStep, checkVars
    <2>2. DOMAIN p = Shape
      BY <1>2, <2>1, OperationsKeepShape
    <2> HIDE DEF p
    <2>3. ChecksHeld(checks', Len(pipes))
      BY <1>1, <2>1
    <2> QED
      BY <2>1, <2>2, <2>3, ToldChange, QuietChange
  <1>20. CASE EditSettings
    <2>1. PICK n : /\ Change([Current EXCEPT !.settings[n] = 1 - @])
                   /\ Editing /\ quiet' = TRUE
                   /\ UNCHANGED <<lastPipeline, pipelineIsModified, checks>>
      BY <1>20, Zenon DEF EditSettings
    <2> DEFINE p == [Current EXCEPT !.settings[n] = 1 - @]
    <2>2. DOMAIN p = Shape
      BY <1>2, <2>1
    <2>3. Change(p)
      BY <2>1
    <2> HIDE DEF p
    <2>4. ChecksHeld(checks', Len(pipes))
      BY <1>1, <2>1
    <2> QED
      BY <2>1, <2>2, <2>3, <2>4, QuietChange
  <1>21. CASE ValidateAfterTyping
    <2>1. /\ store # 0 /\ Validate(Current) /\ UNCHANGED pipes
          /\ UNCHANGED <<store, open, lastPipeline, pipelineIsModified, dialog, body, historyVars>>
      BY <1>21 DEF ValidateAfterTyping, storeVars, editorPageVars
    <2>2. store \in 1..Len(pipes)
      BY <1>1, <2>1
    <2>3. ChecksHeld(checks', Len(pipes))
      BY <1>1, <2>1, <2>2, ValidateKeeps DEF Validate
    <2> QED
      BY <1>1, <2>1, <2>3, SamePipeline DEF Current, Tree
  <1>22. ASSUME NEW i \in DOMAIN checks, CheckAnswered(i) PROVE EditorInv'
    <2> DEFINE c == checks[i]
               r == c.pipe
               p == Tree(r)
               errors == ~c.valid \/ (r = store /\ ~Valid(p))
    <2>1. /\ checks' = RemoveAt(checks, i) /\ pipes' = [pipes EXCEPT ![r].errors = errors]
          /\ SetPipeline(r, p) /\ NoteSwap(r)
          /\ dialog' \in {"shown", dialog} /\ (dialog' # dialog => open /\ dialog = "closed")
          /\ UNCHANGED <<open, body, synced>>
      BY <1>22 DEF CheckAnswered
    <2>2. i \in 1..Len(checks) /\ IsList(checks) /\ Len(checks) \in Nat
      BY <1>1, ListIsSeq DEF ChecksHeld, IsList
    <2>3. r \in 1..Len(pipes)
      BY <1>1, <2>2 DEF ChecksHeld
    <2> HIDE DEF errors
    <2>4. /\ PipesHeld(pipes') /\ Len(pipes') = Len(pipes)
          /\ \A j \in 1..Len(pipes) : pipes'[j].tree = pipes[j].tree
      <3> HIDE DEF r
      <3> QED
        BY <1>1, <2>1, <2>3, MarkedObject
    <2>5. ChecksHeld(checks', Len(pipes'))
      <3> HIDE DEF r
      <3>1. /\ IsList(checks') /\ Len(checks') = Len(checks) - 1
            /\ \A j \in 1..(Len(checks) - 1) :
                 checks'[j] = IF j < i THEN checks[j] ELSE checks[j + 1]
        BY <2>1, <2>2, ListWithout
      <3>2. ASSUME NEW j \in 1..Len(checks') PROVE checks'[j].pipe \in 1..Len(pipes')
        <4>1. j \in 1..Len(checks) /\ j + 1 \in 1..Len(checks) /\ j \in 1..(Len(checks) - 1)
          BY <2>2, <3>1
        <4>2. checks'[j] = checks[j] \/ checks'[j] = checks[j + 1]
          BY <3>1, <4>1
        <4> QED
          BY <1>1, <2>4, <4>1, <4>2 DEF ChecksHeld
      <3> QED
        BY <3>1, <3>2 DEF ChecksHeld
    <2>6. SetPipeline(r, pipes'[r].tree) /\ pipes'[r].tree = p
      BY <2>1, <2>3, <2>4 DEF Tree
    <2>7. r # store \/ Json(Current') = Json(Current)
      BY <2>1, <2>6 DEF Current, Tree, SetPipeline
    <2>8. swapped' <=> (swapped \/ (dialog = "saving" /\ r # store))
      <3> HIDE DEF r
      <3> QED
        BY <2>1 DEF NoteSwap
    <2> HIDE DEF r
    <2> QED
      BY <2>1, <2>3, <2>4, <2>5, <2>6, <2>7, <2>8, Replaced
  <1>23. CASE ShowSaveDialog
    <2>1. /\ Editing /\ ValidateFor(store, Current, TRUE) /\ dialog' \in {"shown", dialog}
          /\ UNCHANGED <<pipes, store, open, lastPipeline, pipelineIsModified, synced, quiet, swapped>>
      BY <1>23 DEF ShowSaveDialog, storeVars, historyVars
    <2>2. ChecksHeld(checks', Len(pipes))
      BY <1>1, <1>2, <2>1, ValidateKeeps
    <2>3. ObjectsHeld'
      BY <1>1, <2>1, <2>2 DEF ObjectsHeld
    <2>4. Shown' /\ dialog' # "saving"
      BY <1>2, <2>1 DEF Editing, Shown
    <2>5. Known'
      BY <2>1, <2>4 DEF Known, Current, Tree
    <2> QED
      BY <2>3, <2>4, <2>5 DEF DialogShown, SavedHeld
  <1>24. CASE CancelSave
    <2>1. /\ dialog' = "closed"
          /\ UNCHANGED <<pipes, store, checks, open, lastPipeline, pipelineIsModified, synced, quiet, swapped>>
      BY <1>24 DEF CancelSave, storeVars, checkVars, historyVars
    <2> QED
      BY <1>1, <2>1 DEF ObjectsHeld, DialogShown, SavedHeld, Known, Shown, Current, Tree
  <1>25. CASE SavePipeline
    <2>1. /\ dialog = "shown" /\ dialog' = "saving" /\ body' = Json(Current)
          /\ UNCHANGED <<pipes, store, checks, open, lastPipeline, pipelineIsModified, synced, quiet, swapped>>
      BY <1>25 DEF SavePipeline, storeVars, checkVars, historyVars
    <2> QED
      BY <1>1, <2>1 DEF ObjectsHeld, DialogShown, SavedHeld, Known, Shown, Current, Tree
  <1>26. CASE SaveDone
    <2>1. CASE LeaveEditor
      BY <1>7, <2>1
    <2>2. CASE ~LeaveEditor
      <3>1. /\ dialog = "saving" /\ ~pipelineIsModified' /\ lastPipeline' = Json(Current)
            /\ synced' = body /\ dialog' = "shown"
            /\ UNCHANGED <<pipes, store, checks, open, quiet, swapped>>
        BY <1>26, <2>2 DEF SaveDone, storeVars, checkVars
      <3>2. Shown'
        BY <3>1 DEF DialogShown, Shown
      <3>3. ~swapped => body = Json(Current)
        BY <3>1 DEF SavedHeld
      <3> QED
        BY <1>1, <3>1, <3>2, <3>3 DEF ObjectsHeld, DialogShown, SavedHeld, Known, Current, Tree
    <2> QED
      BY <2>1, <2>2
  <1> HIDE DEF EditorInv
  <1> QED
    BY <1>4, <1>5, <1>6, <1>8, <1>9, <1>10, <1>11, <1>12, <1>13, <1>14, <1>15, <1>16, <1>17,
       <1>18, <1>19, <1>20, <1>21, <1>22, <1>23, <1>24, <1>25, <1>26, Zenon DEF EditorNext

(* EditorPage.checkForModification, routerWillLeave: for all Jenkinsfiles, *)
(* edits, validations and saves, who leaves the page without being asked   *)
(* leaves what the Jenkinsfile holds, unless the store was not told of the *)
(* last change or the pipeline was replaced while it was saved.            *)
THEOREM LeaveWarnedHolds == EditorSpec => []LeaveWarned
  <1>1. EditorInv => LeaveWarned
    BY DEF EditorInv, Known, LeaveWarned
  <1> QED
    BY <1>1, EditorInitHolds, EditorStepHolds, PTL DEF EditorSpec

-----------------------------------------------------------------------------
(* Trees: what is found from a node *)

(* A list at every node: what branches and steps of a pipeline are.        *)
Lists == [Nodes -> Seq(Nodes)]

(* The nodes of S and of their lists; a set that holds the lists of its    *)
(* nodes; and the least such set that holds S.                             *)
More(f, S) == S \cup UNION {Range(f[m]) : m \in S}
ClosedUnder(f, S) == \A m \in S : Range(f[m]) \subseteq S
Hull(f, S) == {n \in Nodes : \A T \in SUBSET Nodes : S \subseteq T /\ ClosedUnder(f, T) => n \in T}

(* The nodes in a list.                                                    *)
LEMMA RangeNodes ==
  ASSUME NEW f \in Lists, NEW n \in Nodes
  PROVE  Range(f[n]) \subseteq Nodes
  <1>1. f[n] \in Seq(Nodes)
    BY DEF Lists
  <1>2. f[n] \in [1..Len(f[n]) -> Nodes]
    BY <1>1, LenProperties
  <1> QED
    BY <1>2 DEF Range

(* The least set is the one that Below comes to, step by step.             *)
LEMMA HullSteps ==
  ASSUME NEW f \in Lists, NEW S \in SUBSET Nodes
  PROVE  /\ More(f, S) \in SUBSET Nodes /\ S \subseteq More(f, S)
         /\ Hull(f, S) = IF More(f, S) = S THEN S ELSE Hull(f, More(f, S))
  <1>1. More(f, S) \in SUBSET Nodes /\ S \subseteq More(f, S)
    BY RangeNodes DEF More
  <1>2. CASE More(f, S) = S
    <2>1. ClosedUnder(f, S)
      BY <1>2 DEF More, ClosedUnder
    <2>2. Hull(f, S) = S
      BY <2>1 DEF Hull
    <2> QED
      BY <1>1, <1>2, <2>2
  <1>3. ASSUME NEW T \in SUBSET Nodes, ClosedUnder(f, T)
        PROVE  S \subseteq T <=> More(f, S) \subseteq T
    BY <1>3 DEF More, ClosedUnder
  <1>4. Hull(f, S) = Hull(f, More(f, S))
    BY <1>3 DEF Hull
  <1> QED
    BY <1>1, <1>2, <1>4

(* What is found from a node is what every closed set holds that holds its *)
(* list.                                                                   *)
LEMMA BelowHull ==
  ASSUME NEW f \in Lists, NEW n \in Nodes
  PROVE  Below(f, n) = Hull(f, Range(f[n]))
  <1> DEFINE Eq(g) == g = [S \in SUBSET Nodes |->
                    LET more == S \cup UNION {Range(f[m]) : m \in S}
                    IN IF more = S THEN S ELSE g[more]]
             h == CHOOSE g : Eq(g)
             hull == [S \in SUBSET Nodes |-> Hull(f, S)]
  <1>1. Below(f, n) = h[Range(f[n])]
    BY Zenon DEF Below
  <1>2. Eq(hull)
    <2>1. \A S \in SUBSET Nodes : hull[S] = IF More(f, S) = S THEN S ELSE hull[More(f, S)]
      BY HullSteps
    <2> QED
      BY <2>1 DEF More
  <1>3. Eq(h)
    <2> HIDE DEF Eq, hull
    <2>1. \E g : Eq(g)
      BY <1>2, Zenon
    <2> QED
      BY <2>1, Zenon
  <1>4. \A S \in SUBSET Nodes : h[S] = IF More(f, S) = S THEN S ELSE h[More(f, S)]
    <2>1. h = [S \in SUBSET Nodes |-> IF More(f, S) = S THEN S ELSE h[More(f, S)]]
      <3> HIDE DEF h
      <3> QED
        BY <1>3, Zenon DEF More
    <2> HIDE DEF h
    <2> QED
      BY <2>1, Zenon
  <1> HIDE DEF h, Eq, hull
  <1>5. \A S \in SUBSET Nodes : h[S] = Hull(f, S)
    <2> DEFINE Bad == {S \in SUBSET Nodes : h[S] # Hull(f, S)}
               Sizes == {Cardinality(S) : S \in Bad}
    <2>1. IsFiniteSet(Nodes) /\ \A S \in SUBSET Nodes :
              IsFiniteSet(S) /\ Cardinality(S) \in 0..Cardinality(Nodes)
      <3>1. IsFiniteSet(Nodes)
        BY FS_Interval, MaxIdAssumption DEF Nodes
      <3>2. \A S \in SUBSET Nodes : /\ IsFiniteSet(S) /\ Cardinality(S) \in Nat
                                    /\ Cardinality(S) <= Cardinality(Nodes)
        BY <3>1, FS_Subset, FS_CardinalityType
      <3>3. Cardinality(Nodes) \in Nat
        BY <3>1, FS_CardinalityType
      <3> QED
        BY <3>1, <3>2, <3>3
    <2>2. SUFFICES ASSUME Bad # {} PROVE FALSE
      OBVIOUS
    <2>3. PICK top \in Sizes : \A k \in Sizes : k <= top
      <3>1. Sizes \in SUBSET (0..Cardinality(Nodes)) /\ Sizes # {}
        BY <2>1, <2>2
      <3>2. Cardinality(Nodes) \in Nat
        BY <2>1, FS_CardinalityType
      <3> HIDE DEF Sizes
      <3> QED
        BY <3>1, <3>2, GreatestExists
    <2>4. PICK S \in Bad : Cardinality(S) = top
      OBVIOUS
    <2>5. More(f, S) # S
      BY <1>4, <2>4, HullSteps
    <2>6. More(f, S) \in Bad
      BY <1>4, <2>4, <2>5, HullSteps
    <2>7. Cardinality(More(f, S)) <= Cardinality(S)
      BY <2>3, <2>4, <2>6
    <2>8. S \subseteq More(f, S) /\ More(f, S) \in SUBSET Nodes
      BY HullSteps
    <2>9. S = More(f, S)
      <3>1. /\ Cardinality(S) <= Cardinality(More(f, S))
            /\ Cardinality(S) = Cardinality(More(f, S)) => S = More(f, S)
        BY <2>1, <2>8, FS_Subset
      <3> QED
        BY <2>1, <2>7, <2>8, <3>1
    <2> QED
      BY <2>5, <2>9
  <1>6. Range(f[n]) \in SUBSET Nodes
    BY RangeNodes
  <1> QED
    BY <1>1, <1>5, <1>6

(* Below(f, n) is the least closed set that holds the list of n.           *)
LEMMA BelowFacts ==
  ASSUME NEW f \in Lists, NEW n \in Nodes
  PROVE  /\ Below(f, n) \in SUBSET Nodes /\ Range(f[n]) \subseteq Below(f, n)
         /\ ClosedUnder(f, Below(f, n))
         /\ \A T \in SUBSET Nodes : Range(f[n]) \subseteq T /\ ClosedUnder(f, T) => Below(f, n) \subseteq T
  <1>1. Range(f[n]) \in SUBSET Nodes
    BY RangeNodes
  <1>2. ClosedUnder(f, Hull(f, Range(f[n])))
    BY RangeNodes DEF Hull, ClosedUnder
  <1> QED
    BY <1>1, <1>2, BelowHull DEF Hull
-----------------------------------------------------------------------------
(* Nothing is found but what is in a list of the node or of what is found. *)
LEMMA BelowLast ==
  ASSUME NEW f \in Lists, NEW n \in Nodes, NEW y \in Below(f, n)
  PROVE  \E k \in {n} \cup Below(f, n) : y \in Range(f[k])
  <1> DEFINE T == {z \in Below(f, n) : \E k \in {n} \cup Below(f, n) : z \in Range(f[k])}
  <1>1. T \in SUBSET Nodes /\ Range(f[n]) \subseteq T
    BY BelowFacts
  <1>2. ClosedUnder(f, T)
    BY BelowFacts DEF ClosedUnder
  <1>3. Below(f, n) \subseteq T
    BY <1>1, <1>2, BelowFacts
  <1> QED
    BY <1>3

(* What is found from a node that is found from n is found from n.         *)
LEMMA BelowBelow ==
  ASSUME NEW f \in Lists, NEW n \in Nodes, NEW m \in Below(f, n)
  PROVE  Below(f, m) \subseteq Below(f, n)
  <1>1. m \in Nodes /\ Range(f[m]) \subseteq Below(f, n)
    BY BelowFacts DEF ClosedUnder
  <1> QED
    BY <1>1, BelowFacts

(* Longer lists hide nothing, and lists of other nodes do not count.       *)
LEMMA BelowGrows ==
  ASSUME NEW f \in Lists, NEW g \in Lists, NEW n \in Nodes,
         \A m \in {n} \cup Below(g, n) : Range(f[m]) \subseteq Range(g[m])
  PROVE  Below(f, n) \subseteq Below(g, n)
  <1>1. Below(g, n) \in SUBSET Nodes /\ Range(g[n]) \subseteq Below(g, n)
        /\ ClosedUnder(g, Below(g, n))
    BY BelowFacts
  <1>2. ClosedUnder(f, Below(g, n)) /\ Range(f[n]) \subseteq Below(g, n)
    BY <1>1 DEF ClosedUnder
  <1> QED
    BY <1>1, <1>2, BelowFacts

(* Only the lists of the nodes that are met count, and of them only what   *)
(* they hold.                                                              *)
LEMMA BelowSame ==
  ASSUME NEW f \in Lists, NEW g \in Lists, NEW n \in Nodes,
         \A m \in {n} \cup Below(f, n) : Range(f[m]) = Range(g[m])
  PROVE  Below(f, n) = Below(g, n)
  <1>1. Below(g, n) \subseteq Below(f, n)
    BY BelowGrows
  <1>2. \A m \in {n} \cup Below(g, n) : Range(f[m]) \subseteq Range(g[m])
    BY <1>1
  <1> QED
    BY <1>1, <1>2, BelowGrows

-----------------------------------------------------------------------------
(* Lists of nodes, each of which is in them once.                          *)
Once(l) == \A i, j \in DOMAIN l : l[i] = l[j] => i = j

(* That nothing is in a list twice, by its length.                         *)
LEMMA OnceCounts ==
  ASSUME NEW S, NEW l \in Seq(S)
  PROVE  Once(l) <=> Cardinality(Range(l)) = Len(l)
  <1> DEFINE N == 1..Len(l)
  <1>1. Len(l) \in Nat /\ DOMAIN l = N /\ l \in [N -> S]
    BY LenProperties
  <1>2. IsFiniteSet(N) /\ Cardinality(N) = Len(l)
    BY <1>1, FS_Interval
  <1>3. l \in Surjection(N, Range(l))
    BY <1>1 DEF Surjection, Range
  <1>4. Cardinality(Range(l)) = Cardinality(N) <=> l \in Injection(N, Range(l))
    BY <1>2, <1>3, FS_Surjection
  <1>5. l \in Injection(N, Range(l)) <=> Once(l)
    BY <1>1 DEF Injection, IsInjective, Once, Range
  <1> QED
    BY <1>2, <1>4, <1>5

(* One more element, in a place i.                                         *)
LEMMA InsertedOnce ==
  ASSUME NEW n \in Nat, NEW l, NEW r, DOMAIN l = 1..n, DOMAIN r = 1..(n + 1),
         NEW i \in 1..(n + 1),
         \A j \in 1..n : r[IF j < i THEN j ELSE j + 1] = l[j]
  PROVE  /\ Range(r) = Range(l) \cup {r[i]}
         /\ Once(r) <=> Once(l) /\ r[i] \notin Range(l)
  <1> DEFINE up(j) == IF j < i THEN j ELSE j + 1
  <1>1. \A j \in 1..n : up(j) \in 1..(n + 1) /\ up(j) # i /\ r[up(j)] = l[j]
    OBVIOUS
  <1>2. \A j, k \in 1..n : up(j) = up(k) => j = k
    OBVIOUS
  <1>3. \A a \in 1..(n + 1) : a # i => \E j \in 1..n : a = up(j)
    <2> TAKE a \in 1..(n + 1)
    <2>1. a < i => a \in 1..n /\ a = up(a)
      OBVIOUS
    <2>2. a > i => a - 1 \in 1..n /\ a = up(a - 1)
      OBVIOUS
    <2> HIDE DEF up
    <2> QED
      BY <2>1, <2>2
  <1> HIDE DEF up
  <1>4. \A c \in 1..(n + 1) : c # i => \E j \in 1..n : c = up(j) /\ r[c] = l[j]
    BY <1>1, <1>3, Zenon
  <1>5. /\ \A y : y \in Range(l) <=> \E j \in 1..n : y = l[j]
        /\ \A y : y \in Range(r) <=> \E c \in 1..(n + 1) : y = r[c]
    BY Zenon DEF Range
  <1>6. \A y \in Range(l) : y \in Range(r)
    BY <1>1, <1>5, Zenon
  <1>7. \A y \in Range(r) : y = r[i] \/ y \in Range(l)
    <2> TAKE y \in Range(r)
    <2>1. PICK c \in 1..(n + 1) : y = r[c]
      BY <1>5, Zenon
    <2>2. CASE c = i
      BY <2>1, <2>2, Zenon
    <2>3. CASE c # i
      <3>1. PICK j \in 1..n : r[c] = l[j]
        BY <1>4, <2>3, Zenon
      <3> QED
        BY <1>5, <2>1, <3>1, Zenon
    <2> QED
      BY <2>2, <2>3, Zenon
  <1>8. r[i] \in Range(r)
    BY <1>5, Zenon
  <1>9. ASSUME Once(r) PROVE Once(l) /\ r[i] \notin Range(l)
    <2>1. \A c, d \in 1..(n + 1) : r[c] = r[d] => c = d
      BY <1>9, Zenon DEF Once
    <2>2. \A j \in 1..n : r[up(j)] # r[i]
      BY <1>1, <2>1, Zenon
    <2>3. ASSUME NEW j \in 1..n, NEW k \in 1..n, l[j] = l[k] PROVE j = k
      <3>1. up(j) \in 1..(n + 1) /\ up(k) \in 1..(n + 1) /\ r[up(j)] = l[j] /\ r[up(k)] = l[k]
        BY <1>1, Zenon
      <3>2. r[up(j)] = r[up(k)]
        BY <2>3, <3>1
      <3>3. up(j) = up(k)
        BY <2>1, <3>1, <3>2, Zenon
      <3> QED
        BY <1>2, <3>3, Zenon
    <2>4. Once(l)
      BY <2>3, Zenon DEF Once
    <2>5. r[i] \notin Range(l)
      BY <1>1, <1>5, <2>2, Zenon
    <2> QED
      BY <2>4, <2>5
  <1>10. ASSUME Once(l), r[i] \notin Range(l) PROVE Once(r)
    <2> SUFFICES ASSUME NEW c \in 1..(n + 1), NEW d \in 1..(n + 1), r[c] = r[d] PROVE c = d
      BY Zenon DEF Once
    <2>1. CASE c # i /\ d # i
      <3>1. PICK j \in 1..n : c = up(j) /\ r[c] = l[j]
        BY <1>4, <2>1
      <3>2. PICK k \in 1..n : d = up(k) /\ r[d] = l[k]
        BY <1>4, <2>1
      <3>3. j = k
        BY <1>10, <3>1, <3>2, Zenon DEF Once
      <3> QED
        BY <3>1, <3>2, <3>3
    <2>2. CASE c = i \/ d = i
      <3>1. \A e \in 1..(n + 1) : e # i => r[e] \in Range(l)
        BY <1>4, <1>5, Zenon
      <3>2. c = i => d = i
        BY <1>10, <3>1, Zenon
      <3>3. d = i => c = i
        BY <1>10, <3>1, Zenon
      <3> QED
        BY <2>2, <3>2, <3>3, Zenon
    <2> QED
      BY <2>1, <2>2
  <1>11. Range(r) = Range(l) \cup {r[i]}
    BY <1>6, <1>7, <1>8, Zenon
  <1> QED
    BY <1>9, <1>10, <1>11, Zenon

(* A node put at the end of a list, at its front, or anywhere in it.       *)
LEMMA AppendOnce ==
  ASSUME NEW l \in Seq(Nodes), NEW x \in Nodes
  PROVE  /\ Append(l, x) \in Seq(Nodes)
         /\ Range(Append(l, x)) = Range(l) \cup {x}
         /\ Once(l) /\ x \notin Range(l) => Once(Append(l, x))
  <1> DEFINE r == Append(l, x)
             n == Len(l)
  <1>1. /\ r \in Seq(Nodes) /\ Len(r) = n + 1
        /\ \A i \in 1..n : r[i] = l[i]
        /\ r[n + 1] = x
    BY AppendProperties
  <1>2. n \in Nat /\ DOMAIN l = 1..n /\ DOMAIN r = 1..(n + 1)
    BY <1>1, LenProperties
  <1> HIDE DEF r, n
  <1>3. n + 1 \in 1..(n + 1) /\ \A j \in 1..n : r[IF j < n + 1 THEN j ELSE j + 1] = l[j]
    BY <1>1, <1>2
  <1>4. /\ Range(r) = Range(l) \cup {r[n + 1]}
        /\ Once(r) <=> Once(l) /\ r[n + 1] \notin Range(l)
    BY <1>2, <1>3, InsertedOnce
  <1> QED
    BY <1>1, <1>4 DEF r

LEMMA ConsOnce ==
  ASSUME NEW l \in Seq(Nodes), NEW x \in Nodes
  PROVE  /\ Cons(x, l) \in Seq(Nodes)
         /\ Range(Cons(x, l)) = Range(l) \cup {x}
         /\ Once(l) /\ x \notin Range(l) => Once(Cons(x, l))
  <1> DEFINE r == Cons(x, l)
             n == Len(l)
  <1>1. n \in Nat /\ DOMAIN l = 1..n
    BY LenProperties
  <1>2. /\ r \in Seq(Nodes) /\ Len(r) = n + 1
        /\ \A j \in 1..(n + 1) : r[j] = IF j = 1 THEN x ELSE l[j - 1]
    <2>1. <<x>> \in Seq(Nodes) /\ Len(<<x>>) = 1 /\ <<x>>[1] = x
      OBVIOUS
    <2>2. /\ r \in Seq(Nodes) /\ Len(r) = Len(<<x>>) + Len(l)
          /\ \A j \in 1..(Len(<<x>>) + Len(l)) :
               r[j] = IF j <= Len(<<x>>) THEN <<x>>[j] ELSE l[j - Len(<<x>>)]
      BY <2>1, ConcatProperties DEF Cons
    <2> HIDE DEF r
    <2> QED
      BY <1>1, <2>1, <2>2
  <1>3. DOMAIN r = 1..(n + 1)
    BY <1>2, LenProperties
  <1> HIDE DEF r, n
  <1>4. 1 \in 1..(n + 1) /\ r[1] = x
    BY <1>1, <1>2
  <1>5. \A j \in 1..n : r[IF j < 1 THEN j ELSE j + 1] = l[j]
    BY <1>1, <1>2
  <1>6. /\ Range(r) = Range(l) \cup {r[1]}
        /\ Once(r) <=> Once(l) /\ r[1] \notin Range(l)
    BY <1>1, <1>3, <1>4, <1>5, InsertedOnce
  <1> QED
    BY <1>2, <1>4, <1>6 DEF r

LEMMA InsertOnce ==
  ASSUME NEW l \in Seq(Nodes), NEW x \in Nodes, NEW i \in 1..(Len(l) + 1)
  PROVE  /\ InsertAt(l, i, x) \in Seq(Nodes)
         /\ Range(InsertAt(l, i, x)) = Range(l) \cup {x}
         /\ Once(l) /\ x \notin Range(l) => Once(InsertAt(l, i, x))
  <1> DEFINE n == Len(l)
             a == SubSeq(l, 1, i - 1)
             b == SubSeq(l, i, n)
             c == a \o <<x>>
             r == c \o b
  <1>1. n \in Nat /\ i \in 1..(n + 1) /\ DOMAIN l = 1..n /\ \A j \in 1..n : l[j] \in Nodes
    BY LenProperties, ElementOfSeq
  <1>2. /\ a \in Seq(Nodes) /\ Len(a) = i - 1 /\ \A j \in 1..(i - 1) : a[j] = l[j]
    <2>1. \A j \in 1..(i - 1) : l[j] \in Nodes
      BY <1>1
    <2>2. 1 \in Int /\ i - 1 \in Int
      BY <1>1
    <2>3. /\ a \in Seq(Nodes)
          /\ Len(a) = IF 1 <= i - 1 THEN (i - 1) - 1 + 1 ELSE 0
          /\ \A j \in 1..((i - 1) - 1 + 1) : a[j] = l[1 + j - 1]
      BY <2>1, <2>2, SubSeqProperties
    <2> HIDE DEF a
    <2> QED
      BY <1>1, <2>3
  <1>3. /\ b \in Seq(Nodes) /\ Len(b) = n + 1 - i
        /\ \A j \in 1..(n + 1 - i) : b[j] = l[i + j - 1]
    <2>1. \A j \in i..n : l[j] \in Nodes
      BY <1>1
    <2>2. i \in Int /\ n \in Int
      BY <1>1
    <2>3. /\ b \in Seq(Nodes)
          /\ Len(b) = IF i <= n THEN n - i + 1 ELSE 0
          /\ \A j \in 1..(n - i + 1) : b[j] = l[i + j - 1]
      BY <2>1, <2>2, SubSeqProperties
    <2> HIDE DEF b
    <2> QED
      BY <1>1, <2>3
  <1> HIDE DEF a, b
  <1>4. /\ c \in Seq(Nodes) /\ Len(c) = i
        /\ \A j \in 1..i : c[j] = IF j < i THEN l[j] ELSE x
    <2>1. <<x>> \in Seq(Nodes) /\ Len(<<x>>) = 1 /\ <<x>>[1] = x
      OBVIOUS
    <2>2. /\ c \in Seq(Nodes) /\ Len(c) = Len(a) + Len(<<x>>)
          /\ \A j \in 1..(Len(a) + Len(<<x>>)) : c[j] = IF j <= Len(a) THEN a[j] ELSE <<x>>[j - Len(a)]
      BY <1>2, <2>1, ConcatProperties
    <2> HIDE DEF c
    <2> QED
      BY <1>1, <1>2, <2>1, <2>2
  <1> HIDE DEF c
  <1>5. /\ r \in Seq(Nodes) /\ Len(r) = n + 1
        /\ r[i] = x /\ \A j \in 1..n : r[IF j < i THEN j ELSE j + 1] = l[j]
    <2>1. /\ r \in Seq(Nodes) /\ Len(r) = Len(c) + Len(b)
          /\ \A j \in 1..(Len(c) + Len(b)) : r[j] = IF j <= Len(c) THEN c[j] ELSE b[j - Len(c)]
      BY <1>3, <1>4, ConcatProperties
    <2> HIDE DEF r, n
    <2>2. Len(c) = i /\ Len(c) + Len(b) = n + 1
      BY <1>1, <1>3, <1>4
    <2>3. \A j \in 1..i : r[j] = c[j]
      BY <1>1, <2>1, <2>2
    <2>4. \A j \in 1..(n + 1 - i) : r[i + j] = b[j]
      BY <1>1, <2>1, <2>2
    <2>5. r[i] = x /\ \A j \in 1..(i - 1) : r[j] = l[j]
      BY <1>1, <1>4, <2>3
    <2>6. \A j \in i..n : r[j + 1] = l[j]
      <3> TAKE j \in i..n
      <3>1. j + 1 - i \in 1..(n + 1 - i) /\ i + (j + 1 - i) = j + 1 /\ i + (j + 1 - i) - 1 = j
        BY <1>1
      <3> QED
        BY <1>3, <2>4, <3>1
    <2>7. \A j \in 1..n : j < i => j \in 1..(i - 1)
      BY <1>1
    <2>8. \A j \in 1..n : ~ (j < i) => j \in i..n
      BY <1>1
    <2> QED
      BY <2>1, <2>2, <2>5, <2>6, <2>7, <2>8
  <1>6. InsertAt(l, i, x) = r
    BY Zenon DEF InsertAt, a, b, c
  <1> HIDE DEF r, n
  <1>7. DOMAIN r = 1..(n + 1)
    BY <1>5, LenProperties
  <1>8. /\ Range(r) = Range(l) \cup {r[i]}
        /\ Once(r) <=> Once(l) /\ r[i] \notin Range(l)
    BY <1>1, <1>5, <1>7, InsertedOnce
  <1> QED
    BY <1>5, <1>6, <1>8

(* One element less.                                                       *)
LEMMA RemoveOnce ==
  ASSUME NEW l \in Seq(Nodes), NEW x, Once(l)
  PROVE  /\ RemoveFirst(l, x) \in Seq(Nodes) /\ Once(RemoveFirst(l, x))
         /\ Range(RemoveFirst(l, x)) = Range(l) \ {x}
         /\ x \in Range(l) => Len(RemoveFirst(l, x)) = Len(l) - 1
  <1>1. Len(l) \in Nat /\ DOMAIN l = 1..Len(l)
    BY LenProperties
  <1>2. CASE ~ \E i \in 1..Len(l) : l[i] = x
    <2>1. RemoveFirst(l, x) = l /\ x \notin Range(l)
      BY <1>1, <1>2 DEF RemoveFirst, Range
    <2> QED
      BY <2>1
  <1>3. CASE \E i \in 1..Len(l) : l[i] = x
    <2> DEFINE I == {i \in 1..Len(l) : l[i] = x}
    <2>1. PICK i \in 1..Len(l) : l[i] = x
      BY <1>3
    <2>2. I = {i}
      BY <1>1, <2>1 DEF Once
    <2>3. SelectInSeq(l, LAMBDA v : v = x) = i
      <3>1. SelectInSeq(l, LAMBDA v : v = x) = IF I # {} THEN Min(I) ELSE 0
        BY DEF SelectInSeq
      <3>2. Min(I) = i
        <4> HIDE DEF I
        <4> QED
          BY <1>1, <2>2 DEF Min
      <3> QED
        BY <2>2, <3>1, <3>2
    <2> DEFINE r == RemoveAt(l, i)
               n == Len(l) - 1
    <2>4. RemoveFirst(l, x) = r
      BY <1>3, <2>3 DEF RemoveFirst
    <2>5. /\ r \in Seq(Nodes) /\ Len(r) = n
          /\ \A j \in 1..n : r[j] = IF j < i THEN l[j] ELSE l[j + 1]
      BY WithoutPlace DEF RemoveAt
    <2>6. DOMAIN r = 1..n /\ n \in Nat /\ i \in 1..(n + 1) /\ DOMAIN l = 1..(n + 1)
      BY <1>1, <2>5, LenProperties
    <2> HIDE DEF r, n
    <2>7. \A j \in 1..n : l[IF j < i THEN j ELSE j + 1] = r[j]
      BY <2>5
    <2>8. /\ Range(l) = Range(r) \cup {l[i]}
          /\ Once(l) <=> Once(r) /\ l[i] \notin Range(r)
      BY <2>6, <2>7, InsertedOnce
    <2> QED
      BY <2>1, <2>4, <2>5, <2>8 DEF n
  <1> QED
    BY <1>2, <1>3

(* Every node has one place at most, that of the root is none, and a stage *)
(* is nowhere among the steps.                                             *)
Spread(f) ==
  \A n \in Nodes : /\ Once(f[n]) /\ Root \notin Range(f[n])
                   /\ \A m \in Nodes \ {n} : Range(f[m]) \cap Range(f[n]) = {}

(* Every node has one place: it is in one list, once.  OneParent says so   *)
(* of what is in the pipeline, this of all nodes.                          *)
Forest(p) ==
  /\ p \in Pipelines /\ Spread(p.branches) /\ Spread(p.steps)
  /\ \A m, n \in Nodes : Range(p.branches[m]) \cap Range(p.steps[n]) = {}

(* The stages and steps that are in the pipeline.                          *)
Live(p) == Stages(p) \cup Steps(p)

(* A step and the steps in it.                                             *)
Subtree(p, x) == {x} \cup Inside(p, x)

(* The parts of a pipeline.                                                *)
LEMMA PipelineLists ==
  ASSUME NEW p \in Pipelines
  PROVE  p.branches \in Lists /\ p.steps \in Lists /\ Root \in Nodes
  BY MaxIdAssumption DEF Pipelines, Lists, Root, Nodes

(* The stages are the least set that holds the branches of the root and of *)
(* each of its stages; each is a branch of one of them.                    *)
LEMMA StagesFacts ==
  ASSUME NEW p \in Pipelines
  PROVE  /\ Stages(p) \in SUBSET Nodes /\ Range(p.branches[Root]) \subseteq Stages(p)
         /\ ClosedUnder(p.branches, Stages(p))
         /\ \A T \in SUBSET Nodes : Range(p.branches[Root]) \subseteq T /\ ClosedUnder(p.branches, T)
                                      => Stages(p) \subseteq T
         /\ \A s \in Stages(p) : \E k \in {Root} \cup Stages(p) : s \in Range(p.branches[k])
  <1>1. p.branches \in Lists /\ Root \in Nodes
    BY PipelineLists
  <1> QED
    BY <1>1, BelowFacts, BelowLast DEF Stages

(* The same for the steps in a node.                                       *)
LEMMA InsideFacts ==
  ASSUME NEW p \in Pipelines, NEW n \in Nodes
  PROVE  /\ Inside(p, n) \in SUBSET Nodes /\ Range(p.steps[n]) \subseteq Inside(p, n)
         /\ ClosedUnder(p.steps, Inside(p, n))
         /\ \A T \in SUBSET Nodes : Range(p.steps[n]) \subseteq T /\ ClosedUnder(p.steps, T)
                                      => Inside(p, n) \subseteq T
         /\ \A y \in Inside(p, n) : \E k \in Subtree(p, n) : y \in Range(p.steps[k])
         /\ \A y \in Inside(p, n) : Inside(p, y) \subseteq Inside(p, n)
  <1>1. p.steps \in Lists
    BY PipelineLists
  <1> QED
    BY <1>1, BelowFacts, BelowLast, BelowBelow DEF Inside, Subtree

(* And for the steps of the pipeline.                                      *)
LEMMA StepsFacts ==
  ASSUME NEW p \in Pipelines
  PROVE  /\ Steps(p) \in SUBSET Nodes
         /\ \A m \in Live(p) : Range(p.steps[m]) \subseteq Steps(p) /\ Inside(p, m) \subseteq Steps(p)
         /\ \A T \in SUBSET Nodes :
              ClosedUnder(p.steps, T) /\ (\A s \in Stages(p) : Range(p.steps[s]) \subseteq T)
                => Steps(p) \subseteq T
         /\ \A y \in Steps(p) : \E k \in Live(p) : y \in Range(p.steps[k])
  <1>1. \A s \in Stages(p) : s \in Nodes
    BY StagesFacts
  <1>2. \A y : y \in Steps(p) <=> \E s \in Stages(p) : y \in Inside(p, s)
    BY DEF Steps
  <1>3. Steps(p) \in SUBSET Nodes
    BY <1>1, <1>2, InsideFacts
  <1>4. \A m \in Live(p) : Inside(p, m) \subseteq Steps(p) /\ m \in Nodes
    BY <1>1, <1>2, <1>3, InsideFacts DEF Live
  <1>5. \A m \in Live(p) : Range(p.steps[m]) \subseteq Steps(p)
    BY <1>4, InsideFacts
  <1>6. ASSUME NEW T \in SUBSET Nodes, ClosedUnder(p.steps, T),
               \A s \in Stages(p) : Range(p.steps[s]) \subseteq T
        PROVE  Steps(p) \subseteq T
    BY <1>1, <1>2, <1>6, InsideFacts
  <1>7. ASSUME NEW y \in Steps(p) PROVE \E k \in Live(p) : y \in Range(p.steps[k])
    <2>1. PICK s \in Stages(p) : y \in Inside(p, s)
      BY <1>2
    <2>2. PICK k \in Subtree(p, s) : y \in Range(p.steps[k])
      BY <1>1, <2>1, InsideFacts
    <2>3. k \in Live(p)
      BY <1>4, <2>1, <2>2 DEF Subtree, Live
    <2> QED
      BY <2>2, <2>3
  <1> QED
    BY <1>3, <1>4, <1>5, <1>6, <1>7

(* The least of the sets that are closed.                                  *)
LEMMA InsideLeast ==
  ASSUME NEW p \in Pipelines, NEW n \in Nodes, NEW T \in SUBSET Nodes,
         Range(p.steps[n]) \subseteq T, \A m \in T : Range(p.steps[m]) \subseteq T
  PROVE  Inside(p, n) \subseteq T
  <1>1. ClosedUnder(p.steps, T)
    BY Zenon DEF ClosedUnder
  <1> QED
    BY <1>1, InsideFacts, Zenon

(* The steps, and the stages, are within any set that their lists do not   *)
(* leave.                                                                  *)
LEMMA StepsLeast ==
  ASSUME NEW p \in Pipelines, NEW T \in SUBSET Nodes,
         \A m \in Stages(p) \cup T : Range(p.steps[m]) \subseteq T
  PROVE  Steps(p) \subseteq T
  <1>1. ClosedUnder(p.steps, T) /\ \A s \in Stages(p) : Range(p.steps[s]) \subseteq T
    BY Zenon DEF ClosedUnder
  <1> QED
    BY <1>1, StepsFacts, Zenon

LEMMA StagesLeast ==
  ASSUME NEW p \in Pipelines, NEW T \in SUBSET Nodes,
         \A m \in {Root} \cup T : Range(p.branches[m]) \subseteq T
  PROVE  Stages(p) \subseteq T
  <1>1. ClosedUnder(p.branches, T) /\ Range(p.branches[Root]) \subseteq T
    BY Zenon DEF ClosedUnder
  <1> QED
    BY <1>1, StagesFacts, Zenon

-----------------------------------------------------------------------------
(* In a forest stages and steps are apart, and the place of a node tells   *)
(* where it belongs.                                                       *)
LEMMA StagesApart ==
  ASSUME NEW p, Forest(p)
  PROVE  /\ \A n \in Nodes : Inside(p, n) \cap Stages(p) = {}
         /\ Stages(p) \cap Steps(p) = {} /\ Root \notin Live(p)
         /\ \A n \in Nodes : Root \notin Inside(p, n)
  <1> DEFINE B == {y \in Nodes : \E m \in Nodes : y \in Range(p.branches[m])}
             S == {y \in Nodes : \E m \in Nodes : y \in Range(p.steps[m])}
  <1>1. p \in Pipelines /\ Root \in Nodes
    BY PipelineLists DEF Forest
  <1>2. Stages(p) \subseteq B
    BY <1>1, StagesFacts, Zenon
  <1>3. \A n \in Nodes : Inside(p, n) \subseteq S
    <2> TAKE n \in Nodes
    <2>1. Inside(p, n) \in SUBSET Nodes /\ \A y \in Inside(p, n) :
             \E k \in Subtree(p, n) : y \in Range(p.steps[k])
      BY <1>1, InsideFacts
    <2>2. Subtree(p, n) \subseteq Nodes
      BY <2>1 DEF Subtree
    <2> QED
      BY <2>1, <2>2
  <1>4. Steps(p) \subseteq S
    BY <1>1, <1>3, StagesFacts DEF Steps
  <1>5. B \cap S = {} /\ Root \notin B /\ Root \notin S
    BY DEF Forest, Spread
  <1> QED
    BY <1>2, <1>3, <1>4, <1>5 DEF Live

(* A step is in the list of one node.                                      *)
LEMMA OnePlace ==
  ASSUME NEW p, Forest(p), NEW m \in Nodes, NEW k \in Nodes, NEW x,
         x \in Range(p.steps[m]), x \in Range(p.steps[k])
  PROVE  m = k
  BY Zenon DEF Forest, Spread

(* What is in a node that is in the pipeline no more is not either.        *)
LEMMA LiveAbove ==
  ASSUME NEW p, Forest(p), NEW n \in Nodes, NEW y \in Inside(p, n), y \in Live(p)
  PROVE  n \in Live(p)
  <1> DEFINE T == Nodes \ Live(p)
  <1>1. p \in Pipelines
    BY DEF Forest
  <1>2. ASSUME NEW m \in T PROVE Range(p.steps[m]) \subseteq T
    <2> SUFFICES ASSUME NEW z \in Range(p.steps[m]), z \in Live(p) PROVE FALSE
      BY <1>1, PipelineLists, RangeNodes
    <2>1. z \in Inside(p, m)
      BY <1>1, InsideFacts
    <2>2. z \in Steps(p)
      BY <2>1, StagesApart DEF Live
    <2>3. PICK k \in Live(p) : z \in Range(p.steps[k])
      BY <1>1, <2>2, StepsFacts
    <2>4. k \in Nodes
      BY <1>1, StagesFacts, StepsFacts DEF Live
    <2>5. m = k
      BY <2>3, <2>4, OnePlace
    <2> QED
      BY <2>5
  <1>3. ASSUME n \notin Live(p) PROVE FALSE
    <2>1. n \in T /\ T \in SUBSET Nodes
      BY <1>3
    <2>2. Inside(p, n) \subseteq T
      <3> HIDE DEF T
      <3> QED
        BY <1>1, <1>2, <2>1, InsideLeast, Zenon
    <2> QED
      BY <2>2
  <1> QED
    BY <1>3

(* No step is in itself.                                                   *)
LEMMA NotInItself ==
  ASSUME NEW p, Forest(p), NEW x \in Steps(p)
  PROVE  x \notin Inside(p, x)
  <1> SUFFICES ASSUME x \in Inside(p, x) PROVE FALSE
    OBVIOUS
  <1> DEFINE D == Inside(p, x)
             T == Steps(p) \ D
  <1>1. p \in Pipelines /\ x \in Nodes /\ D \in SUBSET Nodes /\ Subtree(p, x) = D
    BY StepsFacts, InsideFacts DEF Forest, Subtree
  <1>2. ASSUME NEW m \in Stages(p) \cup T PROVE Range(p.steps[m]) \subseteq T
    <2>1. m \in Live(p) /\ m \in Nodes /\ m \notin D
      BY <1>1, StagesFacts, StepsFacts, StagesApart DEF Live
    <2> SUFFICES ASSUME NEW z \in Range(p.steps[m]), z \in D PROVE FALSE
      BY <1>1, <2>1, StepsFacts
    <2>2. PICK k \in D : z \in Range(p.steps[k])
      BY <1>1, InsideFacts
    <2>3. m = k
      BY <1>1, <2>1, <2>2, OnePlace
    <2> QED
      BY <2>1, <2>3
  <1>3. Steps(p) \subseteq T
    <2>1. T \in SUBSET Nodes
      BY <1>1, StepsFacts
    <2> HIDE DEF T
    <2> QED
      BY <1>1, <1>2, <2>1, StepsLeast, Zenon
  <1> QED
    BY <1>3

(* No step is in two stages.                                               *)
LEMMA OneStage ==
  ASSUME NEW p, Forest(p), NEW s \in Stages(p), NEW t \in Stages(p), s # t
  PROVE  Inside(p, s) \cap Inside(p, t) = {}
  <1> DEFINE T == Inside(p, t) \ Inside(p, s)
  <1>1. p \in Pipelines /\ s \in Nodes /\ t \in Nodes
    BY StagesFacts DEF Forest
  <1>2. Inside(p, t) \in SUBSET Nodes /\ Inside(p, s) \in SUBSET Nodes
    BY <1>1, InsideFacts
  <1>3. s \notin Inside(p, t) /\ t \notin Inside(p, s)
    BY <1>1, StagesApart
  <1>4. ASSUME NEW m \in {t} \cup T PROVE Range(p.steps[m]) \subseteq T
    <2>1. m \in Nodes /\ m \notin Subtree(p, s) /\ Range(p.steps[m]) \subseteq Inside(p, t)
      BY <1>1, <1>2, <1>3, InsideFacts DEF Subtree, ClosedUnder
    <2> SUFFICES ASSUME NEW z \in Range(p.steps[m]), z \in Inside(p, s) PROVE FALSE
      BY <2>1
    <2>2. PICK k \in Subtree(p, s) : z \in Range(p.steps[k])
      BY <1>1, InsideFacts
    <2>3. m = k
      BY <1>1, <1>2, <2>1, <2>2, OnePlace DEF Subtree
    <2> QED
      BY <2>1, <2>2, <2>3
  <1>5. Inside(p, t) \subseteq T
    <2>1. T \in SUBSET Nodes
      BY <1>2
    <2> HIDE DEF T
    <2> QED
      BY <1>1, <1>4, <2>1, InsideLeast, Zenon
  <1> QED
    BY <1>5

(* What EditorTypeOK says of a pipeline.                                   *)
LEMMA ForestHasOneParent ==
  ASSUME NEW p, Forest(p)
  PROVE  OneParent(p)
  <1>1. p \in Pipelines
    BY DEF Forest
  <1>2. {Root} \cup Stages(p) \cup Steps(p) \subseteq Nodes
    BY <1>1, PipelineLists, StagesFacts, StepsFacts
  <1>3. ASSUME NEW f \in {p.branches, p.steps}, NEW m \in Nodes
        PROVE  /\ Cardinality(Range(f[m])) = Len(f[m])
               /\ \A n \in Nodes \ {m} : Range(f[m]) \cap Range(f[n]) = {}
    <2>1. f[m] \in Seq(Nodes)
      BY <1>1, PipelineLists DEF Lists
    <2>2. Spread(f)
      BY DEF Forest
    <2>3. Once(f[m]) /\ \A n \in Nodes \ {m} : Range(f[m]) \cap Range(f[n]) = {}
      BY <2>2 DEF Spread
    <2> QED
      BY <2>1, <2>3, OnceCounts
  <1> QED
    BY <1>2, <1>3, StagesApart DEF OneParent, Live

(* Another list of one node.                                               *)
LEMMA StepsChanged ==
  ASSUME NEW p \in Pipelines, NEW k \in Nodes, NEW l \in Seq(Nodes)
  PROVE  LET q == [p EXCEPT !.steps[k] = l]
         IN /\ q \in Pipelines /\ q.branches = p.branches
            /\ q.steps = [p.steps EXCEPT ![k] = l]
            /\ q.containers = p.containers /\ q.settings = p.settings /\ q.pristine = p.pristine
  <1>1. p.steps \in [Nodes -> Seq(Nodes)]
    BY DEF Pipelines
  <1>2. [p.steps EXCEPT ![k] = l] \in [Nodes -> Seq(Nodes)]
    BY <1>1
  <1> QED
    BY <1>2 DEF Pipelines

(* The list of a node is replaced.                                         *)
LEMMA BranchesChanged ==
  ASSUME NEW p \in Pipelines, NEW k \in Nodes, NEW l \in Seq(Nodes)
  PROVE  LET q == [p EXCEPT !.branches[k] = l]
         IN /\ q \in Pipelines /\ q.steps = p.steps
            /\ q.branches = [p.branches EXCEPT ![k] = l]
            /\ q.containers = p.containers /\ q.settings = p.settings /\ q.pristine = p.pristine
  <1>1. p.branches \in [Nodes -> Seq(Nodes)]
    BY DEF Pipelines
  <1>2. [p.branches EXCEPT ![k] = l] \in [Nodes -> Seq(Nodes)]
    BY <1>1
  <1> QED
    BY <1>2 DEF Pipelines

(* A list is replaced by one without nodes of other lists.                 *)
LEMMA SpreadChanged ==
  ASSUME NEW f \in Lists, Spread(f), NEW k \in Nodes, NEW l \in Seq(Nodes), Once(l),
         Root \notin Range(l), \A m \in Nodes \ {k} : Range(f[m]) \cap Range(l) = {}
  PROVE  [f EXCEPT ![k] = l] \in Lists /\ Spread([f EXCEPT ![k] = l])
  <1> DEFINE g == [f EXCEPT ![k] = l]
  <1>1. g \in Lists /\ g[k] = l /\ \A m \in Nodes \ {k} : g[m] = f[m]
    BY DEF Lists
  <1> HIDE DEF g
  <1>2. Spread(g)
    <2> SUFFICES ASSUME NEW n \in Nodes
                 PROVE  /\ Once(g[n]) /\ Root \notin Range(g[n])
                        /\ \A m \in Nodes \ {n} : Range(g[m]) \cap Range(g[n]) = {}
      BY DEF Spread
    <2>1. CASE n = k
      BY <1>1, <2>1
    <2>2. CASE n # k
      <3>1. /\ Once(f[n]) /\ Root \notin Range(f[n])
            /\ \A m \in Nodes \ {n} : Range(f[m]) \cap Range(f[n]) = {}
        BY DEF Spread
      <3> QED
        BY <1>1, <2>2, <3>1
    <2> QED
      BY <2>1, <2>2
  <1> QED
    BY <1>1, <1>2 DEF g

(* Stages are found by branches alone.                                     *)
LEMMA SameStages ==
  ASSUME NEW p, NEW q, q.branches = p.branches
  PROVE  Stages(q) = Stages(p)
  BY Zenon DEF Stages

-----------------------------------------------------------------------------
(* A step is taken out.                                                    *)
LEMMA ParentFound ==
  ASSUME NEW p, Forest(p), NEW x \in Steps(p)
  PROVE  /\ FindParent(p, x) \in Live(p) /\ FindParent(p, x) \in Nodes
         /\ x \in Range(p.steps[FindParent(p, x)])
  <1>1. p \in Pipelines
    BY DEF Forest
  <1>2. \E k \in Stages(p) \cup Steps(p) : x \in Range(p.steps[k])
    BY <1>1, StepsFacts DEF Live
  <1>3. FindParent(p, x) \in Live(p) /\ x \in Range(p.steps[FindParent(p, x)])
    BY <1>2, Zenon DEF FindParent, Live
  <1> QED
    BY <1>1, <1>3, StagesFacts, StepsFacts DEF Live

(* Deleting a step takes it out of the one list that it is in.             *)
LEMMA TakenOut ==
  ASSUME NEW p, Forest(p), NEW x \in Steps(p)
  PROVE  LET q == DeleteStepFrom(p, x)
         IN /\ Forest(q) /\ q.branches = p.branches /\ Stages(q) = Stages(p)
            /\ q.containers = p.containers /\ q.settings = p.settings /\ q.pristine = p.pristine
            /\ \A n \in Nodes : Range(q.steps[n]) = Range(p.steps[n]) \ {x}
            /\ \A n \in Nodes : p.steps[n] = <<>> => q.steps[n] = <<>>
  <1> DEFINE k == FindParent(p, x)
             l == RemoveFirst(p.steps[k], x)
             q == [p EXCEPT !.steps[k] = l]
  <1>1. p \in Pipelines /\ k \in Nodes /\ x \in Range(p.steps[k])
    BY ParentFound DEF Forest
  <1>2. DeleteStepFrom(p, x) = q
    BY Zenon DEF DeleteStepFrom
  <1> HIDE DEF k
  <1>3. p.steps[k] \in Seq(Nodes) /\ Once(p.steps[k])
    BY <1>1, PipelineLists DEF Lists, Forest, Spread
  <1>4. l \in Seq(Nodes) /\ Once(l) /\ Range(l) = Range(p.steps[k]) \ {x}
    BY <1>3, RemoveOnce
  <1> HIDE DEF l
  <1>5. /\ q \in Pipelines /\ q.branches = p.branches /\ q.steps = [p.steps EXCEPT ![k] = l]
        /\ q.containers = p.containers /\ q.settings = p.settings /\ q.pristine = p.pristine
    BY <1>1, <1>4, StepsChanged
  <1> HIDE DEF q
  <1>6. q.steps[k] = l /\ \A n \in Nodes \ {k} : q.steps[n] = p.steps[n]
    BY <1>1, <1>5, PipelineLists DEF Lists
  <1>7. Spread(p.steps) /\ \A n \in Nodes \ {k} : x \notin Range(p.steps[n])
    BY <1>1, OnePlace DEF Forest
  <1>8. \A n \in Nodes : Range(q.steps[n]) = Range(p.steps[n]) \ {x}
    BY <1>4, <1>6, <1>7
  <1>9. Spread(q.steps)
    <2>1. Root \notin Range(l) /\ \A m \in Nodes \ {k} : Range(p.steps[m]) \cap Range(l) = {}
      BY <1>1, <1>4, <1>7 DEF Spread
    <2> QED
      BY <1>1, <1>4, <1>5, <1>7, <2>1, PipelineLists, SpreadChanged
  <1>10. Forest(q)
    BY <1>5, <1>8, <1>9 DEF Forest
  <1>11. \A n \in Nodes : p.steps[n] = <<>> => q.steps[n] = <<>>
    <2>1. Range(<<>>) = {}
      BY DEF Range
    <2> QED
      BY <1>1, <1>6, <2>1
  <1> QED
    BY <1>2, <1>5, <1>8, <1>10, <1>11, SameStages

(* It takes out the steps in it and no other.                              *)
LEMMA TakenOutLeaves ==
  ASSUME NEW p, Forest(p), NEW x \in Steps(p)
  PROVE  LET q == DeleteStepFrom(p, x)
         IN /\ \A n \in Nodes : Inside(q, n) \subseteq Inside(p, n)
            /\ \A n \in Nodes : Inside(p, n) \subseteq Inside(q, n) \cup Subtree(p, x)
            /\ Steps(q) = Steps(p) \ Subtree(p, x)
            /\ \A n \in Subtree(p, x) : Inside(q, n) = Inside(p, n)
  <1> DEFINE q == DeleteStepFrom(p, x)
             D == Subtree(p, x)
  <1>1. /\ p \in Pipelines /\ Forest(q) /\ Stages(q) = Stages(p)
        /\ \A n \in Nodes : Range(q.steps[n]) = Range(p.steps[n]) \ {x}
    BY TakenOut DEF Forest
  <1>2. q \in Pipelines
    BY <1>1 DEF Forest
  <1> HIDE DEF q
  <1>3. x \in Nodes /\ D \in SUBSET Nodes /\ D \subseteq Steps(p) /\ x \in D
    BY <1>1, StepsFacts, InsideFacts DEF Subtree, Live
  <1>4. p.steps \in Lists /\ q.steps \in Lists
    BY <1>1, <1>2, PipelineLists
  <1>5. \A n \in Nodes : Inside(q, n) \subseteq Inside(p, n)
    <2> TAKE n \in Nodes
    <2>1. Inside(p, n) \in SUBSET Nodes
      BY <1>1, InsideFacts
    <2>2. \A m \in {n} \cup Inside(p, n) : Range(q.steps[m]) \subseteq Range(p.steps[m])
      BY <1>1, <2>1
    <2> QED
      BY <1>4, <2>2, BelowGrows, Zenon DEF Inside
  <1>6. \A n \in Nodes : Inside(p, n) \subseteq Inside(q, n) \cup D
    <2> TAKE n \in Nodes
    <2> DEFINE T == Inside(q, n) \cup D
    <2>1. T \in SUBSET Nodes /\ Inside(q, n) \in SUBSET Nodes
      BY <1>2, <1>3, InsideFacts
    <2>2. Range(p.steps[n]) \subseteq T
      <3>1. Range(q.steps[n]) \subseteq Inside(q, n)
        BY <1>2, InsideFacts
      <3> QED
        BY <1>1, <1>3, <3>1
    <2>3. ASSUME NEW m \in T PROVE Range(p.steps[m]) \subseteq T
      <3>1. CASE m \in Inside(q, n)
        <4>1. Range(q.steps[m]) \subseteq Inside(q, n)
          BY <1>2, <3>1, InsideFacts DEF ClosedUnder
        <4> QED
          BY <1>1, <1>3, <2>1, <3>1, <4>1
      <3>2. CASE m \in D
        BY <1>1, <1>3, <3>2, InsideFacts DEF Subtree, ClosedUnder
      <3> QED
        BY <3>1, <3>2
    <2> HIDE DEF T
    <2>4. Inside(p, n) \subseteq T
      BY <1>1, <2>1, <2>2, <2>3, InsideLeast, Zenon
    <2> QED
      BY <2>4 DEF T
  <1>7. Steps(q) \subseteq Steps(p) \ D
    <2> DEFINE T == Steps(p) \ D
    <2>1. T \in SUBSET Nodes /\ Stages(p) \in SUBSET Nodes
      BY <1>1, StepsFacts, StagesFacts
    <2>2. ASSUME NEW m \in Stages(q) \cup T PROVE Range(q.steps[m]) \subseteq T
      <3>1. m \in Nodes /\ m \in Live(p) /\ m \notin D
        BY <1>1, <1>3, <2>1, StagesApart DEF Live
      <3>2. Range(q.steps[m]) \subseteq Steps(p) \ {x}
        BY <1>1, <3>1, StepsFacts
      <3> SUFFICES ASSUME NEW z \in Range(q.steps[m]), z \in Inside(p, x) PROVE FALSE
        BY <3>2 DEF Subtree
      <3>3. PICK k \in Subtree(p, x) : z \in Range(p.steps[k])
        BY <1>1, <1>3, InsideFacts
      <3>4. m = k
        BY <1>1, <1>3, <3>1, <3>3, OnePlace
      <3> QED
        BY <3>1, <3>3, <3>4
    <2> HIDE DEF T
    <2>3. Steps(q) \subseteq T
      BY <1>2, <2>1, <2>2, StepsLeast, Zenon
    <2> QED
      BY <2>3 DEF T
  <1>8. Steps(p) \subseteq Steps(q) \cup D
    BY <1>1, <1>6, StagesFacts DEF Steps
  <1>9. \A n \in D : Inside(q, n) = Inside(p, n)
    <2> TAKE n \in D
    <2>1. n \in Nodes /\ Subtree(p, n) \subseteq D
      BY <1>1, <1>3, InsideFacts DEF Subtree
    <2>2. \A m \in D : x \notin Range(p.steps[m])
      <3> TAKE m \in D
      <3>1. Range(p.steps[m]) \subseteq Inside(p, x)
        BY <1>1, <1>3, InsideFacts DEF Subtree, ClosedUnder
      <3> QED
        BY <3>1, NotInItself
    <2>3. \A m \in {n} \cup Inside(p, n) : Range(p.steps[m]) = Range(q.steps[m])
      <3>1. {n} \cup Inside(p, n) \subseteq D
        BY <2>1, Zenon DEF Subtree
      <3>2. \A m \in D : Range(p.steps[m]) = Range(p.steps[m]) \ {x}
        BY <2>2
      <3> HIDE DEF D
      <3> QED
        BY <1>1, <1>3, <3>1, <3>2
    <2> QED
      BY <1>4, <2>1, <2>3, BelowSame, Zenon DEF Inside
  <1> QED
    BY <1>5, <1>6, <1>7, <1>8, <1>9 DEF q

(* A node that has no place is put in a list of steps.                     *)
Placeless(p, x) ==
  \A n \in Nodes : x \notin Range(p.branches[n]) /\ x \notin Range(p.steps[n])

(* A node without a place is put into the list of k: all that was found    *)
(* before is found still.                                                  *)
LEMMA PutIn ==
  ASSUME NEW p, Forest(p), NEW k \in Nodes, NEW x \in Nodes, x # Root, Placeless(p, x),
         NEW l \in Seq(Nodes), Once(l), Range(l) = Range(p.steps[k]) \cup {x},
         NEW q \in Pipelines, q.branches = p.branches, q.steps = [p.steps EXCEPT ![k] = l]
  PROVE  /\ Forest(q) /\ Stages(q) = Stages(p)
         /\ \A n \in Nodes : Inside(p, n) \subseteq Inside(q, n)
         /\ x \in Inside(q, k) /\ Steps(p) \subseteq Steps(q)
         /\ Steps(q) \subseteq Steps(p) \cup Subtree(p, x)
         /\ k \in Live(p) => Subtree(p, x) \subseteq Steps(q)
         /\ k \notin Live(p) => Steps(q) = Steps(p)
  <1>1. p \in Pipelines /\ Spread(p.branches) /\ Spread(p.steps)
        /\ \A m, n \in Nodes : Range(p.branches[m]) \cap Range(p.steps[n]) = {}
    BY DEF Forest
  <1>2. p.steps \in Lists /\ q.steps \in Lists /\ p.branches \in Lists
    BY <1>1, PipelineLists
  <1>3. q.steps[k] = l /\ \A n \in Nodes \ {k} : q.steps[n] = p.steps[n]
    BY <1>2 DEF Lists
  <1>4. \A n \in Nodes : /\ Range(p.steps[n]) \subseteq Range(q.steps[n])
                         /\ Range(q.steps[n]) \subseteq Range(p.steps[n]) \cup {x}
    BY <1>3
  <1>5. Forest(q)
    <2>1. Root \notin Range(l)
      BY <1>1 DEF Spread
    <2>2. \A m \in Nodes \ {k} : Range(p.steps[m]) \cap Range(l) = {}
      BY <1>1 DEF Spread, Placeless
    <2>3. Spread(q.steps)
      BY <1>1, <1>2, <2>1, <2>2, SpreadChanged
    <2>4. \A m, n \in Nodes : Range(q.branches[m]) \cap Range(q.steps[n]) = {}
      BY <1>1, <1>4 DEF Placeless
    <2> QED
      BY <1>1, <2>3, <2>4 DEF Forest
  <1>6. Stages(q) = Stages(p)
    BY SameStages
  <1>7. \A n \in Nodes : Inside(p, n) \subseteq Inside(q, n)
    <2> TAKE n \in Nodes
    <2>1. Inside(q, n) \in SUBSET Nodes
      BY InsideFacts
    <2>2. \A m \in {n} \cup Inside(q, n) : Range(p.steps[m]) \subseteq Range(q.steps[m])
      BY <1>4, <2>1
    <2> QED
      BY <1>2, <2>2, BelowGrows, Zenon DEF Inside
  <1>8. Steps(p) \subseteq Steps(q) /\ Stages(p) \in SUBSET Nodes /\ Steps(p) \in SUBSET Nodes
    BY <1>1, <1>6, <1>7, StagesFacts, StepsFacts DEF Steps
  <1>9. x \in Inside(q, k)
    BY <1>3, InsideFacts
  <1>10. Steps(q) \subseteq Steps(p) \cup Subtree(p, x)
    <2> DEFINE T == Steps(p) \cup Subtree(p, x)
    <2>1. T \in SUBSET Nodes
      BY <1>1, <1>8, InsideFacts DEF Subtree
    <2>2. ASSUME NEW m \in Stages(q) \cup T PROVE Range(q.steps[m]) \subseteq T
      <3>1. m \in Nodes
        BY <1>6, <1>8, <2>1
      <3>2. Range(p.steps[m]) \subseteq T
        <4>1. CASE m \in Live(p)
          BY <1>1, <4>1, StepsFacts
        <4>2. CASE m \in Subtree(p, x)
          BY <1>1, <4>2, InsideFacts DEF Subtree, ClosedUnder
        <4> QED
          BY <1>6, <4>1, <4>2 DEF Live
      <3> QED
        BY <1>4, <3>1, <3>2 DEF Subtree
    <2> HIDE DEF T
    <2>3. Steps(q) \subseteq T
      BY <2>1, <2>2, StepsLeast, Zenon
    <2> QED
      BY <2>3 DEF T
  <1>11. ASSUME k \in Live(p) PROVE Subtree(p, x) \subseteq Steps(q)
    <2>1. k \in Live(q)
      BY <1>6, <1>8, <1>11 DEF Live
    <2>2. x \in Steps(q)
      BY <1>9, <2>1, StepsFacts
    <2>3. Inside(q, x) \subseteq Steps(q)
      BY <2>2, StepsFacts DEF Live
    <2> QED
      BY <1>7, <2>2, <2>3 DEF Subtree
  <1>12. ASSUME k \notin Live(p) PROVE Steps(q) = Steps(p)
    <2>1. ASSUME NEW m \in Stages(q) \cup Steps(p) PROVE Range(q.steps[m]) \subseteq Steps(p)
      <3>1. m \in Live(p) /\ m \in Nodes \ {k}
        BY <1>6, <1>8, <1>12 DEF Live
      <3> QED
        BY <1>1, <1>3, <3>1, StepsFacts
    <2>2. Steps(q) \subseteq Steps(p)
      BY <1>8, <2>1, StepsLeast, Zenon
    <2> QED
      BY <1>8, <2>2
  <1> QED
    BY <1>5, <1>6, <1>7, <1>8, <1>9, <1>10, <1>11, <1>12

-----------------------------------------------------------------------------
(* A step is moved: it is in the pipeline afterwards, unless it was        *)
(* dropped into itself, and what holds it does not lose what is not in it. *)
Positions == {Before, After, FirstChild, LastChild}

(* A step is moved: it is taken out and put in again, and is lost only     *)
(* where the target is in the step itself.                                 *)
LEMMA MovedStep ==
  ASSUME NEW p, Forest(p), NEW x \in Steps(p), NEW target \in Live(p), target # x,
         NEW position \in Positions, position \in {Before, After} => target \in Steps(p)
  PROVE  LET q == MoveStepIn(p, x, target, position)
         IN /\ Forest(q) /\ q.branches = p.branches /\ Stages(q) = Stages(p)
            /\ q.containers = p.containers /\ q.settings = p.settings /\ q.pristine = p.pristine
            /\ \A n \in Nodes : Range(q.steps[n]) \subseteq Range(p.steps[n]) \cup {x}
            /\ \A n \in Nodes \ {target} : p.steps[n] = <<>> => q.steps[n] = <<>>
            /\ \A n \in Nodes : Inside(p, n) \subseteq Inside(q, n) \cup Subtree(p, x)
            /\ Steps(q) \subseteq Steps(p)
            /\ target \in Inside(p, x) => Steps(q) = Steps(p) \ Subtree(p, x)
            /\ target \notin Inside(p, x) => Steps(q) = Steps(p)
  <1> DEFINE out == DeleteStepFrom(p, x)
             D == Subtree(p, x)
             q == MoveStepIn(p, x, target, position)
  <1>1. /\ Forest(out) /\ out.branches = p.branches /\ Stages(out) = Stages(p)
        /\ out.containers = p.containers /\ out.settings = p.settings /\ out.pristine = p.pristine
        /\ \A n \in Nodes : Range(out.steps[n]) = Range(p.steps[n]) \ {x}
        /\ \A n \in Nodes : p.steps[n] = <<>> => out.steps[n] = <<>>
    BY TakenOut
  <1>2. /\ \A n \in Nodes : Inside(p, n) \subseteq Inside(out, n) \cup D
        /\ Steps(out) = Steps(p) \ D
        /\ Subtree(out, x) = D
    BY TakenOutLeaves DEF Subtree
  <1>3. /\ p \in Pipelines /\ out \in Pipelines /\ x \in Nodes /\ target \in Nodes /\ x # Root
        /\ D \subseteq Steps(p)
    <2>1. p \in Pipelines /\ out \in Pipelines
      BY <1>1 DEF Forest
    <2>2. x \in Live(p) /\ Live(p) \in SUBSET Nodes
      BY <2>1, StagesFacts, StepsFacts DEF Live
    <2>3. x # Root
      BY <2>2, StagesApart
    <2>4. Inside(p, x) \subseteq Steps(p)
      BY <2>1, <2>2, StepsFacts
    <2> QED
      BY <2>1, <2>2, <2>3, <2>4 DEF Subtree
  <1>4. Placeless(out, x)
    <2>1. x \in Range(p.steps[FindParent(p, x)]) /\ FindParent(p, x) \in Nodes
      BY ParentFound
    <2>2. \A n \in Nodes : x \notin Range(p.branches[n])
      BY <2>1 DEF Forest
    <2> QED
      BY <1>1, <2>2 DEF Placeless
  <1>5. target \in Live(out) <=> target \notin Inside(p, x)
    <2>1. D \cap Stages(p) = {}
      BY <1>3, StagesApart
    <2> QED
      BY <1>1, <1>2, <1>3, <2>1 DEF Live, Subtree
  <1>6. \A n \in Nodes : out.steps[n] \in Seq(Nodes) /\ Once(out.steps[n])
    BY <1>1, <1>3, PipelineLists DEF Lists, Forest, Spread
  <1>7. CASE position \in {Before, After} /\ target \in Inside(p, x)
    <2>1. q = out
      BY <1>7 DEF MoveStepIn, FirstChild, LastChild, Before, After
    <2> HIDE DEF q, out
    <2> QED
      BY <1>1, <1>2, <1>7, <2>1 DEF q
  <1>8. ASSUME NEW k \in Nodes, NEW l \in Seq(Nodes), Once(l),
               Range(l) = Range(out.steps[k]) \cup {x}, q = [out EXCEPT !.steps[k] = l],
               k \in Live(out) <=> target \notin Inside(p, x),
               k # target => p.steps[k] # <<>>
        PROVE  /\ Forest(q) /\ q.branches = p.branches /\ Stages(q) = Stages(p)
               /\ q.containers = p.containers /\ q.settings = p.settings /\ q.pristine = p.pristine
               /\ \A n \in Nodes : Range(q.steps[n]) \subseteq Range(p.steps[n]) \cup {x}
               /\ \A n \in Nodes \ {target} : p.steps[n] = <<>> => q.steps[n] = <<>>
               /\ \A n \in Nodes : Inside(p, n) \subseteq Inside(q, n) \cup D
               /\ Steps(q) \subseteq Steps(p)
               /\ target \in Inside(p, x) => Steps(q) = Steps(p) \ D
               /\ target \notin Inside(p, x) => Steps(q) = Steps(p)
    <2>1. /\ q \in Pipelines /\ q.branches = out.branches
          /\ q.steps = [out.steps EXCEPT ![k] = l]
          /\ q.containers = out.containers /\ q.settings = out.settings
          /\ q.pristine = out.pristine
      <3> HIDE DEF q, out
      <3> QED
        BY <1>3, <1>8, StepsChanged
    <2> HIDE DEF q, out, D
    <2>2. /\ Forest(q) /\ Stages(q) = Stages(out)
          /\ \A n \in Nodes : Inside(out, n) \subseteq Inside(q, n)
          /\ Steps(out) \subseteq Steps(q) /\ Steps(q) \subseteq Steps(out) \cup D
          /\ k \in Live(out) => D \subseteq Steps(q)
          /\ k \notin Live(out) => Steps(q) = Steps(out)
      <3>1. /\ Forest(q) /\ Stages(q) = Stages(out)
            /\ \A n \in Nodes : Inside(out, n) \subseteq Inside(q, n)
            /\ Steps(out) \subseteq Steps(q) /\ Steps(q) \subseteq Steps(out) \cup Subtree(out, x)
            /\ k \in Live(out) => Subtree(out, x) \subseteq Steps(q)
            /\ k \notin Live(out) => Steps(q) = Steps(out)
        <4>1. Forest(out) /\ x \in Nodes /\ x # Root
          BY <1>1, <1>3
        <4>2. Once(l) /\ Range(l) = Range(out.steps[k]) \cup {x}
          BY <1>8
        <4> QED
          BY <1>4, <2>1, <4>1, <4>2, PutIn
      <3> QED
        BY <1>2, <3>1, Zenon
    <2>3. q.steps[k] = l /\ \A n \in Nodes \ {k} : q.steps[n] = out.steps[n]
      BY <1>3, <1>8, <2>1, PipelineLists DEF Lists
    <2>4. \A n \in Nodes : Range(q.steps[n]) \subseteq Range(p.steps[n]) \cup {x}
      BY <1>1, <1>8, <2>3
    <2>5. \A n \in Nodes \ {target} : p.steps[n] = <<>> => q.steps[n] = <<>>
      BY <1>1, <1>8, <2>3
    <2>6. \A n \in Nodes : Inside(p, n) \subseteq Inside(q, n) \cup D
      BY <1>2, <2>2
    <2>7. Steps(q) \subseteq Steps(p)
      BY <1>2, <1>3, <2>2
    <2>8. target \in Inside(p, x) => Steps(q) = Steps(p) \ D
      BY <1>2, <1>8, <2>2
    <2>9. target \notin Inside(p, x) => Steps(q) = Steps(p)
      BY <1>2, <1>8, <2>2, <2>7
    <2> QED
      BY <1>1, <2>1, <2>2, <2>4, <2>5, <2>6, <2>7, <2>8, <2>9
  <1>9. CASE position = FirstChild
    <2> DEFINE l == Cons(x, out.steps[target])
    <2>1. q = [out EXCEPT !.steps[target] = l]
      BY <1>9, Zenon DEF MoveStepIn, FirstChild, LastChild
    <2>2. l \in Seq(Nodes) /\ Once(l) /\ Range(l) = Range(out.steps[target]) \cup {x}
      BY <1>3, <1>4, <1>6, ConsOnce DEF Placeless
    <2> HIDE DEF q, out, D, l
    <2> QED
      BY <1>3, <1>5, <1>8, <2>1, <2>2 DEF q, D
  <1>10. CASE position = LastChild
    <2> DEFINE l == Append(out.steps[target], x)
    <2>1. q = [out EXCEPT !.steps[target] = l]
      BY <1>10 DEF MoveStepIn, FirstChild, LastChild
    <2>2. l \in Seq(Nodes) /\ Once(l) /\ Range(l) = Range(out.steps[target]) \cup {x}
      BY <1>3, <1>4, <1>6, AppendOnce DEF Placeless
    <2> HIDE DEF q, out, D, l
    <2> QED
      BY <1>3, <1>5, <1>8, <2>1, <2>2 DEF q, D
  <1>11. CASE position \in {Before, After} /\ target \notin Inside(p, x)
    <2> DEFINE k == FindParent(out, target)
               s == out.steps[k]
               i == Index(s, target)
               j == IF position = Before THEN i ELSE i + 1
               l == InsertAt(s, j, x)
    <2>1. q = [out EXCEPT !.steps[k] = l]
      BY <1>11, Zenon DEF MoveStepIn, FirstChild, LastChild, Before, After
    <2>2. target \in Steps(out)
      BY <1>2, <1>3, <1>11 DEF Subtree
    <2>3. k \in Live(out) /\ k \in Nodes /\ target \in Range(s)
      BY <1>1, <2>2, ParentFound
    <2> HIDE DEF k
    <2>4. s \in Seq(Nodes) /\ Once(s)
      BY <1>6, <2>3
    <2> HIDE DEF s
    <2>5. i \in 1..Len(s) /\ Len(s) \in Nat
      <3>1. DOMAIN s = 1..Len(s) /\ Len(s) \in Nat
        BY <2>4, LenProperties
      <3>2. \E a \in DOMAIN s : s[a] = target
        BY <2>3 DEF Range
      <3>3. i \in DOMAIN s
        BY <3>2, Zenon DEF Index
      <3> QED
        BY <3>1, <3>3
    <2> HIDE DEF i
    <2>6. j \in 1..(Len(s) + 1)
      BY <2>5
    <2> HIDE DEF j
    <2>7. x \notin Range(s)
      BY <1>4, <2>3 DEF Placeless, s
    <2>8. l \in Seq(Nodes) /\ Once(l) /\ Range(l) = Range(s) \cup {x}
      BY <1>3, <2>4, <2>6, <2>7, InsertOnce
    <2> HIDE DEF l, q, out, D
    <2>9. p.steps[k] # <<>>
      <3>1. Range(s) = Range(p.steps[k]) \ {x}
        BY <1>1, <2>3 DEF s
      <3>2. Range(<<>>) = {}
        BY DEF Range
      <3> QED
        BY <2>3, <3>1, <3>2
    <2> QED
      BY <1>8, <1>11, <2>1, <2>3, <2>8, <2>9 DEF q, D, s
  <1> QED
    BY <1>7, <1>9, <1>10, <1>11 DEF Positions

(* The nodes from k on are nowhere and hold nothing.                       *)
Unused(p, k) ==
  \A n \in Nodes : /\ Range(p.branches[n]) \cup Range(p.steps[n]) \subseteq 0..(k - 1)
                   /\ n >= k => p.branches[n] = <<>> /\ p.steps[n] = <<>>

(* Only stages at the top have branches, and those have no steps.          *)
TwoLevels(p) ==
  \A s \in Stages(p) :
     p.branches[s] # <<>> => s \in Range(p.branches[Root]) /\ p.steps[s] = <<>>

(* What the editor keeps to, whatever is done: the nodes from k on are new *)
(* ones.                                                                   *)
TreeInv(p, k) == Forest(p) /\ Unused(p, k) /\ TwoLevels(p)

(* A forest is a pipeline.                                                 *)
LEMMA LiveNodes ==
  ASSUME NEW p, Forest(p)
  PROVE  p \in Pipelines /\ Live(p) \in SUBSET Nodes /\ Root \in Nodes
  BY PipelineLists, StagesFacts, StepsFacts DEF Forest, Live

(* Nothing is in the empty list.                                           *)
LEMMA EmptyRange == Range(<<>>) = {}
  BY DEF Range

(* Nothing is found at, in or from a new node.                             *)
LEMMA UnusedFacts ==
  ASSUME NEW p, NEW k \in Nat, Forest(p), Unused(p, k)
  PROVE  /\ \A n \in Nodes : Inside(p, n) \subseteq 0..(k - 1)
         /\ Live(p) \subseteq 0..(k - 1)
         /\ \A n \in Nodes : n >= k => Placeless(p, n) /\ n \notin Live(p) /\ Inside(p, n) = {}
  <1> DEFINE U == Nodes \cap (0..(k - 1))
  <1>1. p \in Pipelines /\ Root \in Nodes /\ Nodes \subseteq Nat
    BY PipelineLists DEF Forest, Nodes
  <1>2. \A n \in Nodes : Range(p.branches[n]) \subseteq U /\ Range(p.steps[n]) \subseteq U
    BY <1>1, PipelineLists, RangeNodes DEF Unused
  <1>3. U \in SUBSET Nodes
    OBVIOUS
  <1>4. \A n \in Nodes : n >= k => n \notin U
    BY <1>1
  <1>5. U \subseteq 0..(k - 1)
    OBVIOUS
  <1> HIDE DEF U
  <1>6. \A n \in Nodes : Inside(p, n) \subseteq U
    BY <1>1, <1>2, <1>3, InsideLeast
  <1>7. Stages(p) \subseteq U
    BY <1>1, <1>2, <1>3, StagesLeast
  <1>8. Live(p) \subseteq U
    BY <1>3, <1>6, <1>7 DEF Live, Steps
  <1>9. ASSUME NEW n \in Nodes, n >= k
        PROVE  Placeless(p, n) /\ n \notin Live(p) /\ Inside(p, n) = {}
    <2>1. n \notin U /\ p.steps[n] = <<>>
      BY <1>4, <1>9 DEF Unused
    <2>2. Range(p.steps[n]) \subseteq {}
      BY <2>1, EmptyRange
    <2>3. Inside(p, n) \subseteq {}
      BY <1>1, <2>2, InsideLeast
    <2> QED
      BY <1>2, <1>8, <2>1, <2>3 DEF Placeless
  <1> QED
    BY <1>5, <1>6, <1>8, <1>9

(* A new step.                                                             *)
LEMMA AddedStep ==
  ASSUME NEW p, NEW id \in Nodes, id # 0, TreeInv(p, id), NEW parent \in Live(p),
         parent \in Stages(p) => Childless(p, parent), NEW container
  PROVE  LET q == AddStepTo(p, parent, id, container)
         IN /\ TreeInv(q, id + 1) /\ Stages(q) = Stages(p) /\ q.branches = p.branches
            /\ q.pristine = p.pristine /\ q.settings = p.settings
            /\ \A n \in Nodes : Inside(p, n) \subseteq Inside(q, n)
            /\ id \in Inside(q, parent)
            /\ Steps(p) \subseteq Steps(q) /\ Steps(q) \subseteq Steps(p) \cup {id}
  <1> DEFINE l == Append(p.steps[parent], id)
             r == [p EXCEPT !.steps[parent] = l]
             q == AddStepTo(p, parent, id, container)
  <1>1. p \in Pipelines /\ Forest(p) /\ Unused(p, id) /\ id \in Nat /\ parent \in Nodes
    <2>1. Forest(p) /\ Unused(p, id)
      BY DEF TreeInv
    <2>2. id \in Nat
      BY DEF Nodes
    <2> QED
      BY <2>1, <2>2, LiveNodes
  <1>2. Placeless(p, id) /\ id \notin Live(p) /\ Inside(p, id) = {} /\ parent \in 0..(id - 1)
    BY <1>1, UnusedFacts DEF Nodes
  <1>3. p.steps[parent] \in Seq(Nodes) /\ Once(p.steps[parent])
    BY <1>1, PipelineLists DEF Lists, Forest, Spread
  <1>4. l \in Seq(Nodes) /\ Once(l) /\ Range(l) = Range(p.steps[parent]) \cup {id}
    BY <1>1, <1>2, <1>3, AppendOnce DEF Placeless
  <1>5. /\ q \in Pipelines /\ q.branches = p.branches
        /\ q.steps = [p.steps EXCEPT ![parent] = l]
        /\ q.pristine = p.pristine /\ q.settings = p.settings
    <2> HIDE DEF l
    <2>1. /\ r \in Pipelines /\ r.branches = p.branches
          /\ r.steps = [p.steps EXCEPT ![parent] = l]
          /\ r.containers = p.containers /\ r.pristine = p.pristine /\ r.settings = p.settings
      BY <1>1, <1>4, StepsChanged
    <2> DEFINE c == IF container THEN p.containers \cup {id} ELSE p.containers
    <2>2. c \in SUBSET Nodes
      <3>1. p.containers \in SUBSET Nodes
        BY <1>1 DEF Pipelines
      <3> QED
        BY <3>1
    <2>3. q = [r EXCEPT !.containers = c]
      BY <1>1 DEF AddStepTo, Pipelines, l
    <2> HIDE DEF q, r, c
    <2> QED
      BY <2>1, <2>2, <2>3 DEF Pipelines
  <1> HIDE DEF l, q, r
  <1>6. /\ Forest(q) /\ Stages(q) = Stages(p)
        /\ \A n \in Nodes : Inside(p, n) \subseteq Inside(q, n)
        /\ id \in Inside(q, parent) /\ Steps(p) \subseteq Steps(q)
        /\ Steps(q) \subseteq Steps(p) \cup Subtree(p, id)
    BY <1>1, <1>2, <1>4, <1>5, PutIn DEF Root
  <1>7. q.steps[parent] = l /\ \A n \in Nodes \ {parent} : q.steps[n] = p.steps[n]
    BY <1>1, <1>5, PipelineLists DEF Lists
  <1>8. Unused(q, id + 1)
    <2> SUFFICES ASSUME NEW n \in Nodes
                 PROVE  /\ Range(q.branches[n]) \cup Range(q.steps[n]) \subseteq 0..id
                        /\ n >= id + 1 => q.branches[n] = <<>> /\ q.steps[n] = <<>>
      BY <1>1 DEF Unused
    <2>1. /\ Range(p.branches[n]) \cup Range(p.steps[n]) \subseteq 0..(id - 1)
          /\ n >= id => p.branches[n] = <<>> /\ p.steps[n] = <<>>
      BY <1>1 DEF Unused
    <2>2. Range(q.steps[n]) \subseteq Range(p.steps[n]) \cup {id}
      BY <1>4, <1>7
    <2>3. n >= id + 1 => n >= id /\ n # parent
      BY <1>1, <1>2 DEF Nodes
    <2> QED
      BY <1>1, <1>5, <1>7, <2>1, <2>2, <2>3
  <1>9. TwoLevels(q)
    <2> SUFFICES ASSUME NEW s \in Stages(p), p.branches[s] # <<>>
                 PROVE  s \in Range(p.branches[Root]) /\ q.steps[s] = <<>>
      BY <1>5, <1>6 DEF TwoLevels
    <2>1. s \in Nodes /\ s # parent
      BY <1>1, StagesFacts DEF Childless
    <2> QED
      BY <1>7, <2>1 DEF TreeInv, TwoLevels
  <1> QED
    BY <1>2, <1>5, <1>6, <1>8, <1>9 DEF TreeInv, Subtree, q

-----------------------------------------------------------------------------
(* What is below two roots whose lists hold the same.                      *)
LEMMA BelowTwo ==
  ASSUME NEW f \in Lists, NEW g \in Lists, NEW n \in Nodes, NEW k \in Nodes,
         Range(f[n]) = Range(g[k]), \A m \in Below(f, n) : Range(f[m]) = Range(g[m])
  PROVE  Below(f, n) = Below(g, k)
  <1> DEFINE A == Below(f, n)
             B == Below(g, k)
  <1>1. /\ A \in SUBSET Nodes /\ Range(f[n]) \subseteq A /\ ClosedUnder(f, A)
        /\ B \in SUBSET Nodes /\ Range(g[k]) \subseteq B /\ ClosedUnder(g, B)
        /\ \A T \in SUBSET Nodes : Range(f[n]) \subseteq T /\ ClosedUnder(f, T) => A \subseteq T
        /\ \A T \in SUBSET Nodes : Range(g[k]) \subseteq T /\ ClosedUnder(g, T) => B \subseteq T
    BY BelowFacts
  <1> HIDE DEF A, B
  <1>2. ClosedUnder(g, A)
    BY <1>1 DEF ClosedUnder, A
  <1>3. ClosedUnder(f, A \cap B)
    BY <1>1 DEF ClosedUnder, A
  <1>4. B \subseteq A
    BY <1>1, <1>2
  <1>5. A \subseteq A \cap B
    <2>1. A \cap B \in SUBSET Nodes /\ Range(f[n]) \subseteq A \cap B
      BY <1>1
    <2> QED
      BY <1>1, <1>3, <2>1
  <1> QED
    BY <1>4, <1>5 DEF A, B

(* New stages, which hold nothing yet.                                     *)
LEMMA BranchesAdded ==
  ASSUME NEW p, Forest(p), NEW parent \in {Root} \cup Stages(p), NEW N \in SUBSET Nodes,
         \A n \in N : n # Root /\ Placeless(p, n) /\ p.branches[n] = <<>>,
         NEW l \in Seq(Nodes), Once(l), Range(l) = Range(p.branches[parent]) \cup N,
         NEW q \in Pipelines, q.steps = p.steps, q.branches = [p.branches EXCEPT ![parent] = l]
  PROVE  /\ Forest(q) /\ N \subseteq Stages(q) /\ Stages(p) \subseteq Stages(q)
         /\ Stages(q) \subseteq Stages(p) \cup N /\ Steps(p) \subseteq Steps(q)
  <1>1. p \in Pipelines /\ parent \in Nodes /\ Stages(p) \in SUBSET Nodes /\ Root \in Nodes
    BY LiveNodes, StagesFacts
  <1>2. q.branches[parent] = l /\ \A n \in Nodes \ {parent} : q.branches[n] = p.branches[n]
    BY <1>1, PipelineLists DEF Lists
  <1>3. \A n \in Nodes : /\ Range(p.branches[n]) \subseteq Range(q.branches[n])
                         /\ Range(q.branches[n]) \subseteq Range(p.branches[n]) \cup N
    BY <1>2
  <1>4. Forest(q)
    <2>1. Root \notin Range(l) /\ \A m \in Nodes \ {parent} : Range(p.branches[m]) \cap Range(l) = {}
      BY <1>1 DEF Forest, Spread, Placeless
    <2>2. Spread(q.branches)
      BY <1>1, <2>1, PipelineLists, SpreadChanged DEF Forest
    <2>3. \A m, n \in Nodes : Range(q.branches[m]) \cap Range(q.steps[n]) = {}
      BY <1>3 DEF Forest, Placeless
    <2> QED
      BY <2>2, <2>3 DEF Forest
  <1>5. Stages(p) \subseteq Stages(q)
    <2>1. Stages(q) \in SUBSET Nodes
      BY StagesFacts
    <2>2. \A m \in {Root} \cup Stages(q) : Range(p.branches[m]) \subseteq Stages(q)
      BY <1>1, <1>3, <2>1, StagesFacts DEF ClosedUnder
    <2> QED
      BY <1>1, <2>1, <2>2, StagesLeast
  <1>6. N \subseteq Stages(q)
    BY <1>2, <1>5, StagesFacts DEF ClosedUnder
  <1>7. Stages(q) \subseteq Stages(p) \cup N
    <2> DEFINE T == Stages(p) \cup N
    <2>1. T \in SUBSET Nodes
      BY <1>1
    <2>2. ASSUME NEW m \in {Root} \cup T PROVE Range(q.branches[m]) \subseteq T
      <3>1. Range(p.branches[m]) \subseteq T
        <4>1. CASE m \in N
          BY <4>1, EmptyRange
        <4>2. CASE m \in {Root} \cup Stages(p)
          BY <1>1, <4>2, StagesFacts DEF ClosedUnder
        <4> QED
          BY <4>1, <4>2
      <3>2. m \in Nodes
        BY <1>1, <2>1
      <3> QED
        BY <1>3, <3>1, <3>2
    <2> HIDE DEF T
    <2>3. Stages(q) \subseteq T
      BY <2>1, <2>2, StagesLeast, Zenon
    <2> QED
      BY <2>3 DEF T
  <1>8. Steps(p) \subseteq Steps(q)
    <2>1. \A n : Inside(q, n) = Inside(p, n)
      BY Zenon DEF Inside
    <2> QED
      BY <1>5, <2>1 DEF Steps
  <1> QED
    BY <1>4, <1>5, <1>6, <1>7, <1>8

(* createSequentialStage keeps the tree and every step.                    *)
LEMMA CreatedSequential ==
  ASSUME NEW p, NEW id \in Nat, id # 0, TreeInv(p, id), NEW new \in Nodes, new >= id
  PROVE  LET q == CreateSequentialStage(p, new)
         IN /\ TreeInv(q, new + 1) /\ new \in Stages(q) /\ Inside(q, new) = {}
            /\ Steps(p) \subseteq Steps(q) /\ Childless(q, new)
            /\ q.pristine = p.pristine
  <1> DEFINE l == Append(p.branches[Root], new)
             q == CreateSequentialStage(p, new)
  <1>1. p \in Pipelines /\ Forest(p) /\ Unused(p, id) /\ Root \in Nodes /\ new \in Nat
    <2>1. Forest(p) /\ Unused(p, id)
      BY DEF TreeInv
    <2>2. new \in Nat
      BY DEF Nodes
    <2> QED
      BY <2>1, <2>2, LiveNodes
  <1>2. Placeless(p, new) /\ new \notin Live(p) /\ Inside(p, new) = {}
    BY <1>1, UnusedFacts
  <1>3. new # Root /\ p.branches[new] = <<>> /\ p.steps[new] = <<>>
    BY <1>1 DEF Unused, Root
  <1>4. l \in Seq(Nodes) /\ Once(l) /\ Range(l) = Range(p.branches[Root]) \cup {new}
    <2>1. p.branches[Root] \in Seq(Nodes) /\ Once(p.branches[Root])
      BY <1>1, PipelineLists DEF Lists, Forest, Spread
    <2> QED
      BY <1>1, <1>2, <2>1, AppendOnce DEF Placeless
  <1>5. /\ q \in Pipelines /\ q.steps = p.steps /\ q.branches = [p.branches EXCEPT ![Root] = l]
        /\ q.pristine = p.pristine
    <2>1. q = [p EXCEPT !.branches[Root] = l]
      BY DEF CreateSequentialStage
    <2> HIDE DEF q, l
    <2> QED
      BY <1>1, <1>4, <2>1, BranchesChanged
  <1> HIDE DEF q, l
  <1>6. /\ Forest(q) /\ {new} \subseteq Stages(q) /\ Stages(p) \subseteq Stages(q)
        /\ Stages(q) \subseteq Stages(p) \cup {new} /\ Steps(p) \subseteq Steps(q)
    <2>1. {new} \in SUBSET Nodes /\ Root \in {Root} \cup Stages(p)
      OBVIOUS
    <2>2. \A n \in {new} : n # Root /\ Placeless(p, n) /\ p.branches[n] = <<>>
      BY <1>2, <1>3
    <2> QED
      BY <1>1, <1>4, <1>5, <2>1, <2>2, BranchesAdded
  <1>7. q.branches[Root] = l /\ \A n \in Nodes \ {Root} : q.branches[n] = p.branches[n]
    BY <1>1, <1>5, PipelineLists DEF Lists
  <1>8. Unused(q, new + 1)
    <2> SUFFICES ASSUME NEW n \in Nodes
                 PROVE  /\ Range(q.branches[n]) \cup Range(q.steps[n]) \subseteq 0..new
                        /\ n >= new + 1 => q.branches[n] = <<>> /\ q.steps[n] = <<>>
      BY <1>1 DEF Unused
    <2>1. /\ Range(p.branches[n]) \cup Range(p.steps[n]) \subseteq 0..(id - 1)
          /\ n >= id => p.branches[n] = <<>> /\ p.steps[n] = <<>>
      BY <1>1 DEF Unused
    <2>2. Range(q.branches[n]) \subseteq Range(p.branches[n]) \cup {new}
      BY <1>4, <1>7
    <2>3. n >= new + 1 => n >= id /\ n # Root
      BY <1>1 DEF Nodes, Root
    <2> QED
      BY <1>1, <1>5, <1>7, <2>1, <2>2, <2>3
  <1>9. TwoLevels(q)
    <2> SUFFICES ASSUME NEW s \in Stages(q), q.branches[s] # <<>>
                 PROVE  s \in Range(q.branches[Root]) /\ q.steps[s] = <<>>
      BY DEF TwoLevels
    <2>1. s # Root /\ s \in Nodes
      BY <1>5, <1>6, StagesFacts, StagesApart DEF Live
    <2>2. s \in Stages(p) /\ p.branches[s] # <<>>
      BY <1>3, <1>6, <1>7, <2>1
    <2> QED
      BY <1>4, <1>5, <1>7, <2>2 DEF TreeInv, TwoLevels
  <1>10. Inside(q, new) = {} /\ Childless(q, new)
    <2>1. Inside(q, new) = {}
      BY <1>2, <1>5, Zenon DEF Inside
    <2> QED
      BY <2>1, <1>3, <1>7 DEF Childless
  <1> QED
    BY <1>5, <1>6, <1>8, <1>9, <1>10 DEF TreeInv, q

-----------------------------------------------------------------------------
(* What one stage holds is given to another, whose own steps are dropped.  *)
LEMMA GivenForest ==
  ASSUME NEW p, Forest(p), NEW from \in Nodes, NEW to \in Nodes, from # to
  PROVE  LET q == Moved(p, from, to)
         IN /\ Forest(q) /\ q.branches = p.branches /\ Stages(q) = Stages(p)
            /\ q.pristine = p.pristine
            /\ q.steps[to] = p.steps[from] /\ q.steps[from] = <<>>
            /\ \A n \in Nodes \ {from, to} : q.steps[n] = p.steps[n]
  <1> DEFINE f == [p.steps EXCEPT ![to] = p.steps[from]]
             g == [f EXCEPT ![from] = <<>>]
             q == Moved(p, from, to)
  <1>1. p \in Pipelines /\ p.steps \in Lists /\ Spread(p.steps)
    BY PipelineLists DEF Forest
  <1>2. f \in Lists /\ f[to] = p.steps[from] /\ \A n \in Nodes \ {to} : f[n] = p.steps[n]
    BY <1>1 DEF Lists
  <1>3. g \in Lists /\ g[to] = p.steps[from] /\ g[from] = <<>>
        /\ \A n \in Nodes \ {from, to} : g[n] = p.steps[n]
    <2> HIDE DEF f
    <2>1. <<>> \in Seq(Nodes)
      OBVIOUS
    <2> QED
      BY <1>2, <2>1 DEF Lists
  <1>4. q \in Pipelines /\ q.branches = p.branches /\ q.pristine = p.pristine /\ q.steps = g
    <2> DEFINE a == [p.settings EXCEPT ![to] = p.settings[from], ![from] = 0]
    <2>1. a \in [Nodes -> {0, 1}]
      <3>1. p.settings \in [Nodes -> {0, 1}]
        BY <1>1 DEF Pipelines
      <3> QED
        BY <3>1
    <2>2. q = [p EXCEPT !.steps = g, !.settings = a]
      BY DEF Moved
    <2> HIDE DEF g, a, q
    <2> QED
      BY <1>1, <1>3, <2>1, <2>2 DEF Pipelines, Lists
  <1> HIDE DEF q, g, f
  <1>5. ASSUME NEW n \in Nodes
        PROVE  Once(g[n]) /\ Root \notin Range(g[n])
    <2>1. Once(<<>>) /\ Range(<<>>) = {}
      BY EmptyRange DEF Once
    <2>2. \A m \in Nodes : Once(p.steps[m]) /\ Root \notin Range(p.steps[m])
      BY <1>1 DEF Spread
    <2> QED
      BY <1>3, <2>1, <2>2
  <1>6. ASSUME NEW m \in Nodes, NEW n \in Nodes \ {m}
        PROVE  Range(g[n]) \cap Range(g[m]) = {}
    <2>1. \A i \in Nodes : \A j \in Nodes \ {i} : Range(p.steps[j]) \cap Range(p.steps[i]) = {}
      BY <1>1, Zenon DEF Spread
    <2>2. \A i \in Nodes : i = to \/ i = from \/ g[i] = p.steps[i]
      BY <1>3
    <2>3. CASE m = from \/ n = from
      BY <1>3, <2>3, EmptyRange
    <2>4. CASE m = to /\ n # from
      <3>1. g[n] = p.steps[n] /\ n \in Nodes \ {from}
        BY <1>3, <2>4
      <3> QED
        BY <1>3, <2>1, <2>4, <3>1
    <2>5. CASE n = to /\ m # from
      <3>1. g[m] = p.steps[m] /\ from \in Nodes \ {m}
        BY <1>3, <2>5
      <3> QED
        BY <1>3, <2>1, <2>5, <3>1
    <2>6. CASE m \notin {from, to} /\ n \notin {from, to}
      BY <1>3, <2>1, <2>6
    <2> QED
      BY <2>3, <2>4, <2>5, <2>6
  <1>7. Spread(g)
    BY <1>5, <1>6, Zenon DEF Spread
  <1>8. \A m, n \in Nodes : Range(q.branches[m]) \cap Range(g[n]) = {}
    <2>1. \A m, n \in Nodes : Range(p.branches[m]) \cap Range(p.steps[n]) = {}
      BY DEF Forest
    <2>2. \A n \in Nodes : g[n] = <<>> \/ \E k \in Nodes : g[n] = p.steps[k]
      BY <1>3
    <2> QED
      BY <1>4, <2>1, <2>2, EmptyRange
  <1>9. Forest(q)
    BY <1>1, <1>4, <1>7, <1>8 DEF Forest
  <1> QED
    BY <1>4, <1>3, <1>9, SameStages DEF q

(* createParallelStage does, whether the parent had branches or steps of   *)
(* its own: those are found in its first branch.                           *)
LEMMA CreatedParallel ==
  ASSUME NEW p, NEW id \in Nat, id # 0, id + 1 \in Nodes, TreeInv(p, id),
         NEW parent \in Range(p.branches[Root])
  PROVE  LET q == CreateParallelStage(p, parent, id, id + 1)
         IN /\ TreeInv(q, id + 2) /\ id + 1 \in Stages(q) /\ Inside(q, id + 1) = {}
            /\ Steps(p) \subseteq Steps(q) /\ Childless(q, id + 1)
            /\ q.pristine = p.pristine
  <1> DEFINE new == id + 1
             q == CreateParallelStage(p, parent, id, new)
  <1>1. /\ p \in Pipelines /\ Forest(p) /\ Unused(p, id) /\ TwoLevels(p) /\ Root \in Nodes
        /\ id \in Nodes /\ new \in Nodes
    <2>1. Forest(p) /\ Unused(p, id) /\ TwoLevels(p)
      BY DEF TreeInv
    <2>2. id \in Nodes
      BY MaxIdAssumption DEF Nodes
    <2> QED
      BY <2>1, <2>2, LiveNodes
  <1>2. parent \in Stages(p) /\ parent \in Nodes /\ parent # Root
    BY <1>1, StagesFacts, StagesApart DEF Live
  <1>3. /\ \A n \in {id, new} : Placeless(p, n) /\ n \notin Live(p) /\ n # Root
        /\ \A n \in {id, new} : p.branches[n] = <<>> /\ p.steps[n] = <<>>
        /\ id # parent /\ new # parent /\ id # new
    <2>1. \A n \in {id, new} : n \in Nodes /\ n >= id
      BY <1>1
    <2>2. \A n \in {id, new} : Placeless(p, n) /\ n \notin Live(p)
      BY <1>1, <2>1, UnusedFacts
    <2>3. \A n \in {id, new} : n # Root
      BY DEF Root
    <2> QED
      BY <1>1, <1>2, <2>1, <2>2, <2>3 DEF Unused, Live
  <1>4. p.branches[parent] \in Seq(Nodes) /\ Once(p.branches[parent])
    BY <1>1, <1>2, PipelineLists DEF Lists, Forest, Spread
  <1>5. CASE Childless(p, parent)
    <2> DEFINE r == Moved(p, parent, id)
               l == <<id, new>>
    <2>1. /\ Forest(r) /\ r.branches = p.branches /\ Stages(r) = Stages(p)
          /\ r.pristine = p.pristine
          /\ r.steps[id] = p.steps[parent] /\ r.steps[parent] = <<>>
          /\ \A n \in Nodes \ {parent, id} : r.steps[n] = p.steps[n]
      <3>1. parent # id
        BY <1>3
      <3> QED
        BY <1>1, <1>2, <3>1, GivenForest
    <2>2. q = [r EXCEPT !.branches[parent] = l]
      BY <1>5 DEF CreateParallelStage
    <2> HIDE DEF r
    <2>3. r \in Pipelines
      BY <2>1 DEF Forest
    <2>4. l \in Seq(Nodes) /\ Once(l) /\ Range(l) = Range(r.branches[parent]) \cup {id, new}
      <3>1. l \in Seq(Nodes) /\ DOMAIN l = {1, 2} /\ l[1] = id /\ l[2] = new
        BY <1>1
      <3>2. Once(l) /\ Range(l) = {id, new}
        <4> HIDE DEF l
        <4> QED
          BY <1>3, <3>1 DEF Once, Range
      <3>3. Range(r.branches[parent]) = {}
        BY <1>5, <2>1, EmptyRange DEF Childless
      <3> QED
        BY <3>1, <3>2, <3>3
    <2> HIDE DEF l, q
    <2>5. /\ q \in Pipelines /\ q.steps = r.steps /\ q.pristine = r.pristine
          /\ q.branches = [r.branches EXCEPT ![parent] = l]
      BY <1>2, <2>2, <2>3, <2>4, BranchesChanged
    <2>6. \A n \in {id, new} : n # Root /\ Placeless(r, n) /\ r.branches[n] = <<>>
      <3>1. \A n \in Nodes : Range(r.steps[n]) = {} \/ \E k \in Nodes : r.steps[n] = p.steps[k]
        BY <1>2, <2>1, EmptyRange
      <3> QED
        BY <1>3, <2>1, <3>1 DEF Placeless
    <2>7. /\ Forest(q) /\ {id, new} \subseteq Stages(q) /\ Stages(p) \subseteq Stages(q)
          /\ Stages(q) \subseteq Stages(p) \cup {id, new}
      <3> DEFINE N == {id, new}
      <3>1. N \in SUBSET Nodes /\ parent \in {Root} \cup Stages(r)
        BY <1>1, <1>2, <2>1
      <3>2. Range(l) = Range(r.branches[parent]) \cup N
        BY <2>4
      <3>3. \A n \in N : n # Root /\ Placeless(r, n) /\ r.branches[n] = <<>>
        BY <2>6
      <3>4. l \in Seq(Nodes) /\ Once(l)
        BY <2>4
      <3>5. Forest(r)
        BY <2>1
      <3>6. q \in Pipelines /\ q.steps = r.steps /\ q.branches = [r.branches EXCEPT ![parent] = l]
        BY <2>5
      <3> HIDE DEF N
      <3>7. /\ Forest(q) /\ N \subseteq Stages(q) /\ Stages(r) \subseteq Stages(q)
            /\ Stages(q) \subseteq Stages(r) \cup N
        BY <3>1, <3>2, <3>3, <3>4, <3>5, <3>6, BranchesAdded
      <3> QED
        BY <2>1, <3>7 DEF N
    <2>8. q.branches[parent] = l /\ \A n \in Nodes \ {parent} : q.branches[n] = p.branches[n]
      BY <1>1, <1>2, <2>1, <2>5, PipelineLists DEF Lists
    <2>9. Steps(p) \subseteq Steps(q)
      <3>1. Steps(q) \in SUBSET Nodes /\ Stages(p) \in SUBSET Nodes
        BY <1>1, <2>5, StepsFacts, StagesFacts
      <3>2. \A m \in Live(q) : Range(q.steps[m]) \subseteq Steps(q)
        BY <2>5, StepsFacts
      <3>3. ASSUME NEW m \in Stages(p) \cup Steps(q) PROVE Range(p.steps[m]) \subseteq Steps(q)
        <4>1. m \in Live(q) /\ m \in Nodes
          BY <2>7, <3>1, <3>3 DEF Live
        <4>2. CASE m = parent
          <5>1. id \in Live(q)
            BY <2>7 DEF Live
          <5> QED
            BY <2>1, <2>5, <3>2, <4>2, <5>1
        <4>3. CASE m = id
          BY <1>3, <4>3, EmptyRange
        <4>4. CASE m \notin {parent, id}
          BY <2>1, <2>5, <3>2, <4>1, <4>4
        <4> QED
          BY <4>2, <4>3, <4>4
      <3> QED
        BY <1>1, <3>1, <3>3, StepsLeast
    <2>10. Unused(q, id + 2)
      <3> SUFFICES ASSUME NEW n \in Nodes
                   PROVE  /\ Range(q.branches[n]) \cup Range(q.steps[n]) \subseteq 0..new
                          /\ n >= id + 2 => q.branches[n] = <<>> /\ q.steps[n] = <<>>
        BY DEF Unused
      <3>1. \A k \in Nodes : /\ Range(p.branches[k]) \subseteq 0..(id - 1)
                             /\ Range(p.steps[k]) \subseteq 0..(id - 1)
                             /\ k >= id => p.branches[k] = <<>> /\ p.steps[k] = <<>>
        BY <1>1 DEF Unused
      <3>2. Range(q.branches[n]) \subseteq Range(p.branches[n]) \cup {id, new}
        BY <2>1, <2>4, <2>8
      <3>3. Range(q.steps[n]) = {} \/ \E k \in Nodes : q.steps[n] = p.steps[k]
        BY <1>2, <2>1, <2>5, EmptyRange
      <3>4. parent < id
        <4>1. Live(p) \subseteq 0..(id - 1)
          BY <1>1, UnusedFacts
        <4> QED
          BY <1>2, <4>1 DEF Live
      <3>5. n >= id + 2 => n >= id /\ n \notin {parent, id}
        BY <3>4 DEF Nodes
      <3>6. Range(q.steps[n]) \subseteq 0..(id - 1)
        BY <3>1, <3>3
      <3>7. 0..(id - 1) \subseteq 0..new /\ {id, new} \subseteq 0..new
        OBVIOUS
      <3> QED
        BY <2>1, <2>5, <2>8, <3>1, <3>2, <3>5, <3>6, <3>7
    <2>11. TwoLevels(q)
      <3> SUFFICES ASSUME NEW s \in Stages(q), q.branches[s] # <<>>
                   PROVE  s \in Range(q.branches[Root]) /\ q.steps[s] = <<>>
        BY DEF TwoLevels
      <3>1. q.branches[Root] = p.branches[Root]
        BY <1>1, <1>2, <2>8
      <3>2. CASE s = parent
        BY <2>1, <2>5, <3>1, <3>2
      <3>3. CASE s # parent
        <4>1. s \in Nodes /\ p.branches[s] # <<>>
          BY <2>5, <2>8, <3>3, StagesFacts
        <4>2. s \in Stages(p) /\ s # id
          BY <1>3, <2>7, <4>1
        <4> QED
          BY <1>1, <2>1, <2>5, <3>1, <3>3, <4>1, <4>2 DEF TwoLevels
      <3> QED
        BY <3>2, <3>3
    <2>12. Inside(q, new) = {}
      <3>1. q.steps[new] = <<>>
        BY <1>1, <1>3, <2>1, <2>5
      <3>2. Inside(q, new) \subseteq {}
        BY <1>1, <2>5, <3>1, EmptyRange, InsideLeast
      <3> QED
        BY <3>2
    <2>13. Childless(q, new)
      BY <1>1, <1>3, <2>8 DEF Childless
    <2> QED
      BY <2>1, <2>5, <2>7, <2>9, <2>10, <2>11, <2>12, <2>13 DEF TreeInv, q
  <1>6. CASE ~ Childless(p, parent)
    <2> DEFINE l == Append(p.branches[parent], new)
    <2>1. q = [p EXCEPT !.branches[parent] = l]
      BY <1>6 DEF CreateParallelStage
    <2>2. l \in Seq(Nodes) /\ Once(l) /\ Range(l) = Range(p.branches[parent]) \cup {new}
      BY <1>1, <1>2, <1>3, <1>4, AppendOnce DEF Placeless
    <2> HIDE DEF l, q
    <2>3. /\ q \in Pipelines /\ q.steps = p.steps /\ q.pristine = p.pristine
          /\ q.branches = [p.branches EXCEPT ![parent] = l]
      BY <1>1, <1>2, <2>1, <2>2, BranchesChanged
    <2>4. /\ Forest(q) /\ {new} \subseteq Stages(q) /\ Stages(p) \subseteq Stages(q)
          /\ Stages(q) \subseteq Stages(p) \cup {new} /\ Steps(p) \subseteq Steps(q)
      <3>1. {new} \in SUBSET Nodes /\ parent \in {Root} \cup Stages(p)
        BY <1>1, <1>2
      <3>2. \A n \in {new} : n # Root /\ Placeless(p, n) /\ p.branches[n] = <<>>
        BY <1>3
      <3> QED
        BY <1>1, <2>2, <2>3, <3>1, <3>2, BranchesAdded
    <2>5. q.branches[parent] = l /\ \A n \in Nodes \ {parent} : q.branches[n] = p.branches[n]
      BY <1>1, <1>2, <2>3, PipelineLists DEF Lists
    <2>6. Unused(q, id + 2)
      <3> SUFFICES ASSUME NEW n \in Nodes
                   PROVE  /\ Range(q.branches[n]) \cup Range(q.steps[n]) \subseteq 0..new
                          /\ n >= id + 2 => q.branches[n] = <<>> /\ q.steps[n] = <<>>
        BY DEF Unused
      <3>1. /\ Range(p.branches[n]) \subseteq 0..(id - 1)
            /\ Range(p.steps[n]) \subseteq 0..(id - 1)
            /\ n >= id => p.branches[n] = <<>> /\ p.steps[n] = <<>>
        BY <1>1 DEF Unused
      <3>2. Range(q.branches[n]) \subseteq Range(p.branches[n]) \cup {new}
        BY <2>2, <2>5
      <3>3. parent < id
        <4>1. Live(p) \subseteq 0..(id - 1)
          BY <1>1, UnusedFacts
        <4> QED
          BY <1>2, <4>1 DEF Live
      <3>4. n >= id + 2 => n >= id /\ n # parent
        BY <3>3 DEF Nodes
      <3>5. 0..(id - 1) \subseteq 0..new /\ new \in 0..new
        OBVIOUS
      <3> QED
        BY <2>3, <2>5, <3>1, <3>2, <3>4, <3>5
    <2>7. TwoLevels(q)
      <3> SUFFICES ASSUME NEW s \in Stages(q), q.branches[s] # <<>>
                   PROVE  s \in Range(q.branches[Root]) /\ q.steps[s] = <<>>
        BY DEF TwoLevels
      <3>1. q.branches[Root] = p.branches[Root] /\ s \in Nodes
        BY <1>1, <1>2, <2>3, <2>5, StagesFacts
      <3>2. s # new
        BY <1>3, <2>5
      <3>3. s \in Stages(p) /\ p.branches[s] # <<>>
        BY <1>6, <2>4, <2>5, <3>1, <3>2 DEF Childless
      <3> QED
        BY <1>1, <2>3, <3>1, <3>3 DEF TwoLevels
    <2>8. Inside(q, new) = {}
      <3>1. q.steps[new] = <<>>
        BY <1>3, <2>3
      <3>2. Inside(q, new) \subseteq {}
        BY <1>1, <2>3, <3>1, EmptyRange, InsideLeast
      <3> QED
        BY <3>2
    <2>9. Childless(q, new)
      BY <1>1, <1>3, <2>5 DEF Childless
    <2> QED
      BY <2>3, <2>4, <2>6, <2>7, <2>8, <2>9 DEF TreeInv, q
  <1> QED
    BY <1>5, <1>6

(* The branches of stages.                                                 *)
Kids(p, S) == UNION {Range(p.branches[s]) : s \in S}

(* Stages are dropped, and their branches with them.                       *)
LEMMA BranchesDropped ==
  ASSUME NEW p, Forest(p), NEW parent \in {Root} \cup Stages(p), NEW S \in SUBSET Nodes,
         S \subseteq Range(p.branches[parent]),
         \A d \in Kids(p, S) : p.branches[d] = <<>>,
         NEW l \in Seq(Nodes), Once(l), Range(l) = Range(p.branches[parent]) \ S,
         NEW q \in Pipelines, q.steps = p.steps, q.branches = [p.branches EXCEPT ![parent] = l]
  PROVE  Forest(q) /\ Stages(q) = Stages(p) \ (S \cup Kids(p, S))
  <1> DEFINE D == S \cup Kids(p, S)
  <1>1. p \in Pipelines /\ parent \in Nodes /\ Stages(p) \in SUBSET Nodes /\ Root \in Nodes
    BY LiveNodes, StagesFacts
  <1>2. q.branches[parent] = l /\ \A n \in Nodes \ {parent} : q.branches[n] = p.branches[n]
    BY <1>1, PipelineLists DEF Lists
  <1>3. /\ \A n \in Nodes : Range(q.branches[n]) \subseteq Range(p.branches[n])
        /\ \A n \in Nodes : Range(p.branches[n]) \subseteq Range(q.branches[n]) \cup S
    BY <1>2
  <1>4. Forest(q)
    <2>1. Root \notin Range(l) /\ \A m \in Nodes \ {parent} : Range(p.branches[m]) \cap Range(l) = {}
      BY <1>1 DEF Forest, Spread
    <2>2. Spread(q.branches)
      BY <1>1, <2>1, PipelineLists, SpreadChanged DEF Forest
    <2>3. \A m, n \in Nodes : Range(q.branches[m]) \cap Range(q.steps[n]) = {}
      BY <1>3 DEF Forest
    <2> QED
      BY <2>2, <2>3 DEF Forest
  <1>5. \A m \in Nodes : \A n \in Nodes \ {m} : Range(p.branches[n]) \cap Range(p.branches[m]) = {}
    BY Zenon DEF Forest, Spread
  <1>6. Root \notin D
    BY <1>1 DEF Forest, Spread, Kids
  <1>7. \A n \in Nodes \ D : Range(q.branches[n]) \cap D = {}
    <2> SUFFICES ASSUME NEW n \in Nodes \ D, NEW y \in Range(q.branches[n]), y \in D PROVE FALSE
      OBVIOUS
    <2>1. y \in Range(p.branches[n])
      BY <1>3
    <2>2. CASE y \in S
      <3>1. n = parent
        BY <1>1, <1>5, <2>1, <2>2
      <3> QED
        BY <1>2, <2>2, <3>1
    <2>3. CASE y \in Kids(p, S)
      <3>1. PICK s \in S : y \in Range(p.branches[s])
        BY <2>3 DEF Kids
      <3>2. s \in Nodes /\ s # n
        BY <3>1
      <3> QED
        BY <1>5, <2>1, <3>1, <3>2
    <2> QED
      BY <2>2, <2>3
  <1>8. Stages(q) \subseteq Stages(p) \ D
    <2> DEFINE T == Stages(p) \ D
    <2>1. ASSUME NEW m \in {Root} \cup T PROVE Range(q.branches[m]) \subseteq T
      <3>1. m \in Nodes \ D /\ Range(p.branches[m]) \subseteq Stages(p)
        BY <1>1, <1>6, StagesFacts DEF ClosedUnder
      <3> QED
        BY <1>3, <1>7, <3>1
    <2>2. T \in SUBSET Nodes
      BY <1>1
    <2> HIDE DEF T
    <2>3. Stages(q) \subseteq T
      BY <2>1, <2>2, StagesLeast
    <2> QED
      BY <2>3 DEF T
  <1>9. Stages(p) \subseteq Stages(q) \cup D
    <2> DEFINE T == (Stages(q) \cup D) \cap Nodes
    <2>1. ASSUME NEW m \in {Root} \cup T PROVE Range(p.branches[m]) \subseteq T
      <3>1. m \in Nodes /\ Range(p.branches[m]) \subseteq Nodes
        BY <1>1, RangeNodes, PipelineLists
      <3>2. CASE m \in {Root} \cup Stages(q)
        <4>1. Range(q.branches[m]) \subseteq Stages(q)
          BY <3>2, StagesFacts DEF ClosedUnder
        <4> QED
          BY <1>3, <3>1, <4>1
      <3>3. CASE m \in S
        BY <3>1, <3>3 DEF Kids
      <3>4. CASE m \in Kids(p, S)
        BY <3>4, EmptyRange
      <3> QED
        BY <3>2, <3>3, <3>4
    <2>2. T \in SUBSET Nodes
      OBVIOUS
    <2> HIDE DEF T
    <2>3. Stages(p) \subseteq T
      BY <1>1, <2>1, <2>2, StagesLeast
    <2> QED
      BY <2>3 DEF T
  <1> QED
    BY <1>4, <1>8, <1>9

(* The steps of the stages that stay stay; those of the others are gone.   *)
LEMMA StagesLeft ==
  ASSUME NEW p, Forest(p), NEW q, NEW D, Stages(q) = Stages(p) \ D, D \subseteq Stages(p),
         \A s \in Stages(q) : Inside(q, s) = Inside(p, s)
  PROVE  Steps(q) \subseteq Steps(p) /\ Steps(p) \ Steps(q) = UNION {Inside(p, s) : s \in D}
  <1>1. Steps(q) \subseteq Steps(p)
    BY DEF Steps
  <1>2. Steps(p) \ Steps(q) \subseteq UNION {Inside(p, s) : s \in D}
    BY DEF Steps
  <1>3. ASSUME NEW s \in D, NEW y \in Inside(p, s)
        PROVE  y \in Steps(p) \ Steps(q)
    <2>1. y \in Steps(p) /\ s \in Stages(p)
      BY DEF Steps
    <2>2. ASSUME y \in Steps(q) PROVE FALSE
      <3>1. PICK t \in Stages(q) : y \in Inside(q, t)
        BY <2>2 DEF Steps
      <3>2. t \in Stages(p) /\ s # t /\ y \in Inside(p, t)
        BY <3>1
      <3>3. Inside(p, s) \cap Inside(p, t) = {}
        BY <2>1, <3>2, OneStage
      <3> QED
        BY <3>2, <3>3
    <2> QED
      BY <2>1, <2>2
  <1> QED
    BY <1>1, <1>2, <1>3

(* findParentStage finds the parent of a stage.                            *)
LEMMA ParentStageFound ==
  ASSUME NEW p, Forest(p), NEW s \in Stages(p)
  PROVE  /\ FindParentStage(p, s) \in {Root} \cup Stages(p)
         /\ s \in Range(p.branches[FindParentStage(p, s)])
  <1>1. \E m \in {Root} \cup Stages(p) : s \in Range(p.branches[m])
    BY StagesFacts DEF Forest
  <1> QED
    BY <1>1 DEF FindParentStage

(* A branch merged into its parent.                                        *)
Merged(p, l, parent) == [Moved(p, l, parent) EXCEPT !.branches[parent] = <<>>]

(* What is dropped when the branch of a stage is deleted and the one that  *)
(* is left alone is merged into its parent.                                *)
LEMMA MergedBranch ==
  ASSUME NEW p, NEW id \in Nat, TreeInv(p, id), NEW parent \in Stages(p),
         NEW s \in Stages(p), NEW l \in Nodes, s # l, Range(p.branches[parent]) = {s, l}
  PROVE  LET q == Merged(p, l, parent)
         IN /\ TreeInv(q, id) /\ q.pristine = p.pristine
            /\ Steps(q) \subseteq Steps(p) /\ Steps(p) \ Steps(q) = Inside(p, s)
            /\ p.branches[s] = <<>>
  <1> DEFINE r == Moved(p, l, parent)
             q == Merged(p, l, parent)
  <1>1. /\ p \in Pipelines /\ Forest(p) /\ Unused(p, id) /\ TwoLevels(p) /\ Root \in Nodes
        /\ parent \in Nodes /\ s \in Nodes /\ Stages(p) \in SUBSET Nodes
    <2>1. Forest(p) /\ Unused(p, id) /\ TwoLevels(p)
      BY DEF TreeInv
    <2> QED
      BY <2>1, LiveNodes, StagesFacts
  <1>2. \A m \in Nodes : \A n \in Nodes \ {m} : Range(p.branches[n]) \cap Range(p.branches[m]) = {}
    BY <1>1, Zenon DEF Forest, Spread
  <1>3. parent # Root /\ s # Root
    BY <1>1, StagesApart DEF Live
  <1>4. p.branches[parent] # <<>>
    BY EmptyRange
  <1>5. parent \in Range(p.branches[Root]) /\ p.steps[parent] = <<>>
    BY <1>1, <1>4 DEF TwoLevels
  <1>6. l \in Stages(p) /\ s \notin Range(p.branches[Root]) /\ l \notin Range(p.branches[Root])
    BY <1>1, <1>2, <1>3, StagesFacts DEF ClosedUnder
  <1>7. p.branches[s] = <<>> /\ p.branches[l] = <<>>
    BY <1>1, <1>6 DEF TwoLevels
  <1>8. parent # l /\ parent # s
    BY <1>5, <1>6
  <1>9. /\ Forest(r) /\ r.branches = p.branches /\ Stages(r) = Stages(p)
        /\ r.pristine = p.pristine
        /\ r.steps[parent] = p.steps[l] /\ r.steps[l] = <<>>
        /\ \A n \in Nodes \ {l, parent} : r.steps[n] = p.steps[n]
    BY <1>1, <1>8, GivenForest
  <1> HIDE DEF r
  <1>10. /\ q \in Pipelines /\ q.steps = r.steps /\ q.pristine = r.pristine
         /\ q.branches = [r.branches EXCEPT ![parent] = <<>>]
    <2>1. r \in Pipelines /\ <<>> \in Seq(Nodes)
      BY <1>9 DEF Forest
    <2> DEFINE e == <<>>
    <2>2. e \in Seq(Nodes)
      BY <2>1
    <2>3. q = [r EXCEPT !.branches[parent] = e]
      BY DEF Merged, r
    <2> HIDE DEF e, q
    <2>4. /\ q \in Pipelines /\ q.steps = r.steps /\ q.pristine = r.pristine
          /\ q.branches = [r.branches EXCEPT ![parent] = e]
      BY <1>1, <2>1, <2>2, <2>3, BranchesChanged
    <2> QED
      BY <2>4 DEF e
  <1> HIDE DEF q
  <1>11. Forest(q) /\ Stages(q) = Stages(p) \ {s, l}
    <2> DEFINE S == {s, l}
               e == <<>>
    <2>1. Kids(r, S) = {}
      BY <1>7, <1>9, EmptyRange DEF Kids
    <2>2. e \in Seq(Nodes) /\ Once(e) /\ Range(e) = Range(r.branches[parent]) \ S
      BY <1>9, EmptyRange DEF Once
    <2>3. S \in SUBSET Nodes /\ S \subseteq Range(r.branches[parent])
      BY <1>1, <1>9
    <2>4. parent \in {Root} \cup Stages(r) /\ Forest(r)
      BY <1>9
    <2>5. q \in Pipelines /\ q.steps = r.steps /\ q.branches = [r.branches EXCEPT ![parent] = e]
      BY <1>10
    <2>6. \A d \in Kids(r, S) : r.branches[d] = <<>>
      BY <2>1
    <2> HIDE DEF S, e
    <2>7. Forest(q) /\ Stages(q) = Stages(r) \ (S \cup Kids(r, S))
      BY <2>2, <2>3, <2>4, <2>5, <2>6, BranchesDropped
    <2> QED
      BY <1>9, <2>1, <2>7 DEF S
  <1>12. /\ q.branches[parent] = <<>> /\ \A n \in Nodes \ {parent} : q.branches[n] = p.branches[n]
    BY <1>1, <1>9, <1>10, PipelineLists DEF Lists
  <1>13. Inside(q, parent) = Inside(p, l)
    <2>1. \A m \in Inside(p, l) : m \in Nodes /\ m \notin {l, parent}
      BY <1>1, <1>6, InsideFacts, StagesApart
    <2>2. \A m \in Inside(p, l) : Range(p.steps[m]) = Range(q.steps[m])
      BY <1>9, <1>10, <2>1
    <2>3. Range(p.steps[l]) = Range(q.steps[parent])
      BY <1>9, <1>10
    <2>4. p.steps \in Lists /\ q.steps \in Lists
      BY <1>1, <1>10, PipelineLists
    <2> QED
      BY <1>1, <2>2, <2>3, <2>4, BelowTwo DEF Inside
  <1>14. ASSUME NEW t \in Stages(p) \ {l, parent}
         PROVE  Inside(q, t) = Inside(p, t)
    <2>1. \A m \in {t} \cup Inside(p, t) : m \in Nodes /\ m \notin {l, parent}
      BY <1>1, <1>6, InsideFacts, StagesApart
    <2>2. \A m \in {t} \cup Inside(p, t) : Range(p.steps[m]) = Range(q.steps[m])
      BY <1>9, <1>10, <2>1
    <2>3. p.steps \in Lists /\ q.steps \in Lists /\ t \in Nodes
      BY <1>1, <1>10, PipelineLists
    <2> QED
      BY <2>2, <2>3, BelowSame DEF Inside
  <1>15. Steps(q) \subseteq Steps(p) /\ Steps(p) \ Steps(q) = Inside(p, s)
    <2>1. Inside(p, parent) = {}
      <3>1. Inside(p, parent) \subseteq {}
        BY <1>1, <1>5, EmptyRange, InsideLeast
      <3> QED
        BY <3>1
    <2>2. Steps(q) = UNION {Inside(p, t) : t \in Stages(p) \ {s}}
      <3>1. ASSUME NEW y \in Steps(q) PROVE \E t \in Stages(p) \ {s} : y \in Inside(p, t)
        <4>1. PICK t \in Stages(q) : y \in Inside(q, t)
          BY DEF Steps
        <4>2. CASE t = parent
          BY <1>6, <1>13, <4>1, <4>2
        <4>3. CASE t # parent
          BY <1>11, <1>14, <4>1, <4>3
        <4> QED
          BY <4>2, <4>3
      <3>2. ASSUME NEW t \in Stages(p) \ {s}, NEW y \in Inside(p, t) PROVE y \in Steps(q)
        <4>1. CASE t = l
          BY <1>8, <1>11, <1>13, <3>2, <4>1 DEF Steps
        <4>2. CASE t = parent
          BY <2>1, <3>2, <4>2
        <4>3. CASE t \notin {l, parent}
          BY <1>11, <1>14, <3>2, <4>3 DEF Steps
        <4> QED
          BY <4>1, <4>2, <4>3
      <3> QED
        BY <3>1, <3>2
    <2>3. \A t \in Stages(p) \ {s} : Inside(p, t) \cap Inside(p, s) = {}
      BY <1>1, OneStage
    <2> QED
      BY <2>2, <2>3 DEF Steps
  <1>16. Unused(q, id)
    <2> SUFFICES ASSUME NEW n \in Nodes
                 PROVE  /\ Range(q.branches[n]) \cup Range(q.steps[n]) \subseteq 0..(id - 1)
                        /\ n >= id => q.branches[n] = <<>> /\ q.steps[n] = <<>>
      BY DEF Unused
    <2>1. \A k \in Nodes : /\ Range(p.branches[k]) \subseteq 0..(id - 1)
                           /\ Range(p.steps[k]) \subseteq 0..(id - 1)
                           /\ k >= id => p.branches[k] = <<>> /\ p.steps[k] = <<>>
      BY <1>1 DEF Unused
    <2>2. Range(q.branches[n]) \subseteq 0..(id - 1) /\ (n >= id => q.branches[n] = <<>>)
      BY <1>12, <2>1, EmptyRange
    <2>3. Range(q.steps[n]) = {} \/ \E k \in Nodes : q.steps[n] = p.steps[k]
      BY <1>9, <1>10, EmptyRange
    <2>4. Range(q.steps[n]) \subseteq 0..(id - 1)
      BY <2>1, <2>3
    <2>5. parent \in 0..(id - 1)
      BY <1>1, UnusedFacts DEF Live
    <2>6. n >= id => n # parent
      BY <1>1, <2>5
    <2>7. n >= id => q.steps[n] = <<>>
      BY <1>9, <1>10, <2>1, <2>6
    <2> QED
      BY <2>2, <2>4, <2>7
  <1>17. TwoLevels(q)
    <2> SUFFICES ASSUME NEW t \in Stages(q), q.branches[t] # <<>>
                 PROVE  t \in Range(q.branches[Root]) /\ q.steps[t] = <<>>
      BY DEF TwoLevels
    <2>1. t \in Stages(p) /\ t \in Nodes /\ t \notin {parent, s, l} /\ p.branches[t] # <<>>
      BY <1>1, <1>11, <1>12
    <2>2. t \in Range(p.branches[Root]) /\ p.steps[t] = <<>>
      BY <1>1, <2>1 DEF TwoLevels
    <2> QED
      BY <1>1, <1>3, <1>9, <1>10, <1>12, <2>1, <2>2
  <1> QED
    BY <1>7, <1>9, <1>10, <1>11, <1>15, <1>16, <1>17 DEF TreeInv, q

(* deleteStage takes out the steps of the stage and of its branches, and   *)
(* no other: not those of a branch that is merged.                         *)
LEMMA DeletedStage ==
  ASSUME NEW p, NEW id \in Nat, TreeInv(p, id), NEW s \in Stages(p)
  PROVE  LET q == DeleteStageFrom(p, s)
         IN /\ TreeInv(q, id) /\ q.pristine = p.pristine
            /\ Steps(q) \subseteq Steps(p)
            /\ Steps(p) \ Steps(q) = UNION {Inside(p, t) : t \in {s} \cup Range(p.branches[s])}
  <1> DEFINE q == DeleteStageFrom(p, s)
             parent == FindParentStage(p, s)
             left == RemoveFirst(p.branches[parent], s)
  <1>1. /\ p \in Pipelines /\ Forest(p) /\ Unused(p, id) /\ TwoLevels(p) /\ Root \in Nodes
        /\ s \in Nodes /\ Stages(p) \in SUBSET Nodes
    <2>1. Forest(p) /\ Unused(p, id) /\ TwoLevels(p)
      BY DEF TreeInv
    <2> QED
      BY <2>1, LiveNodes, StagesFacts
  <1>2. parent \in {Root} \cup Stages(p) /\ s \in Range(p.branches[parent]) /\ parent \in Nodes
    BY <1>1, ParentStageFound
  <1>3. p.branches[parent] \in Seq(Nodes) /\ Once(p.branches[parent])
    BY <1>1, <1>2, PipelineLists DEF Lists, Forest, Spread
  <1>4. /\ left \in Seq(Nodes) /\ Once(left) /\ Range(left) = Range(p.branches[parent]) \ {s}
    BY <1>3, RemoveOnce
  <1>5. q = IF parent # Root /\ Len(left) = 1
            THEN [Moved(p, left[1], parent) EXCEPT !.branches[parent] = <<>>]
            ELSE [p EXCEPT !.branches[parent] = left]
    BY DEF DeleteStageFrom
  <1> HIDE DEF parent, left, q
  <1>6. CASE parent # Root /\ Len(left) = 1
    <2> DEFINE l == left[1]
    <2>1. l \in Nodes /\ Range(left) = {l}
      <3>1. DOMAIN left = 1..1 /\ left \in [1..1 -> Nodes]
        BY <1>4, <1>6, LenProperties
      <3> QED
        BY <3>1 DEF Range
    <2>2. s # l /\ Range(p.branches[parent]) = {s, l} /\ parent \in Stages(p)
      BY <1>2, <1>4, <1>6, <2>1
    <2>3. q = Merged(p, l, parent)
      BY <1>5, <1>6 DEF Merged
    <2> HIDE DEF l
    <2>4. /\ TreeInv(q, id) /\ q.pristine = p.pristine
          /\ Steps(q) \subseteq Steps(p) /\ Steps(p) \ Steps(q) = Inside(p, s)
          /\ p.branches[s] = <<>>
      BY <2>1, <2>2, <2>3, MergedBranch
    <2>5. Range(p.branches[s]) = {}
      BY <2>4, EmptyRange
    <2> QED
      BY <2>4, <2>5 DEF q
  <1>7. CASE ~(parent # Root /\ Len(left) = 1)
    <2> DEFINE K == Range(p.branches[s])
    <2>1. q = [p EXCEPT !.branches[parent] = left]
      BY <1>5, <1>7
    <2>2. /\ q \in Pipelines /\ q.steps = p.steps /\ q.pristine = p.pristine
          /\ q.branches = [p.branches EXCEPT ![parent] = left]
      BY <1>1, <1>2, <1>4, <2>1, BranchesChanged
    <2>3. s # Root /\ \A d \in K : d \in Stages(p) /\ d \notin Range(p.branches[Root])
      <3>1. s # Root
        BY <1>1, StagesApart DEF Live
      <3>2. K \subseteq Stages(p)
        BY <1>1, StagesFacts DEF ClosedUnder
      <3>3. K \cap Range(p.branches[Root]) = {}
        BY <1>1, <3>1 DEF Forest, Spread
      <3> QED
        BY <3>1, <3>2, <3>3
    <2>4. Forest(q) /\ Stages(q) = Stages(p) \ ({s} \cup K)
      <3> DEFINE S == {s}
      <3>1. Kids(p, S) = K
        BY DEF Kids
      <3>2. \A d \in Kids(p, S) : p.branches[d] = <<>>
        BY <1>1, <2>3, <3>1 DEF TwoLevels
      <3>3. S \in SUBSET Nodes /\ S \subseteq Range(p.branches[parent])
        BY <1>1, <1>2
      <3>4. Range(left) = Range(p.branches[parent]) \ S
        BY <1>4
      <3> HIDE DEF S, K
      <3>5. Forest(q) /\ Stages(q) = Stages(p) \ (S \cup Kids(p, S))
        BY <1>1, <1>2, <1>4, <2>2, <3>2, <3>3, <3>4, BranchesDropped
      <3> QED
        BY <3>1, <3>5 DEF S
    <2>5. q.branches[parent] = left /\ \A n \in Nodes \ {parent} : q.branches[n] = p.branches[n]
      BY <1>1, <1>2, <2>2, PipelineLists DEF Lists
    <2>6. Unused(q, id)
      <3> SUFFICES ASSUME NEW n \in Nodes
                   PROVE  /\ Range(q.branches[n]) \cup Range(q.steps[n]) \subseteq 0..(id - 1)
                          /\ n >= id => q.branches[n] = <<>> /\ q.steps[n] = <<>>
        BY DEF Unused
      <3>1. \A k \in Nodes : /\ Range(p.branches[k]) \subseteq 0..(id - 1)
                             /\ Range(p.steps[k]) \subseteq 0..(id - 1)
                             /\ k >= id => p.branches[k] = <<>> /\ p.steps[k] = <<>>
        BY <1>1 DEF Unused
      <3>2. Range(q.branches[n]) \subseteq Range(p.branches[n])
        BY <1>4, <2>5
      <3>3. p.branches[parent] # <<>>
        BY <1>2, EmptyRange
      <3>4. n >= id => n # parent
        BY <1>2, <3>1, <3>3
      <3> QED
        BY <2>2, <2>5, <3>1, <3>2, <3>4
    <2>7. TwoLevels(q)
      <3> SUFFICES ASSUME NEW t \in Stages(q), q.branches[t] # <<>>
                   PROVE  t \in Range(q.branches[Root]) /\ q.steps[t] = <<>>
        BY DEF TwoLevels
      <3>1. t \in Stages(p) /\ t \in Nodes /\ t # s
        BY <1>1, <2>4
      <3>2. p.branches[t] # <<>>
        BY <1>2, <2>5, <3>1, EmptyRange
      <3>3. t \in Range(p.branches[Root]) /\ p.steps[t] = <<>>
        BY <1>1, <3>1, <3>2 DEF TwoLevels
      <3>4. t \in Range(q.branches[Root])
        BY <1>1, <1>4, <2>5, <3>1, <3>3
      <3> QED
        BY <2>2, <3>3, <3>4
    <2>8. Steps(q) \subseteq Steps(p) /\ Steps(p) \ Steps(q) = UNION {Inside(p, t) : t \in {s} \cup K}
      <3> DEFINE D == {s} \cup K
      <3>1. D \subseteq Stages(p) /\ Stages(q) = Stages(p) \ D
        BY <2>3, <2>4
      <3>2. \A t \in Stages(q) : Inside(q, t) = Inside(p, t)
        BY <2>2, Zenon DEF Inside
      <3> HIDE DEF D
      <3>3. Steps(q) \subseteq Steps(p) /\ Steps(p) \ Steps(q) = UNION {Inside(p, t) : t \in D}
        BY <1>1, <3>1, <3>2, StagesLeft
      <3> QED
        BY <3>3 DEF D
    <2> QED
      BY <2>2, <2>4, <2>6, <2>7, <2>8 DEF TreeInv, q
  <1> QED
    BY <1>6, <1>7

(* New nodes may be left out.                                              *)
LEMMA LaterTree ==
  ASSUME NEW p, NEW id \in Nat, NEW k \in Nat, id <= k, TreeInv(p, id)
  PROVE  TreeInv(p, k)
  <1>1. ASSUME NEW n \in Nodes
        PROVE  /\ Range(p.branches[n]) \cup Range(p.steps[n]) \subseteq 0..(k - 1)
               /\ n >= k => p.branches[n] = <<>> /\ p.steps[n] = <<>>
    <2>1. /\ Range(p.branches[n]) \cup Range(p.steps[n]) \subseteq 0..(id - 1)
          /\ n >= id => p.branches[n] = <<>> /\ p.steps[n] = <<>>
      BY DEF TreeInv, Unused
    <2>2. 0..(id - 1) \subseteq 0..(k - 1) /\ (n >= k => n >= id)
      BY DEF Nodes
    <2> QED
      BY <2>1, <2>2
  <1> QED
    BY <1>1 DEF TreeInv, Unused

(* Marks and settings say nothing of where a node is.                      *)
LEMMA SameTree ==
  ASSUME NEW p, NEW q \in Pipelines, q.branches = p.branches, q.steps = p.steps
  PROVE  /\ Stages(q) = Stages(p) /\ Steps(q) = Steps(p) /\ Live(q) = Live(p)
         /\ \A n : Inside(q, n) = Inside(p, n) /\ (Childless(q, n) <=> Childless(p, n))
         /\ \A k : TreeInv(p, k) => TreeInv(q, k)
  <1>1. Stages(q) = Stages(p)
    BY Zenon DEF Stages
  <1>2. \A n : Inside(q, n) = Inside(p, n)
    BY Zenon DEF Inside
  <1>3. \A n : Childless(q, n) <=> Childless(p, n)
    BY Zenon DEF Childless
  <1>4. Steps(q) = Steps(p)
    BY <1>1, <1>2 DEF Steps
  <1>5. ASSUME NEW k, TreeInv(p, k) PROVE TreeInv(q, k)
    <2>1. Forest(q)
      BY <1>5 DEF TreeInv, Forest
    <2>2. Unused(q, k)
      BY <1>5 DEF TreeInv, Unused
    <2>3. TwoLevels(q)
      BY <1>1, <1>5 DEF TreeInv, TwoLevels
    <2> QED
      BY <2>1, <2>2, <2>3 DEF TreeInv
  <1> QED
    BY <1>1, <1>2, <1>3, <1>4, <1>5 DEF Live

(* A step is deleted.                                                      *)
LEMMA DeletedStep ==
  ASSUME NEW p, NEW id \in Nat, TreeInv(p, id), NEW x \in Steps(p)
  PROVE  TreeInv(DeleteStepFrom(p, x), id)
  <1> DEFINE q == DeleteStepFrom(p, x)
  <1>1. Forest(p) /\ Unused(p, id) /\ TwoLevels(p)
    BY DEF TreeInv
  <1>2. /\ Forest(q) /\ q.branches = p.branches /\ Stages(q) = Stages(p)
        /\ \A n \in Nodes : Range(q.steps[n]) = Range(p.steps[n]) \ {x}
        /\ \A n \in Nodes : p.steps[n] = <<>> => q.steps[n] = <<>>
    BY <1>1, TakenOut
  <1> HIDE DEF q
  <1>3. Unused(q, id)
    BY <1>1, <1>2 DEF Unused
  <1>4. TwoLevels(q)
    <2>1. Stages(p) \in SUBSET Nodes
      BY <1>1, StagesFacts DEF Forest
    <2> QED
      BY <1>1, <1>2, <2>1 DEF TwoLevels
  <1> QED
    BY <1>2, <1>3, <1>4 DEF TreeInv, q

(* A step is moved within its stage.                                       *)
LEMMA MovedInStage ==
  ASSUME NEW p, NEW id \in Nat, TreeInv(p, id), NEW s \in Stages(p), NEW x \in Inside(p, s),
         NEW target \in {s} \cup Inside(p, s), target # x, NEW position \in Positions,
         position \in {Before, After} => target # s
  PROVE  LET q == MoveStepIn(p, x, target, position)
         IN /\ TreeInv(q, id) /\ Stages(q) = Stages(p) /\ q.pristine = p.pristine
            /\ q.branches = p.branches
            /\ Inside(q, s) \subseteq Inside(p, s)
            /\ \A n \in Nodes : Inside(p, n) \subseteq Inside(q, n) \cup Subtree(p, x)
            /\ Steps(q) \subseteq Steps(p)
            /\ target \in Inside(p, x) => Steps(q) = Steps(p) \ Subtree(p, x)
            /\ target \notin Inside(p, x) => Steps(q) = Steps(p)
  <1> DEFINE q == MoveStepIn(p, x, target, position)
  <1>1. /\ Forest(p) /\ Unused(p, id) /\ TwoLevels(p) /\ p \in Pipelines /\ s \in Nodes
        /\ Stages(p) \in SUBSET Nodes
    <2>1. Forest(p) /\ Unused(p, id) /\ TwoLevels(p)
      BY DEF TreeInv
    <2> QED
      BY <2>1, StagesFacts DEF Forest
  <1>2. /\ x \in Steps(p) /\ target \in Live(p) /\ x \in Nodes /\ Inside(p, s) \in SUBSET Nodes
        /\ target # s => target \in Steps(p)
    BY <1>1, InsideFacts DEF Live, Steps
  <1>3. position \in {Before, After} => target \in Steps(p)
    BY <1>2
  <1>4. /\ Forest(q) /\ q.branches = p.branches /\ Stages(q) = Stages(p)
        /\ q.pristine = p.pristine
        /\ \A n \in Nodes : Range(q.steps[n]) \subseteq Range(p.steps[n]) \cup {x}
        /\ \A n \in Nodes \ {target} : p.steps[n] = <<>> => q.steps[n] = <<>>
        /\ \A n \in Nodes : Inside(p, n) \subseteq Inside(q, n) \cup Subtree(p, x)
        /\ Steps(q) \subseteq Steps(p)
        /\ target \in Inside(p, x) => Steps(q) = Steps(p) \ Subtree(p, x)
        /\ target \notin Inside(p, x) => Steps(q) = Steps(p)
    BY <1>1, <1>2, <1>3, MovedStep
  <1> HIDE DEF q
  <1>5. x \in 0..(id - 1) /\ target \in 0..(id - 1)
    BY <1>1, <1>2, UnusedFacts DEF Live
  <1>6. Unused(q, id)
    <2> SUFFICES ASSUME NEW n \in Nodes
                 PROVE  /\ Range(q.branches[n]) \cup Range(q.steps[n]) \subseteq 0..(id - 1)
                        /\ n >= id => q.branches[n] = <<>> /\ q.steps[n] = <<>>
      BY DEF Unused
    <2>1. /\ Range(p.branches[n]) \subseteq 0..(id - 1)
          /\ Range(p.steps[n]) \subseteq 0..(id - 1)
          /\ n >= id => p.branches[n] = <<>> /\ p.steps[n] = <<>>
      BY <1>1 DEF Unused
    <2>2. Range(q.steps[n]) \subseteq 0..(id - 1)
      BY <1>4, <1>5, <2>1
    <2>3. n >= id => n # target
      BY <1>5 DEF Nodes
    <2> QED
      BY <1>4, <2>1, <2>2, <2>3
  <1>7. p.steps[s] # <<>>
    <2> SUFFICES ASSUME p.steps[s] = <<>> PROVE FALSE
      OBVIOUS
    <2>1. Range(p.steps[s]) \subseteq {}
      BY EmptyRange
    <2>2. Inside(p, s) \subseteq {}
      BY <1>1, <2>1, InsideLeast
    <2> QED
      BY <2>2
  <1>8. TwoLevels(q)
    <2> SUFFICES ASSUME NEW t \in Stages(p), p.branches[t] # <<>>
                 PROVE  t \in Range(p.branches[Root]) /\ q.steps[t] = <<>>
      BY <1>4 DEF TwoLevels
    <2>1. t \in Range(p.branches[Root]) /\ p.steps[t] = <<>> /\ t \in Nodes
      BY <1>1 DEF TwoLevels
    <2>2. t # target
      <3>1. t # s
        BY <1>7, <2>1
      <3>2. t \notin Steps(p)
        BY <1>1, StagesApart
      <3> QED
        BY <1>2, <3>1, <3>2
    <2> QED
      BY <1>4, <2>1, <2>2
  <1>9. Inside(q, s) \subseteq Inside(p, s)
    <2>1. \A m \in {s} \cup Inside(p, s) : Range(p.steps[m]) \subseteq Inside(p, s) /\ m \in Nodes
      BY <1>1, <1>2, InsideFacts DEF ClosedUnder
    <2>2. \A m \in {s} \cup Inside(p, s) : Range(q.steps[m]) \subseteq Inside(p, s)
      BY <1>4, <2>1
    <2>3. q \in Pipelines
      BY <1>4 DEF Forest
    <2> QED
      BY <1>1, <1>2, <2>2, <2>3, InsideLeast
  <1> QED
    BY <1>4, <1>6, <1>8, <1>9 DEF TreeInv, q

(* Nothing is found from a node with an empty list.                        *)
LEMMA NothingBelow ==
  ASSUME NEW f \in Lists, NEW n \in Nodes, f[n] = <<>>
  PROVE  Below(f, n) = {}
  <1>1. Range(f[n]) \subseteq {} /\ ClosedUnder(f, {})
    BY EmptyRange DEF ClosedUnder
  <1> QED
    BY <1>1, BelowFacts

(* The pipeline without a Jenkinsfile.                                     *)
LEMMA EmptyTree == TreeInv(EmptyPipeline, FirstNew)
  <1> DEFINE p == EmptyPipeline
             k == FirstNew
             none == <<>>
  <1>1. /\ p \in Pipelines /\ \A n \in Nodes : p.branches[n] = none /\ p.steps[n] = none
    <2>1. none \in Seq(Nodes)
      OBVIOUS
    <2>2. /\ p.branches = [n \in Nodes |-> none] /\ p.steps = [n \in Nodes |-> none]
          /\ p.settings = [n \in Nodes |-> 0] /\ p.containers = {} /\ p.pristine = {}
          /\ p = [branches |-> p.branches, steps |-> p.steps, containers |-> p.containers,
                  settings |-> p.settings, pristine |-> p.pristine]
      BY DEF EmptyPipeline
    <2> HIDE DEF none, p
    <2>3. p.branches \in [Nodes -> Seq(Nodes)] /\ p.steps \in [Nodes -> Seq(Nodes)]
      BY <2>1, <2>2
    <2>4. p.settings \in [Nodes -> {0, 1}] /\ p.containers \in SUBSET Nodes /\ p.pristine \in SUBSET Nodes
      BY <2>2
    <2>5. p \in Pipelines
      BY <2>2, <2>3, <2>4 DEF Pipelines
    <2> QED
      BY <2>2, <2>5
  <1>2. Once(none) /\ Range(none) = {}
    BY EmptyRange DEF Once
  <1> HIDE DEF none, p
  <1>3. Forest(p)
    BY <1>1, <1>2 DEF Forest, Spread
  <1>4. Unused(p, k)
    BY <1>1, <1>2 DEF Unused, none
  <1>5. Stages(p) = {}
    BY <1>1, NothingBelow, PipelineLists DEF Stages, none
  <1> QED
    BY <1>3, <1>4, <1>5 DEF TreeInv, TwoLevels, p

(* A Jenkinsfile that is loaded is a tree.                                 *)
LEMMA FileTree ==
  ASSUME NEW f \in Files
  PROVE  TreeInv(f, FirstNew)
  <1>1. /\ f \in Pipelines /\ Stages(f) \cup Steps(f) \subseteq 1..(FirstNew - 1)
        /\ FirstNew \in Nat /\ FirstNew # 0
        /\ OneParent(f) /\ Root \in Nodes
        /\ \A n \in Nodes : /\ n \notin {Root} \cup Stages(f) => f.branches[n] = <<>>
                            /\ n \notin Stages(f) \cup Steps(f) => f.steps[n] = <<>>
        /\ \A s \in Stages(f) :
             f.branches[s] # <<>> => s \in Range(f.branches[Root]) /\ f.steps[s] = <<>>
    <2>1. f \in Pipelines /\ Converted(f) /\ FirstNew \in Nodes \ {Root}
      BY FilesAssumption
    <2>2. FirstNew \in Nat /\ FirstNew # 0
      BY <2>1 DEF Nodes, Root
    <2>3. Root \in Nodes
      BY <2>1, PipelineLists
    <2>4. Stages(f) \cup Steps(f) \subseteq 1..(FirstNew - 1) /\ OneParent(f)
      BY <2>1 DEF Converted
    <2>5. \A n \in Nodes : /\ n \notin {Root} \cup Stages(f) => f.branches[n] = <<>>
                           /\ n \notin Stages(f) \cup Steps(f) => f.steps[n] = <<>>
      BY <2>1 DEF Converted
    <2>6. \A s \in Stages(f) :
             f.branches[s] # <<>> => s \in Range(f.branches[Root]) /\ f.steps[s] = <<>>
      BY <2>1, Zenon DEF Converted, Childless
    <2> QED
      BY <2>1, <2>2, <2>3, <2>4, <2>5, <2>6, Zenon
  <1> DEFINE in == {Root} \cup Stages(f) \cup Steps(f)
  <1>2. /\ f.branches \in Lists /\ f.steps \in Lists /\ in \in SUBSET Nodes
        /\ Stages(f) \in SUBSET Nodes /\ Steps(f) \in SUBSET Nodes
    BY <1>1, PipelineLists, StagesFacts, StepsFacts
  <1>3. \A n \in Nodes : Range(f.branches[n]) \subseteq Stages(f)
    BY <1>1, <1>2, StagesFacts, EmptyRange DEF ClosedUnder
  <1>4. \A n \in Nodes : Range(f.steps[n]) \subseteq Steps(f)
    <2>1. \A n \in Stages(f) \cup Steps(f) : Range(f.steps[n]) \subseteq Steps(f)
      BY <1>1, StepsFacts DEF Live
    <2> QED
      BY <1>1, <2>1, EmptyRange
  <1>5. ASSUME NEW g \in {f.branches, f.steps},
               \A n \in Nodes \ in : g[n] = <<>>,
               \A n \in Nodes : Root \notin Range(g[n])
        PROVE  Spread(g)
    <2>1. \A m \in in : /\ Cardinality(Range(g[m])) = Len(g[m])
                        /\ \A n \in in \ {m} : Range(g[m]) \cap Range(g[n]) = {}
      BY <1>1 DEF OneParent
    <2>2. \A n \in Nodes : g[n] \in Seq(Nodes)
      BY <1>2 DEF Lists
    <2> HIDE DEF in
    <2>3. ASSUME NEW n \in Nodes PROVE Once(g[n])
      <3>1. CASE n \in in
        BY <2>1, <2>2, <3>1, OnceCounts
      <3>2. CASE n \notin in
        <4>1. g[n] = <<>>
          BY <1>5, <3>2
        <4> QED
          BY <4>1 DEF Once
      <3> QED
        BY <3>1, <3>2
    <2>4. ASSUME NEW n \in Nodes, NEW m \in Nodes \ {n}
          PROVE  Range(g[m]) \cap Range(g[n]) = {}
      <3>1. CASE n \in in /\ m \in in
        BY <2>1, <3>1
      <3>2. CASE n \notin in \/ m \notin in
        BY <1>5, <3>2, EmptyRange
      <3> QED
        BY <3>1, <3>2
    <2> QED
      BY <1>5, <2>3, <2>4 DEF Spread
  <1>6. Root \notin Stages(f) \cup Steps(f) /\ Stages(f) \cap Steps(f) = {}
    BY <1>1 DEF OneParent
  <1>7. Spread(f.branches)
    BY <1>1, <1>3, <1>5, <1>6
  <1>8. Spread(f.steps)
    BY <1>1, <1>4, <1>5, <1>6
  <1>9. Forest(f)
    BY <1>1, <1>3, <1>4, <1>6, <1>7, <1>8 DEF Forest
  <1>10. Unused(f, FirstNew)
    <2> SUFFICES ASSUME NEW n \in Nodes
                 PROVE  /\ Range(f.branches[n]) \cup Range(f.steps[n]) \subseteq 0..(FirstNew - 1)
                        /\ n >= FirstNew => f.branches[n] = <<>> /\ f.steps[n] = <<>>
      BY DEF Unused
    <2>1. 1..(FirstNew - 1) \subseteq 0..(FirstNew - 1)
      BY <1>1
    <2>2. n >= FirstNew => n \notin {Root} \cup Stages(f) \cup Steps(f)
      BY <1>1 DEF Root, Nodes
    <2> QED
      BY <1>1, <1>3, <1>4, <2>1, <2>2
  <1> QED
    BY <1>1, <1>9, <1>10 DEF TreeInv, TwoLevels

(* What is loaded keeps to the tree.                                       *)
LEMMA LoadedTree ==
  ASSUME NEW f \in Files \cup {NoFile}
  PROVE  TreeInv(TreeOf(f), FirstNew)
  BY FileTree, EmptyTree DEF TreeOf

-----------------------------------------------------------------------------
(* The panels over a tree: EditorMain *)

(* A panel shows a step of the stage, in the one whose panel lies below;   *)
(* or one that was deleted, and then a validation is under way.            *)
PanelFits(p, stage, sel, i, cs) ==
  \/ /\ sel[i] \in Inside(p, stage)
     /\ i > 1 => sel[i] \in Subtree(p, sel[i - 1])
  \/ cs # <<>> /\ sel[i] \notin Live(p)

(* The panels over a pipeline p whose nodes are below k; sent: the nodes   *)
(* of the pipeline that was validated last.                                *)
Fits(p, stage, sel, pick, cs, sent, k) ==
  /\ stage \in Stages(p) \cup {Nothing}
  /\ sel \in Seq(Nodes) /\ Range(sel) \subseteq 1..(k - 1)
  /\ sel # <<>> => stage # Nothing
  /\ \A i \in DOMAIN sel : PanelFits(p, stage, sel, i, cs)
  /\ pick = Root => sel = <<>> /\ (stage = Nothing \/ Childless(p, stage))
  /\ pick \in Nodes \ {Root} => sel = <<>> \/ Last(sel) = pick
  /\ stage # Nothing => Inside(p, stage) \subseteq sent

(* No panel of a step.                                                     *)
LEMMA EmptySelection ==
  /\ <<>> \in Seq(Nodes) /\ Range(<<>>) = {} /\ DOMAIN <<>> = {} /\ \A S : Range(<<>>) \subseteq S
  BY EmptyRange

(* The panel on top.                                                       *)
LEMMA LastSelected ==
  ASSUME NEW sel \in Seq(Nodes), sel # <<>>
  PROVE  /\ Len(sel) \in Nat /\ Len(sel) >= 1 /\ DOMAIN sel = 1..Len(sel) /\ Len(sel) \in DOMAIN sel
         /\ Last(sel) = sel[Len(sel)] /\ Last(sel) \in Nodes /\ Last(sel) \in Range(sel)
  <1>1. Len(sel) \in Nat /\ DOMAIN sel = 1..Len(sel) /\ Len(sel) # 0
    BY LenProperties, EmptySeq
  <1>2. Len(sel) \in DOMAIN sel /\ Len(sel) >= 1
    BY <1>1
  <1>3. sel[Len(sel)] \in Nodes
    BY <1>1, <1>2, ElementOfSeq
  <1> QED
    BY <1>1, <1>2, <1>3 DEF Last, Range

(* No panel is open.                                                       *)
LEMMA NoneFit ==
  ASSUME NEW p, NEW pick, NEW cs, NEW sent, NEW k
  PROVE  Fits(p, Nothing, <<>>, pick, cs, sent, k)
  BY EmptySelection DEF Fits

(* A stage is selected, and no step.                                       *)
LEMMA StageFits ==
  ASSUME NEW p, NEW stage \in Stages(p), NEW pick, pick = Root => Childless(p, stage),
         NEW cs, NEW sent, Inside(p, stage) \subseteq sent, NEW k
  PROVE  Fits(p, stage, <<>>, pick, cs, sent, k)
  BY EmptySelection DEF Fits

(* The same panels, or none of steps, when they all show what is there.    *)
LEMMA FoundFit ==
  ASSUME NEW p \in Pipelines, NEW stage, NEW sel, NEW pick, NEW cs, NEW sent, NEW k,
         Fits(p, stage, sel, pick, cs, sent, k), NEW ds,
         NEW found, found = IF Range(sel) \subseteq Steps(p) THEN sel ELSE <<>>
  PROVE  Fits(p, stage, found, pick, ds, sent, k)
  <1>1. CASE Range(sel) \subseteq Steps(p)
    <2>1. found = sel /\ sel \in Seq(Nodes)
      BY <1>1 DEF Fits
    <2>2. ASSUME NEW i \in DOMAIN sel PROVE PanelFits(p, stage, sel, i, ds)
      <3>1. PanelFits(p, stage, sel, i, cs)
        BY DEF Fits
      <3>2. sel[i] \in Live(p)
        BY <1>1 DEF Live, Range
      <3> QED
        BY <3>1, <3>2 DEF PanelFits
    <2> QED
      BY <2>1, <2>2 DEF Fits
  <1>2. CASE ~(Range(sel) \subseteq Steps(p))
    BY <1>2, EmptySelection DEF Fits
  <1> QED
    BY <1>1, <1>2

(* More validations, and the pipeline as it is.                            *)
LEMMA SameFit ==
  ASSUME NEW p, NEW q, Stages(q) = Stages(p), Live(q) = Live(p),
         \A n : Inside(q, n) = Inside(p, n) /\ (Childless(q, n) <=> Childless(p, n)),
         NEW stage, NEW sel, NEW pick, NEW cs, NEW sent, NEW k,
         Fits(p, stage, sel, pick, cs, sent, k),
         NEW next \in {pick, Nothing}, Nothing \notin Nodes, Root \in Nodes,
         NEW ds, cs # <<>> => ds # <<>>,
         NEW got, stage # Nothing => Inside(p, stage) \subseteq got
  PROVE  Fits(q, stage, sel, next, ds, got, k)
  <1>1. ASSUME NEW i \in DOMAIN sel PROVE PanelFits(q, stage, sel, i, ds)
    <2>1. PanelFits(p, stage, sel, i, cs)
      BY DEF Fits
    <2> QED
      BY <2>1 DEF PanelFits, Subtree
  <1>2. next = Root \/ next \in Nodes \ {Root} => next = pick
    OBVIOUS
  <1> QED
    BY <1>1, <1>2 DEF Fits

(* The panel on top is closed.                                             *)
LEMMA FrontFits ==
  ASSUME NEW p, NEW stage, NEW sel, NEW cs, NEW sent, NEW k,
         Fits(p, stage, sel, Nothing, cs, sent, k), sel # <<>>, Nothing \notin Nodes, Root \in Nodes
  PROVE  /\ Fits(p, stage, Front(sel), Nothing, cs, sent, k)
         /\ \A i \in DOMAIN Front(sel) : i \in DOMAIN sel /\ Front(sel)[i] = sel[i]
         /\ Front(sel) \in Seq(Nodes)
  <1> DEFINE f == Front(sel)
             n == Len(sel)
  <1>1. /\ sel \in Seq(Nodes) /\ n \in Nat /\ n >= 1 /\ DOMAIN sel = 1..n
        /\ \A i \in 1..n : sel[i] \in Nodes
    BY LastSelected, ElementOfSeq DEF Fits
  <1>2. f \in Seq(Nodes) /\ Len(f) = n - 1 /\ \A i \in 1..(n - 1) : f[i] = sel[i]
    <2>1. 1 \in Int /\ n - 1 \in Int /\ \A i \in 1..(n - 1) : sel[i] \in Nodes
      BY <1>1
    <2>2. /\ f \in Seq(Nodes) /\ Len(f) = IF 1 <= n - 1 THEN (n - 1) - 1 + 1 ELSE 0
          /\ \A i \in 1..((n - 1) - 1 + 1) : f[i] = sel[1 + i - 1]
      BY <2>1, SubSeqProperties DEF Front
    <2> HIDE DEF f, n
    <2>3. (n - 1) - 1 + 1 = n - 1 /\ \A i \in 1..(n - 1) : 1 + i - 1 = i
      BY <1>1
    <2>4. Len(f) = n - 1
      BY <1>1, <2>2, <2>3
    <2>5. ASSUME NEW i \in 1..(n - 1) PROVE f[i] = sel[i]
      <3>1. i \in 1..((n - 1) - 1 + 1) /\ 1 + i - 1 = i
        BY <2>3
      <3>2. f[i] = sel[1 + i - 1]
        BY <2>2, <3>1
      <3> QED
        BY <3>1, <3>2
    <2> QED
      BY <2>2, <2>4, <2>5
  <1> HIDE DEF f, n
  <1>3. DOMAIN f = 1..(n - 1)
    BY <1>2, LenProperties
  <1>4. \A i \in DOMAIN f : i \in DOMAIN sel /\ f[i] = sel[i] /\ (i > 1 => i - 1 \in DOMAIN f)
    BY <1>1, <1>2, <1>3
  <1>5. Range(f) \subseteq Range(sel)
    BY <1>4 DEF Range
  <1>6. ASSUME NEW i \in DOMAIN f PROVE PanelFits(p, stage, f, i, cs)
    <2>1. PanelFits(p, stage, sel, i, cs)
      BY <1>4 DEF Fits
    <2>2. f[i] = sel[i] /\ (i > 1 => f[i - 1] = sel[i - 1])
      BY <1>4
    <2> QED
      BY <2>1, <2>2 DEF PanelFits
  <1> QED
    BY <1>2, <1>4, <1>5, <1>6 DEF Fits, f

(* A panel is opened over the others.                                      *)
LEMMA OpenedFits ==
  ASSUME NEW p, NEW stage, NEW sel, NEW pick, NEW cs, NEW sent, NEW k,
         Fits(p, stage, sel, pick, cs, sent, k), stage # Nothing,
         NEW x \in Nodes, x \in 1..(k - 1), Nothing \notin Nodes, Root \in Nodes,
         \/ /\ x \in Inside(p, stage)
            /\ sel # <<>> => x \in Subtree(p, Last(sel))
         \/ cs # <<>> /\ x \notin Live(p)
  PROVE  Fits(p, stage, Append(sel, x), Nothing, cs, sent, k)
  <1> DEFINE r == Append(sel, x)
             n == Len(sel)
  <1>1. sel \in Seq(Nodes) /\ n \in Nat /\ DOMAIN sel = 1..n
    BY LenProperties DEF Fits
  <1>2. /\ r \in Seq(Nodes) /\ Len(r) = n + 1 /\ \A i \in 1..n : r[i] = sel[i]
        /\ r[n + 1] = x
    BY <1>1, AppendProperties
  <1> HIDE DEF r
  <1>3. DOMAIN r = 1..(n + 1)
    BY <1>2, LenProperties
  <1> HIDE DEF n
  <1>4. \A i \in DOMAIN r : i \in DOMAIN sel \/ i = n + 1
    BY <1>1, <1>3
  <1>5. Range(r) \subseteq 1..(k - 1)
    <2>1. \A i \in DOMAIN r : r[i] \in Range(sel) \cup {x}
      BY <1>1, <1>2, <1>4 DEF Range
    <2> QED
      BY <2>1 DEF Fits, Range
  <1>6. ASSUME NEW i \in DOMAIN r PROVE PanelFits(p, stage, r, i, cs)
    <2>1. CASE i \in DOMAIN sel
      <3>1. PanelFits(p, stage, sel, i, cs)
        BY <2>1 DEF Fits
      <3>2. r[i] = sel[i] /\ (i > 1 => r[i - 1] = sel[i - 1])
        BY <1>1, <1>2, <2>1
      <3> QED
        BY <3>1, <3>2 DEF PanelFits
    <2>2. CASE i = n + 1
      <3>1. r[i] = x
        BY <1>2, <2>2
      <3>2. i > 1 => sel # <<>> /\ r[i - 1] = Last(sel)
        <4> SUFFICES ASSUME i > 1 PROVE sel # <<>> /\ r[i - 1] = Last(sel)
          OBVIOUS
        <4>1. n \in 1..n /\ n # 0 /\ i - 1 = n
          BY <1>1, <2>2
        <4>2. sel # <<>>
          BY <4>1 DEF n
        <4> QED
          BY <1>2, <4>1, <4>2 DEF Last, n
      <3> QED
        BY <3>1, <3>2 DEF PanelFits
    <2> QED
      BY <1>4, <2>1, <2>2
  <1> QED
    BY <1>2, <1>5, <1>6 DEF Fits, r

(* The server is sent every node that is found, those in a stage among     *)
(* them.                                                                   *)
LEMMA SentNodes ==
  ASSUME NEW p
  PROVE  DOMAIN Json(p) = {Root} \cup Live(p)
  BY DEF Json, Live

(* It is sent the steps in a stage.                                        *)
LEMMA StageSent ==
  ASSUME NEW p, NEW s \in Stages(p)
  PROVE  Inside(p, s) \subseteq DOMAIN Json(p)
  <1>1. Inside(p, s) \subseteq Live(p)
    BY DEF Live, Steps
  <1> QED
    BY <1>1, SentNodes

(* A step is added to the panel on top, and its panel is opened.           *)
LEMMA AddedFits ==
  ASSUME NEW p, NEW k \in Nodes, k # 0, TreeInv(p, k), Nothing \notin Nodes, Root \in Nodes,
         NEW stage, NEW sel, NEW pick, NEW cs, NEW sent,
         Fits(p, stage, sel, pick, cs, sent, k), stage # Nothing,
         NEW parent, parent = IF pick = Root THEN stage ELSE pick,
         pick # Root => pick \in Inside(p, stage),
         NEW q, TreeInv(q, k + 1), Stages(q) = Stages(p),
         \A n \in Nodes : Inside(p, n) \subseteq Inside(q, n), k \in Inside(q, parent),
         Steps(q) \subseteq Steps(p) \cup {k},
         NEW ds, cs # <<>> => ds # <<>>
  PROVE  Fits(q, stage, Append(sel, k), Nothing, ds, DOMAIN Json(q), k + 1)
  <1>1. /\ Forest(p) /\ Forest(q) /\ p \in Pipelines /\ q \in Pipelines
        /\ stage \in Stages(p) /\ stage \in Nodes /\ k \in Nat
        /\ sel \in Seq(Nodes) /\ Range(sel) \subseteq 1..(k - 1)
    <2>1. Forest(p) /\ Forest(q) /\ k \in Nat
      BY DEF TreeInv, Nodes
    <2>2. stage \in Stages(p)
      BY DEF Fits
    <2> QED
      BY <2>1, <2>2, StagesFacts DEF Forest, Fits
  <1>2. ASSUME NEW i \in DOMAIN sel PROVE PanelFits(q, stage, sel, i, ds)
    <2>1. PanelFits(p, stage, sel, i, cs)
      BY DEF Fits
    <2>2. sel[i] \in 1..(k - 1)
      BY <1>1 DEF Range
    <2>3. sel[i] # k
      BY <1>1, <2>2
    <2>4. CASE cs # <<>> /\ sel[i] \notin Live(p)
      BY <2>3, <2>4 DEF PanelFits, Live
    <2>5. CASE sel[i] \in Inside(p, stage) /\ (i > 1 => sel[i] \in Subtree(p, sel[i - 1]))
      <3>1. sel[i] \in Inside(q, stage)
        BY <1>1, <2>5
      <3>2. ASSUME i > 1 PROVE sel[i] \in Subtree(q, sel[i - 1])
        <4>1. sel[i - 1] \in Nodes
          <5>1. DOMAIN sel = 1..Len(sel) /\ Len(sel) \in Nat
            BY <1>1, LenProperties
          <5>2. i - 1 \in 1..Len(sel)
            BY <3>2, <5>1
          <5> QED
            BY <1>1, <5>2, ElementOfSeq
        <4> QED
          BY <2>5, <3>2, <4>1 DEF Subtree
      <3> QED
        BY <3>1, <3>2 DEF PanelFits
    <2> QED
      BY <2>1, <2>4, <2>5 DEF PanelFits
  <1>3. Inside(q, stage) \subseteq DOMAIN Json(q)
    <2>1. stage \in Stages(q)
      BY <1>1
    <2> QED
      BY <2>1, StageSent
  <1>4. Fits(q, stage, sel, Nothing, ds, DOMAIN Json(q), k + 1)
    <2>1. 1..(k - 1) \subseteq 1..(k + 1 - 1)
      BY <1>1
    <2> QED
      BY <1>1, <1>2, <1>3, <2>1 DEF Fits
  <1>5. k \in Inside(q, stage) /\ (sel # <<>> => k \in Subtree(q, Last(sel)))
    <2>1. CASE pick = Root
      BY <2>1 DEF Fits
    <2>2. CASE pick # Root
      <3>1. parent = pick /\ pick \in Inside(p, stage) /\ pick \in Nodes
        BY <1>1, <2>2, InsideFacts
      <3>2. sel # <<>> => Last(sel) = pick
        BY <2>2, <3>1 DEF Fits
      <3>3. pick \in Inside(q, stage)
        BY <1>1, <3>1
      <3>4. Inside(q, pick) \subseteq Inside(q, stage)
        BY <1>1, <3>3, InsideFacts
      <3> QED
        BY <3>1, <3>2, <3>4 DEF Subtree
    <2> QED
      BY <2>1, <2>2
  <1>6. k \in 1..(k + 1 - 1)
    BY <1>1
  <1> QED
    BY <1>4, <1>5, <1>6, OpenedFits

(* The step of the panel on top is deleted.  A panel below that shows it   *)
(* as well stays: it was validated before, so that it is validated now.    *)
LEMMA DeletedFits ==
  ASSUME NEW p, NEW k \in Nat, TreeInv(p, k), Nothing \notin Nodes, Root \in Nodes,
         NEW stage, NEW sel, NEW cs, NEW sent,
         Fits(p, stage, sel, Nothing, cs, sent, k), sel # <<>>,
         Last(sel) \in Steps(p),
         NEW q, q = DeleteStepFrom(p, Last(sel)),
         NEW ds, cs # <<>> => ds # <<>>, ds # <<>> \/ sent = DOMAIN Json(q)
  PROVE  Fits(q, stage, Front(sel), Nothing, ds, DOMAIN Json(q), k)
  <1> DEFINE x == Last(sel)
             f == Front(sel)
  <1>1. /\ Forest(p) /\ p \in Pipelines /\ x \in Nodes
        /\ stage \in Stages(p) /\ stage \in Nodes /\ Stages(p) \in SUBSET Nodes
        /\ sel \in Seq(Nodes) /\ Range(sel) \subseteq 1..(k - 1)
    <2>1. Forest(p)
      BY DEF TreeInv
    <2>2. stage \in Stages(p) /\ sel \in Seq(Nodes)
      BY DEF Fits
    <2> QED
      BY <2>1, <2>2, StagesFacts, LastSelected DEF Forest, Fits
  <1>2. Stages(q) = Stages(p)
    BY <1>1, TakenOut
  <1>3. /\ \A n \in Nodes : Inside(p, n) \subseteq Inside(q, n) \cup Subtree(p, x)
        /\ Steps(q) = Steps(p) \ Subtree(p, x)
    BY <1>1, TakenOutLeaves
  <1>4. /\ Fits(p, stage, f, Nothing, cs, sent, k) /\ f \in Seq(Nodes)
        /\ \A i \in DOMAIN f : i \in DOMAIN sel /\ f[i] = sel[i]
    BY FrontFits
  <1> HIDE DEF f
  <1>5. x \in Inside(p, stage)
    <2>1. Len(sel) \in DOMAIN sel /\ x = sel[Len(sel)]
      BY <1>1, LastSelected
    <2>2. PanelFits(p, stage, sel, Len(sel), cs)
      BY <2>1 DEF Fits
    <2> QED
      BY <2>1, <2>2 DEF PanelFits, Live
  <1>6. ds # <<>>
    <2>1. x \in sent
      BY <1>1, <1>5 DEF Fits
    <2>2. x # Root
      <3>1. x \in 1..(k - 1)
        BY <1>1, LastSelected
      <3> QED
        BY <3>1 DEF Root
    <2>3. x \notin Live(q)
      BY <1>1, <1>2, <1>3, StagesApart DEF Live, Subtree
    <2> QED
      BY <2>1, <2>2, <2>3, SentNodes
  <1>7. Live(q) \subseteq Live(p)
    BY <1>2, <1>3 DEF Live
  <1> HIDE DEF x
  <1>8. ASSUME NEW i \in DOMAIN f PROVE PanelFits(q, stage, f, i, ds)
    <2>1. PanelFits(p, stage, f, i, cs)
      BY <1>4 DEF Fits
    <2>2. CASE cs # <<>> /\ f[i] \notin Live(p)
      BY <1>7, <2>2 DEF PanelFits
    <2>3. CASE f[i] \in Inside(p, stage) /\ f[i] \in Subtree(p, x)
      <3>1. f[i] \notin Stages(p)
        BY <1>1, <2>3, StagesApart
      <3> QED
        BY <1>2, <1>3, <1>6, <2>3, <3>1 DEF PanelFits, Live
    <2>4. CASE f[i] \in Inside(p, stage) /\ (i > 1 => f[i] \in Subtree(p, f[i - 1])) /\ f[i] \notin Subtree(p, x)
      <3>1. f[i] \in Inside(q, stage)
        BY <1>1, <1>3, <2>4
      <3>2. ASSUME i > 1 PROVE f[i] \in Subtree(q, f[i - 1])
        <4>1. f[i - 1] \in Nodes
          <5>1. DOMAIN f = 1..Len(f) /\ Len(f) \in Nat
            BY <1>4, LenProperties
          <5>2. i - 1 \in 1..Len(f)
            BY <3>2, <5>1
          <5> QED
            BY <1>4, <5>2, ElementOfSeq
        <4>2. f[i] = f[i - 1] \/ f[i] \in Inside(p, f[i - 1])
          BY <2>4, <3>2 DEF Subtree
        <4> QED
          BY <1>3, <2>4, <4>1, <4>2 DEF Subtree
      <3> QED
        BY <3>1, <3>2 DEF PanelFits
    <2> QED
      BY <2>1, <2>2, <2>3, <2>4 DEF PanelFits
  <1>9. Inside(q, stage) \subseteq DOMAIN Json(q)
    <2>1. stage \in Stages(q)
      BY <1>1, <1>2
    <2> QED
      BY <2>1, StageSent
  <1> QED
    BY <1>2, <1>4, <1>8, <1>9 DEF Fits, f

(* No panel shows the step that is moved in the list on top, nor one in it.*)
LEMMA PanelsNotMoved ==
  ASSUME NEW p, Forest(p), NEW stage \in Stages(p), NEW sel \in Seq(Nodes), NEW cs,
         \A i \in DOMAIN sel : PanelFits(p, stage, sel, i, cs),
         NEW x \in Inside(p, stage), sel # <<>> => x \in Inside(p, Last(sel))
  PROVE  \A i \in DOMAIN sel : sel[i] \in Live(p) /\ sel[i] \notin Subtree(p, x)
  <1> DEFINE n == Len(sel)
             Bad == {i \in 1..n : sel[i] \notin Live(p) \/ sel[i] \in Subtree(p, x)}
  <1>1. /\ n \in Nat /\ DOMAIN sel = 1..n /\ \A i \in 1..n : sel[i] \in Nodes
        /\ p \in Pipelines /\ stage \in Nodes /\ x \in Steps(p) /\ x \in Nodes
    <2>1. n \in Nat /\ DOMAIN sel = 1..n /\ \A i \in 1..n : sel[i] \in Nodes
      BY LenProperties, ElementOfSeq
    <2>2. p \in Pipelines /\ stage \in Nodes /\ x \in Steps(p)
      BY StagesFacts DEF Forest, Steps
    <2> QED
      BY <2>1, <2>2, StepsFacts
  <1> SUFFICES ASSUME Bad # {} PROVE FALSE
    BY <1>1
  <1>2. PICK i \in Bad : \A j \in Bad : j <= i
    <2>1. Bad \in SUBSET (0..n)
      BY <1>1
    <2> HIDE DEF Bad, n
    <2> QED
      BY <1>1, <2>1, GreatestExists
  <1>3. /\ i \in 1..n /\ sel[i] \in Nodes
        /\ sel[i] \in Live(p) => sel[i] \in Subtree(p, x)
    BY <1>1
  <1>4. CASE i = n
    <2>1. sel # <<>> /\ Last(sel) = sel[i]
      <3>1. n # 0
        BY <1>1, <1>3
      <3> QED
        BY <1>4, <3>1 DEF Last
    <2>2. x \in Inside(p, sel[i])
      BY <2>1
    <2>3. sel[i] \in Live(p)
      BY <1>1, <1>3, <2>2, LiveAbove DEF Live
    <2>4. x \in Inside(p, x)
      <3>1. sel[i] = x \/ sel[i] \in Inside(p, x)
        BY <1>3, <2>3 DEF Subtree
      <3>2. \A y \in Inside(p, x) : Inside(p, y) \subseteq Inside(p, x)
        BY <1>1, InsideFacts
      <3> QED
        BY <2>2, <3>1, <3>2
    <2> QED
      BY <1>1, <2>4, NotInItself
  <1>5. CASE i # n
    <2>1. i + 1 \in 1..n /\ i + 1 > 1 /\ ~(i + 1 <= i) /\ i + 1 - 1 = i
      <3> HIDE DEF n, Bad
      <3> QED
        BY <1>1, <1>3, <1>5
    <2>2. sel[i + 1] \in Live(p) /\ sel[i + 1] \notin Subtree(p, x) /\ sel[i + 1] \in Nodes
      BY <1>1, <1>2, <2>1
    <2>3. sel[i + 1] \in Subtree(p, sel[i])
      <3>1. PanelFits(p, stage, sel, i + 1, cs)
        BY <1>1, <2>1
      <3> QED
        BY <2>1, <2>2, <3>1 DEF PanelFits
    <2>4. sel[i] \in Live(p)
      BY <1>3, <2>2, <2>3, LiveAbove DEF Subtree
    <2>5. sel[i + 1] \in Subtree(p, x)
      <3>1. sel[i] = x \/ sel[i] \in Inside(p, x)
        BY <1>3, <2>4 DEF Subtree
      <3>2. \A y \in Inside(p, x) : Inside(p, y) \subseteq Inside(p, x)
        BY <1>1, InsideFacts
      <3> QED
        BY <2>3, <3>1, <3>2 DEF Subtree
    <2> QED
      BY <2>2, <2>5
  <1> QED
    BY <1>4, <1>5

(* The panels stay when a step of the one on top is moved: it is none of   *)
(* those that are shown.                                                   *)
LEMMA MovedFits ==
  ASSUME NEW p, NEW k, TreeInv(p, k), NEW stage \in Stages(p), NEW sel, NEW cs, NEW sent,
         Nothing \notin Nodes, Root \in Nodes,
         Fits(p, stage, sel, Nothing, cs, sent, k),
         NEW x \in Inside(p, stage), sel # <<>> => x \in Inside(p, Last(sel)),
         NEW q, Stages(q) = Stages(p), Inside(q, stage) \subseteq Inside(p, stage),
         \A n \in Nodes : Inside(p, n) \subseteq Inside(q, n) \cup Subtree(p, x)
  PROVE  Fits(q, stage, sel, Nothing, cs, sent, k)
  <1>1. /\ Forest(p) /\ sel \in Seq(Nodes) /\ stage \in Nodes
        /\ \A i \in DOMAIN sel : PanelFits(p, stage, sel, i, cs)
    <2>1. Forest(p)
      BY DEF TreeInv
    <2> QED
      BY <2>1, StagesFacts DEF Forest, Fits
  <1>2. \A i \in DOMAIN sel : sel[i] \in Live(p) /\ sel[i] \notin Subtree(p, x)
    BY <1>1, PanelsNotMoved
  <1>3. ASSUME NEW i \in DOMAIN sel PROVE PanelFits(q, stage, sel, i, cs)
    <2>1. sel[i] \in Inside(p, stage) /\ (i > 1 => sel[i] \in Subtree(p, sel[i - 1]))
      BY <1>1, <1>2 DEF PanelFits
    <2>2. sel[i] \in Inside(q, stage)
      BY <1>1, <1>2, <2>1
    <2>3. ASSUME i > 1 PROVE sel[i] \in Subtree(q, sel[i - 1])
      <3>1. sel[i - 1] \in Nodes
        <4>1. DOMAIN sel = 1..Len(sel) /\ Len(sel) \in Nat
          BY <1>1, LenProperties
        <4>2. i - 1 \in 1..Len(sel)
          BY <2>3, <4>1
        <4> QED
          BY <1>1, <4>2, ElementOfSeq
      <3>2. sel[i] = sel[i - 1] \/ sel[i] \in Inside(p, sel[i - 1])
        BY <2>1, <2>3 DEF Subtree
      <3> QED
        BY <1>2, <3>1, <3>2 DEF Subtree
    <2> QED
      BY <2>2, <2>3 DEF PanelFits
  <1>4. Inside(q, stage) \subseteq sent
    BY <1>1 DEF Fits
  <1> QED
    BY <1>1, <1>3, <1>4 DEF Fits

-----------------------------------------------------------------------------
(* The invariant of the editor, and what its steps have in common *)

(* A pipeline object.                                                      *)
Pipe == [tree : Pipelines, errors : BOOLEAN]

(* The pipeline objects: each is a tree, and no node of it is new.         *)
ObjectsFit ==
  /\ pipes \in Seq(Pipe) /\ Len(pipes) <= MaxPipes /\ store \in 0..Len(pipes)
  /\ nextId \in FirstNew..(MaxId + 1)
  /\ \A r \in 1..Len(pipes) : TreeInv(pipes[r].tree, nextId)

(* The types of the page.                                                  *)
PageFits ==
  /\ open \in BOOLEAN /\ pageNumber \in 0..MaxPages /\ loading \subseteq 1..pageNumber
  /\ Len(pipes) # 0 => pageNumber # 0
  /\ pipelineIsModified \in BOOLEAN /\ dialog \in {"closed", "shown", "saving"}
  /\ picking \in Nodes \cup {Nothing, Gone}
  /\ quiet \in BOOLEAN /\ swapped \in BOOLEAN

(* Validations are of objects there are.                                   *)
ChecksFit ==
  checks \in Seq(Check) /\ \A i \in 1..Len(checks) : checks[i].pipe \in 1..Len(pipes)

(* The nodes of the pipeline that was validated last.                      *)
LastSent == DOMAIN lastValidated[1]

(* The panels fit the pipeline that is shown; without one none is open.    *)
PanelsFit ==
  IF Shown
  THEN Fits(Current, selectedStage, selectedSteps, picking, checks, LastSent, nextId)
  ELSE selectedStage = Nothing /\ selectedSteps = <<>> /\ picking = Nothing

(* The inductive invariant of the editor.                                  *)
EditorFits == ObjectsFit /\ PageFits /\ ChecksFit /\ PanelsFit

(* The constants as the proofs use them.                                   *)
LEMMA EditorConstants ==
  /\ Nothing \notin Nodes /\ Root \in Nodes /\ FirstNew \in Nat /\ FirstNew # 0
  /\ MaxId \in Nat /\ Nodes \subseteq Nat /\ MaxPages \in Nat /\ MaxPipes \in Nat
  <1>1. FirstNew \in Nodes \ {Root}
    BY FilesAssumption
  <1>2. MaxId \in Nat /\ Root \in Nodes /\ Nodes \subseteq Nat
    BY MaxIdAssumption DEF Nodes, Root
  <1> QED
    BY <1>1, <1>2, NothingAssumption, EditorBounds DEF Root

(* The pipeline of the store.                                              *)
LEMMA CurrentFacts ==
  ASSUME EditorFits, store # 0
  PROVE  /\ store \in 1..Len(pipes) /\ DOMAIN pipes = 1..Len(pipes) /\ pipes[store] \in Pipe
         /\ TreeInv(Current, nextId) /\ Current \in Pipelines /\ nextId \in Nat /\ nextId # 0
         /\ pageNumber \in 1..MaxPages
  <1>1. store \in 1..Len(pipes) /\ DOMAIN pipes = 1..Len(pipes) /\ Len(pipes) \in Nat
    BY LenProperties DEF EditorFits, ObjectsFit
  <1>2. pipes[store] \in Pipe
    BY <1>1, ElementOfSeq DEF EditorFits, ObjectsFit
  <1>3. TreeInv(Current, nextId) /\ Current \in Pipelines
    BY <1>1, <1>2 DEF EditorFits, ObjectsFit, Current, Tree, Pipe
  <1>4. nextId \in Nat /\ nextId # 0
    BY EditorConstants DEF EditorFits, ObjectsFit
  <1>5. pageNumber \in 1..MaxPages
    BY <1>1 DEF EditorFits, PageFits
  <1> QED
    BY <1>1, <1>2, <1>3, <1>4, <1>5

(* The tree of the object in the store is changed.                         *)
LEMMA ChangedTree ==
  ASSUME EditorFits, store # 0, NEW p, TreeInv(p, nextId'),
         nextId' \in nextId..(MaxId + 1),
         pipes' = [pipes EXCEPT ![store].tree = p], store' = store
  PROVE  ObjectsFit' /\ Current' = p /\ Len(pipes') = Len(pipes)
  <1>1. /\ store \in 1..Len(pipes) /\ DOMAIN pipes = 1..Len(pipes) /\ pipes[store] \in Pipe
        /\ nextId \in Nat
    BY CurrentFacts
  <1>2. p \in Pipelines
    BY DEF TreeInv, Forest
  <1> DEFINE o == [pipes[store] EXCEPT !.tree = p]
  <1>3. o \in Pipe /\ o.tree = p
    BY <1>1, <1>2 DEF Pipe
  <1>4. pipes' = [pipes EXCEPT ![store] = o]
    OBVIOUS
  <1> HIDE DEF o
  <1>5. /\ pipes' \in Seq(Pipe) /\ Len(pipes') = Len(pipes)
        /\ pipes'[store] = o /\ \A r \in 1..Len(pipes) \ {store} : pipes'[r] = pipes[r]
    <2>1. pipes \in Seq(Pipe)
      BY DEF EditorFits, ObjectsFit
    <2> QED
      BY <1>1, <1>3, <1>4, <2>1, ExceptSeq
  <1>6. ASSUME NEW r \in 1..Len(pipes) PROVE TreeInv(pipes'[r].tree, nextId')
    <2>1. CASE r = store
      BY <1>3, <1>5, <2>1
    <2>2. CASE r # store
      <3>1. TreeInv(pipes[r].tree, nextId)
        BY DEF EditorFits, ObjectsFit
      <3>2. nextId' \in Nat /\ nextId <= nextId'
        BY <1>1
      <3> QED
        BY <1>1, <1>5, <2>2, <3>1, <3>2, LaterTree
    <2> QED
      BY <2>1, <2>2
  <1>7. nextId' \in FirstNew..(MaxId + 1)
    BY EditorConstants DEF EditorFits, ObjectsFit
  <1>8. Current' = p
    BY <1>3, <1>5 DEF Current, Tree
  <1> QED
    BY <1>5, <1>6, <1>7, <1>8 DEF EditorFits, ObjectsFit

(* What a validation leaves: the pipeline was sent, now or last.           *)
LEMMA ValidatedFor ==
  ASSUME EditorFits, NEW r \in 1..Len(pipes), NEW p, NEW forDialog \in BOOLEAN,
         ValidateFor(r, p, forDialog), pageNumber \in 1..MaxPages, Len(pipes') = Len(pipes)
  PROVE  /\ ChecksFit' /\ (checks # <<>> => checks' # <<>>)
         /\ LastSent' = DOMAIN Json(p)
         /\ checks' # <<>> \/ LastSent = DOMAIN Json(p)
  <1>1. checks \in Seq(Check) /\ \A i \in 1..Len(checks) : checks[i].pipe \in 1..Len(pipes)
    BY DEF EditorFits, ChecksFit
  <1>2. CASE Skipped(p)
    <2>1. lastValidated' = lastValidated /\ checks' = checks /\ lastValidated[1] = Json(p)
      BY <1>2 DEF ValidateFor, Skipped
    <2> QED
      BY <1>1, <2>1 DEF ChecksFit, LastSent
  <1>3. CASE ~Skipped(p)
    <2> DEFINE c == [pipe |-> r, valid |-> Valid(p), dialog |-> forDialog, page |-> pageNumber]
    <2>1. lastValidated' = Marked(p) /\ checks' = Append(checks, c)
      BY <1>3 DEF ValidateFor
    <2>2. c \in Check /\ c.pipe = r
      <3>1. Valid(p) \in BOOLEAN
        BY DEF Valid
      <3>2. Len(pipes) \in Nat /\ Len(pipes) <= MaxPipes
        BY LenProperties DEF EditorFits, ObjectsFit
      <3>3. r \in 1..MaxPipes
        BY <3>2, EditorConstants
      <3> QED
        BY <3>1, <3>3 DEF Check
    <2> HIDE DEF c
    <2>3. /\ checks' \in Seq(Check) /\ Len(checks') = Len(checks) + 1 /\ Len(checks) \in Nat
          /\ \A i \in 1..Len(checks) : checks'[i] = checks[i]
          /\ checks'[Len(checks) + 1] = c
      BY <1>1, <2>1, <2>2, AppendProperties, LenProperties
    <2>4. checks' # <<>>
      BY <2>3, EmptySeq
    <2>5. ASSUME NEW i \in 1..Len(checks') PROVE checks'[i].pipe \in 1..Len(pipes)
      <3>1. i \in 1..Len(checks) \/ i = Len(checks) + 1
        BY <2>3
      <3> QED
        BY <1>1, <2>2, <2>3, <3>1
    <2>6. lastValidated'[1] = Json(p)
      BY <2>1 DEF Marked
    <2> QED
      BY <2>3, <2>4, <2>5, <2>6 DEF ChecksFit, LastSent
  <1> QED
    BY <1>2, <1>3

(* The panels of the page that is shown, after a step that keeps it so.    *)
LEMMA StillShown ==
  ASSUME EditorFits, Shown, store' = store, open' = open,
         Fits(Current', selectedStage', selectedSteps', picking', checks', LastSent', nextId')
  PROVE  PanelsFit'
  <1>1. Shown'
    BY DEF Shown
  <1> QED
    BY <1>1 DEF PanelsFit

(* The store is given an object, and tells it to the panels.               *)
LEMMA GivenPanels ==
  ASSUME EditorFits, NEW r \in 1..Len(pipes'), NEW p, p = pipes'[r].tree, SetPipeline(r, p),
         r = store => Stages(p) = Stages(Current) /\ Live(p) = Live(Current) /\ p \in Pipelines
                      /\ Steps(p) = Steps(Current)
                      /\ \A n : /\ Inside(p, n) = Inside(Current, n)
                                /\ Childless(p, n) <=> Childless(Current, n),
         UNCHANGED <<open, nextId, lastValidated>>
  PROVE  PanelsFit' /\ picking' \in Nodes \cup {Nothing, Gone}
         /\ pipelineIsModified' \in BOOLEAN /\ quiet' \in BOOLEAN
  <1>1. store' = r /\ Current' = p /\ LastSent' = LastSent /\ open' = open /\ nextId' = nextId
    BY DEF SetPipeline, Current, Tree, LastSent
  <1>2. r # 0 /\ r \in Nat
    OBVIOUS
  <1>3. CASE ~open
    <2>1. ~Shown /\ ~Shown'
      BY <1>1, <1>3 DEF Shown
    <2>2. UNCHANGED <<lastPipeline, pipelineIsModified, quiet, panelVars>>
      BY <1>3 DEF SetPipeline
    <2> QED
      BY <2>1, <2>2 DEF panelVars, EditorFits, PanelsFit, PageFits
  <1>4. CASE open
    <2>1. /\ CheckForModification(p)
          /\ selectedSteps' = StepsFound(p, r = store)
          /\ selectedStage' = StageFound(p, r = store)
          /\ picking' = IF r = store \/ picking \in {Nothing, Root} THEN picking ELSE Gone
      BY <1>4 DEF SetPipeline
    <2>2. Shown'
      BY <1>1, <1>2, <1>4 DEF Shown
    <2>3. CASE r = store
      <3>1. Shown /\ store # 0
        BY <1>2, <1>4, <2>3 DEF Shown
      <3>2. Fits(Current, selectedStage, selectedSteps, picking, checks, LastSent, nextId)
        BY <3>1 DEF EditorFits, PanelsFit
      <3>3. Fits(p, selectedStage, selectedSteps, picking, checks, LastSent, nextId)
        <4>1. selectedStage # Nothing => Inside(Current, selectedStage) \subseteq LastSent
          BY <3>2 DEF Fits
        <4> QED
          BY <2>3, <3>2, <4>1, EditorConstants, SameFit
      <3>4. /\ selectedSteps' = IF Range(selectedSteps) \subseteq Steps(p) THEN selectedSteps ELSE <<>>
            /\ selectedStage' = selectedStage /\ picking' = picking
        <4>1. selectedStage \in Stages(p) \cup {Nothing}
          BY <3>3 DEF Fits
        <4> QED
          BY <2>1, <2>3, <4>1 DEF StepsFound, StageFound
      <3>5. p \in Pipelines
        BY <2>3
      <3>6. Fits(p, selectedStage, selectedSteps', picking, checks', LastSent, nextId)
        BY <3>3, <3>4, <3>5, FoundFit
      <3> QED
        BY <1>1, <2>1, <2>2, <3>4, <3>6 DEF PanelsFit, EditorFits, PageFits, CheckForModification
    <2>4. CASE r # store
      <3>1. selectedSteps' = <<>> /\ selectedStage' = Nothing
        BY <2>1, <2>4 DEF StepsFound, StageFound
      <3>2. Fits(Current', Nothing, <<>>, picking', checks', LastSent', nextId')
        BY NoneFit
      <3> QED
        BY <2>1, <2>2, <3>1, <3>2 DEF PanelsFit, EditorFits, PageFits, CheckForModification
    <2> QED
      BY <2>3, <2>4
  <1> QED
    BY <1>3, <1>4 DEF EditorFits, PageFits

(* A new object is given to the store.                                     *)
LEMMA LoadedObject ==
  ASSUME EditorFits, NEW p, TreeInv(p, FirstNew), NewPipe(p), pageNumber' = pageNumber,
         pageNumber # 0, loading' \subseteq loading, dialog' = dialog, swapped' \in BOOLEAN,
         UNCHANGED <<nextId, open, checkVars>>
  PROVE  EditorFits'
  <1> DEFINE r == Len(pipes) + 1
             o == [tree |-> p, errors |-> FALSE]
  <1>1. /\ pipes \in Seq(Pipe) /\ Len(pipes) \in Nat /\ nextId \in FirstNew..(MaxId + 1)
        /\ store \in 0..Len(pipes)
        /\ \A i \in 1..Len(pipes) : TreeInv(pipes[i].tree, nextId)
    BY LenProperties DEF EditorFits, ObjectsFit
  <1>2. p \in Pipelines /\ TreeInv(p, nextId)
    <2>1. nextId \in Nat /\ FirstNew <= nextId
      BY <1>1, EditorConstants
    <2> QED
      BY <2>1, EditorConstants, LaterTree DEF TreeInv, Forest
  <1>3. o \in Pipe /\ o.tree = p
    BY <1>2 DEF Pipe
  <1>4. pipes' = Append(pipes, o) /\ Len(pipes) < MaxPipes /\ SetPipeline(r, p)
    BY DEF NewPipe
  <1> HIDE DEF o
  <1>5. /\ pipes' \in Seq(Pipe) /\ Len(pipes') = r /\ pipes'[r] = o
        /\ \A i \in 1..Len(pipes) : pipes'[i] = pipes[i]
    BY <1>1, <1>3, <1>4, AppendProperties
  <1>6. store' = r
    BY <1>4 DEF SetPipeline
  <1>7. r \in 1..Len(pipes') /\ r # store /\ r \in Nat /\ r <= MaxPipes
        /\ p = pipes'[r].tree
    BY <1>1, <1>3, <1>4, <1>5, EditorConstants
  <1> HIDE DEF r
  <1>8. ObjectsFit'
    <2>1. ASSUME NEW i \in 1..r PROVE TreeInv(pipes'[i].tree, nextId')
      <3>1. i \in 1..Len(pipes) \/ i = r
        BY <1>1 DEF r
      <3> QED
        BY <1>1, <1>2, <1>3, <1>5, <3>1
    <2> QED
      BY <1>1, <1>5, <1>6, <1>7, <2>1 DEF ObjectsFit
  <1>9. /\ PanelsFit' /\ picking' \in Nodes \cup {Nothing, Gone}
        /\ pipelineIsModified' \in BOOLEAN /\ quiet' \in BOOLEAN
    <2>1. UNCHANGED <<open, nextId, lastValidated>>
      BY DEF checkVars
    <2> QED
      BY <1>4, <1>7, <2>1, GivenPanels
  <1>10. ChecksFit'
    <2>1. checks' = checks /\ \A i \in 1..Len(pipes) : i \in 1..Len(pipes')
      BY <1>1, <1>5 DEF checkVars, r
    <2> QED
      BY <2>1 DEF EditorFits, ChecksFit
  <1>11. PageFits'
    BY <1>9 DEF EditorFits, PageFits
  <1> QED
    BY <1>8, <1>9, <1>10, <1>11 DEF EditorFits

-----------------------------------------------------------------------------
(* The steps of the editor *)

(* The steps of the editor, one by one: the content comes.                 *)
LEMMA ContentLoadedFits ==
  ASSUME EditorFits, NEW q \in loading, NEW f \in Files \cup {NoFile}, ContentLoaded(q, f)
  PROVE  EditorFits'
  <1>1. TreeInv(TreeOf(f), FirstNew)
    BY LoadedTree
  <1>2. /\ NewPipe(TreeOf(f)) /\ pageNumber' = pageNumber /\ loading' \subseteq loading
        /\ dialog' = dialog /\ UNCHANGED <<nextId, open, checkVars>>
    BY DEF ContentLoaded
  <1>3. pageNumber # 0
    BY DEF EditorFits, PageFits
  <1>4. swapped' \in BOOLEAN
    BY DEF ContentLoaded, NoteSwap
  <1> QED
    BY <1>1, <1>2, <1>3, <1>4, LoadedObject

(* A script is pasted.                                                     *)
LEMMA CopyPasteFits ==
  ASSUME EditorFits, NEW f \in Files, CopyPaste(f)
  PROVE  EditorFits'
  <1>1. TreeInv(f, FirstNew)
    BY FileTree
  <1>2. /\ NewPipe(f) /\ pageNumber' = pageNumber /\ loading' \subseteq loading
        /\ dialog' = dialog /\ swapped' = swapped /\ UNCHANGED <<nextId, open, checkVars>>
        /\ store # 0
    BY DEF CopyPaste, Editing, Shown
  <1>3. pageNumber # 0 /\ swapped' \in BOOLEAN
    BY <1>2, CurrentFacts DEF EditorFits, PageFits
  <1> QED
    BY <1>1, <1>2, <1>3, LoadedObject

(* An answer is applied to the object that was sent.                       *)
LEMMA CheckAnsweredFits ==
  ASSUME EditorFits, NEW i \in DOMAIN checks, CheckAnswered(i)
  PROVE  EditorFits'
  <1> DEFINE r == checks[i].pipe
             p == Tree(r)
             e == ~checks[i].valid \/ (r = store /\ ~Valid(p))
  <1>1. /\ checks \in Seq(Check) /\ Len(checks) \in Nat /\ i \in 1..Len(checks)
        /\ \A j \in 1..Len(checks) : checks[j].pipe \in 1..Len(pipes)
        /\ pipes \in Seq(Pipe) /\ Len(pipes) \in Nat /\ DOMAIN pipes = 1..Len(pipes)
    BY LenProperties DEF EditorFits, ChecksFit, ObjectsFit
  <1>2. r \in 1..Len(pipes) /\ checks[i] \in Check
    BY <1>1, ElementOfSeq
  <1>3. /\ checks' = RemoveAt(checks, i)
        /\ pipes' = [pipes EXCEPT ![r].errors = e]
        /\ SetPipeline(r, p) /\ NoteSwap(r)
        /\ dialog' = "shown" \/ dialog' = dialog
        /\ UNCHANGED <<nextId, open, pageNumber, loading, lastValidated>>
    BY Zenon DEF CheckAnswered
  <1>4. pipes[r] \in Pipe /\ p \in Pipelines /\ p = pipes[r].tree
    <2> HIDE DEF r
    <2>1. pipes[r] \in Pipe
      BY <1>1, <1>2, ElementOfSeq
    <2>2. p = pipes[r].tree
      BY DEF Tree
    <2> QED
      BY <2>1, <2>2 DEF Pipe
  <1>5. e \in BOOLEAN
    BY <1>2 DEF Check, Valid
  <1> HIDE DEF r, e
  <1> DEFINE o == [pipes[r] EXCEPT !.errors = e]
  <1>6. o \in Pipe /\ o.tree = p
    BY <1>4, <1>5 DEF Pipe
  <1>7. pipes' = [pipes EXCEPT ![r] = o]
    BY <1>3
  <1> HIDE DEF o, p
  <1>8. /\ pipes' \in Seq(Pipe) /\ Len(pipes') = Len(pipes) /\ pipes'[r] = o
        /\ \A j \in 1..Len(pipes) : pipes'[j].tree = pipes[j].tree
    <2>1. /\ pipes' \in Seq(Pipe) /\ Len(pipes') = Len(pipes)
          /\ \A j \in 1..Len(pipes) : pipes'[j] = IF j = r THEN o ELSE pipes[j]
      BY <1>1, <1>2, <1>6, <1>7, ExceptSeq
    <2> QED
      BY <1>2, <1>4, <1>6, <2>1
  <1>9. p = pipes'[r].tree /\ store' = r
    BY <1>3, <1>6, <1>8 DEF SetPipeline
  <1>10. ObjectsFit'
    BY <1>1, <1>2, <1>3, <1>8, <1>9 DEF EditorFits, ObjectsFit
  <1>11. /\ PanelsFit' /\ picking' \in Nodes \cup {Nothing, Gone}
         /\ pipelineIsModified' \in BOOLEAN /\ quiet' \in BOOLEAN
    <2>1. r = store => p = Current
      BY <1>4 DEF Current, Tree
    <2>2. r = store => /\ Stages(p) = Stages(Current) /\ Live(p) = Live(Current) /\ p \in Pipelines
                       /\ Steps(p) = Steps(Current)
                       /\ \A n : /\ Inside(p, n) = Inside(Current, n)
                                 /\ Childless(p, n) <=> Childless(Current, n)
      BY <1>4, <2>1
    <2>3. r \in 1..Len(pipes') /\ UNCHANGED <<open, nextId, lastValidated>>
      BY <1>2, <1>3, <1>8
    <2> QED
      BY <1>3, <1>9, <2>2, <2>3, GivenPanels
  <1>12. ChecksFit'
    <2>1. /\ checks' \in Seq(Check) /\ Len(checks') = Len(checks) - 1
          /\ \A j \in 1..(Len(checks) - 1) : checks'[j] = IF j < i THEN checks[j] ELSE checks[j + 1]
      BY <1>1, <1>3, WithoutPlace DEF RemoveAt
    <2>2. \A j \in 1..(Len(checks) - 1) : j \in 1..Len(checks) /\ j + 1 \in 1..Len(checks)
      BY <1>1
    <2> QED
      BY <1>1, <1>8, <2>1, <2>2 DEF ChecksFit
  <1>13. PageFits'
    <2>1. swapped' \in BOOLEAN
      BY <1>3 DEF NoteSwap
    <2> QED
      BY <1>3, <1>8, <1>11, <2>1 DEF EditorFits, PageFits
  <1> QED
    BY <1>10, <1>11, <1>12, <1>13 DEF EditorFits

(* The editor is opened.                                                   *)
LEMMA OpenPageFits ==
  ASSUME EditorFits, OpenPage
  PROVE  EditorFits'
  <1>1. /\ ~open /\ pageNumber < MaxPages
        /\ open' = TRUE /\ pageNumber' = pageNumber + 1 /\ loading' = loading \cup {pageNumber + 1}
        /\ store' = 0
        /\ UNCHANGED <<pipes, nextId, lastPipeline, pipelineIsModified, dialog, panelVars,
                       checkVars, historyVars>>
    BY DEF OpenPage
  <1>2. ~Shown /\ ~Shown'
    BY <1>1 DEF Shown
  <1>3. PanelsFit'
    BY <1>1, <1>2 DEF EditorFits, PanelsFit, panelVars
  <1>4. ObjectsFit' /\ ChecksFit'
    <2>1. Len(pipes) \in Nat
      BY LenProperties DEF EditorFits, ObjectsFit
    <2> QED
      BY <1>1, <2>1 DEF EditorFits, ObjectsFit, ChecksFit, checkVars
  <1>5. PageFits'
    <2>1. pageNumber \in 0..MaxPages /\ loading \subseteq 1..pageNumber
      BY DEF EditorFits, PageFits
    <2>2. pageNumber' \in 0..MaxPages /\ loading' \subseteq 1..pageNumber' /\ pageNumber' # 0
      BY <1>1, <2>1, EditorConstants
    <2> QED
      BY <1>1, <2>2 DEF EditorFits, PageFits, panelVars, historyVars
  <1> QED
    BY <1>3, <1>4, <1>5 DEF EditorFits

(* The editor is left.                                                     *)
LEMMA LeaveEditorFits ==
  ASSUME EditorFits, LeaveEditor
  PROVE  EditorFits'
  <1>1. /\ open' = FALSE /\ dialog' = "closed" /\ pipelineIsModified' = FALSE
        /\ selectedStage' = Nothing /\ selectedSteps' = <<>> /\ picking' = Nothing
        /\ quiet' = FALSE /\ swapped' = FALSE
        /\ UNCHANGED <<pipes, store, nextId, pageNumber, loading, checkVars>>
    BY DEF LeaveEditor, ClosePanels, storeVars
  <1>2. PanelsFit'
    BY <1>1 DEF PanelsFit, Shown
  <1> QED
    BY <1>1, <1>2 DEF EditorFits, ObjectsFit, PageFits, ChecksFit, checkVars

(* The pipeline is changed to p, or is p already, on the page.             *)
LEMMA EditedFits ==
  ASSUME EditorFits, Editing, NEW p, TreeInv(p, nextId'), nextId' \in nextId..(MaxId + 1),
         pipes' = [pipes EXCEPT ![store].tree = p],
         UNCHANGED <<store, open, pageNumber, loading>>,
         dialog' \in {"closed", "shown"}, swapped' = swapped,
         \/ UNCHANGED <<pipelineIsModified, quiet>>
         \/ CheckForModification(p)
         \/ quiet' = TRUE /\ pipelineIsModified' = pipelineIsModified,
         picking' \in Nodes \cup {Nothing, Gone},
         Len(pipes') = Len(pipes) => ChecksFit',
         Fits(p, selectedStage', selectedSteps', picking', checks', LastSent', nextId')
  PROVE  EditorFits'
  <1>1. Shown /\ store # 0
    BY DEF Editing, Shown
  <1>2. ObjectsFit' /\ Current' = p /\ Len(pipes') = Len(pipes)
    BY <1>1, ChangedTree
  <1>3. PanelsFit'
    BY <1>1, <1>2, StillShown
  <1>4. pipelineIsModified' \in BOOLEAN /\ quiet' \in BOOLEAN
    BY DEF EditorFits, PageFits, CheckForModification
  <1>5. PageFits'
    BY <1>2, <1>4 DEF EditorFits, PageFits
  <1> QED
    BY <1>2, <1>3, <1>5 DEF EditorFits

(* The panels, and what is known of them.                                  *)
LEMMA EditingFacts ==
  ASSUME EditorFits, Editing
  PROVE  /\ Fits(Current, selectedStage, selectedSteps, picking, checks, LastSent, nextId)
         /\ store \in 1..Len(pipes) /\ TreeInv(Current, nextId) /\ Forest(Current)
         /\ Current \in Pipelines
         /\ nextId \in Nat /\ nextId # 0 /\ nextId \in nextId..(MaxId + 1)
         /\ pageNumber \in 1..MaxPages /\ dialog = "closed" /\ store # 0
         /\ pipes = [pipes EXCEPT ![store].tree = Current]
         /\ picking \in Nodes \cup {Nothing, Gone}
  <1>1. Shown /\ store # 0 /\ dialog = "closed"
    BY DEF Editing, Shown
  <1>2. /\ store \in 1..Len(pipes) /\ pipes[store] \in Pipe
        /\ TreeInv(Current, nextId) /\ Current \in Pipelines /\ nextId \in Nat /\ nextId # 0
        /\ pageNumber \in 1..MaxPages /\ DOMAIN pipes = 1..Len(pipes)
    BY <1>1, CurrentFacts
  <1>3. nextId \in nextId..(MaxId + 1)
    BY <1>2, EditorConstants DEF EditorFits, ObjectsFit
  <1>4. pipes = [pipes EXCEPT ![store].tree = Current]
    <2>1. [pipes[store] EXCEPT !.tree = Current] = pipes[store]
      BY <1>2 DEF Current, Tree, Pipe
    <2>2. pipes \in [1..Len(pipes) -> Pipe]
      BY LenProperties DEF EditorFits, ObjectsFit
    <2>3. [pipes EXCEPT ![store] = pipes[store]] = pipes
      BY <2>2
    <2> DEFINE o == [pipes[store] EXCEPT !.tree = Current]
    <2>4. [pipes EXCEPT ![store].tree = Current] = [pipes EXCEPT ![store] = o]
      OBVIOUS
    <2> HIDE DEF o
    <2> QED
      BY <2>1, <2>3, <2>4 DEF o
  <1> QED
    BY <1>1, <1>2, <1>3, <1>4 DEF EditorFits, PanelsFit, PageFits, TreeInv

(* Taking off marks moves nothing.                                         *)
LEMMA CleanedTree ==
  ASSUME NEW p \in Pipelines, NEW S
  PROVE  LET q == CleanPristine(p, S)
         IN q \in Pipelines /\ q.branches = p.branches /\ q.steps = p.steps
  <1> DEFINE m == p.pristine \ S
             q == CleanPristine(p, S)
  <1>1. m \in SUBSET Nodes
    BY DEF Pipelines
  <1>2. q = [p EXCEPT !.pristine = m]
    BY DEF CleanPristine
  <1> HIDE DEF m, q
  <1> QED
    BY <1>1, <1>2 DEF Pipelines, q

(* Marks are taken off, and the panels are validated: those that were      *)
(* open, but for the one on top, a stage, or none.                         *)
LEMMA CleanedFits ==
  ASSUME EditorFits, Editing, NEW S, NEW p, p = CleanPristine(Current, S) \/ p = Current,
         pipes' = [pipes EXCEPT ![store].tree = p], Validate(p),
         UNCHANGED <<store, nextId, editorPageVars, historyVars>>,
         \/ selectedStage' = Nothing /\ selectedSteps' = <<>> /\ picking' \in {picking, Nothing}
         \/ /\ selectedStage' \in Stages(Current) /\ selectedSteps' = <<>> /\ picking' = Nothing
         \/ /\ picking = Nothing /\ selectedSteps # <<>> /\ picking' = Nothing
            /\ selectedSteps' = Front(selectedSteps) /\ selectedStage' = selectedStage
  PROVE  EditorFits'
  <1>1. /\ Fits(Current, selectedStage, selectedSteps, picking, checks, LastSent, nextId)
        /\ store \in 1..Len(pipes) /\ TreeInv(Current, nextId) /\ Current \in Pipelines
        /\ nextId \in nextId..(MaxId + 1)
        /\ pageNumber \in 1..MaxPages /\ dialog = "closed"
        /\ picking \in Nodes \cup {Nothing, Gone}
    BY EditingFacts
  <1>2. p \in Pipelines /\ p.branches = Current.branches /\ p.steps = Current.steps
    BY <1>1, CleanedTree
  <1>3. /\ Stages(p) = Stages(Current) /\ Live(p) = Live(Current)
        /\ \A n : Inside(p, n) = Inside(Current, n) /\ (Childless(p, n) <=> Childless(Current, n))
        /\ TreeInv(p, nextId)
    BY <1>1, <1>2, SameTree
  <1>4. Len(pipes') = Len(pipes) =>
          ChecksFit' /\ (checks # <<>> => checks' # <<>>) /\ LastSent' = DOMAIN Json(p)
    BY <1>1, ValidatedFor DEF Validate
  <1>5. nextId' = nextId /\ store' = store
    OBVIOUS
  <1>6. Len(pipes') = Len(pipes)
    <2>1. TreeInv(p, nextId') /\ nextId' \in nextId..(MaxId + 1) /\ store # 0
      BY <1>1, <1>3, <1>5
    <2> QED
      BY <1>5, <2>1, ChangedTree
  <1>7. Fits(p, selectedStage', selectedSteps', picking', checks', LastSent', nextId')
    <2>1. CASE selectedStage' = Nothing /\ selectedSteps' = <<>>
      BY <2>1, NoneFit
    <2>2. CASE selectedStage' \in Stages(Current) /\ selectedSteps' = <<>> /\ picking' = Nothing
      <3>1. picking' # Root /\ selectedStage' \in Stages(p) /\ Inside(p, selectedStage') \subseteq LastSent'
        BY <1>3, <1>4, <1>6, <2>2, EditorConstants, StageSent
      <3> QED
        BY <2>2, <3>1, StageFits
    <2>3. CASE /\ picking = Nothing /\ selectedSteps # <<>> /\ picking' = Nothing
               /\ selectedSteps' = Front(selectedSteps) /\ selectedStage' = selectedStage
      <3>1. Fits(Current, selectedStage, selectedSteps', Nothing, checks, LastSent, nextId)
        BY <1>1, <2>3, EditorConstants, FrontFits
      <3>2. selectedStage \in Stages(Current) \cup {Nothing}
        BY <3>1 DEF Fits
      <3>3. selectedStage # Nothing => Inside(Current, selectedStage) \subseteq LastSent'
        <4>1. selectedStage \in Stages(p) => Inside(p, selectedStage) \subseteq LastSent'
          BY <1>4, <1>6, StageSent
        <4> QED
          BY <1>3, <3>2, <4>1
      <3>4. checks # <<>> => checks' # <<>>
        BY <1>4, <1>6
      <3>5. Fits(p, selectedStage, selectedSteps', Nothing, checks', LastSent', nextId)
        BY <1>3, <3>1, <3>3, <3>4, EditorConstants, SameFit
      <3> QED
        BY <1>5, <2>3, <3>5
    <2> QED
      BY <2>1, <2>2, <2>3
  <1>8. UNCHANGED <<store, open, pageNumber, loading, dialog, swapped, pipelineIsModified, quiet>>
    BY DEF editorPageVars, historyVars
  <1>9. picking' \in Nodes \cup {Nothing, Gone}
    BY <1>1
  <1>10. TreeInv(p, nextId') /\ nextId' \in nextId..(MaxId + 1) /\ dialog' \in {"closed", "shown"}
    BY <1>1, <1>3, <1>5, <1>8
  <1> QED
    BY <1>4, <1>7, <1>8, <1>9, <1>10, EditedFits

(* The graph is clicked, at a stage or beside them.                        *)
LEMMA GraphFits ==
  ASSUME EditorFits,
         ClickGraph \/ \E s \in Nodes \cup {Nothing} : GraphSelectedStageChanged(s)
  PROVE  EditorFits'
  <1>1. CASE ClickGraph
    <2> DEFINE p == CleanPristine(Current, Nodes)
    <2>1. /\ Editing /\ UNCHANGED <<store, nextId, editorPageVars, historyVars>>
          /\ pipes' = [pipes EXCEPT ![store].tree = p] /\ Validate(p)
          /\ selectedStage' = Nothing /\ selectedSteps' = <<>> /\ picking' = picking
      BY <1>1 DEF ClickGraph, Select
    <2>2. p = CleanPristine(Current, Nodes)
      OBVIOUS
    <2> HIDE DEF p
    <2> QED
      BY <2>1, <2>2, CleanedFits
  <1>2. ASSUME NEW s \in Nodes \cup {Nothing}, GraphSelectedStageChanged(s) PROVE EditorFits'
    <2> DEFINE p == Current
    <2>1. /\ Editing /\ UNCHANGED <<store, nextId, editorPageVars, historyVars>>
          /\ s \in Stages(Current) \cup {Nothing}
          /\ selectedStage' = s /\ selectedSteps' = <<>> /\ picking' = Nothing
          /\ Validate(p) /\ pipes' = pipes
      BY <1>2 DEF GraphSelectedStageChanged, Select
    <2>2. p = Current /\ pipes = [pipes EXCEPT ![store].tree = p]
      BY <2>1, EditingFacts
    <2> HIDE DEF p
    <2>3. pipes' = [pipes EXCEPT ![store].tree = p]
      BY <2>1, <2>2
    <2> QED
      BY <2>1, <2>2, <2>3, CleanedFits
  <1> QED
    BY <1>1, <1>2

(* The sheet on top is closed.                                             *)
LEMMA CloseSheetFits ==
  ASSUME EditorFits, CloseSheet
  PROVE  EditorFits'
  <1>1. Editing /\ UNCHANGED <<store, nextId, editorPageVars, historyVars>>
    BY DEF CloseSheet, Select
  <1>2. CASE /\ picking # Nothing /\ picking' = Nothing
             /\ UNCHANGED <<pipes, selectedStage, selectedSteps, lastValidated, checks>>
    <2> DEFINE p == Current
    <2>1. /\ Fits(p, selectedStage, selectedSteps, picking, checks, LastSent, nextId)
          /\ TreeInv(p, nextId) /\ nextId \in nextId..(MaxId + 1) /\ dialog = "closed"
          /\ pipes = [pipes EXCEPT ![store].tree = p] /\ p \in Pipelines
      BY <1>1, EditingFacts
    <2> HIDE DEF p
    <2>2. Fits(p, selectedStage, selectedSteps, Nothing, checks, LastSent, nextId)
      BY <2>1, EditorConstants, SameFit DEF Fits
    <2>3. UNCHANGED <<store, nextId, open, pageNumber, loading, dialog, swapped, pipelineIsModified, quiet>>
      BY <1>1 DEF editorPageVars, historyVars
    <2>4. LastSent' = LastSent /\ selectedStage' = selectedStage /\ selectedSteps' = selectedSteps
          /\ checks' = checks
      BY <1>2 DEF LastSent
    <2>5. Fits(p, selectedStage', selectedSteps', picking', checks', LastSent', nextId')
      BY <1>2, <2>2, <2>3, <2>4
    <2>6. ChecksFit'
      BY <1>2 DEF EditorFits, ChecksFit
    <2>7. /\ TreeInv(p, nextId') /\ nextId' \in nextId..(MaxId + 1) /\ dialog' \in {"closed", "shown"}
          /\ picking' \in Nodes \cup {Nothing, Gone} /\ pipes' = [pipes EXCEPT ![store].tree = p]
      BY <1>2, <2>1, <2>3
    <2> QED
      BY <1>1, <2>3, <2>5, <2>6, <2>7, EditedFits
  <1>3. CASE \E S : /\ pipes' = [pipes EXCEPT ![store].tree = CleanPristine(Current, S)]
                    /\ Validate(CleanPristine(Current, S))
                    /\ picking = Nothing /\ picking' = Nothing
                    /\ \/ selectedStage' = Nothing /\ selectedSteps' = <<>>
                       \/ /\ selectedSteps # <<>> /\ selectedSteps' = Front(selectedSteps)
                          /\ selectedStage' = selectedStage
    <2>1. PICK S : /\ pipes' = [pipes EXCEPT ![store].tree = CleanPristine(Current, S)]
                   /\ Validate(CleanPristine(Current, S))
                   /\ picking = Nothing /\ picking' = Nothing
                   /\ \/ selectedStage' = Nothing /\ selectedSteps' = <<>>
                      \/ /\ selectedSteps # <<>> /\ selectedSteps' = Front(selectedSteps)
                         /\ selectedStage' = selectedStage
      BY <1>3
    <2> DEFINE p == CleanPristine(Current, S)
    <2>2. /\ p = CleanPristine(Current, S)
          /\ pipes' = [pipes EXCEPT ![store].tree = p] /\ Validate(p)
      BY <2>1
    <2> HIDE DEF p
    <2> QED
      BY <1>1, <2>1, <2>2, CleanedFits
  <1>4. ASSUME picking = Nothing, selectedSteps # <<>>, selectedSteps' = Front(selectedSteps),
               UNCHANGED <<selectedStage, picking>>,
               LET x == Last(selectedSteps)
                   p == CleanPristine(Current, {x} \cup Inside(Current, x))
               IN pipes' = [pipes EXCEPT ![store].tree = p] /\ Validate(p)
        PROVE  EditorFits'
    BY <1>3, <1>4
  <1>5. ASSUME picking = Nothing, selectedSteps = <<>>, selectedStage' = Nothing,
               UNCHANGED <<selectedSteps, picking>>,
               LET p == CleanPristine(Current, UNION {Inside(Current, s) :
                          s \in {selectedStage} \cup Range(Current.branches[selectedStage])})
               IN pipes' = [pipes EXCEPT ![store].tree = p] /\ Validate(p)
        PROVE  EditorFits'
    BY <1>3, <1>5
  <1> QED
    BY <1>2, <1>4, <1>5, Zenon DEF CloseSheet

(* The node whose steps the sheet on top lists.                            *)
LEMMA ListedFacts ==
  ASSUME Listed # Nothing, Nothing \notin Nodes
  PROVE  /\ picking = Nothing
         /\ selectedSteps # <<>> => Listed = Last(selectedSteps)
         /\ selectedSteps = <<>> =>
              Listed = selectedStage /\ selectedStage # Nothing /\ Childless(Current, selectedStage)
  BY DEF Listed

(* A step, or the panel of the step on top, is opened.                     *)
LEMMA StepSelected ==
  ASSUME EditorFits, Editing, Listed # Nothing, NEW x \in Nodes,
         \/ x \in Inside(Current, Listed)
         \/ x = Listed /\ selectedSteps # <<>>
  PROVE  Fits(Current, selectedStage, Append(selectedSteps, x), Nothing, checks, LastSent, nextId)
  <1> DEFINE p == Current
             below == Last(selectedSteps)
  <1>1. /\ Fits(p, selectedStage, selectedSteps, picking, checks, LastSent, nextId)
        /\ TreeInv(p, nextId) /\ Forest(p) /\ p \in Pipelines /\ nextId \in Nat /\ Unused(p, nextId)
    BY EditingFacts DEF TreeInv
  <1>2. /\ picking = Nothing
        /\ selectedSteps # <<>> => Listed = below
        /\ selectedSteps = <<>> => Listed = selectedStage /\ selectedStage # Nothing
    BY ListedFacts, EditorConstants
  <1> HIDE DEF p
  <1>3. selectedStage \in Stages(p) /\ selectedStage \in Nodes /\ selectedSteps \in Seq(Nodes)
    <2>1. selectedStage \in Stages(p) /\ selectedSteps \in Seq(Nodes)
      BY <1>1, <1>2 DEF Fits
    <2> QED
      BY <1>1, <2>1, StagesFacts
  <1>4. selectedSteps # <<>> => below \in Nodes /\ below \in 1..(nextId - 1)
    BY <1>1, <1>3, LastSelected DEF Fits
  <1>5. Listed \in Nodes
    BY <1>2, <1>3, <1>4
  <1>6. x \in 1..(nextId - 1)
    <2>1. CASE x \in Inside(p, Listed)
      <3>1. x \in 0..(nextId - 1)
        BY <1>1, <1>5, <2>1, UnusedFacts
      <3>2. x # 0
        BY <1>1, <1>5, <2>1, StagesApart DEF Root
      <3> QED
        BY <1>1, <3>1, <3>2
    <2>2. CASE x = Listed /\ selectedSteps # <<>>
      BY <1>2, <1>4, <2>2
    <2> QED
      BY <2>1, <2>2 DEF p
  <1>7. \/ /\ x \in Inside(p, selectedStage)
           /\ selectedSteps # <<>> => x \in Subtree(p, below)
        \/ checks # <<>> /\ x \notin Live(p)
    <2>1. CASE selectedSteps = <<>>
      BY <1>2, <2>1 DEF p
    <2>2. CASE selectedSteps # <<>>
      <3>1. x \in Subtree(p, below)
        BY <1>2, <2>2 DEF Subtree, p
      <3>2. PanelFits(p, selectedStage, selectedSteps, Len(selectedSteps), checks)
            /\ below = selectedSteps[Len(selectedSteps)]
        BY <1>1, <1>3, <2>2, LastSelected DEF Fits
      <3>3. CASE below \in Inside(p, selectedStage)
        <4>1. Inside(p, below) \subseteq Inside(p, selectedStage)
          BY <1>1, <1>3, <3>3, InsideFacts
        <4> QED
          BY <3>1, <3>3, <4>1 DEF Subtree
      <3>4. CASE checks # <<>> /\ below \notin Live(p)
        <4>1. x \notin Live(p)
          BY <1>1, <1>4, <2>2, <3>1, <3>4, LiveAbove DEF Subtree
        <4> QED
          BY <3>4, <4>1
      <3> QED
        BY <3>2, <3>3, <3>4 DEF PanelFits
    <2> QED
      BY <2>1, <2>2
  <1> HIDE DEF below
  <1> QED
    BY <1>1, <1>2, <1>3, <1>6, <1>7, EditorConstants, OpenedFits DEF p, below

(* A step that changes nothing but the panels.                             *)
LEMMA PanelsChanged ==
  ASSUME EditorFits, Select, UNCHANGED <<pipes, lastValidated, checks>>,
         picking' \in Nodes \cup {Nothing, Gone},
         Fits(Current, selectedStage', selectedSteps', picking', checks, LastSent, nextId)
  PROVE  EditorFits'
  <1> DEFINE p == Current
  <1>1. Editing /\ UNCHANGED <<store, nextId, editorPageVars, historyVars>>
    BY DEF Select
  <1>2. /\ TreeInv(p, nextId) /\ nextId \in nextId..(MaxId + 1) /\ dialog = "closed"
        /\ pipes = [pipes EXCEPT ![store].tree = p]
    BY <1>1, EditingFacts
  <1>3. UNCHANGED <<store, nextId, open, pageNumber, loading, dialog, swapped, pipelineIsModified, quiet>>
    BY <1>1 DEF editorPageVars, historyVars
  <1>4. LastSent' = LastSent /\ checks' = checks
    BY DEF LastSent
  <1>5. Fits(p, selectedStage', selectedSteps', picking', checks', LastSent', nextId')
    BY <1>3, <1>4
  <1> HIDE DEF p
  <1>6. ChecksFit'
    BY DEF EditorFits, ChecksFit
  <1>7. /\ TreeInv(p, nextId') /\ nextId' \in nextId..(MaxId + 1) /\ dialog' \in {"closed", "shown"}
        /\ pipes' = [pipes EXCEPT ![store].tree = p]
    BY <1>2, <1>3
  <1> QED
    BY <1>1, <1>3, <1>5, <1>6, <1>7, EditedFits

(* A step, or the sheet to choose one from, is opened.                     *)
LEMMA SelectionFits ==
  ASSUME EditorFits, OpenSelectStepDialog \/ \E x \in Nodes : SelectedStepChanged(x)
  PROVE  EditorFits'
  <1>1. ASSUME NEW x \in Nodes, SelectedStepChanged(x) PROVE EditorFits'
    <2>1. /\ Select /\ Editing /\ Listed # Nothing
          /\ \/ x \in Inside(Current, Listed)
             \/ x = Listed /\ selectedSteps # <<>>
          /\ selectedSteps' = Append(selectedSteps, x)
          /\ UNCHANGED <<pipes, selectedStage, picking, lastValidated, checks>>
      BY <1>1 DEF SelectedStepChanged, Select
    <2>2. Fits(Current, selectedStage, Append(selectedSteps, x), Nothing, checks, LastSent, nextId)
      BY <2>1, StepSelected
    <2>3. picking' = Nothing
      BY <2>1, ListedFacts, EditorConstants
    <2>4. Fits(Current, selectedStage', selectedSteps', picking', checks, LastSent, nextId)
      BY <2>1, <2>2, <2>3
    <2> QED
      BY <2>1, <2>3, <2>4, PanelsChanged
  <1>2. CASE OpenSelectStepDialog
    <2>1. /\ Select /\ Editing /\ Listed # Nothing
          /\ picking' = IF selectedSteps = <<>> THEN Root ELSE Listed
          /\ UNCHANGED <<pipes, selectedStage, selectedSteps, lastValidated, checks>>
      BY <1>2 DEF OpenSelectStepDialog, Select
    <2>2. Fits(Current, selectedStage, selectedSteps, picking, checks, LastSent, nextId)
      BY <2>1, EditingFacts
    <2>3. /\ selectedSteps # <<>> => Listed = Last(selectedSteps)
          /\ selectedSteps = <<>> => Childless(Current, selectedStage)
      BY <2>1, ListedFacts, EditorConstants
    <2>4. selectedSteps # <<>> => Last(selectedSteps) \in Nodes /\ Last(selectedSteps) # Root
      <3> SUFFICES ASSUME selectedSteps # <<>>
                   PROVE  Last(selectedSteps) \in Nodes /\ Last(selectedSteps) # Root
        OBVIOUS
      <3>1. selectedSteps \in Seq(Nodes) /\ Range(selectedSteps) \subseteq 1..(nextId - 1)
        BY <2>2 DEF Fits
      <3>2. Last(selectedSteps) \in Nodes /\ Last(selectedSteps) \in 1..(nextId - 1)
        BY <3>1, LastSelected
      <3> QED
        BY <3>2 DEF Root
    <2>5. picking' \in Nodes
      BY <2>1, <2>3, <2>4, EditorConstants
    <2>6. /\ picking' = Root => selectedSteps = <<>> /\ Childless(Current, selectedStage)
          /\ picking' \in Nodes \ {Root} => selectedSteps = <<>> \/ Last(selectedSteps) = picking'
      BY <2>1, <2>3, <2>4
    <2>7. Fits(Current, selectedStage', selectedSteps', picking', checks, LastSent, nextId)
      BY <2>1, <2>2, <2>6 DEF Fits
    <2> QED
      BY <2>1, <2>5, <2>7, PanelsChanged
  <1> QED
    BY <1>1, <1>2

(* A step is added to the panel on top, the first one to that of a stage.  *)
LEMMA AddStepTree ==
  ASSUME EditorFits, NEW container \in BOOLEAN, AddStep(container)
  PROVE  LET parent == IF picking = Root THEN selectedStage ELSE picking
             added == AddStepTo(Current, parent, nextId, container)
             p == [added EXCEPT !.pristine = @ \cup {nextId}]
         IN /\ TreeInv(p, nextId + 1) /\ Steps(Current) \subseteq Steps(p)
            /\ Stages(p) = Stages(Current)
            /\ Fits(Current, selectedStage, selectedSteps, picking, checks, LastSent, nextId)
            /\ \A ds : (checks # <<>> => ds # <<>>) =>
                 Fits(p, selectedStage, Append(selectedSteps, nextId), Nothing, ds, DOMAIN Json(p), nextId + 1)
  <1> DEFINE parent == IF picking = Root THEN selectedStage ELSE picking
             added == AddStepTo(Current, parent, nextId, container)
             p == [added EXCEPT !.pristine = @ \cup {nextId}]
             c == Current
             id == nextId
  <1>1. /\ Editing /\ selectedStage # Nothing /\ id \in Nodes
        /\ picking # Root => picking \in Inside(c, selectedStage)
    BY DEF AddStep
  <1>2. /\ Fits(c, selectedStage, selectedSteps, picking, checks, LastSent, id)
        /\ TreeInv(c, id) /\ Forest(c) /\ c \in Pipelines /\ id \in Nat /\ id # 0
    BY <1>1, EditingFacts
  <1>3. Nothing \notin Nodes /\ Root \in Nodes
    BY EditorConstants
  <1> HIDE DEF c, id
  <1>4. selectedStage \in Stages(c) /\ selectedStage \in Nodes
    BY <1>1, <1>2, StagesFacts DEF Fits
  <1>5. parent \in Live(c) /\ (parent \in Stages(c) => Childless(c, parent))
    <2>1. CASE picking = Root
      BY <1>1, <1>2, <1>4, <2>1 DEF Fits, Live
    <2>2. CASE picking # Root
      BY <1>1, <1>2, <1>4, <2>2, StagesApart DEF Live, Steps
    <2> QED
      BY <2>1, <2>2
  <1>6. added = AddStepTo(c, parent, id, container)
    BY DEF c, id
  <1>7. p = [added EXCEPT !.pristine = @ \cup {id}]
    BY DEF id
  <1>8. parent = IF picking = Root THEN selectedStage ELSE picking
    OBVIOUS
  <1> HIDE DEF parent, added, p
  <1>9. /\ TreeInv(added, id + 1) /\ Stages(added) = Stages(c) /\ added.branches = c.branches
        /\ \A n \in Nodes : Inside(c, n) \subseteq Inside(added, n)
        /\ id \in Inside(added, parent)
        /\ Steps(c) \subseteq Steps(added) /\ Steps(added) \subseteq Steps(c) \cup {id}
    BY <1>1, <1>2, <1>5, <1>6, AddedStep
  <1>10. p \in Pipelines /\ p.branches = added.branches /\ p.steps = added.steps
    <2> DEFINE m == added.pristine \cup {id}
    <2>1. added \in Pipelines
      BY <1>9 DEF TreeInv, Forest
    <2>2. m \in SUBSET Nodes
      BY <1>1, <2>1 DEF Pipelines
    <2>3. p = [added EXCEPT !.pristine = m]
      BY <1>7
    <2> HIDE DEF m
    <2> QED
      BY <2>1, <2>2, <2>3 DEF Pipelines
  <1>11. /\ Stages(p) = Stages(added) /\ Steps(p) = Steps(added)
         /\ \A n : Inside(p, n) = Inside(added, n)
         /\ TreeInv(p, id + 1)
    BY <1>9, <1>10, SameTree
  <1>12. ASSUME NEW ds, checks # <<>> => ds # <<>>
         PROVE  Fits(p, selectedStage, Append(selectedSteps, id), Nothing, ds, DOMAIN Json(p), id + 1)
    <2>1. /\ Stages(p) = Stages(c) /\ \A n \in Nodes : Inside(c, n) \subseteq Inside(p, n)
          /\ id \in Inside(p, parent) /\ Steps(p) \subseteq Steps(c) \cup {id}
      BY <1>9, <1>11
    <2>2. TreeInv(p, id + 1)
      BY <1>11
    <2> QED
      BY <1>1, <1>2, <1>3, <1>8, <1>12, <2>1, <2>2, AddedFits
  <1> QED
    BY <1>2, <1>9, <1>11, <1>12, Zenon DEF p, c, id, added, parent

(* The step that was chosen is added.                                      *)
LEMMA AddStepFits ==
  ASSUME EditorFits, NEW container \in BOOLEAN, AddStep(container)
  PROVE  EditorFits'
  <1> DEFINE parent == IF picking = Root THEN selectedStage ELSE picking
             added == AddStepTo(Current, parent, nextId, container)
             p == [added EXCEPT !.pristine = @ \cup {nextId}]
  <1>1. /\ TreeInv(p, nextId + 1) /\ Stages(p) = Stages(Current)
        /\ Fits(Current, selectedStage, selectedSteps, picking, checks, LastSent, nextId)
        /\ \A ds : (checks # <<>> => ds # <<>>) =>
             Fits(p, selectedStage, Append(selectedSteps, nextId), Nothing, ds, DOMAIN Json(p), nextId + 1)
    BY AddStepTree
  <1>2. /\ Editing /\ nextId \in Nodes /\ selectedStage # Nothing
        /\ Change(p) /\ CheckForModification(p) /\ Validate(p)
        /\ nextId' = nextId + 1
        /\ selectedSteps' = Append(selectedSteps, nextId)
        /\ selectedStage' = StageFound(p, TRUE)
        /\ picking' = Nothing
    BY Zenon DEF AddStep
  <1> HIDE DEF p
  <1>3. selectedStage' = selectedStage
    BY <1>1, <1>2 DEF StageFound, Fits
  <1>4. store \in 1..Len(pipes) /\ pageNumber \in 1..MaxPages /\ nextId \in Nat /\ dialog = "closed"
    BY <1>2, EditingFacts
  <1>5. nextId' \in nextId..(MaxId + 1) /\ TreeInv(p, nextId')
    BY <1>1, <1>2, <1>4, EditorConstants DEF Nodes
  <1>6. /\ pipes' = [pipes EXCEPT ![store].tree = p]
        /\ UNCHANGED <<store, open, pageNumber, loading, dialog, swapped>>
    BY <1>2 DEF Change
  <1>7. Len(pipes') = Len(pipes)
    BY <1>4, <1>5, <1>6, ChangedTree
  <1>8. ChecksFit' /\ (checks # <<>> => checks' # <<>>) /\ LastSent' = DOMAIN Json(p)
    BY <1>2, <1>4, <1>7, ValidatedFor DEF Validate
  <1>9. Fits(p, selectedStage', selectedSteps', picking', checks', LastSent', nextId')
    <2>1. Fits(p, selectedStage, Append(selectedSteps, nextId), Nothing, checks', DOMAIN Json(p), nextId + 1)
      BY <1>1, <1>8
    <2> QED
      BY <1>2, <1>3, <1>8, <2>1
  <1>10. dialog' \in {"closed", "shown"} /\ picking' \in Nodes \cup {Nothing, Gone}
    BY <1>2, <1>4, <1>6
  <1> QED
    BY <1>2, <1>5, <1>6, <1>8, <1>9, <1>10, EditedFits

(* The step of the panel on top is deleted.                                *)
LEMMA DeleteStepFits ==
  ASSUME EditorFits, DeleteStep
  PROVE  EditorFits'
  <1> DEFINE x == Last(selectedSteps)
             p == DeleteStepFrom(Current, x)
  <1>1. /\ Editing /\ picking = Nothing /\ selectedSteps # <<>> /\ x \in Steps(Current)
        /\ Change(p) /\ CheckForModification(p) /\ Validate(p)
        /\ selectedSteps' = Front(selectedSteps)
        /\ selectedStage' = StageFound(p, TRUE)
        /\ UNCHANGED <<nextId, picking>>
    BY Zenon DEF DeleteStep
  <1>2. /\ Fits(Current, selectedStage, selectedSteps, picking, checks, LastSent, nextId)
        /\ TreeInv(Current, nextId) /\ Forest(Current) /\ nextId \in Nat
        /\ store \in 1..Len(pipes) /\ pageNumber \in 1..MaxPages /\ dialog = "closed"
        /\ nextId \in nextId..(MaxId + 1)
    BY <1>1, EditingFacts
  <1>3. TreeInv(p, nextId) /\ Stages(p) = Stages(Current)
    BY <1>1, <1>2, DeletedStep, TakenOut
  <1>4. p = DeleteStepFrom(Current, Last(selectedSteps))
    OBVIOUS
  <1> HIDE DEF p, x
  <1>5. selectedStage' = selectedStage
    BY <1>1, <1>2, <1>3 DEF StageFound, Fits
  <1>6. /\ pipes' = [pipes EXCEPT ![store].tree = p]
        /\ UNCHANGED <<store, open, pageNumber, loading, dialog, swapped>>
    BY <1>1 DEF Change
  <1>7. nextId' \in nextId..(MaxId + 1) /\ TreeInv(p, nextId')
    BY <1>1, <1>2, <1>3
  <1>8. Len(pipes') = Len(pipes)
    BY <1>2, <1>6, <1>7, ChangedTree
  <1>9. /\ ChecksFit' /\ (checks # <<>> => checks' # <<>>) /\ LastSent' = DOMAIN Json(p)
        /\ checks' # <<>> \/ LastSent = DOMAIN Json(p)
    BY <1>1, <1>2, <1>8, ValidatedFor DEF Validate
  <1>10. Fits(p, selectedStage, Front(selectedSteps), Nothing, checks', DOMAIN Json(p), nextId)
    <2>1. Fits(Current, selectedStage, selectedSteps, Nothing, checks, LastSent, nextId)
      BY <1>1, <1>2
    <2>2. Last(selectedSteps) \in Steps(Current)
      BY <1>1 DEF x
    <2> QED
      BY <1>1, <1>2, <1>4, <1>9, <2>1, <2>2, EditorConstants, DeletedFits
  <1>11. Fits(p, selectedStage', selectedSteps', picking', checks', LastSent', nextId')
    BY <1>1, <1>5, <1>9, <1>10
  <1>12. dialog' \in {"closed", "shown"} /\ picking' \in Nodes \cup {Nothing, Gone}
    BY <1>1, <1>2, <1>6
  <1> QED
    BY <1>1, <1>6, <1>7, <1>9, <1>11, <1>12, EditedFits

(* The stage that is selected is deleted.                                  *)
LEMMA DeleteStageFits ==
  ASSUME EditorFits, DeleteStage
  PROVE  EditorFits'
  <1> DEFINE p == DeleteStageFrom(Current, selectedStage)
  <1>1. /\ Editing /\ picking = Nothing /\ selectedSteps = <<>> /\ selectedStage # Nothing
        /\ Change(p) /\ CheckForModification(p) /\ DoUpdate(p) /\ Validate(p)
        /\ UNCHANGED <<nextId, picking>>
    BY Zenon DEF DeleteStage
  <1>2. /\ Fits(Current, selectedStage, selectedSteps, picking, checks, LastSent, nextId)
        /\ TreeInv(Current, nextId) /\ Forest(Current) /\ nextId \in Nat
        /\ store \in 1..Len(pipes) /\ pageNumber \in 1..MaxPages /\ dialog = "closed"
        /\ nextId \in nextId..(MaxId + 1)
    BY <1>1, EditingFacts
  <1>3. TreeInv(p, nextId)
    <2>1. selectedStage \in Stages(Current)
      BY <1>1, <1>2 DEF Fits
    <2> QED
      BY <1>2, <2>1, DeletedStage
  <1> HIDE DEF p
  <1>4. selectedSteps' = <<>> /\ selectedStage' \in Stages(p) \cup {Nothing}
    BY <1>1 DEF DoUpdate, StepsFound, StageFound
  <1>5. /\ pipes' = [pipes EXCEPT ![store].tree = p]
        /\ UNCHANGED <<store, open, pageNumber, loading, dialog, swapped>>
    BY <1>1 DEF Change
  <1>6. nextId' \in nextId..(MaxId + 1) /\ TreeInv(p, nextId')
    BY <1>1, <1>2, <1>3
  <1>7. Len(pipes') = Len(pipes)
    BY <1>2, <1>5, <1>6, ChangedTree
  <1>8. ChecksFit' /\ LastSent' = DOMAIN Json(p)
    BY <1>1, <1>2, <1>7, ValidatedFor DEF Validate
  <1>9. Fits(p, selectedStage', selectedSteps', picking', checks', LastSent', nextId')
    <2>1. CASE selectedStage' = Nothing
      BY <1>4, <2>1, NoneFit
    <2>2. CASE selectedStage' \in Stages(p)
      <3>1. Inside(p, selectedStage') \subseteq LastSent' /\ picking' # Root
        BY <1>1, <1>8, <2>2, StageSent, EditorConstants
      <3> QED
        BY <1>4, <2>2, <3>1, StageFits
    <2> QED
      BY <1>4, <2>1, <2>2
  <1>10. dialog' \in {"closed", "shown"} /\ picking' \in Nodes \cup {Nothing, Gone}
    BY <1>1, <1>2, <1>5
  <1> QED
    BY <1>1, <1>5, <1>6, <1>8, <1>9, <1>10, EditedFits

(* A stage is created: at the end of the pipeline, or as a branch of one   *)
(* of its stages.                                                          *)
LEMMA CreateStageTree ==
  ASSUME EditorFits, Editing, NEW parent \in {Root} \cup Range(Current.branches[Root]),
         nextId + 1 \in Nodes
  PROVE  LET new == nextId + 1
             p == IF parent = Root THEN CreateSequentialStage(Current, new)
                  ELSE CreateParallelStage(Current, parent, nextId, new)
         IN /\ TreeInv(p, nextId + 2) /\ new \in Stages(p) /\ Inside(p, new) = {}
            /\ Steps(Current) \subseteq Steps(p) /\ Childless(p, new)
  <1> DEFINE c == Current
             id == nextId
             new == id + 1
  <1>1. TreeInv(c, id) /\ id \in Nat /\ id # 0 /\ new \in Nodes /\ new >= id /\ new + 1 = id + 2
    BY EditingFacts
  <1> HIDE DEF c, id
  <1>2. CASE parent = Root
    <2> DEFINE q == CreateSequentialStage(c, new)
    <2>1. /\ TreeInv(q, new + 1) /\ new \in Stages(q) /\ Inside(q, new) = {}
          /\ Steps(c) \subseteq Steps(q) /\ Childless(q, new)
      BY <1>1, CreatedSequential
    <2>2. TreeInv(q, id + 2)
      BY <1>1, <2>1
    <2> QED
      BY <1>2, <2>1, <2>2, Zenon DEF c, id
  <1>3. CASE parent # Root
    <2> DEFINE q == CreateParallelStage(c, parent, id, new)
    <2>1. parent \in Range(c.branches[Root])
      BY <1>3 DEF c
    <2>2. /\ TreeInv(q, id + 2) /\ new \in Stages(q) /\ Inside(q, new) = {}
          /\ Steps(c) \subseteq Steps(q) /\ Childless(q, new)
      BY <1>1, <2>1, CreatedParallel
    <2> QED
      BY <1>3, <2>2, Zenon DEF c, id
  <1> QED
    BY <1>2, <1>3

(* The new stage is selected.                                              *)
LEMMA CreateStageFits ==
  ASSUME EditorFits, NEW parent \in Nodes, CreateStage(parent)
  PROVE  EditorFits'
  <1> DEFINE new == nextId + 1
             p == IF parent = Root THEN CreateSequentialStage(Current, new)
                  ELSE CreateParallelStage(Current, parent, nextId, new)
  <1>1. /\ Editing /\ new \in Nodes /\ parent \in {Root} \cup Range(Current.branches[Root])
        /\ Change(p) /\ CheckForModification(p)
        /\ nextId' = nextId + 2
        /\ selectedStage' = new /\ selectedSteps' = <<>>
        /\ UNCHANGED <<picking, checkVars>>
    BY Zenon DEF CreateStage
  <1>2. /\ TreeInv(p, nextId + 2) /\ new \in Stages(p) /\ Inside(p, new) = {} /\ Childless(p, new)
    BY <1>1, CreateStageTree
  <1>3. /\ nextId \in Nat /\ picking \in Nodes \cup {Nothing, Gone} /\ dialog = "closed"
    BY <1>1, EditingFacts
  <1> HIDE DEF p
  <1>4. TreeInv(p, nextId') /\ nextId' \in nextId..(MaxId + 1)
    BY <1>1, <1>2, <1>3, EditorConstants DEF Nodes
  <1> HIDE DEF new
  <1>5. /\ pipes' = [pipes EXCEPT ![store].tree = p]
        /\ UNCHANGED <<store, open, pageNumber, loading, dialog, swapped>>
    BY <1>1 DEF Change
  <1>6. Len(pipes') = Len(pipes) => ChecksFit'
    BY <1>1 DEF EditorFits, ChecksFit, checkVars
  <1>7. Fits(p, selectedStage', selectedSteps', picking', checks', LastSent', nextId')
    <2>1. Inside(p, new) \subseteq LastSent'
      BY <1>2
    <2>2. Fits(p, new, <<>>, picking', checks', LastSent', nextId')
      BY <1>2, <2>1, StageFits
    <2> QED
      BY <1>1, <2>2
  <1>8. dialog' \in {"closed", "shown"} /\ picking' \in Nodes \cup {Nothing, Gone}
    BY <1>1, <1>3, <1>5
  <1> QED
    BY <1>1, <1>4, <1>5, <1>6, <1>7, <1>8, EditedFits

(* Where a step may be dropped: at a step of the sheet on top, or at the   *)
(* end of the stage.                                                       *)
LEMMA MoveStepTree ==
  ASSUME EditorFits, NEW x, NEW target, NEW position, MoveStep(x, target, position)
  PROVE  LET p == MoveStepIn(Current, x, target, position)
         IN /\ TreeInv(p, nextId) /\ Stages(p) = Stages(Current)
            /\ target \in Inside(Current, x) => Steps(p) = Steps(Current) \ Subtree(Current, x)
            /\ target \notin Inside(Current, x) => Steps(p) = Steps(Current)
            /\ x \in Steps(Current) /\ position \in Positions
            /\ picking = Nothing
            /\ Fits(Current, selectedStage, selectedSteps, Nothing, checks, LastSent, nextId)
            /\ Fits(p, selectedStage, selectedSteps, Nothing, checks, LastSent, nextId)
  <1> DEFINE c == Current
             q == MoveStepIn(c, x, target, position)
             s == selectedStage
  <1>1. /\ Editing /\ Listed # Nothing /\ x \in Inside(c, s)
        /\ x \in Inside(c, Listed) /\ <<target, position>> \in Zones /\ x # target
    BY DEF MoveStep
  <1>2. /\ Fits(c, s, selectedSteps, picking, checks, LastSent, nextId)
        /\ TreeInv(c, nextId) /\ Forest(c) /\ c \in Pipelines /\ nextId \in Nat
    BY <1>1, EditingFacts
  <1>3. /\ picking = Nothing
        /\ selectedSteps # <<>> => Listed = Last(selectedSteps)
        /\ selectedSteps = <<>> => Listed = s /\ s # Nothing
    BY <1>1, ListedFacts, EditorConstants
  <1>4. \/ target \in Inside(c, Listed) /\ position \in {Before, After, FirstChild, LastChild}
        \/ target = s /\ position = LastChild
    BY <1>1 DEF Zones
  <1> HIDE DEF c, s
  <1>5. s \in Stages(c)
    <2>1. s # Nothing
      BY <1>2, <1>3 DEF Fits
    <2> QED
      BY <1>2, <2>1 DEF Fits
  <1>6. Listed \in Nodes /\ s \in Nodes
    <2>1. s \in Nodes
      BY <1>2, <1>5, StagesFacts
    <2>2. selectedSteps \in Seq(Nodes)
      BY <1>2 DEF Fits
    <2>3. selectedSteps # <<>> => Last(selectedSteps) \in Nodes
      BY <2>2, LastSelected
    <2> QED
      BY <1>3, <2>1, <2>3
  <1>7. Inside(c, Listed) \subseteq Inside(c, s)
    <2>1. CASE selectedSteps = <<>>
      BY <1>3, <2>1
    <2>2. CASE selectedSteps # <<>>
      <3>1. x \in Live(c)
        BY <1>1, <1>5 DEF Live, Steps
      <3>2. Listed \in Live(c)
        BY <1>1, <1>2, <1>6, <3>1, LiveAbove
      <3>3. selectedSteps \in Seq(Nodes)
        BY <1>2 DEF Fits
      <3>4. Len(selectedSteps) \in DOMAIN selectedSteps
            /\ Last(selectedSteps) = selectedSteps[Len(selectedSteps)]
        BY <2>2, <3>3, LastSelected
      <3>5. PanelFits(c, s, selectedSteps, Len(selectedSteps), checks)
        BY <1>2, <3>4 DEF Fits
      <3>6. Listed \in Inside(c, s)
        BY <1>3, <2>2, <3>2, <3>4, <3>5 DEF PanelFits
      <3> QED
        BY <1>2, <1>6, <3>6, InsideFacts
    <2> QED
      BY <2>1, <2>2
  <1>8. /\ target \in {s} \cup Inside(c, s) /\ position \in Positions /\ target # x
        /\ position \in {Before, After} => target # s
    <2>1. s \notin Inside(c, s)
      BY <1>2, <1>5, <1>6, StagesApart
    <2>2. LastChild \notin {Before, After}
      BY DEF LastChild, Before, After
    <2> QED
      BY <1>1, <1>4, <1>7, <2>1, <2>2 DEF Positions
  <1>9. /\ TreeInv(q, nextId) /\ Stages(q) = Stages(c)
        /\ Inside(q, s) \subseteq Inside(c, s)
        /\ \A n \in Nodes : Inside(c, n) \subseteq Inside(q, n) \cup Subtree(c, x)
        /\ target \in Inside(c, x) => Steps(q) = Steps(c) \ Subtree(c, x)
        /\ target \notin Inside(c, x) => Steps(q) = Steps(c)
    BY <1>1, <1>2, <1>5, <1>8, MovedInStage
  <1>10. x \in Steps(c)
    BY <1>1, <1>5 DEF Steps
  <1>11. Fits(c, s, selectedSteps, Nothing, checks, LastSent, nextId)
    BY <1>2, <1>3
  <1> HIDE DEF q
  <1>12. Fits(q, s, selectedSteps, Nothing, checks, LastSent, nextId)
    <2>1. selectedSteps # <<>> => x \in Inside(c, Last(selectedSteps))
      BY <1>1, <1>3
    <2> QED
      BY <1>1, <1>2, <1>5, <1>9, <1>11, <2>1, EditorConstants, MovedFits
  <1> QED
    BY <1>3, <1>8, <1>9, <1>10, <1>11, <1>12, Zenon DEF c, s, q

(* A step is dropped somewhere else.                                       *)
LEMMA MoveStepFits ==
  ASSUME EditorFits, NEW x, NEW target, NEW position, MoveStep(x, target, position)
  PROVE  EditorFits'
  <1> DEFINE p == MoveStepIn(Current, x, target, position)
  <1>1. /\ TreeInv(p, nextId) /\ Stages(p) = Stages(Current) /\ picking = Nothing
        /\ Fits(p, selectedStage, selectedSteps, Nothing, checks, LastSent, nextId)
    BY MoveStepTree
  <1>2. /\ Editing /\ Change(p)
        /\ \/ /\ quiet' = TRUE
              /\ UNCHANGED <<lastPipeline, pipelineIsModified, selectedStage, selectedSteps>>
           \/ CheckForModification(p) /\ DoUpdate(p)
        /\ UNCHANGED <<nextId, picking, checkVars>>
    BY DEF MoveStep
  <1>3. nextId \in nextId..(MaxId + 1) /\ dialog = "closed"
    BY <1>2, EditingFacts
  <1> HIDE DEF p
  <1>4. /\ pipes' = [pipes EXCEPT ![store].tree = p]
        /\ UNCHANGED <<store, open, pageNumber, loading, dialog, swapped>>
    BY <1>2 DEF Change
  <1>5. Len(pipes') = Len(pipes) => ChecksFit'
    BY <1>2 DEF EditorFits, ChecksFit, checkVars
  <1>6. LastSent' = LastSent /\ checks' = checks
    BY <1>2 DEF LastSent, checkVars
  <1>7. Fits(p, selectedStage', selectedSteps', picking', checks', LastSent', nextId')
    <2>1. CASE UNCHANGED <<selectedStage, selectedSteps>>
      BY <1>1, <1>2, <1>6, <2>1
    <2>2. CASE DoUpdate(p)
      <3>1. selectedStage' = selectedStage
        BY <1>1, <2>2 DEF DoUpdate, StageFound, Fits
      <3>2. selectedSteps' = IF Range(selectedSteps) \subseteq Steps(p) THEN selectedSteps ELSE <<>>
        BY <2>2 DEF DoUpdate, StepsFound
      <3>3. p \in Pipelines
        BY <1>1 DEF TreeInv, Forest
      <3>4. Fits(p, selectedStage, selectedSteps', Nothing, checks', LastSent, nextId)
        BY <1>1, <3>2, <3>3, FoundFit
      <3> QED
        BY <1>1, <1>2, <1>6, <3>1, <3>4
    <2> QED
      BY <1>2, <2>1, <2>2
  <1>8. /\ dialog' \in {"closed", "shown"} /\ picking' \in Nodes \cup {Nothing, Gone}
        /\ TreeInv(p, nextId') /\ nextId' \in nextId..(MaxId + 1)
    BY <1>1, <1>2, <1>3, <1>4
  <1> QED
    BY <1>2, <1>4, <1>5, <1>7, <1>8, EditedFits

(* Settings are edited: nothing moves.                                     *)
LEMMA SettingsTree ==
  ASSUME NEW p \in Pipelines, NEW n \in Nodes
  PROVE  LET q == [p EXCEPT !.settings[n] = 1 - @]
         IN q \in Pipelines /\ q.branches = p.branches /\ q.steps = p.steps
  <1> DEFINE m == [p.settings EXCEPT ![n] = 1 - @]
             q == [p EXCEPT !.settings = m]
  <1>1. m \in [Nodes -> {0, 1}]
    <2>1. p.settings \in [Nodes -> {0, 1}]
      BY DEF Pipelines
    <2>2. 1 - p.settings[n] \in {0, 1}
      <3>1. p.settings[n] = 0 \/ p.settings[n] = 1
        BY <2>1
      <3> QED
        BY <3>1
    <2>3. m = [p.settings EXCEPT ![n] = 1 - p.settings[n]]
      OBVIOUS
    <2> QED
      BY <2>1, <2>2, <2>3
  <1>2. [p EXCEPT !.settings[n] = 1 - @] = q
    OBVIOUS
  <1> HIDE DEF m
  <1>3. q \in Pipelines /\ q.branches = p.branches /\ q.steps = p.steps
    BY <1>1 DEF Pipelines
  <1> HIDE DEF q
  <1> QED
    BY <1>2, <1>3

(* The tree after the settings of the panel on top are edited.             *)
LEMMA EditSettingsTree ==
  ASSUME EditorFits, EditSettings
  PROVE  \E p \in Pipelines : /\ p.branches = Current.branches /\ p.steps = Current.steps
                              /\ Editing /\ picking = Nothing /\ Change(p) /\ quiet' = TRUE
                              /\ UNCHANGED <<nextId, panelVars, pipelineIsModified, lastValidated, checks>>
  <1> DEFINE n == CASE selectedSteps # <<>> -> Last(selectedSteps)
                    [] selectedSteps = <<>> /\ selectedStage # Nothing -> selectedStage
                    [] OTHER -> Root
  <1>1. /\ Editing /\ picking = Nothing
        /\ Change([Current EXCEPT !.settings[n] = 1 - @])
        /\ quiet' = TRUE
        /\ UNCHANGED <<nextId, panelVars, pipelineIsModified, lastValidated, checks>>
    BY Zenon DEF EditSettings
  <1>2. /\ Fits(Current, selectedStage, selectedSteps, picking, checks, LastSent, nextId)
        /\ Current \in Pipelines
    BY <1>1, EditingFacts
  <1>3. n \in Nodes
    <2>1. selectedSteps \in Seq(Nodes) /\ selectedStage \in Stages(Current) \cup {Nothing}
      BY <1>2 DEF Fits
    <2>2. selectedStage # Nothing => selectedStage \in Nodes
      BY <1>2, <2>1, StagesFacts
    <2>3. selectedSteps # <<>> => Last(selectedSteps) \in Nodes
      BY <2>1, LastSelected
    <2>4. CASE selectedSteps # <<>>
      BY <2>3, <2>4
    <2>5. CASE selectedSteps = <<>> /\ selectedStage # Nothing
      BY <2>2, <2>5
    <2>6. CASE selectedSteps = <<>> /\ selectedStage = Nothing
      BY <2>6, EditorConstants
    <2> QED
      BY <2>4, <2>5, <2>6
  <1> HIDE DEF n
  <1> DEFINE c == Current
             p == [c EXCEPT !.settings[n] = 1 - @]
  <1>4. p \in Pipelines /\ p.branches = c.branches /\ p.steps = c.steps
    <2> HIDE DEF c
    <2> QED
      BY <1>2, <1>3, SettingsTree DEF c
  <1>5. Change(p)
    BY <1>1
  <1> HIDE DEF p
  <1> QED
    BY <1>1, <1>4, <1>5

(* Settings are edited.                                                    *)
LEMMA EditSettingsFits ==
  ASSUME EditorFits, EditSettings
  PROVE  EditorFits'
  <1>1. PICK p \in Pipelines :
            /\ p.branches = Current.branches /\ p.steps = Current.steps
            /\ Editing /\ picking = Nothing /\ Change(p) /\ quiet' = TRUE
            /\ UNCHANGED <<nextId, panelVars, pipelineIsModified, lastValidated, checks>>
    BY EditSettingsTree
  <1>2. /\ Fits(Current, selectedStage, selectedSteps, picking, checks, LastSent, nextId)
        /\ TreeInv(Current, nextId) /\ nextId \in nextId..(MaxId + 1) /\ dialog = "closed"
        /\ picking \in Nodes \cup {Nothing, Gone}
    BY <1>1, EditingFacts
  <1>3. /\ Stages(p) = Stages(Current) /\ Live(p) = Live(Current)
        /\ \A n : Inside(p, n) = Inside(Current, n) /\ (Childless(p, n) <=> Childless(Current, n))
        /\ TreeInv(p, nextId)
    BY <1>1, <1>2, SameTree
  <1>4. /\ pipes' = [pipes EXCEPT ![store].tree = p]
        /\ UNCHANGED <<store, open, pageNumber, loading, dialog, swapped>>
    BY <1>1 DEF Change
  <1>5. selectedStage # Nothing => Inside(Current, selectedStage) \subseteq LastSent
    BY <1>2 DEF Fits
  <1>6. Fits(p, selectedStage, selectedSteps, picking, checks, LastSent, nextId)
    BY <1>2, <1>3, <1>5, EditorConstants, SameFit
  <1>7. /\ LastSent' = LastSent /\ checks' = checks /\ nextId' = nextId /\ picking' = picking
        /\ selectedStage' = selectedStage /\ selectedSteps' = selectedSteps
    BY <1>1 DEF LastSent, panelVars
  <1>8. Fits(p, selectedStage', selectedSteps', picking', checks', LastSent', nextId')
    BY <1>6, <1>7
  <1>9. Len(pipes') = Len(pipes) => ChecksFit'
    BY <1>7 DEF EditorFits, ChecksFit
  <1>10. /\ TreeInv(p, nextId') /\ nextId' \in nextId..(MaxId + 1) /\ dialog' \in {"closed", "shown"}
         /\ picking' \in Nodes \cup {Nothing, Gone}
    BY <1>2, <1>3, <1>4, <1>7
  <1> QED
    BY <1>1, <1>4, <1>8, <1>9, <1>10, EditedFits

(* The pipeline of the store is sent, be it shown or not.                  *)
LEMMA SentPanelsFit ==
  ASSUME EditorFits, store # 0, NEW forDialog \in BOOLEAN,
         ValidateFor(store, Current, forDialog),
         UNCHANGED <<storeVars, open, pageNumber, panelVars>>
  PROVE  ObjectsFit' /\ ChecksFit' /\ PanelsFit'
  <1> DEFINE p == Current
  <1>1. /\ store \in 1..Len(pipes) /\ TreeInv(p, nextId) /\ pageNumber \in 1..MaxPages
    BY CurrentFacts
  <1>2. /\ UNCHANGED <<pipes, store, nextId, open, pageNumber, selectedStage, selectedSteps, picking>>
        /\ Len(pipes') = Len(pipes) /\ Current' = p
    BY DEF storeVars, panelVars, Current, Tree
  <1> HIDE DEF p
  <1>3. ValidateFor(store, p, forDialog)
    BY DEF p
  <1>4. ChecksFit' /\ (checks # <<>> => checks' # <<>>) /\ LastSent' = DOMAIN Json(p)
    BY <1>1, <1>2, <1>3, ValidatedFor
  <1>5. ObjectsFit'
    BY <1>2 DEF EditorFits, ObjectsFit
  <1>6. PanelsFit'
    <2>1. CASE ~Shown
      <3>1. ~Shown'
        BY <1>2, <2>1 DEF Shown
      <3> QED
        BY <1>2, <2>1, <3>1 DEF EditorFits, PanelsFit
    <2>2. CASE Shown
      <3>1. Fits(p, selectedStage, selectedSteps, picking, checks, LastSent, nextId)
        BY <2>2 DEF EditorFits, PanelsFit, p
      <3>2. selectedStage # Nothing => Inside(p, selectedStage) \subseteq LastSent'
        <4>1. selectedStage \in Stages(p) \cup {Nothing}
          BY <3>1 DEF Fits
        <4>2. selectedStage \in Stages(p) => Inside(p, selectedStage) \subseteq LastSent'
          BY <1>4, StageSent
        <4> QED
          BY <4>1, <4>2
      <3>3. Fits(p, selectedStage, selectedSteps, picking, checks', LastSent', nextId)
        BY <1>4, <3>1, <3>2, EditorConstants, SameFit
      <3>4. Shown'
        BY <1>2, <2>2 DEF Shown
      <3> QED
        BY <1>2, <3>3, <3>4 DEF PanelsFit
    <2> QED
      BY <2>1, <2>2
  <1> QED
    BY <1>4, <1>5, <1>6

(* The timer of the validation, after the page was left as well.           *)
LEMMA ValidateAfterTypingFits ==
  ASSUME EditorFits, ValidateAfterTyping
  PROVE  EditorFits'
  <1>1. /\ store # 0 /\ ValidateFor(store, Current, FALSE)
        /\ UNCHANGED <<storeVars, editorPageVars, panelVars, historyVars>>
    BY DEF ValidateAfterTyping, Validate
  <1>2. UNCHANGED <<storeVars, open, pageNumber, panelVars>>
    BY <1>1 DEF editorPageVars
  <1>3. ObjectsFit' /\ ChecksFit' /\ PanelsFit'
    BY <1>1, <1>2, SentPanelsFit
  <1> QED
    BY <1>1, <1>3 DEF EditorFits, PageFits, storeVars, editorPageVars, panelVars, historyVars

(* The steps of a save change no pipeline and no panel.                    *)
LEMMA SaveFits ==
  ASSUME EditorFits, ShowSaveDialog \/ CancelSave \/ SavePipeline \/ SaveDone
  PROVE  EditorFits'
  <1>1. CASE ShowSaveDialog
    <2>1. /\ store # 0 /\ ValidateFor(store, Current, TRUE)
          /\ dialog' \in {"closed", "shown", "saving"}
          /\ UNCHANGED <<storeVars, open, pageNumber, loading, lastPipeline, pipelineIsModified, body,
                         panelVars, historyVars>>
      BY <1>1 DEF ShowSaveDialog, Editing, Shown, EditorFits, PageFits
    <2>2. UNCHANGED <<storeVars, open, pageNumber, panelVars>>
      BY <2>1
    <2>3. ObjectsFit' /\ ChecksFit' /\ PanelsFit'
      BY <2>1, <2>2, SentPanelsFit
    <2> QED
      BY <2>1, <2>3 DEF EditorFits, PageFits, storeVars, panelVars, historyVars
  <1>2. ASSUME dialog' \in {"closed", "shown", "saving"}, pipelineIsModified' \in BOOLEAN,
               UNCHANGED <<storeVars, open, pageNumber, loading, panelVars, checkVars, quiet, swapped>>
        PROVE  EditorFits'
    <2>1. UNCHANGED <<pipes, store, nextId, open, pageNumber, loading, selectedStage, selectedSteps,
                      picking, lastValidated, checks, quiet, swapped>>
      BY <1>2 DEF storeVars, panelVars, checkVars
    <2>2. ObjectsFit' /\ ChecksFit'
      BY <2>1 DEF EditorFits, ObjectsFit, ChecksFit
    <2>3. PageFits'
      BY <1>2, <2>1 DEF EditorFits, PageFits
    <2>4. PanelsFit'
      BY <2>1 DEF EditorFits, PanelsFit, Shown, Current, Tree, LastSent
    <2> QED
      BY <2>2, <2>3, <2>4 DEF EditorFits
  <1>3. pipelineIsModified \in BOOLEAN
    BY DEF EditorFits, PageFits
  <1>4. CASE CancelSave
    BY <1>2, <1>3, <1>4 DEF CancelSave, historyVars
  <1>5. CASE SavePipeline
    BY <1>2, <1>3, <1>5 DEF SavePipeline, historyVars
  <1>6. CASE SaveDone
    BY <1>2, <1>3, <1>6, LeaveEditorFits DEF SaveDone
  <1> QED
    BY <1>1, <1>4, <1>5, <1>6

(* The invariant holds at the start.                                       *)
LEMMA EditorFitsInit == EditorInit => EditorFits
  <1> SUFFICES ASSUME EditorInit PROVE EditorFits
    OBVIOUS
  <1>1. pipes = <<>> /\ Len(pipes) = 0 /\ checks = <<>> /\ Len(checks) = 0
    BY DEF EditorInit
  <1>2. <<>> \in Seq(Pipe) /\ <<>> \in Seq(Check)
    OBVIOUS
  <1>3. FirstNew \in FirstNew..(MaxId + 1)
    BY FilesAssumption, EditorConstants DEF Nodes
  <1>4. ObjectsFit
    BY <1>1, <1>2, <1>3, EditorConstants DEF ObjectsFit, EditorInit
  <1>5. PageFits
    <2>1. 0 \in 0..MaxPages
      BY EditorConstants
    <2> QED
      BY <1>1, <2>1 DEF PageFits, EditorInit
  <1>6. ChecksFit
    BY <1>1, <1>2 DEF ChecksFit
  <1>7. PanelsFit
    BY DEF PanelsFit, Shown, EditorInit
  <1> QED
    BY <1>4, <1>5, <1>6, <1>7 DEF EditorFits

(* No step of the editor breaks it.                                        *)
LEMMA EditorFitsStep == EditorFits /\ [EditorNext]_editorVars => EditorFits'
  <1> SUFFICES ASSUME EditorFits, [EditorNext]_editorVars PROVE EditorFits'
    OBVIOUS
  <1>1. CASE OpenPage
    BY <1>1, OpenPageFits
  <1>2. ASSUME NEW q \in loading, NEW f \in Files \cup {NoFile}, ContentLoaded(q, f) PROVE EditorFits'
    BY <1>2, ContentLoadedFits
  <1>3. CASE LeavePage
    BY <1>3, LeaveEditorFits DEF LeavePage
  <1>4. ASSUME NEW f \in Files, CopyPaste(f) PROVE EditorFits'
    BY <1>4, CopyPasteFits
  <1>5. ASSUME NEW parent \in Nodes, CreateStage(parent) PROVE EditorFits'
    BY <1>5, CreateStageFits
  <1>6. CASE ClickGraph \/ \E s \in Nodes \cup {Nothing} : GraphSelectedStageChanged(s)
    BY <1>6, GraphFits
  <1>7. CASE OpenSelectStepDialog \/ \E x \in Nodes : SelectedStepChanged(x)
    BY <1>7, SelectionFits
  <1>8. CASE CloseSheet
    BY <1>8, CloseSheetFits
  <1>9. ASSUME NEW container \in BOOLEAN, AddStep(container) PROVE EditorFits'
    BY <1>9, AddStepFits
  <1>10. CASE DeleteStep
    BY <1>10, DeleteStepFits
  <1>11. CASE DeleteStage
    BY <1>11, DeleteStageFits
  <1>12. ASSUME NEW x, NEW target, NEW position, MoveStep(x, target, position) PROVE EditorFits'
    BY <1>12, MoveStepFits
  <1>13. CASE EditSettings
    BY <1>13, EditSettingsFits
  <1>14. CASE ValidateAfterTyping
    BY <1>14, ValidateAfterTypingFits
  <1>15. ASSUME NEW i \in DOMAIN checks, CheckAnswered(i) PROVE EditorFits'
    BY <1>15, CheckAnsweredFits
  <1>16. CASE ShowSaveDialog \/ CancelSave \/ SavePipeline \/ SaveDone
    BY <1>16, SaveFits
  <1>17. CASE UNCHANGED editorVars
    BY <1>17 DEF EditorFits, ObjectsFit, PageFits, ChecksFit, PanelsFit, Shown, Current, Tree, LastSent,
       editorVars, storeVars, editorPageVars, panelVars, checkVars, historyVars
  <1> QED
    BY <1>1, <1>2, <1>3, <1>4, <1>5, <1>6, <1>7, <1>8, <1>9, <1>10, <1>11, <1>12, <1>13, <1>14,
       <1>15, <1>16, <1>17 DEF EditorNext

(* The inductive invariant of the editor holds throughout.                 *)
THEOREM EditorFitsHolds == EditorSpec => []EditorFits
  BY EditorFitsInit, EditorFitsStep, PTL DEF EditorSpec

-----------------------------------------------------------------------------
(* The theorems about the editor *)

(* The invariant gives the types, and the panels that are shown.           *)
LEMMA EditorTypeFits == EditorFits => EditorTypeOK
  <1> SUFFICES ASSUME EditorFits PROVE EditorTypeOK
    OBVIOUS
  <1>1. /\ pipes \in Seq(Pipe) /\ Len(pipes) <= MaxPipes /\ store \in 0..Len(pipes)
        /\ nextId \in FirstNew..(MaxId + 1)
        /\ DOMAIN pipes = 1..Len(pipes) /\ DOMAIN checks = 1..Len(checks)
    BY LenProperties DEF EditorFits, ObjectsFit, ChecksFit
  <1>2. ASSUME NEW r \in DOMAIN pipes
        PROVE  /\ pipes[r].tree \in Pipelines /\ OneParent(pipes[r].tree)
               /\ pipes[r].errors \in BOOLEAN
    <2>1. pipes[r] \in Pipe /\ Forest(pipes[r].tree)
      BY <1>1, ElementOfSeq DEF EditorFits, ObjectsFit, TreeInv
    <2> QED
      BY <2>1, ForestHasOneParent DEF Pipe
  <1>3. loading \subseteq 1..MaxPages /\ pageNumber \in 0..MaxPages
    <2>1. pageNumber \in 0..MaxPages /\ loading \subseteq 1..pageNumber
      BY DEF EditorFits, PageFits
    <2> QED
      BY <2>1, EditorConstants
  <1>4. ASSUME NEW i \in DOMAIN checks PROVE checks[i] \in Check /\ checks[i].pipe \in DOMAIN pipes
    BY <1>1, ElementOfSeq DEF EditorFits, ChecksFit
  <1>5. selectedStage \in Nodes \cup {Nothing} /\ selectedSteps \in Seq(Nodes)
    <2>1. CASE Shown
      <3>1. Fits(Current, selectedStage, selectedSteps, picking, checks, LastSent, nextId)
        BY <2>1 DEF EditorFits, PanelsFit
      <3>2. Current \in Pipelines
        BY <2>1, CurrentFacts DEF Shown
      <3> QED
        BY <3>1, <3>2, StagesFacts DEF Fits
    <2>2. CASE ~Shown
      BY <2>2, EmptySelection DEF EditorFits, PanelsFit
    <2> QED
      BY <2>1, <2>2
  <1>6. /\ open \in BOOLEAN /\ pipelineIsModified \in BOOLEAN
        /\ dialog \in {"closed", "shown", "saving"} /\ picking \in Nodes \cup {Nothing, Gone}
        /\ quiet \in BOOLEAN /\ swapped \in BOOLEAN
    BY DEF EditorFits, PageFits
  <1> QED
    BY <1>1, <1>2, <1>3, <1>4, <1>5, <1>6 DEF EditorTypeOK

LEMMA SelectionFitsShown == EditorFits => SelectionShown
  <1> SUFFICES ASSUME EditorFits, Shown, checks = <<>>
               PROVE  /\ selectedStage \in Stages(Current) \cup {Nothing}
                      /\ selectedSteps # <<>> => selectedStage # Nothing
                      /\ \A i \in DOMAIN selectedSteps :
                           /\ selectedSteps[i] \in Inside(Current, selectedStage)
                           /\ i > 1 => selectedSteps[i] \in
                                         {selectedSteps[i - 1]} \cup Inside(Current, selectedSteps[i - 1])
    BY DEF SelectionShown
  <1>1. Fits(Current, selectedStage, selectedSteps, picking, checks, LastSent, nextId)
    BY DEF EditorFits, PanelsFit
  <1> QED
    BY <1>1 DEF Fits, PanelFits, Subtree

(* The pipeline of the store is p after the object has become p.           *)
LEMMA NewCurrent ==
  ASSUME EditorFits, store # 0, store' = store, NEW p,
         pipes' = [pipes EXCEPT ![store].tree = p]
  PROVE  Current' = p
  <1>1. store \in 1..Len(pipes) /\ DOMAIN pipes = 1..Len(pipes) /\ pipes[store] \in Pipe
    BY CurrentFacts
  <1>2. pipes'[store] = [pipes[store] EXCEPT !.tree = p]
    BY <1>1
  <1>3. pipes'[store].tree = p
    BY <1>1, <1>2 DEF Pipe
  <1> QED
    BY <1>3 DEF Current, Tree

(* A step and the steps in it are steps.                                   *)
LEMMA SubtreeSteps ==
  ASSUME NEW p \in Pipelines, NEW x \in Steps(p)
  PROVE  Subtree(p, x) \subseteq Steps(p) /\ x \in Nodes
  <1>1. PICK s \in Stages(p) : x \in Inside(p, s)
    BY DEF Steps
  <1>2. s \in Nodes
    BY StagesFacts
  <1>3. x \in Nodes /\ Inside(p, x) \subseteq Inside(p, s)
    BY <1>1, <1>2, InsideFacts
  <1> QED
    BY <1>1, <1>3 DEF Subtree, Steps

(* The steps that a step of the editor takes out of the pipeline.          *)
LEMMA StepsLost ==
  ASSUME EditorFits, EditorNext, store # 0, store' = store, Current' # Current,
         Steps(Current) \ Steps(Current') # {}
  PROVE  \/ DeleteStep /\ Steps(Current) \ Steps(Current') = Subtree(Current, Last(selectedSteps))
         \/ DeleteStage /\ Steps(Current) \ Steps(Current') =
                UNION {Inside(Current, s) : s \in
                         {selectedStage} \cup Range(Current.branches[selectedStage])}
         \/ \E x, t \in Steps(Current) \ Steps(Current'),
               position \in {Before, After, FirstChild, LastChild} :
              /\ t \in Inside(Current, x) /\ MoveStep(x, t, position)
              /\ Steps(Current) \ Steps(Current') = Subtree(Current, x)
  <1> DEFINE c == Current
             gone == Steps(c) \ Steps(Current')
             Goal == \/ DeleteStep /\ gone = Subtree(c, Last(selectedSteps))
                     \/ DeleteStage /\ gone = UNION {Inside(c, s) : s \in
                                          {selectedStage} \cup Range(c.branches[selectedStage])}
                     \/ \E x, t \in gone, position \in {Before, After, FirstChild, LastChild} :
                          t \in Inside(c, x) /\ MoveStep(x, t, position) /\ gone = Subtree(c, x)
  <1>1. TreeInv(c, nextId) /\ Forest(c) /\ c \in Pipelines /\ store \in 1..Len(pipes)
    BY CurrentFacts DEF TreeInv
  <1>2. ASSUME UNCHANGED pipes PROVE FALSE
    BY <1>2 DEF Current, Tree
  <1>3. ASSUME NEW S, pipes' = [pipes EXCEPT ![store].tree = CleanPristine(c, S)] PROVE FALSE
    <2> DEFINE p == CleanPristine(c, S)
    <2>1. p \in Pipelines /\ p.branches = c.branches /\ p.steps = c.steps
      BY <1>1, CleanedTree
    <2>2. Steps(p) = Steps(c)
      BY <1>1, <2>1, SameTree
    <2> HIDE DEF p
    <2>3. pipes' = [pipes EXCEPT ![store].tree = p]
      BY <1>3 DEF p
    <2>4. Current' = p
      BY <2>3, NewCurrent
    <2> QED
      BY <2>2, <2>4
  <1>4. ASSUME NEW p, Change(p), Steps(c) \subseteq Steps(p) PROVE FALSE
    <2>1. Current' = p
      BY <1>4, NewCurrent DEF Change
    <2> QED
      BY <1>4, <2>1
  <1>5. ASSUME NEW p, NewPipe(p) PROVE FALSE
    <2>1. store' = Len(pipes) + 1
      BY <1>5 DEF NewPipe, SetPipeline
    <2> QED
      BY <1>1, <2>1
  <1>6. ASSUME NEW i \in DOMAIN checks, CheckAnswered(i) PROVE FALSE
    <2> DEFINE r == checks[i].pipe
               e == ~checks[i].valid \/ (r = store /\ ~Valid(Tree(r)))
    <2>1. pipes' = [pipes EXCEPT ![r].errors = e]
      BY <1>6, Zenon DEF CheckAnswered
    <2> HIDE DEF r, e
    <2>2. DOMAIN pipes = 1..Len(pipes) /\ pipes[store] \in Pipe
      BY CurrentFacts
    <2>3. pipes'[store] = pipes[store] \/ pipes'[store] = [pipes[store] EXCEPT !.errors = e]
      BY <1>1, <2>1, <2>2
    <2>4. pipes'[store].tree = pipes[store].tree
      BY <2>2, <2>3 DEF Pipe
    <2> QED
      BY <2>4 DEF Current, Tree
  <1>7. ASSUME NEW parent \in Nodes, CreateStage(parent) PROVE FALSE
    <2> DEFINE new == nextId + 1
               p == IF parent = Root THEN CreateSequentialStage(c, new)
                    ELSE CreateParallelStage(c, parent, nextId, new)
    <2>1. Editing /\ new \in Nodes /\ parent \in {Root} \cup Range(c.branches[Root]) /\ Change(p)
      BY <1>7, Zenon DEF CreateStage
    <2>2. Steps(c) \subseteq Steps(p)
      BY <2>1, CreateStageTree
    <2> HIDE DEF p
    <2> QED
      BY <1>4, <2>1, <2>2
  <1>8. ASSUME NEW container \in BOOLEAN, AddStep(container) PROVE FALSE
    <2> DEFINE parent == IF picking = Root THEN selectedStage ELSE picking
               added == AddStepTo(c, parent, nextId, container)
               p == [added EXCEPT !.pristine = @ \cup {nextId}]
    <2>1. Change(p)
      BY <1>8, Zenon DEF AddStep
    <2>2. Steps(c) \subseteq Steps(p)
      BY <1>8, AddStepTree, Zenon
    <2> HIDE DEF p
    <2> QED
      BY <1>4, <2>1, <2>2
  <1>9. ASSUME EditSettings PROVE FALSE
    <2>1. PICK p \in Pipelines : p.branches = c.branches /\ p.steps = c.steps /\ Change(p)
      BY <1>9, EditSettingsTree
    <2>2. Steps(p) = Steps(c)
      BY <1>1, <2>1, SameTree
    <2> QED
      BY <1>4, <2>1, <2>2
  <1>10. ASSUME DeleteStep PROVE Goal
    <2> DEFINE x == Last(selectedSteps)
               p == DeleteStepFrom(c, x)
    <2>1. x \in Steps(c) /\ Change(p)
      BY <1>10, Zenon DEF DeleteStep
    <2>2. Steps(p) = Steps(c) \ Subtree(c, x) /\ Subtree(c, x) \subseteq Steps(c)
      BY <1>1, <2>1, TakenOutLeaves, SubtreeSteps
    <2> HIDE DEF p
    <2>3. Current' = p
      BY <2>1, NewCurrent DEF Change
    <2>4. gone = Subtree(c, x)
      BY <2>2, <2>3
    <2> QED
      BY <1>10, <2>4
  <1>11. ASSUME DeleteStage PROVE Goal
    <2> DEFINE p == DeleteStageFrom(c, selectedStage)
    <2>1. Editing /\ selectedStage # Nothing /\ Change(p)
      BY <1>11, Zenon DEF DeleteStage
    <2>2. selectedStage \in Stages(c) /\ nextId \in Nat
      BY <2>1, EditingFacts DEF Fits
    <2>3. Steps(c) \ Steps(p) = UNION {Inside(c, t) : t \in {selectedStage} \cup Range(c.branches[selectedStage])}
      BY <1>1, <2>2, DeletedStage
    <2> HIDE DEF p
    <2>4. Current' = p
      BY <2>1, NewCurrent DEF Change
    <2> QED
      BY <1>11, <2>3, <2>4
  <1>12. ASSUME NEW x, NEW t, NEW position, MoveStep(x, t, position) PROVE Goal
    <2> DEFINE p == MoveStepIn(c, x, t, position)
    <2>1. Change(p)
      BY <1>12, Zenon DEF MoveStep
    <2>2. /\ t \in Inside(c, x) => Steps(p) = Steps(c) \ Subtree(c, x)
          /\ t \notin Inside(c, x) => Steps(p) = Steps(c)
          /\ x \in Steps(c) /\ position \in Positions
      BY <1>12, MoveStepTree
    <2> HIDE DEF p
    <2>3. Current' = p
      BY <2>1, NewCurrent DEF Change
    <2>4. t \in Inside(c, x)
      BY <2>2, <2>3
    <2>5. gone = Subtree(c, x) /\ x \in gone /\ t \in gone
      BY <1>1, <2>2, <2>3, <2>4, SubtreeSteps DEF Subtree
    <2>6. position \in {Before, After, FirstChild, LastChild}
      BY <2>2 DEF Positions
    <2> QED
      BY <1>12, <2>4, <2>5, <2>6, Zenon
  <1>13. ASSUME OpenPage \/ LeavePage \/ OpenSelectStepDialog \/ ValidateAfterTyping \/ ShowSaveDialog
                \/ CancelSave \/ SavePipeline \/ SaveDone
                \/ (\E s \in Nodes \cup {Nothing} : GraphSelectedStageChanged(s))
                \/ (\E x \in Nodes : SelectedStepChanged(x))
         PROVE  FALSE
    <2>1. UNCHANGED pipes
      BY <1>13 DEF OpenPage, LeavePage, OpenSelectStepDialog, ValidateAfterTyping, ShowSaveDialog,
         CancelSave, SavePipeline, SaveDone, LeaveEditor, GraphSelectedStageChanged,
         SelectedStepChanged, storeVars
    <2> QED
      BY <1>2, <2>1
  <1>14. ASSUME ClickGraph PROVE FALSE
    BY <1>3, <1>14 DEF ClickGraph
  <1>15. ASSUME CloseSheet PROVE FALSE
    BY <1>2, <1>3, <1>15 DEF CloseSheet
  <1>16. ASSUME NEW q, NEW f, ContentLoaded(q, f) \/ CopyPaste(f) PROVE FALSE
    BY <1>5, <1>16 DEF ContentLoaded, CopyPaste
  <1> HIDE DEF Goal, c, gone
  <1>17. \/ \E parent \in Nodes : CreateStage(parent)
         \/ \E container \in BOOLEAN : AddStep(container)
         \/ \E i \in DOMAIN checks : CheckAnswered(i)
         \/ \E q, f : ContentLoaded(q, f) \/ CopyPaste(f)
         \/ \E x, t, position : MoveStep(x, t, position)
         \/ EditSettings \/ DeleteStep \/ DeleteStage
    BY <1>13, <1>14, <1>15 DEF EditorNext
  <1>18. Goal
    BY <1>6, <1>7, <1>8, <1>9, <1>10, <1>11, <1>12, <1>16, <1>17
  <1> QED
    BY <1>18 DEF Goal, c, gone

(* The types of the editor, and that in every pipeline object, whatever    *)
(* was edited, each stage and step has one place (PipelineStore).          *)
THEOREM EditorTypeCorrect == EditorSpec => []EditorTypeOK
  BY EditorFitsHolds, EditorTypeFits, PTL

(* While no validation is under way, the panels that are open show a stage *)
(* of the pipeline and steps that are found in it, each in the one whose   *)
(* panel lies below (EditorMain.doUpdate and the actions of its panels).   *)
THEOREM SelectionIsShown == EditorSpec => []SelectionShown
  BY EditorFitsHolds, SelectionFitsShown, PTL

(* StepsKept for one step.                                                 *)
LEMMA StepsKeptStep ==
  EditorFits /\ [EditorNext]_editorVars =>
    [LET gone == Steps(Current) \ Steps(Tree(store)')
         Whole(x) == {x} \cup Inside(Current, x)
     IN store # 0 /\ store' = store /\ Current' # Current /\ gone # {} =>
          \/ DeleteStep /\ gone = Whole(Last(selectedSteps))
          \/ DeleteStage /\ gone = UNION {Inside(Current, s) : s \in
                                {selectedStage} \cup Range(Current.branches[selectedStage])}
          \/ \E x, t \in gone, position \in {Before, After, FirstChild, LastChild} :
               t \in Inside(Current, x) /\ MoveStep(x, t, position) /\ gone = Whole(x)]_editorVars
  <1> SUFFICES ASSUME EditorFits, EditorNext, store # 0, store' = store, Current' # Current,
                      Steps(Current) \ Steps(Tree(store)') # {}
               PROVE  LET gone == Steps(Current) \ Steps(Tree(store)')
                      IN \/ DeleteStep /\ gone = {Last(selectedSteps)} \cup Inside(Current, Last(selectedSteps))
                         \/ DeleteStage /\ gone = UNION {Inside(Current, s) : s \in
                                               {selectedStage} \cup Range(Current.branches[selectedStage])}
                         \/ \E x, t \in gone, position \in {Before, After, FirstChild, LastChild} :
                              t \in Inside(Current, x) /\ MoveStep(x, t, position)
                              /\ gone = {x} \cup Inside(Current, x)
    OBVIOUS
  <1>1. Current' = Tree(store)'
    BY DEF Current
  <1> QED
    BY <1>1, StepsLost DEF Subtree

(* No change of a pipeline loses a step but those that are deleted, alone, *)
(* with their container or with their stage, and a step that is dropped    *)
(* into itself (PipelineStore).                                            *)
THEOREM StepsKeptHolds == EditorSpec => StepsKept
  BY EditorFitsHolds, StepsKeptStep, EditorFitsStep, PTL DEF EditorSpec, StepsKept
=============================================================================
