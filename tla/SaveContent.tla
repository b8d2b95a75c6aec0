---------------------------- MODULE SaveContent ----------------------------
(***************************************************************************)
(* Saving a Jenkinsfile: what the REST endpoint scm/content does to the    *)
(* branches of a repository, for the four kinds of source control that     *)
(* Blue Ocean can save to, while other people push to the same branches.   *)
(*                                                                         *)
(* git goes through a bare clone in Jenkins' cache: fetch, commit, forced  *)
(* push, roll back.  GitHub creates a missing branch and then puts the     *)
(* file with the sha of the content it replaces.  Bitbucket gets one call  *)
(* that names the commit the editor has read.                              *)
(***************************************************************************)
EXTENDS Naturals, Sequences, FiniteSets

CONSTANTS
  Editors,      \* editor pages, each with at most one save under way
  Branches,
  Master,       \* the default branch
  Scms,         \* the kinds of source control to look at
  Nobody,       \* no editor
  MaxPushes,    \* bound: pushes of other people
  MaxFailures   \* bound: requests to the repository that fail

Kinds == {"git", "github", "bitbucket-server", "bitbucket-cloud"}

ASSUME ScmsAssumption == Scms \subseteq Kinds
ASSUME MasterAssumption == Master \in Branches
ASSUME NobodyAssumption == Nobody \notin Editors
ASSUME BoundsAssumption == MaxPushes \in Nat /\ MaxFailures \in Nat

None == 0   \* no commit, no content, no sha

VARIABLES
  scm,        \* the kind of source control of the pipeline
  log,        \* the commits: their history, and the Jenkinsfile they hold,
              \* named by the commit that wrote it
  head,       \* the branches of the repository
  cached,     \* git: the branches in the cached clone
  lock,       \* git: who is using the clone
  req,        \* the save request of each editor
  published,  \* history variable: commits that were ever on a branch
  stray,      \* history variable: commits that a failing roll back left in the clone
  pushes, failures

repoVars == <<scm, log, head, cached, lock, req, published, stray, pushes, failures>>

Past(c) == IF c = None THEN {} ELSE log[c].past
Blob(c) == IF c = None THEN None ELSE log[c].blob

Idle == [step |-> "idle", source |-> Master, target |-> Master,
         sha |-> None, given |-> FALSE, base |-> None, fetched |-> None, made |-> None]

(* converting: the editor has the Jenkinsfile written, nothing is sent yet. *)
SaveSteps == {"idle", "converting", "sent", "open", "committed", "create", "lookup", "put", "ok", "failed", "conflict"}

Request ==
  [step: SaveSteps, source: Branches, target: Branches, sha: Nat, given: BOOLEAN,
   base: Nat, fetched: Nat, made: Nat]

(* The repository has a first commit, with or without a Jenkinsfile; the   *)
(* other branches start there or do not exist yet.                         *)
RepoInit ==
  /\ scm \in Scms
  /\ \E b \in {None, 1} : log = <<[past |-> {1}, blob |-> b]>>
  /\ head \in {h \in [Branches -> {None, 1}] : h[Master] = 1}
  /\ cached = head
  /\ lock = Nobody
  /\ req = [e \in Editors |-> Idle]
  /\ published = {1} /\ stray = {}
  /\ pushes = 0 /\ failures = 0

NewCommit == Len(log) + 1

(* A commit that writes the Jenkinsfile on top of another one.             *)
CommitOn(parent) == log' = Append(log, [past |-> Past(parent) \cup {NewCommit}, blob |-> NewCommit])

SetHead(b, c) ==
  /\ head' = [head EXCEPT ![b] = c]
  /\ published' = published \cup log'[c].past

Goto(e, step) == req' = [req EXCEPT ![e].step = step]

(* Somebody pushes a commit to a branch, with or without touching the      *)
(* Jenkinsfile, or starts the branch from another one.                     *)
Push(b, from, touches) ==
  /\ pushes < MaxPushes /\ pushes' = pushes + 1
  /\ head[from] # None
  /\ head[b] = None \/ b = from
  /\ log' = Append(log, [past |-> Past(head[from]) \cup {NewCommit},
                         blob |-> IF touches THEN NewCommit ELSE Blob(head[from])])
  /\ SetHead(b, NewCommit)
  /\ UNCHANGED <<scm, stray, cached, lock, req, failures>>

---------------------------------------------------------------------------
(* git: GitBareRepoReadSaveRequest                                         *)

(* SCMFileSystem.of brings the source branch into the cached clone, and    *)
(* fails when the branch does not exist.                                   *)
GitOpen(e) ==
  /\ scm = "git" /\ req[e].step = "sent" /\ lock = Nobody
  /\ IF head[req[e].source] = None
     THEN Goto(e, "failed") /\ UNCHANGED cached
     ELSE /\ cached' = [cached EXCEPT ![req[e].source] = head[req[e].source]]
          /\ Goto(e, "open")
  /\ UNCHANGED <<scm, stray, log, head, lock, published, pushes, failures>>

(* Faulty variant: the commit goes on top of the head that was resolved    *)
(* before the fetch.                                                       *)
GitCommitStale(e) ==
  LET r == req[e] IN
  /\ scm = "git" /\ r.step = "open" /\ lock = Nobody
  /\ lock' = e
  /\ CommitOn(cached[r.source])
  /\ cached' = [head EXCEPT ![r.source] = NewCommit]
  /\ req' = [req EXCEPT ![e].step = "committed", ![e].base = cached[r.source],
                        ![e].fetched = head[r.target], ![e].made = NewCommit]
  /\ UNCHANGED <<scm, stray, head, published, pushes, failures>>

(* With the clone locked the head of the source branch is remembered for   *)
(* the roll back, everything is fetched, branches that are gone are        *)
(* pruned, and the commit is made on the source branch of the clone.       *)
GitCommit(e) ==
  LET r == req[e] IN
  /\ scm = "git" /\ r.step = "open" /\ lock = Nobody
  /\ lock' = e
  /\ CommitOn(head[r.source])
  /\ cached' = [head EXCEPT ![r.source] = NewCommit]
  /\ req' = [req EXCEPT ![e].step = "committed", ![e].base = cached[r.source],
                        ![e].fetched = head[r.target], ![e].made = NewCommit]
  /\ UNCHANGED <<scm, stray, head, published, pushes, failures>>

(* The fetch fails: there is nothing to roll back yet.                     *)
GitFetchFails(e) ==
  /\ scm = "git" /\ req[e].step = "open" /\ lock = Nobody
  /\ failures < MaxFailures /\ failures' = failures + 1
  /\ Goto(e, "failed")
  /\ UNCHANGED <<scm, stray, log, head, cached, lock, published, pushes>>

(* Faulty variant: rolls back after a push that succeeded only.            *)
RolledBackOnSuccess(e, done) ==
  /\ cached' = IF done THEN [cached EXCEPT ![req[e].source] = req[e].base] ELSE cached
  /\ lock' = Nobody
  /\ UNCHANGED stray

(* The finally clause: the source branch of the clone goes back to where   *)
(* it was, whatever came of the push.  A roll back that fails is only      *)
(* logged: the commit stays there, and the answer is that of the push.     *)
RolledBack(e, done) ==
  /\ lock' = Nobody
  /\ \/ /\ cached' = [cached EXCEPT ![req[e].source] = req[e].base]
        /\ UNCHANGED stray
     \/ /\ stray' = stray \cup ({req[e].made} \ published')
        /\ UNCHANGED cached

(* The forced push of the source branch of the clone to the target branch. *)
GitPush(e) ==
  /\ scm = "git" /\ req[e].step = "committed"
  /\ UNCHANGED log
  /\ SetHead(req[e].target, cached[req[e].source])
  /\ RolledBack(e, TRUE)
  /\ Goto(e, "ok")
  /\ UNCHANGED <<scm, pushes, failures>>

(* The push is refused, or it is done and its answer is lost.              *)
GitPushFails(e) ==
  /\ scm = "git" /\ req[e].step = "committed"
  /\ failures < MaxFailures /\ failures' = failures + 1
  /\ UNCHANGED log
  /\ \/ UNCHANGED <<head, published>>
     \/ SetHead(req[e].target, cached[req[e].source])
  /\ RolledBack(e, FALSE)
  /\ Goto(e, "failed")
  /\ UNCHANGED <<scm, pushes>>

---------------------------------------------------------------------------
(* GitHub: GithubScmSaveFileRequest                                        *)

(* Faulty variant: the current sha of the file is looked up for existing   *)
(* branches too and taken for the one of the request.                      *)
GithubFindBranchAndSha(e) ==
  /\ scm = "github" /\ req[e].step = "sent"
  /\ req' = [req EXCEPT ![e].step = IF head[req[e].target] # None THEN "put" ELSE "create",
                        ![e].sha = IF head[req[e].target] # None THEN Blob(head[req[e].target]) ELSE @,
                        ![e].base = head[req[e].source]]
  /\ UNCHANGED <<scm, stray, log, head, cached, lock, published, pushes, failures>>

(* createBranchIfNotPresent: is there a branch of that name?  If not, the  *)
(* head of the source branch is read.                                      *)
GithubFindBranch(e) ==
  /\ scm = "github" /\ req[e].step = "sent"
  /\ IF head[req[e].target] # None
     THEN Goto(e, "put")
     ELSE IF head[req[e].source] = None
     THEN Goto(e, "failed")
     ELSE req' = [req EXCEPT ![e].step = "create", ![e].base = head[req[e].source]]
  /\ UNCHANGED <<scm, stray, log, head, cached, lock, published, pushes, failures>>

(* The new branch is created where the source branch was; GitHub refuses   *)
(* if somebody else has created it meanwhile.  A sha in the request        *)
(* spares the lookup of the file.                                          *)
GithubCreateBranch(e) ==
  LET r == req[e] IN
  /\ scm = "github" /\ r.step = "create"
  /\ UNCHANGED log
  /\ IF head[r.target] # None
     THEN Goto(e, "failed") /\ UNCHANGED <<head, published>>
     ELSE /\ SetHead(r.target, r.base)
          /\ Goto(e, IF r.given THEN "put" ELSE "lookup")
  /\ UNCHANGED <<scm, stray, cached, lock, pushes, failures>>

(* The lookup names no branch, so it finds the file of the default branch. *)
GithubLookup(e) ==
  /\ scm = "github" /\ req[e].step = "lookup"
  /\ req' = [req EXCEPT ![e].step = "put", ![e].sha = Blob(head[Master])]
  /\ UNCHANGED <<scm, stray, log, head, cached, lock, published, pushes, failures>>

(* The file is put on the branch if its content there has the given sha;   *)
(* the answer may get lost.                                                *)
GithubPut(e) ==
  LET r == req[e] IN
  /\ scm = "github" /\ r.step = "put"
  /\ \/ /\ Blob(head[r.target]) = r.sha
        /\ CommitOn(head[r.target])
        /\ SetHead(r.target, NewCommit)
        /\ \/ /\ req' = [req EXCEPT ![e].step = "ok", ![e].made = NewCommit]
              /\ UNCHANGED failures
           \/ /\ failures < MaxFailures /\ failures' = failures + 1
              /\ req' = [req EXCEPT ![e].step = "failed", ![e].made = NewCommit]
     \/ /\ Blob(head[r.target]) # r.sha
        /\ Goto(e, IF r.sha = None THEN "failed" ELSE "conflict")
        /\ UNCHANGED <<log, head, published, pushes, failures>>
  /\ UNCHANGED <<scm, stray, cached, lock, pushes>>

---------------------------------------------------------------------------
(* Bitbucket: AbstractBitbucketScmContentProvider.  The sha is a commit.   *)

(* BitbucketServerApi: a missing branch starts from the source branch.     *)
(* The server answers 409 when the file is not what it was at the commit   *)
(* the request names, or when it exists and no commit is named.  A 409     *)
(* for a request that named a commit is taken for a success.               *)
BitbucketServerPut(e) ==
  LET r == req[e]
      on == IF head[r.target] # None THEN head[r.target] ELSE head[r.source]
  IN
  /\ scm = "bitbucket-server" /\ r.step = "sent"
  /\ \/ /\ Blob(on) = Blob(r.sha) /\ on # None
        /\ CommitOn(on)
        /\ SetHead(r.target, NewCommit)
        /\ req' = [req EXCEPT ![e].step = "ok", ![e].made = NewCommit]
     \/ /\ Blob(on) # Blob(r.sha) \/ on = None
        /\ Goto(e, IF on # None /\ r.given THEN "ok" ELSE "failed")
        /\ UNCHANGED <<log, head, published>>
  /\ UNCHANGED <<scm, stray, cached, lock, pushes, failures>>

(* BitbucketCloudApi: the named commit becomes the parent; it has to be    *)
(* the head of a branch that exists.  Without one the commit goes on top   *)
(* of the branch, and a new branch on top of the default branch.           *)
BitbucketCloudPost(e) ==
  LET r == req[e]
      on == IF r.given THEN r.sha
            ELSE IF head[r.target] # None THEN head[r.target] ELSE head[Master]
  IN
  /\ scm = "bitbucket-cloud" /\ r.step = "sent"
  /\ \/ /\ head[r.target] \in {None, on}
        /\ CommitOn(on)
        /\ SetHead(r.target, NewCommit)
        /\ req' = [req EXCEPT ![e].step = "ok", ![e].made = NewCommit]
     \/ /\ head[r.target] \notin {None, on}
        /\ Goto(e, "failed")
        /\ UNCHANGED <<log, head, published>>
  /\ UNCHANGED <<scm, stray, cached, lock, pushes, failures>>

---------------------------------------------------------------------------
SaveStep(e) ==
  \/ GitOpen(e) \/ GitCommit(e) \/ GitFetchFails(e) \/ GitPush(e) \/ GitPushFails(e)
  \/ GithubFindBranch(e) \/ GithubCreateBranch(e) \/ GithubLookup(e) \/ GithubPut(e)
  \/ BitbucketServerPut(e) \/ BitbucketCloudPost(e)

(* What the editor gets when it loads the file: the sha its saves will     *)
(* name.  git has no sha, Bitbucket gives the head of the branch.          *)
LoadedSha(b) ==
  IF scm = "git" \/ Blob(head[b]) = None THEN None
  ELSE IF scm = "github" THEN Blob(head[b])
  ELSE head[b]

(* The read of a file with git updates the whole clone.                    *)
Reads(b) ==
  IF scm = "git" THEN lock = Nobody /\ cached' = head ELSE UNCHANGED cached

RepoTypeOK ==
  /\ scm \in Scms
  /\ log \in Seq([past: SUBSET Nat, blob: Nat])
  /\ \A c \in 1..Len(log) : c \in log[c].past /\ log[c].past \subseteq 1..c /\ log[c].blob <= c
  /\ head \in [Branches -> 0..Len(log)]
  /\ cached \in [Branches -> 0..Len(log)]
  /\ lock \in Editors \cup {Nobody}
  /\ req \in [Editors -> Request]
  /\ published \in SUBSET (1..Len(log)) /\ stray \in SUBSET (1..Len(log))
  /\ pushes \in 0..MaxPushes /\ failures \in 0..MaxFailures

(* Nobody's work is lost on a branch but by git's forced push: of another  *)
(* source branch onto it, or after somebody pushed since the save's fetch  *)
(* (GitUtils.push, GitBareRepoReadSaveRequest.save).                       *)
ForcedOver(b) ==
  \E e \in Editors :
    /\ scm = "git" /\ req[e].step = "committed" /\ req[e].target = b
    /\ req[e].source # b \/ req[e].fetched # head[b]

HistoryKept ==
  \A b \in Branches :
    head'[b] # head[b] /\ head[b] # None => head[b] \in log'[head'[b]].past \/ ForcedOver(b)

(* Between saves the clone holds nothing that was never on a branch: the   *)
(* commit of a save leaves it again, whether its push succeeds or fails,   *)
(* but for the commits whose own roll back has failed, which is only       *)
(* logged (GitBareRepoReadSaveRequest.java:143-145).                       *)
CacheOnlyPublished ==
  lock = Nobody => \A b \in Branches : Past(cached[b]) \subseteq published \cup stray
=============================================================================
