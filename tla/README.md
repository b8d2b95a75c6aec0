# Verification of Blue Ocean

This directory holds TLA+ models of the parts of the Blue Ocean plugin for
Jenkins whose correctness depends on the order of things: requests, events,
clicks and threads.  TLC checks the models on small instances, and TLAPS proves
theorems about them for every value of their constants.

Paths below are relative to the repository; `core-js` stands for
`blueocean-core-js/src/js`, `embedded` for
`blueocean-rest-impl/src/main/java/io/jenkins/blueocean/service/embedded/rest`.

## 1. The system

Blue Ocean is a single-page JavaScript application served by Jenkins together
with a REST API (Java, Stapler) and a server-sent event channel.

| Part | State it keeps | Operations | Interacts with |
| --- | --- | --- | --- |
| Fetch layer (`core-js/fetch.ts`, `utils/dedupe-calls.js`, `LoadingIndicator.js`, `capability/`) | promises in flight by url, prefetched data, capability store, a counter and timers for the loading bar | fetchJSON, fetch, show, hide, resolveCapabilities | every client component; REST |
| JWT client (`core-js/jwt.js`) | token promise, public key promise, stored token | getToken, getTokenWithPayload | fetch layer; `/jwt-auth` |
| Live run lists (`core-js/services`) | BunkerService maps, pagers with hrefs, page number and flags | handleEvents, fetchActivity, fetchNextPage, insert, remove, refresh | SSE, fetch layer, React views (MobX) |
| SSE (`core-js/sse/SseBus.js`, `services/SSEService.js`) | listeners, subscription ids | subscribe, unsubscribe, event fan-out with a refetch | sse-gateway; dashboard, personalization |
| Extensions (`js-extensions/src`) | extension points, loaded bundles, type metadata cache, style sheet table | addExtension, getExtensions, getTypeInfo, mount, unmount | every view |
| Run page and logs (`blueocean-dashboard`, `karaoke/`) | pagers of nodes, steps and logs, cached by url; what is put off | fetch, follow, click, scroll, leave, return | fetch layer, SSE, run graph |
| Creation (`blueocean-dashboard`, `creation/`) | a stack of steps, pages of repositories, a timer and event handlers | choose server, credential, organization, repository; save, rename | create endpoint, SSE |
| Editor (`blueocean-pipeline-editor`) | a tree of stages and steps in a store, panels, validations under way, sha of the file | add, delete, move, validate, load, save, overwrite, discard, index | converter and SCM endpoints, SSE |
| Personalization (`blueocean-personalization`) | list of favorites, sort order | setFavorite, fetchFavorites, SSE updates | SseBus, fetch layer |
| Runs and queue (`embedded/RunContainerImpl`, `QueueUtil`, `RunSearch`) | none: Jenkins' queue and builds | get, iterator(start, limit), create | live run lists |
| Events (`blueocean-events`) | maps from execution to the current stage | enrich a job message, publish step and stage messages | sse-gateway |
| Pipeline runs (`blueocean-pipeline-api-impl`) | none | graph of a run and its union with the last successful one, node states, runs of all branches, replay, stop | run page |
| Saving Jenkinsfiles (`blueocean-git-pipeline`, `-github-`, `-bitbucket-`) | a bare clone per repository, working copies | read, save (fetch, commit, push) | git, vendors' REST |
| JWT server (`blueocean-jwt`) | signing key by month | issue, authenticate | JWT client |
| Extras (i18n, config, jira, executor-info, design language, icons) | caches of resources | render, look up | views |

What makes the parts hard to get right:

* JavaScript runs one callback at a time, but whatever a callback read before a
  request may have changed when the answer is used.  Answers, events, clicks
  and timers come in any order.
* GETs of one url share one request, so a caller may be answered with a state
  older than its call.
* Queued runs have no identity of their own: the REST API and the events call
  them by the build number they would get, which shifts.
* Server and browser page through lists that change between two pages.
* Failures are swallowed in several places, with flags or counters half
  updated.

What would make each part correct:

* Fetch layer: every caller is answered or rejected; nobody is answered with
  older data than an earlier caller; every show() of the loading bar is paired
  with one hide().
* Live run lists: when everything has settled the list shows what the server
  has: no run missing, twice, stale, or back after it was cancelled.
* JWT client: a token that is returned is not expired.
* Extensions: every callback that waits for bundles or metadata is called
  once; a style sheet is there while a component that needs it is.
* Personalization: after overlapping clicks the list shows the last setting,
  each favorite once.
* SSE bus: after the last event of a run listeners hold its last state.
* Saving: no commit of another author is lost, other than by the forced push
  of git; nothing is overwritten that its user has not seen; a save ends.
* Editor: a change loses no step that was not deleted; the panels show what is
  in the pipeline; nobody leaves with unsaved changes unasked.
* Creation: the steps come in the order of the flow, whatever order answers
  come in; the list holds the repositories of the organization that is shown.
* Run page and logs: once everything has settled the page shows the ended run;
  a log is shown without a gap and in the end whole.
* Graph: a run shows what it has started, once and as it is, and what the last
  successful run had beyond that.

## 2. Modules

| Module | Models | State and actions |
| --- | --- | --- |
| `MonotoneReads` | what the fetch layer promises: an answer is a version the resource had, at most one per call, never older than an earlier answer | `Change`, `Ask`, `Answer` |
| `FetchCalls` | `fetchJSON` with dedupe, prefetched data, JWT, capability lookup and loading bar | `FetchJSON` (the call), `TokenResolved/Rejected` (JWT step), `Serve`, `Fail` (network), `Resolve`, `Reject` (the shared promise settles for all who joined it), `Augment`, `LookupTokenResolved/Rejected`, `LookupResolved/Rejected` (capabilities, by a POST with a token of its own), `TimerFires` (loading bar) |
| `FetchCallsProofs` | theorems about `FetchCalls` | |
| `RunServer` | one job: queue, builds, REST answers, job events | `Enqueue`, `CancelItem`, `Leave`, `Start`, `Pause`, `Unpause`, `End`; `RestRun`, `RestPage`, `RestLatest` are the answers; `unnamed` is history: a cancellation was told under another number |
| `LiveRuns` | the list of runs in the browser against `RunServer` | `HandleUpdate`, `HandleCancelled` (DefaultSSEHandler), `ServeRun` ... `RunFails` (fetchActivity), `AskPipeline` ... (PipelineService), `OpenActivity`, `ShowMore`, `ServePage` ... `PageFails` (Pager; what is shown is `Data`, the rows with an item in the bunker); `displaced` and `revived` are history |
| `LiveRunsProofs` | theorems about `LiveRuns` | |
| `Extensions` | `js-extensions`: getExtensions with its bundles and classes, and the renderers | `GetExtensions` (called by `Mount`, `Update`, `Reload`), `BundleRuns/Loaded/Fails` (the import), `TypeArrives/Fails` (ClassMetadataStore), `Unmount` |
| `ExtensionsProofs` | theorems about `Extensions` and `StyleSheets` | |
| `StyleSheets` | ResourceLoadTracker and the page's link elements | `OnMount`, `OnUnmount`, `LinkLoads`, `LinkFails` |
| `SaveContent` | the endpoint `scm/content` for git, GitHub, Bitbucket server and cloud | `Server` (the steps of a request: lock, fetch, commit, push and roll back; or find the branch, create it, put the file), `Others` (pushes of other people); `stray` is history: commits a failing roll-back left |
| `EditorPage` | the page around it, for several editors | `Open`, `Save` and `OverwriteChanges` (which send the pipeline to be written as a Jenkinsfile), `DiscardChanges`, `Leave`, `Answer` (of the conversion, then of the save), `IndexingSucceeds/Fails`, `TimerFires` (SaveApi) |
| `EditorPageProofs` | theorems about `EditorPage`, `SaveContent` and `Editor` | |
| `PipelineTree` | PipelineStore's pipeline as a value: stages, branches, steps in containers | operators `CreateParallelStage`, `MoveStepIn`, ... used by `Editor` |
| `Editor` | PipelineStore, EditorMain and PipelineValidator over two openings of the page | `OpenPage`, `ContentLoaded`, `CopyPaste`, one action per operation of the store and per click, the answers of validations, `SavePipeline`, `LeaveEditor` |
| `Creation` | the flow managers of the dashboard with the create request | `SelectServer/Credential/Organization/Repository`, `PageArrives/Fails`, `SaveRepo`, `SaveRenamed`, `GitConnect`, `Server`, `CreateAnswered`, the events, `TimerFires`, `Leave` |
| `CreationProofs` | theorems about `Creation` | |
| `LogFollow` | LogPager and GeneralLogPager | `Send`, `Answered`, `Fails` (requests), `TimerFires` (the chain), `OpenStep`, `ShowFullLog`, `Turn`, `RunFinished`, `NewProperties`, `Leave`, `Return` |
| `Karaoke` | Pipeline and PipelinePager: the page of a run | `RunGoesOn` (with its events), `Fire` (what was put off), `NodesRead/Answered`, `StepsAnswered` (the shared requests), `AfterClick`, `ScrollUp`, `RunEnded`, `LeaveRun`, `OpenAgain`, `RequestFails` |
| `RunGraph` | PipelineNodeGraphVisitor, PipelineNodeContainerImpl, GraphNodeConverter | `Launch`, `StartItem`, `StartInner`, `Finish`, `Step`, `EndRun` (Jenkins); the code is in the operators `PipelineNodes`, `Union`, `Nodes`, `ConvertJenkinsNodeGraph` |
| `RunPageProofs` | theorems about `LogFollow`, `Karaoke` and `RunGraph` | |
| `Favorites` | FavoriteStore, DashboardCards, FavoritesSseListener, SseBus and the favorites on the server | `Click`, `ServePut` ... `PutAnswered` (setFavorite), `Mount`, `Unmount`, `ServeList` ... `ListLookupFails` (the list of cards), `HandleJobEvent`, `ServeRun` ... `RunLookupFails` (SseBus), `Enqueue` ... `End` (Jenkins) |
| `FavoritesProofs` | theorems about `Favorites` | |
| `DataFacts` | lemmas the proofs share: a set of numbers has a least, a bounded one a greatest element; what is left of a list when a place is taken out; what `FlattenSeq` and recursive functions that go along a trail make of lists | |
| `MC_*` | model values and instances for TLC | |

`LiveRuns` extends `RunServer`: the composition of server, event channel,
fetches and pager.  It relies on what `FetchCalls` establishes about dedupe
(one request in flight per url; a caller that comes meanwhile shares its
answer) and so keeps one slot per run, `asked[n]`.  `EditorPage` extends
`SaveContent`: pages, the endpoint and the repository in one model.  `Editor`
takes a save as one action that succeeds or leaves the dialog open: what a save
does to the repository, and how it is refused, is in `EditorPage`.

Definitions named "Faulty variant" in a comment are not part of the system:
each is the definition after it with a plausible bug, and for each property
checked below there is one that violates it.

### Abstractions

* A resource is a version number; a run is its number and its state.
* `FetchCalls`: `dedupe` is keyed by url and `onSuccess`/`onError` are not
  modelled (no caller in the repository passes them).  A changed refresh header
  reloads the page and is modelled as a failure.  Of the requests other than
  GET, which are not shared, only the capability lookup is modelled.
* `RunServer`: items leave the queue in its order and events reach the browser
  in the order they were published.  The expected build number of a new item
  may be missing from the event, and so may that of an item that leaves the
  queue (the handler says so: "Sometimes we can't match the queue item"). When
  a cancellation is published the item is no longer in the queue, and
  `BlueMessageEnricher` takes the number from the event's object id, which a
  library sets; the model allows the item's number, the next build number and
  none.
* `LiveRuns`: one pipeline without branches and hence one pager per event; the
  JWT step and the capability lookup of a GET are part of its answer;
  `job_crud_*` events and `Pager.refresh`, and test summaries, are left out.
* `Extensions`: the list of a point is the set of its declared components and
  the undeclared ones (`extra`) that bundles added to it; the order of the list
  and the filters that need not wait (`componentType`, `sortByOrdinal`) are left
  out.  A LoadCountMonitor is the set of the extensions it still counts
  (`waits`): it is incremented once per extension of a plugin that is not
  loaded and decremented as often when the import ends.  A failed import or
  fetch is nobody's business in the code: whoever waits, waits on.  When a
  renderer without extensions is given new properties, the call that
  `componentWillUpdate` makes goes by the old ones (`this.props`), and so does
  `Update`.
* `SaveContent`: a commit is a number with its history; a content is named by
  the commit that wrote it.  The clone that stands in for an empty repository
  and credentials are left out.  The page is not left while a run is started.
* `PipelineTree`, `Editor`: a stage or step is a number; names, settings, agents
  and environments are left out, but that settings change (`EditSettings`) and
  that no listener of the store is told is modelled.  The second, identical
  validation that closing a stage asks for is left out; a validation that fails
  is one that is never answered.  A page without a pipeline is left out.
* `Creation`: a page of repositories is one repository; the name a repository
  proposes is its place in the list, so that two organizations share names.
  The check for branches that follows the answer and most events
  (GithubFlowManager.js:308-319, 411-433, BbCloudFlowManager.js:302-313, 399-434)
  is left out as it never finds any: BbCreationApi.js:202 looks at a property no
  pipeline has.
  Adding servers, how credentials are looked up and an invalid credential are
  left out.
* `LogFollow`: a log is a row of pieces; a line that is split between two
  answers is not told apart.
* `Karaoke`: stages run one after the other; the events of the run arrive as
  they are published; everything that is put off waits for the same 200 ms.  Of a
  request for steps only matters whether it was sent before its node finished: its
  answer has all steps, or, if it was, may lack some.
  Parallel and queued nodes, the focus on a failing node and the preferences
  that switch following off are left out.
* `RunGraph`: scripted pipelines of block-scoped stages; a state is one word; an
  id counts the nodes the model knows.  The traversal of ForkScanner, a library,
  is taken as the set of calls the visitor relies on: items last to first, a
  stage of a branch between the end and the start of its branch.
* `Favorites`: a job runs at most once, and its card is the state that is shown;
  the order of the cards, the limit of the list, anonymous users and the JWT
  step are left out.  A job counts as paused when an event says so; the state a
  fetched list has is that of the last build.  The favorite of a multibranch
  pipeline is its primary branch (`JobOf`).
* `StyleSheets`: `ExtensionRenderer` calls `onMount`; `onUnmount` is called by
  the tracker's specification, from which the extension points and sheets of
  the instance are taken.

## 3. Runs

`FetchCalls` with two resources, one with a class to look up, two calls, with and
without JWT, and resources that change at most once (two versions are enough to
tell an old answer from a new one, two calls enough for one to share the request
of the other, or to come after it):

* `fetch_calls` - sharing requests never becomes caching: whoever asks after the
  last promise for a url has settled gets a state the resource had then or later
  (`NeverCached`); the loading indicator (`IndicatorBalanced`, `BarHonest`); that
  `FetchCalls` implements `MonotoneReads` (`MonotoneAnswers`: `answered` is mapped to
  the calls whose JSON has arrived); and, with fairness, that every call settles
  and the loading bar is taken down.  What needs three calls, a request that is started, joined and
  followed by another, is in the proofs, which are for any number of calls.

`LiveRuns` with one or two builds, two queued items, and small numbers of
cancellations, pauses, failures and pages of one or two runs:

* `live_runs` - cancellations and failures under an open page: a finished run
  is shown stale only if its last event joined a request in flight or a fetch
  failed (`StaleOnlyIfShared`); a run that was cancelled is not shown
  (`CancelledGone`), unless a fetch in flight at its removal brought it back
  (`revived`) or the event told another number (`unnamed`); and, under fairness, a
  started run comes to be shown for good (`StartedRunShown`), unless its last
  fetch failed, so that there may be nothing to show, or its row was the one that
  went when a run without a row was removed (`displaced`).
* `live_runs_opening` - the pipeline and its page are opened while runs are queued,
  started, paused and finished, with pages of one run, repeated clicks on "Show
  more" and a failing request: no page is on its way without the list being marked
  pending (the converse does not hold: a failing page leaves the mark,
  section 5), and an event never adds a second row for a run (a page may).

`Extensions` with two plugins, two points and a type with a subtype.  On point x
one plugin declares an extension of the type and the other two of the subtype;
on y there is an untyped extension, one that is declared and never registered
and one that is registered and never declared:

* `extensions` - three calls by two renderers, every filter, one failure: what
  callbacks get (`Complete`, `MostSpecific`), that nobody waits for what is not
  coming (`NoLostCallback`), that reloading does not blank a renderer
  (`NeverLeftBlank`), and, with fair imports and fetches, that every call is
  answered unless something it needs failed (`Settles`).  Three calls are enough
  for one that starts an import, one that joins it and one that finds the point
  loaded.

`StyleSheets` with the extension points of `ResourceLoadTracker-spec.js`:

* `style_sheets` - the table of active sheets and the page agree, also where an
  unmount ends half way.  That the table is not what the points need is in
  section 5.

`EditorPage` with two editors, two branches, the four kinds of source control,
two saves or pushes in all, one failing request and one indexing that ends:

* `editor_saves` - a branch only grows, except by the forced push of git
  (`BranchesKept`); between saves the cached clone holds nothing that was never on
  a branch, unless a roll-back failed (`CacheOnlyPublished`); a save that names a
  sha replaces only what its user has read (`OverwritesSeen`); and a save ends by
  an answer or an event (`SaveSettles`).  Where it ends in neither, the dialog is
  `stuck`, which the property excepts: the timer of the indexing ran out, whose
  handler throws, or the conversion of the pipeline got no answer.  Two editors are
  enough for one to save between the other's reading and saving, and to wait for
  the indexing of the other.

`Editor` with a Jenkinsfile of one stage with a container, a step in it and one
after it; two openings of the page, two pipeline objects, two panels, one
validation under way, and three openings and changes together:

* `editor` - every node has one place (`EditorTypeOK`), the panels show what is in the
  pipeline (`SelectionShown`), no step is lost that was not deleted (`StepsKept`)
  and the user is asked before changes are dropped (`LeaveWarned`), each with the
  exceptions the code makes (section 5).  Two openings are enough for what one
  page asked for to arrive in the next one; three changes for a stage to become
  parallel, get a step and be merged back.

`Creation` with the flows github, bitbucket-server and git, an organization of
two pages and one of one page, and twice each: choosing a server, an
organization, saving:

* `creation` - steps in the order of the flow (`StepsInOrder`), the list of
  repositories (`RepositoriesOfOrg`), the pipeline that a flow that succeeded
  shows (`KnowsWhereToGo`), and that waiting ends (`SaveSettles`).  The list is
  claimed only while no organization is chosen with pages of another on their
  way and no page fails (`orderly`): a late page is added to the list of the new
  organization (GithubFlowManager.js:241-247), so what the property shows is that
  a choice clears the list, that the pages of one choice come whole, and that the
  kept lists are right.

`LogFollow` with a log of three pieces of which one is a tail, two openings, two
turns and one failure:

* `log_follow` - the log is one stretch of the server's (`LogContiguous`); a log
  that is followed is shown to its end, and that of a run that has finished is
  shown whole for good (`LogCompletes`), each with the exceptions the code makes.

`Karaoke` with two stages, one click, one thing put off when the run goes on,
and one failure or return:

* `karaoke` - what is shown when nothing is under way: the ended run
  (`SettledView`), the node that was clicked (`SelectedShown`).  The requests for
  nodes and for steps are shared, and read and answered some time after they are
  sent; `SettledView` excepts nodes (`outdated`) and steps (`short`) that were
  asked for after the end by joining a request sent before, as nothing asks again.
  `SelectedShown` needs neither exception.

`RunGraph` with two runs of any of four pipelines (two branches of two stages
each; one such branch, one plain and a stage after them; the same branch in two
stages; an orphan parallel step before a stage with the name of its synthetic
one), one further step and one
failure; the second run begins once the first has done all but end:

* `run_graph` - the graph that is answered for every run (`RunShown`) and the
  columns the page makes of it (`GraphDrawn`).  A second run that overlaps the end
  of the first one is shown without, and then with, what the first one had; one
  further step is enough to shift the ids of a run against the other's.

`Favorites` with a job, a branch and the pipeline it is the primary branch of; one
run, and three clicks, openings, pauses and failures together, one of them a
failure:

* `favorites` - once requests are answered, the names are the user's favorites
  (`NamesMatch`); once events and lists are through as well, so are the cards
  (`CardsMatch`) and they show how the runs stand (`StatesShown`), each with the
  exceptions the code makes.  Three are enough to open the dashboard and click twice,
  or click and have the list fail; one run has all the events a card can miss.

Deadlock is not checked where the system may stop: all calls made, all bounds
used up.  The constants whose name begins with `Max` are the only bounds, but
for three: `StyleSheets` is bounded by its extension points, each of which is
mounted and unmounted once, a page of the editor that is the last one allowed
stays open, and a run of `RunGraph` begins when the one before is about to end.

Fairness is assumed of what the browser's event loop and the network do on
their own: requests are answered or fail, continuations run, timers fire,
events are delivered.  Nobody has to make a call, press a button, or start or
finish a build, or mount or reload anything.  `Extensions` assumes
that an import and a fetch end, well or badly; `EditorPage` that requests are
worked on and answered and timers fire, not that an indexing ends; `Creation`
only that the timer fires; `LogFollow` that requests are answered and timers
fire.  `Editor`, `Karaoke`, `RunGraph` and `Favorites` state no liveness and assume none.

## 4. Proofs

`FetchCallsProofs` proves for all finite sets of resources and calls, any
classes and any bound on versions:

* `TypeCorrect`, `HonestBar`, `BalancedIndicator`: the invariants `TypeOK`,
  `BarHonest` and `IndicatorBalanced`.
* `NeverCachedHolds` (`NeverCached`).  The invariant (`Fresh`) says that an answer in
  flight is no older than the state at which the last promise for its url
  settled, and that no caller holds a promise that settled before it asked.
* `MonotoneAnswersHold`: `FetchCalls` implements `MonotoneReads`, by a step
  simulation under the invariant that no answer in flight is newer than its
  resource and no call was answered with something newer than what is served.

`IndicatorBalanced` compares a counter with the cardinalities of two sets; its
proof shows for each action which of the sets gains or loses an element, and
needs that both sets are finite (the assumption on `Urls` and `Calls`).
`BarHonest` needs the strengthening that the timeouts pending while something
loads are loading timeouts only.  The assumptions are those named in
`FetchCalls`.

`LiveRunsProofs` proves for any numbers of builds, items, pauses, cancellations,
failures and clicks and any page size:

* `TypeCorrect`, which is not inductive alone: builds are the numbers before the
  next one, and an answer that will be stored is a run (`Sound`).
* `PendingHolds`: a page on its way is shown as pending.
* `EventsNeverDuplicateHolds`: a step that is not the arrival of a page gives no
  run a second row.  It rests on lemmas about appending to, and removing from,
  a sequence without duplicates.
* `StaleOnlyIfSharedHolds`: with a page that is already open (`AlreadyOpen`, the
  instance the run checks) a finished run that is shown unfinished, once events
  and requests have drained, shared a request or had a failed one.  The
  invariant (`Tracked`) follows a run that has ended and is stale: either its end
  event is still among the events, or a request made by it is under way, or
  the fetch is marked shared or failed.  That a queued run's cancellation cannot
  come after its end event needs that cancellations of a number come first
  (`CancelsFirst`).
* `CancelledGoneHolds`: a number that is shown, or about to be, is a build, queued,
  one of the two exceptions, or its cancellation is still among the events
  (`Known`).

`ExtensionsProofs` proves for any plugins, points, types, components and
renderers the invariants `TypeOK`, `Complete`, `MostSpecific`, `NoLostCallback`
and `NeverLeftBlank`.  The inductive invariant adds that a call waits exactly while
its counter is not empty, that whatever of its point it does not count is loaded
(`Counted`), that a point marked loaded has no unloaded plugin (`LoadedPoints`)
and that what is registered is what the evaluated bundles export (`Registered`).
`Complete` then follows where a callback runs: all of its point is loaded, so all
that is exported is registered.  It needs the assumption that an undeclared
component has no type, as `_registerComponentInstance` adds it: a typed one could
take the place of a declared one in the filter by type.

`MostSpecific` needs no invariant of registration: the filter by type
is given all of a point's declared extensions, and the first class in the list
that one of them has is found by the least element of a set of numbers
(`DataFacts`).

`OnPageIffActiveHolds` is about `StyleSheets`, for any extension points and sheets.
The inductive invariant `SheetsTracked` adds that a sheet is active once or not at
all: the table at ResourceLoadTracker.js:105 is set to 1 by whoever is the first
to need the sheet, so that the one who lets it go first takes it away.

`EditorPageProofs` proves for any editors, branches and bounds the types and three
properties of the composition of pages, endpoint and repository:

* `CacheHolds` (`CacheOnlyPublished`).  Between the commit and the push of a git
  save the clone does hold something that was never on a branch.  The invariant
  says exactly how much: the commit of the editor that holds the lock, on the
  branch its save names (`CachePublished`), on top of what was fetched, and with a
  head to roll back to that has been on a branch (`CommitsHeld`).  A roll-back that
  fails leaves the commit there: it is `stray` from then on.
* `BranchesKeptHolds` (`BranchesKept`), an action property: a push of git puts a
  commit on the branch that has the fetched head in its past (`CommittedOnTop`),
  so a commit is dropped only where somebody else pushed in between, which is the
  exception `ForcedOver`; the other vendors commit on the head that is there.
* `OverwritesSeenHolds` (`OverwritesSeen`): the sha a page holds, and the one its
  request names, stand for a content its user has read or was asked about
  (`ShaRead`, `GivenShaRead`).  A request that looks the sha up itself was given
  none.
* `TypeCorrect`; commits that requests and pages name are in the log (`ReqInLog`),
  and the log only grows, so what was read stays read.
* `LeaveWarnedHolds` (`LeaveWarned`) is about `Editor`, for any Jenkinsfile and any
  numbers of openings, changes and panels.  The invariant (`EditorInv`) says which
  object the store, the validations and the page refer to (`ObjectsHeld`), that
  what is being saved is what the store holds (`SavedHeld`, unless the pipeline
  was replaced meanwhile), and what the page knows (`Known`): while it takes the
  pipeline for unmodified, the last one it saw is that of the Jenkinsfile, and is
  also the one of the store unless a change was not told.  No operation on the
  tree needs to be looked into: it is enough that all of them tell the listeners
  or leave the mark `quiet`.
* `EditorTypeCorrect` (`EditorTypeOK`: every stage and step has one place),
  `SelectionIsShown` (`SelectionShown`) and `StepsKeptHolds` (`StepsKept`, an action
  property) are about the tree.  The inductive invariant (`EditorFits`) has two
  parts.  `TreeInv` says of every pipeline object that all lists of nodes are
  apart and without repetitions (`Forest`, also for nodes that are not in the
  pipeline any more), that the nodes not yet numbered are in no list (`Unused`),
  and that only stages at the top have branches, and then no steps
  (`TwoLevels`, PipelineStore.js:261).  `Fits` says of the panels that each shows a
  step of the stage in the one below, or, while a validation is under way, one
  that is not in the pipeline any more.  What lies below a node is a recursive
  function in `PipelineTree`; `BelowHull` shows once, by the size of the set it is
  given, that it is the least set that holds the list of the node and of each of
  its members, and all else is proved from that: one lemma for each function of
  PipelineStore (`CreatedSequential`, `CreatedParallel`, `DeletedStage`, `AddedStep`,
  `TakenOut`, `MovedInStage`) says that the tree stays a tree and which steps it
  loses.  What is assumed of the Jenkinsfiles (`FilesAssumption`, `Converted`) is what
  PipelineSyntaxConverter makes of one: new objects, in two levels of stages.

`CreationProofs` proves for any flows, organizations, numbers of pages and bounds:

* `StepsInOrderHolds`: rendering a step after one that is on the stack drops
  what comes after it, and every call of `Render` names a step of lower rank; for
  each of the flows' actions this is a lemma about prefixes of a sorted stack.
* `RepositoriesOfOrgHolds`: the list on the page and the lists that are kept.
  The invariant (`ListsOK`, needed only while `orderly`) says that only the page
  asked for last is on its way, that it is the one after the pages that arrived,
  or the list that was kept and is whole, and that the list on the page is the
  one kept for the chosen organization.
* `KnowsWhereToGoHolds`: a flow of Bitbucket that shows "success" has a pipeline,
  since a saved repository has a name (`NameTypes`) and git alone fetches its
  pipeline after an event.

`RunPageProofs` proves about the page of a run and what it shows, first about
`LogFollow`, for any tail and any numbers of openings, turns and failures:

* `LogContiguousHolds`: the log on the page is one stretch of the server's.  The
  invariant follows what every request and every timer, forgotten ones
  included, will join: a log that ends where the request begins to read
  (`GetsOK`, `TimersOK`).
* `TypeCorrect`, with the bound on forgotten timers.  A timer is forgotten when
  another chain of requests sets its own.  `ChainsOK` counts the chains, which are
  the forgotten timers, the timer and the requests that follow the log: each was
  started by an opening, so fewer than the openings are forgotten, and none on
  the page of a whole run.

Then about `Karaoke`, for any number of stages and any numbers of clicks, events,
failures and returns, `RunPageTypesHold`, `SettledViewHolds` and
`SelectedShownHolds`.  The two properties speak of a page on which nothing is
under way; their inductive invariant `Settling` says of every state what is still
to come:

* `EndShown`: once the run has ended and the page knows, either what it puts off
  for the end is still put off, or a request for nodes is, or one that reads after
  the end is under way, or the last nodes are shown and the steps of the node in
  focus are there or asked for (`StepsSettle`).  All steps of a node are known only
  once it has finished, and then no request sent before that is under way which
  could take them back (`StepsHeld`).
* `LastAsked`: of those who asked for nodes, and whose turn is still to come or
  whose answer is, the last one asked for the node of the url; if there is none,
  that node is shown.
* `ReadsHeld`, `EndHeld`, `LeftHeld`: the nodes that are shown, the next answer and
  the run follow each other in time; the page is told of the end after it; and
  what a page left behind is overtaken by what it puts off for the end.

And about `RunGraph`, for any Jenkinsfiles, any number of runs, steps and failures:

* `RunsNumberedHolds`, the inductive invariant: the numbers of a run's stages and
  branches differ, the items that have started are the first ones with all
  their branches, and so are the stages of a branch (`Numbered`).  So the counts
  the visitor goes by (`ItemsStarted`, `InnerStarted`) name what has an id.
* `RunShownHolds` (`RunShown`).  The nodes of a run have different ids, those of
  synthetic stages being negative (`PlaceIdsDiffer`, `NodesDistinct`).  Of two such
  graphs that are compatible the union has every node of the run in one place
  (`UnionShows`): without twins a place is found for one node only, as both have
  its line of names (`LinesTell`); and an old node that keeps its id cannot have
  that of a node of the run, which would have been found there, by its id
  (`LookedUp`).  What is computed by recursion over a list (`FlattenSeq`, the
  order of the branches) is shown to have the properties needed by taking the
  least place where it would not (`LeastExists` of `DataFacts`).

* `GraphDrawnHolds` (`GraphDrawn`), for any nesting the pipelines of the module have
  and any numbers of branches and stages.  What the page draws depends on ids, and
  ids on how runs interleave, so the argument goes by places (item; item and
  branch; item, branch and stage).  `Drawing(q, d, s)` says that the nodes `s` show
  what the run `q` has started, each place under an id of its own (`d`), with the
  edges the visitor gives it, whatever those ids are.
  * `ShapeDrawn`: the page draws every such graph as `Shape(q)`.  The two
    recursive walks of `convertJenkinsNodeGraph` (`Sequence`, and the walk over the
    columns) are well defined and go through the places in their order, because
    every edge leads to a place further on (`Ranks`, `TrailExists`): induction is
    replaced by taking the least rank at which it would fail.
  * `OwnDrawing`: the nodes of a run are a drawing of it.
  * `UnionDrawing`: so is the union of two compatible graphs, of the earlier run,
    with the ids that the later one has given (`JoinedIds`), since an edge of the
    earlier graph is renamed as the node that it leads to.
  * `RunsCompatible`: the graphs of two runs of one pipeline are compatible if
    the earlier one is `Whole`, their ids do not clash and no name is ambiguous.  The
    line of names up from a node then has one meaning (`OneMeaning`).
  * `SuccessfulWhole`: a run that has succeeded is whole.  Its inductive invariant
    `RunsProgress` says that an item has started only after all before it were
    whole, and that only leaves that have started have ended.
  Proving it showed that the property as first stated was wrong: a run of an
  unchanged pipeline is not united with the last one if names are ambiguous
  (section 5).

`FavoritesProofs` proves for any finite set of jobs, any buttons, and any numbers
of clicks, runs and failures the three properties of the run:

* `NamesMatchHolds`: while no job is clicked again before its answer, a job has
  at most one request, which asks for the opposite of what the names say; a name
  differs from Jenkins exactly while its request is served and not answered
  (`PutsOK`, `NamesOK`).  Removing by place then removes the right name, and the
  only one, which are lemmas about lists without duplicates.
* `CardsMatchHolds`: not only the cards on the page but every list that may still
  become the page's (`InSight`: the one on the promise, and those that wait for a
  lookup) has the favorites that Jenkins has, but for clicks that were served and
  not answered; their answers clear the cache.  `crossed` is the exception.
* `StatesShownHolds`: the last event of a job tells how its run stands
  (`EventsOK`); once it is delivered, the last of those that wait for the shared
  request of the run, or else for a lookup, was told that state (`ReadsOK`), and
  is the last to write it on the card, unless `shuffled`; once they are done,
  every list in sight has it, unless `missed` (`StatesOK`).

The assumptions are those the modules name: finite sets where something is
counted (`Jobs`, `Urls`, `Calls`), that numbers are numbers, and that `None` is
none of the values it stands apart from.

Checked by TLC only is everything about liveness: `CallsSettle`,
`BarTakenDown`, `StartedRunShown`, `Settles`, the two `SaveSettles`,
`LogCompletes`. The provers installed do not do fairness and `ENABLED`.

## 5. What the models show of the code

Where the code does something its comments or a reader would not expect, the
model does it too, and the property that is nearest says so as an exception.

Fetch layer and lists:

* With JWT `fetchJSON` (fetch.ts:327) drops the option `disableLoadingIndicator`.
* DefaultSSEHandler.js:120 documents `_removeRun` as removing the run; for a run
  that is not in the list `indexOf` is -1 and `splice(-1, 1)` (Pager.js:166) takes
  the last row.  The comments at :111 and :136 (a cancelled run is removed, the
  latest is fetched) do not hold when the fetch for an earlier event is in flight:
  the continuation at :153 inserts a run that was removed, and :152 shares the
  older answer.  A run whose fetch fails, or joins one that fails, gets a row in
  `hrefs` but no item, so nothing is shown for it (Pager.js:57-60).
* A page that fails leaves the pager pending and without the error it documents
  (Pager.js:112-117); `updateLatestRun` takes whichever run was handled last
  (PipelineService.js:119).

Extensions:

* ExtensionRenderer.jsx:42-43 asks again when the filter changes, but the answer
  to the older filter may come later and replace the newer one (:52).
* ResourceLoadTracker.js:88-89 promises that a sheet stays while it is needed; the
  table at :105 does not count, so the first unmount takes a shared sheet away,
  and then fails half way for another (:116 names a variable that does not exist).

Saving and the editor:

* The roll-back of a git save that could not be pushed may fail, which is only
  logged (GitBareRepoReadSaveRequest.java:143-145): the commit stays in the clone.
* The conversion before a save goes through fetchClassic.js, which tells nobody of a
  request that fails (:11-22): the dialog goes on saving until the page is left.
  When the timer of the indexing runs out, SaveApi.js:14-15 gives the error
  handler no error, and it throws: the dialog stays as well.
* A 409 is taken for success when Bitbucket server creates a branch
  (BitbucketServerApi.java:214-218).  After a conflict the page looks for the sha
  where it is not (EditorPage.jsx:645).
* A load or a validation that was asked for by a page that has been left replaces
  the pipeline in the store of the next page, whose constructor has just reset it
  (EditorPage.jsx:192, "reset any previous loaded pipeline").
* PipelineValidator.js:374 sets a misspelled field, so a validation is never put
  off by the one before and they overlap; `validate()` calls its caller back at
  once while the same content is being validated or after that failed, and the
  save dialog opens without an answer.
* A container that is dropped into its own contents is lost; PipelineStore then
  throws before it tells its listeners.  Clicking the placeholder of an empty
  container in its own panel opens the panel twice.
* Changes of settings tell no listener, so a page that is left right after one
  does not ask.  "Discard" on a page without a Jenkinsfile throws, and "keep my
  changes" replaces the pipeline by an empty one.

Creation:

* A page of the repositories of one organization that arrives after another was
  chosen is added to the list of the other, and the mixed list is kept for the
  first (GithubFlowManager.js:241-247).
* The check for branches never finds any (BbCreationApi.js:202 reads
  `getTotalNumberOfBranches`), so a flow of GitHub or Bitbucket waits for an event
  or its timer.
* A failure event of any project ends the flow.  An event or the timer that comes
  before the create request is answered leaves a step with no listeners.  The
  timer, or a run of an existing pipeline of the same name, acts on the rename
  step.  A later page that fails leaves the list loading.
* BbCreationApi.js looks for an error on `credentialId` while the server reports
  `scm.credentialId`, and `STATE.ERROR` is not defined: the page stays "saving"
  until its timer.  When a run is reported before the answer GitHub's flow has no
  pipeline to go to.  The project stays when its credential cannot be stored, so
  the next try finds the name taken.
* A probe for a Jenkinsfile that fails looks like a missing one; the listeners of
  git are not dropped when the page is left; the organizations of an old server
  may arrive after another was chosen.

Favorites and their events:

* A second click before the first one is answered asks for the same again: both
  answers add the name, or the second one, whose `findIndex` is -1, puts the list
  without its last name before the whole list (FavoriteStore.js:49-50).
* The getter `favorites` sets `_fetched` before it has a list (:69-71): a list that
  fails is not asked for again until something clears the cache.  The error is
  caught first (:86), so the continuation at :77 sorts a list that is not there,
  and throws.
* Clearing the cache while a list is under way joins that list, which may be older
  than what made the store clear it.  The first list may be the one the page was
  served with, however old.
* SseBus.js:132-153 refetches the run and then forces its state to the one of the
  event: with events answered out of order, or a list that comes meanwhile, the
  state that stays is not that of the run.  A listener that has unsubscribed
  meanwhile is called all the same.

Logs and the run page:

* `catch` of the pagers makes an action and does not call it: no error is set and
  `pending` stays (PipelinePager.js:32 and LogPager.js:26 document both).
* A step that is opened while its log is empty is not followed; showing the full
  log ends following; a late answer to an earlier request may take the log back;
  a timer that was forgotten clears that of another chain.
* Steps asked for when a run ends join a request for them that is under way
  (PipelinePager.js:202); if the server read it before the node finished, the page
  keeps lacking the last steps.  So do the nodes.
* The refetch at the end of a run keeps the node of the url of that moment, so a
  click within the 200 ms is undone (Pipeline.jsx:127-133 against the comment at
  :135).  `job_run_ended` events have no `pipeline_run_id` and are ignored (:195).

Run graph:

* Ids are looked up before names (PipelineNodeGraphVisitor.java:712-720).  That
  keeps ids unique (`RunShown` fails without it), but it also gives up the union
  for a run of the same pipeline whose branches went on in another order, or that
  took a step more: an id then names another node of the last run, and the page
  shows only what has started.  `GraphDrawn` states this exception (`Clash`).
* A name is looked up with the name of its parent only (:688-701), but what is
  found is compared up to the first stage (FlowNodeWrapper.java:37-57).  Where two
  stages have a branch of the same name with stages of the same names, the stage
  of the one is found for that of the other, and the union is given up although
  nothing in the pipeline changed: the other exception (`Ambiguous`).
* A stage after a parallel step has no parent, so two such stages of one name
  are twins: the union keeps the state of the last of them and shows the other as
  not started.
* Of a branch whose stages are about to run, the first is discarded while it is
  the only one (:403), so with a last successful run it is drawn as not started
  while it runs.
* When the Jenkinsfile has changed compatibly, the page shows stages that the new
  one does not have, until the run succeeds.
* convertJenkinsNodeGraph computes the edges between known nodes and drops the
  result (`allEdges.filter`).

## 6. Plan

Done: `FetchCalls`, `RunServer` with `LiveRuns`, `Extensions`, `StyleSheets`,
`SaveContent` with `EditorPage`, `PipelineTree` with `Editor`, `Creation`,
`LogFollow`, `Karaoke`, `RunGraph`, `Favorites` with SseBus, and theorems about
all of them: every safety and action property that a run checks is proved.

To model after that: `JwtToken` (the token cache
of `jwt.js` and its second promise, against a clock) with `SigningKeys` (the keys
of `blueocean-jwt` by month); `RunPages` (RunContainerImpl, RunSearch,
MultibranchPipelineRunContainer and `Pager.refresh`: which runs a reader of all
the pages sees); `StageEvents` (PipelineEventListener); and in `RunGraph`
declarative pipelines, whose branches have labelling stages.

## 7. Not modelled

PROJECT.json lists every part of the repository with the reason; in short,
rendering, design language, icons, i18n, REST interfaces and stateless mapping
to vendors' APIs have no state or order to model, and make up most of the lines
of the repository.  The parts named at the end of the plan have state and are
left for an extension.
