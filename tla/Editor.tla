------------------------------- MODULE Editor -------------------------------
(***************************************************************************)
(* The pipeline editor: the page that loads and saves a Jenkinsfile        *)
(* (EditorPage), the panels on which it is edited (EditorMain), the store  *)
(* that holds the pipeline (PipelineStore) and the validator that sends it *)
(* to the server after changes (PipelineValidator).  Store and validator   *)
(* live as long as the application; the page and its panels do not.        *)
(*                                                                         *)
(* A pipeline object is a place in `pipes': the store and the requests     *)
(* under way refer to the object and not to its content.  That a save is   *)
(* refused, and what the user may do then, is in EditorPage.               *)
(***************************************************************************)
EXTENDS PipelineTree

CONSTANTS
  Nothing,
  Files,        \* what a Jenkinsfile may hold when it is loaded
  NoFile,       \* there is no Jenkinsfile
  FirstNew,     \* the nodes from here on are new ones
  MaxPages,     \* bound: times the editor is opened
  MaxPipes,     \* bound: pipeline objects
  MaxEdits,     \* bound: openings of the editor and changes of a pipeline, together
  MaxPanels,    \* bound: panels of steps that are open
  MaxChecks     \* bound: validations under way

(* What the conversion of a Jenkinsfile makes: new objects, each with its  *)
(* place.  Only stages at the top have branches, and those have no steps.  *)
Converted(f) ==
  /\ Stages(f) \cup Steps(f) \subseteq 1..(FirstNew - 1)
  /\ OneParent(f)
  /\ \A n \in Nodes : /\ n \notin {Root} \cup Stages(f) => f.branches[n] = <<>>
                      /\ n \notin Stages(f) \cup Steps(f) => f.steps[n] = <<>>
  /\ \A s \in Stages(f) :
       ~Childless(f, s) => s \in Range(f.branches[Root]) /\ f.steps[s] = <<>>

ASSUME FilesAssumption ==
  /\ Files \subseteq Pipelines /\ NoFile \notin Pipelines
  /\ FirstNew \in Nodes \ {Root}
  /\ \A f \in Files : Converted(f)
ASSUME EditorBounds ==
  /\ MaxPages \in Nat /\ MaxPipes \in Nat /\ MaxEdits \in Nat /\ MaxPanels \in Nat
  /\ MaxChecks \in Nat
ASSUME NothingAssumption == Nothing \notin Nodes /\ Nothing \notin BOOLEAN

VARIABLES
  pipes,           \* the pipeline objects: the tree, and whether it bears errors
  store,           \* pipelineStore.pipeline: an object, or 0
  nextId,          \* idgen
  \* the page
  open,            \* the editor is open
  pageNumber,      \* the number of its page
  loading,         \* the pages that await their Jenkinsfile
  lastPipeline,    \* the content that is not modified, or Nothing
  pipelineIsModified,
  dialog,          \* the save dialog: "closed", "shown", "saving"
  body,            \* the content that is being saved, or Nothing
  \* the panels
  selectedStage,   \* a stage, or Nothing
  selectedSteps,   \* the steps whose panels lie one over the other
  picking,         \* the sheet to choose a step from: the parent it was opened for, or Nothing
  \* the validator
  lastValidated,   \* content, and whether it was marked with pristine edits
  checks,          \* validations under way
  edits,           \* edits up to its bound
  \* history
  synced,          \* the content of the Jenkinsfile as it was loaded or saved
  quiet,           \* the last change of this pipeline was not told the listeners
  swapped          \* the pipeline was replaced while a save was under way

storeVars == <<pipes, store, nextId>>
editorPageVars == <<open, pageNumber, loading, lastPipeline, pipelineIsModified, dialog, body>>
panelVars == <<selectedStage, selectedSteps, picking>>
checkVars == <<lastValidated, checks>>
historyVars == <<synced, quiet, swapped>>
editorVars == <<storeVars, editorPageVars, panelVars, checkVars, historyVars, edits>>

Tree(r) == pipes[r].tree
Current == Tree(store)
Shown == open /\ store # 0
Editing == Shown /\ dialog = "closed"

(* The parent of the chosen step is not in any pipeline that is shown      *)
Gone == MaxId + 1

Check == [pipe : 1..MaxPipes, valid : BOOLEAN, dialog : BOOLEAN, page : 1..MaxPages]

EditorTypeOK ==
  /\ Len(pipes) <= MaxPipes
  /\ \A r \in DOMAIN pipes : /\ pipes[r].tree \in Pipelines /\ OneParent(pipes[r].tree)
                             /\ pipes[r].errors \in BOOLEAN
  /\ store \in 0..Len(pipes)
  /\ nextId \in FirstNew..(MaxId + 1)
  /\ open \in BOOLEAN /\ pageNumber \in 0..MaxPages /\ loading \subseteq 1..MaxPages
  /\ pipelineIsModified \in BOOLEAN
  /\ dialog \in {"closed", "shown", "saving"}
  /\ selectedStage \in Nodes \cup {Nothing} /\ selectedSteps \in Seq(Nodes)
  /\ picking \in Nodes \cup {Nothing, Gone}
  /\ \A i \in DOMAIN checks : checks[i] \in Check /\ checks[i].pipe \in DOMAIN pipes
  /\ quiet \in BOOLEAN /\ swapped \in BOOLEAN

EditorInit ==
  /\ pipes = <<>> /\ store = 0 /\ nextId = FirstNew
  /\ open = FALSE /\ pageNumber = 0 /\ loading = {}
  /\ lastPipeline = Nothing /\ pipelineIsModified = FALSE /\ dialog = "closed"
  /\ body = Nothing /\ selectedStage = Nothing /\ selectedSteps = <<>> /\ picking = Nothing
  /\ lastValidated = Nothing /\ checks = <<>>
  /\ edits = 0
  /\ synced = Nothing /\ quiet = FALSE /\ swapped = FALSE

-----------------------------------------------------------------------------
(* What happens when the store tells its listeners, the pipeline being p   *)

(* Faulty variant: it is compared with what was told last *)
CheckForLastChange(p) ==
  /\ pipelineIsModified' = (lastPipeline \notin {Nothing, Json(p)})
  /\ lastPipeline' = Json(p)
  /\ quiet' = FALSE

(* lastPipeline is not read while the pipeline is modified: Nothing then.  *)
CheckForModification(p) ==
  LET modified == pipelineIsModified \/ lastPipeline \notin {Nothing, Json(p)}
  IN /\ pipelineIsModified' = modified
     /\ lastPipeline' = IF modified THEN Nothing ELSE Json(p)
     /\ quiet' = FALSE

(* EditorMain.doUpdate, in a pipeline that holds those objects (`same') or *)
(* has been put in their place                                             *)
StepsFound(p, same) ==
  IF same /\ Range(selectedSteps) \subseteq Steps(p) THEN selectedSteps ELSE <<>>

(* Faulty variant: it looks at the steps only *)
StageFoundKeeps(p, same) == IF same THEN selectedStage ELSE Nothing

StageFound(p, same) ==
  IF same /\ selectedStage \in Stages(p) THEN selectedStage ELSE Nothing

DoUpdate(p) ==
  /\ selectedSteps' = StepsFound(p, TRUE)
  /\ selectedStage' = StageFound(p, TRUE)

(* setPipeline, with the object r whose tree then is p.  It is told to     *)
(* whoever listens.                                                        *)
SetPipeline(r, p) ==
  /\ store' = r
  /\ IF open
     THEN /\ CheckForModification(p)
          /\ selectedSteps' = StepsFound(p, r = store)
          /\ selectedStage' = StageFound(p, r = store)
          /\ picking' = IF r = store \/ picking \in {Nothing, Root} THEN picking ELSE Gone
     ELSE UNCHANGED <<lastPipeline, pipelineIsModified, quiet, panelVars>>

NoteSwap(r) == swapped' = (swapped \/ (dialog = "saving" /\ r # store))

NewPipe(p) ==
  /\ Len(pipes) < MaxPipes
  /\ pipes' = Append(pipes, [tree |-> p, errors |-> FALSE])
  /\ SetPipeline(Len(pipes) + 1, p)

-----------------------------------------------------------------------------
(* PipelineValidator *)

Marked(p) == <<Json(p), HasPristineEdits(p)>>
Skipped(p) == lastValidated = <<Json(p), FALSE>>

(* validate: the pipeline p of the object r is sent, unless it is what was *)
(* sent last                                                               *)
ValidateFor(r, p, forDialog) ==
  IF Skipped(p) THEN UNCHANGED <<checks, lastValidated>>
  ELSE /\ Len(checks) < MaxChecks
       /\ lastValidated' = Marked(p)
       /\ checks' = Append(checks, [pipe |-> r, valid |-> Valid(p),
                                    dialog |-> forDialog, page |-> pageNumber])
Validate(p) == ValidateFor(store, p, FALSE)

(* The answer is applied to the object that was sent, which then is set    *)
(* again so that the panels are drawn anew.  A request that fails is never *)
(* answered.  What the client checks itself it finds in the pipeline of    *)
(* the store only.                                                         *)
CheckAnswered(i) ==
  LET c == checks[i]
      p == Tree(c.pipe)
      errors == ~c.valid \/ (c.pipe = store /\ ~Valid(p))
  IN /\ checks' = RemoveAt(checks, i)
     /\ pipes' = [pipes EXCEPT ![c.pipe].errors = errors]
     /\ SetPipeline(c.pipe, p) /\ NoteSwap(c.pipe)
     /\ dialog' = IF c.dialog /\ ~errors /\ open /\ c.page = pageNumber /\ dialog = "closed"
                  THEN "shown" ELSE dialog
     /\ UNCHANGED <<nextId, open, pageNumber, loading, body, lastValidated, synced, edits>>

(* A second after the last key that was pressed anywhere in the editor,    *)
(* which may have been left meanwhile                                      *)
ValidateAfterTyping ==
  /\ store # 0
  /\ Validate(Current)
  /\ UNCHANGED <<storeVars, editorPageVars, panelVars, historyVars, edits>>

-----------------------------------------------------------------------------
(* The graph and the panels: EditorMain *)

(* The change of the tree to p, told to the listeners; what it does to the *)
(* panels is left to the action.                                           *)
Change(p) ==
  /\ pageNumber + edits < MaxEdits
  /\ edits' = edits + 1
  /\ pipes' = [pipes EXCEPT ![store].tree = p]
  /\ UNCHANGED <<store, open, pageNumber, loading, dialog, body, synced, swapped>>

CreateStage(parent) ==
  LET new == nextId + 1
      p == IF parent = Root THEN CreateSequentialStage(Current, new)
           ELSE CreateParallelStage(Current, parent, nextId, new)
  IN /\ Editing /\ new \in Nodes
     /\ parent \in {Root} \cup Range(Current.branches[Root])
     /\ Change(p) /\ CheckForModification(p)
     /\ nextId' = nextId + 2
     /\ selectedStage' = new /\ selectedSteps' = <<>>
     /\ UNCHANGED <<picking, checkVars>>

Select == /\ Editing
          /\ UNCHANGED <<store, nextId, editorPageVars, historyVars, edits>>

(* A node or a label of the graph, or its start *)
GraphSelectedStageChanged(s) ==
  /\ Select
  /\ s \in Stages(Current) \cup {Nothing}
  /\ selectedStage' = s /\ selectedSteps' = <<>> /\ picking' = Nothing
  /\ Validate(Current)
  /\ UNCHANGED pipes

(* Beside the nodes.  A sheet to choose a step from stays open. *)
ClickGraph ==
  LET p == CleanPristine(Current, Nodes)
  IN /\ Select
     /\ pipes' = [pipes EXCEPT ![store].tree = p]
     /\ Validate(p)
     /\ selectedStage' = Nothing /\ selectedSteps' = <<>>
     /\ UNCHANGED picking

(* The node whose steps the sheet on top lists, or Nothing *)
Listed ==
  CASE picking # Nothing -> Nothing
    [] picking = Nothing /\ selectedSteps # <<>> ->
         IF Last(selectedSteps) \in Current.containers THEN Last(selectedSteps) ELSE Nothing
    [] OTHER ->
         IF selectedStage # Nothing /\ Childless(Current, selectedStage)
         THEN selectedStage ELSE Nothing

(* In a container without steps there is a place to click as well, which   *)
(* stands for the container.                                               *)
SelectedStepChanged(x) ==
  /\ Select
  /\ Listed # Nothing
  /\ \/ x \in Inside(Current, Listed)
     \/ x = Listed /\ selectedSteps # <<>> /\ Current.steps[x] = <<>>
  /\ Len(selectedSteps) < MaxPanels
  /\ selectedSteps' = Append(selectedSteps, x)
  /\ UNCHANGED <<pipes, selectedStage, picking, lastValidated, checks>>

OpenSelectStepDialog ==
  /\ Select
  /\ Listed # Nothing
  /\ picking' = IF selectedSteps = <<>> THEN Root ELSE Listed
  /\ UNCHANGED <<pipes, selectedStage, selectedSteps, lastValidated, checks>>

(* The arrow of the sheet on top, or the escape key.  Closing a stage      *)
(* validates twice: a second request for the same content is left out.     *)
CloseSheet ==
  /\ Select
  /\ \/ /\ picking # Nothing
        /\ picking' = Nothing
        /\ UNCHANGED <<pipes, selectedStage, selectedSteps, lastValidated, checks>>
     \/ /\ picking = Nothing /\ selectedSteps # <<>>
        /\ LET x == Last(selectedSteps)
               p == CleanPristine(Current, {x} \cup Inside(Current, x))
           IN pipes' = [pipes EXCEPT ![store].tree = p] /\ Validate(p)
        /\ selectedSteps' = Front(selectedSteps)
        /\ UNCHANGED <<selectedStage, picking>>
     \/ /\ picking = Nothing /\ selectedSteps = <<>> /\ selectedStage # Nothing
        /\ LET p == CleanPristine(Current, UNION {Inside(Current, s) :
                      s \in {selectedStage} \cup Range(Current.branches[selectedStage])})
           IN pipes' = [pipes EXCEPT ![store].tree = p] /\ Validate(p)
        /\ selectedStage' = Nothing
        /\ UNCHANGED <<selectedSteps, picking>>

(* The parent the sheet was opened for must be in the stage that is        *)
(* selected now: otherwise addStep throws.                                 *)
AddStep(container) ==
  LET parent == IF picking = Root THEN selectedStage ELSE picking
      added == AddStepTo(Current, parent, nextId, container)
      p == [added EXCEPT !.pristine = @ \cup {nextId}]
  IN /\ Editing /\ picking # Nothing /\ selectedStage # Nothing /\ nextId \in Nodes
     /\ picking # Root => picking \in Inside(Current, selectedStage)
     /\ Change(p) /\ CheckForModification(p) /\ Validate(p)
     /\ nextId' = nextId + 1
     /\ selectedSteps' = Append(selectedSteps, nextId)
     /\ selectedStage' = StageFound(p, TRUE)
     /\ picking' = Nothing

(* Of the sheet on top.  The listener empties selectedSteps, which then is *)
(* set to what it was but for the last.                                    *)
DeleteStep ==
  /\ Editing /\ picking = Nothing /\ selectedSteps # <<>>
  /\ Last(selectedSteps) \in Steps(Current)
  /\ LET p == DeleteStepFrom(Current, Last(selectedSteps))
     IN /\ Change(p) /\ CheckForModification(p) /\ Validate(p)
        /\ selectedStage' = StageFound(p, TRUE)
  /\ selectedSteps' = Front(selectedSteps)
  /\ UNCHANGED <<nextId, picking>>

DeleteStage ==
  /\ Editing /\ picking = Nothing /\ selectedSteps = <<>> /\ selectedStage # Nothing
  /\ LET p == DeleteStageFrom(Current, selectedStage)
     IN Change(p) /\ CheckForModification(p) /\ DoUpdate(p) /\ Validate(p)
  /\ UNCHANGED <<nextId, picking>>

(* The zones of the list, and the one at its end, which is the stage's *)
Zones ==
  {zone \in Inside(Current, Listed) \X {Before, After, FirstChild, LastChild} :
     zone[2] = Before \/ (zone[2] = After <=> zone[1] \notin Current.containers)}
  \cup {<<selectedStage, LastChild>>}

(* In a container that was deleted and is still shown nothing is moved:    *)
(* moveStep does not find the step and throws.                             *)
MoveStep(x, target, position) ==
  /\ Editing /\ Listed # Nothing /\ x \in Inside(Current, selectedStage)
  /\ x \in Inside(Current, Listed) /\ <<target, position>> \in Zones /\ x # target
  /\ LET p == MoveStepIn(Current, x, target, position)
     IN /\ Change(p)
        /\ IF MoveThrows(Current, x, target, position)
           THEN /\ quiet' = TRUE
                /\ UNCHANGED <<lastPipeline, pipelineIsModified, selectedStage, selectedSteps>>
           ELSE CheckForModification(p) /\ DoUpdate(p)
  /\ UNCHANGED <<nextId, picking, checkVars>>

(* The settings of the panel on top: of a step, a stage or the pipeline.   *)
(* The store is not told.                                                  *)
EditSettings ==
  LET n == CASE selectedSteps # <<>> -> Last(selectedSteps)
             [] selectedSteps = <<>> /\ selectedStage # Nothing -> selectedStage
             [] OTHER -> Root
  IN /\ Editing /\ picking = Nothing
     /\ Change([Current EXCEPT !.settings[n] = 1 - @])
     /\ quiet' = TRUE
     /\ UNCHANGED <<nextId, panelVars, lastPipeline, pipelineIsModified, lastValidated, checks>>

-----------------------------------------------------------------------------
(* The page: EditorPage *)

TreeOf(f) == IF f = NoFile THEN EmptyPipeline ELSE f

ClosePanels == selectedStage' = Nothing /\ selectedSteps' = <<>> /\ picking' = Nothing

(* The store is emptied: nobody listens yet *)
OpenPage ==
  /\ ~open /\ pageNumber < MaxPages /\ pageNumber + edits < MaxEdits
  /\ open' = TRUE /\ pageNumber' = pageNumber + 1 /\ loading' = loading \cup {pageNumber + 1}
  /\ store' = 0
  /\ UNCHANGED <<pipes, nextId, lastPipeline, pipelineIsModified, dialog, body, panelVars,
                 checkVars, historyVars, edits>>

(* The content comes and is converted; without a Jenkinsfile the pipeline  *)
(* is empty.  A page that was left meanwhile gets it as well.              *)
ContentLoaded(q, f) ==
  /\ q \in loading
  /\ loading' = loading \ {q}
  /\ NewPipe(TreeOf(f)) /\ NoteSwap(Len(pipes) + 1)
  /\ synced' = IF open /\ q = pageNumber THEN Json(TreeOf(f)) ELSE synced
  /\ UNCHANGED <<nextId, open, pageNumber, dialog, body, checkVars, edits>>

(* routerWillLeave asks first if pipelineIsModified; the user may agree.   *)
(* The last page stays open: a bound.                                      *)
LeaveEditor ==
  /\ pageNumber < MaxPages
  /\ open' = FALSE /\ dialog' = "closed" /\ body' = Nothing
  /\ lastPipeline' = Nothing /\ pipelineIsModified' = FALSE
  /\ ClosePanels
  /\ synced' = Nothing /\ quiet' = FALSE /\ swapped' = FALSE
  /\ UNCHANGED <<storeVars, pageNumber, loading, checkVars>>

LeavePage == open /\ LeaveEditor /\ UNCHANGED edits

(* The script is pasted in a dialog of its own and converted. *)
CopyPaste(f) ==
  /\ Editing /\ pageNumber + edits < MaxEdits
  /\ edits' = edits + 1
  /\ NewPipe(f)
  /\ UNCHANGED <<nextId, open, pageNumber, loading, dialog, body, checkVars, synced, swapped>>

(* A pipeline that was sent last is not sent again, and what is known of   *)
(* its errors decides.                                                     *)
ShowSaveDialog ==
  /\ Editing
  /\ ValidateFor(store, Current, TRUE)
  /\ dialog' = IF Skipped(Current) /\ ~pipes[store].errors THEN "shown" ELSE dialog
  /\ UNCHANGED <<storeVars, open, pageNumber, loading, lastPipeline, pipelineIsModified, body,
                 panelVars, historyVars, edits>>

CancelSave ==
  /\ dialog = "shown"
  /\ dialog' = "closed"
  /\ UNCHANGED <<storeVars, open, pageNumber, loading, lastPipeline, pipelineIsModified, body,
                 panelVars, checkVars, historyVars, edits>>

SavePipeline ==
  /\ dialog = "shown" /\ store # 0
  /\ dialog' = "saving" /\ body' = Json(Current)
  /\ UNCHANGED <<storeVars, open, pageNumber, loading, lastPipeline, pipelineIsModified, panelVars,
                 checkVars, historyVars, edits>>

(* What is in the store now is taken for what was saved.  The page is left *)
(* for the activity, unless the run or the indexing cannot be started.     *)
SaveDone ==
  /\ dialog = "saving"
  /\ \/ LeaveEditor
     \/ /\ pipelineIsModified' = FALSE /\ lastPipeline' = Json(Current)
        /\ synced' = body
        /\ dialog' = "shown" /\ body' = Nothing
        /\ UNCHANGED <<storeVars, open, pageNumber, loading, panelVars, checkVars, quiet, swapped>>
  /\ UNCHANGED edits

-----------------------------------------------------------------------------
EditorNext ==
  \/ OpenPage
  \/ \E q \in loading, f \in Files \cup {NoFile} : ContentLoaded(q, f)
  \/ LeavePage
  \/ \E f \in Files : CopyPaste(f)
  \/ \E parent \in Nodes : CreateStage(parent)
  \/ \E s \in Nodes \cup {Nothing} : GraphSelectedStageChanged(s)
  \/ ClickGraph
  \/ \E x \in Nodes : SelectedStepChanged(x)
  \/ OpenSelectStepDialog
  \/ CloseSheet
  \/ \E container \in BOOLEAN : AddStep(container)
  \/ DeleteStep
  \/ DeleteStage
  \/ /\ Shown /\ Listed # Nothing
     /\ \E x \in Inside(Current, Listed), zone \in Zones : MoveStep(x, zone[1], zone[2])
  \/ EditSettings
  \/ ValidateAfterTyping
  \/ \E i \in DOMAIN checks : CheckAnswered(i)
  \/ ShowSaveDialog
  \/ CancelSave
  \/ SavePipeline
  \/ SaveDone

EditorSpec == EditorInit /\ [][EditorNext]_editorVars

-----------------------------------------------------------------------------
(* The panels show what is in the pipeline: the selected stage is one of   *)
(* its stages, and each selected step is a step of it, in the one whose    *)
(* panel lies below.  Only a container that was opened twice and then      *)
(* deleted stays until the validation that follows is answered.            *)
SelectionShown ==
  Shown /\ checks = <<>> =>
    /\ selectedStage \in Stages(Current) \cup {Nothing}
    /\ selectedSteps # <<>> => selectedStage # Nothing
    /\ \A i \in DOMAIN selectedSteps :
         /\ selectedSteps[i] \in Inside(Current, selectedStage)
         /\ i > 1 => LET below == selectedSteps[i - 1]
                     IN selectedSteps[i] \in {below} \cup Inside(Current, below)

(* Changing a pipeline loses no step but those that are deleted, alone,    *)
(* with the container or with the stage that they are in: not when a       *)
(* stage becomes parallel, when a branch that is left alone is merged into *)
(* its stage, and when a step is moved, unless it is dropped into itself.  *)
StepsKept ==
  [][LET gone == Steps(Current) \ Steps(Tree(store)')
         With(x) == {x} \cup Inside(Current, x)
     IN store # 0 /\ store' = store /\ Current' # Current /\ gone # {} =>
          \/ DeleteStep /\ gone = With(Last(selectedSteps))
          \/ DeleteStage /\ gone = UNION {Inside(Current, s) : s \in
                                {selectedStage} \cup Range(Current.branches[selectedStage])}
          \/ \E x, t \in gone, position \in {Before, After, FirstChild, LastChild} :
               t \in Inside(Current, x) /\ MoveStep(x, t, position) /\ gone = With(x)]_editorVars

(* Whoever leaves the page with a pipeline that is not the Jenkinsfile is  *)
(* asked first, unless the store has not heard of the last change, or the  *)
(* pipeline was replaced while it was saved.                               *)
LeaveWarned ==
  Shown /\ synced # Nothing /\ Json(Current) # synced => pipelineIsModified \/ quiet \/ swapped
=============================================================================
