---------------------------- MODULE StandaloneForm ----------------------------
(***************************************************************************)
(* The standalone form (apps/standalone-form): one assessment in one       *)
(* browser tab, kept in localStorage.  App.vue opens and leaves the form,  *)
(* Form.vue loads, uploads and resets it, TaskSection.vue, TaskGroup.vue   *)
(* and FormField.vue change it, LocalPersistence.ts saves every change.    *)
(*                                                                         *)
(* Vue runs the watchers of a change to a fixpoint before the next event,  *)
(* so each action is a handler together with the flush that follows it:    *)
(* the hide watcher, the instance sync and the save.                       *)
(***************************************************************************)
EXTENDS FormExports

CONSTANTS
    Options,      \* what a user can enter in a task: a set of values, {} for a group
    Completable,  \* the root tasks with a completion checkbox
    Files         \* the files a user may upload

ASSUME FormAssumption ==
    /\ Options \in [Tasks -> SUBSET Values]
    /\ Completable \subseteq Tasks

VARIABLES
    inst,         \* taskInstances
    answers,      \* the answers in memory
    cache,        \* the hidden answer cache, of the mounted form
    completed,    \* completedRootTaskIds
    stored,       \* localStorage
    phase,        \* what the page shows
    watching      \* the save watchers exist: they outlive the form that made them
vars == <<inst, answers, cache, completed, stored, phase, watching>>

Phases == {"landing", "upload", "form"}
NoAnswers == [id \in {} |-> Empty]

FormTypeOK ==
    /\ DOMAIN inst \subseteq Ids
    /\ \A id \in DOMAIN inst : inst[id] \in Instance
    /\ IsAnswers(answers)
    /\ IsAnswers(cache)
    /\ completed \subseteq Completable
    /\ stored.completed \subseteq Completable
    /\ IsAnswers(flattenGroupedAnswers(stored.state))
    /\ phase \in Phases
    /\ watching \in BOOLEAN

-------------------------------------------------------------------------------
\* What the page shows and lets the user do.

canUserCreateInstances(t) == t \in Repeatable /\ MappedFrom[t] = NoTask
missingSource(id) ==
    inst[id].source # NoId /\ getAnswer(answers, inst[id].source) = NoValue

\* TaskSection.vue: the instances of a task below a root, unless nothing that
\* they are mapped from has a value yet.
sectionShows(id) ==
    shouldShowTask(inst, answers, id) /\ hasSourceTaskValues(inst, answers, taskOf(id))

\* TaskGroup.vue: what is below another instance, once its source has a value.
groupShows(id) ==
    shouldShowTask(inst, answers, id) /\ ~missingSource(inst[id].parent)

rendered(id) ==
    LET shown[i \in Ids] ==
          /\ i \in DOMAIN inst
          /\ \/ inst[i].parent = NoId
             \/ /\ inst[i].parent # NoId
                /\ IF taskOf(inst[i].parent) \in rootTasks THEN sectionShows(i)
                   ELSE shown[inst[i].parent] /\ groupShows(i)
    IN  shown[id]

\* FormField.vue: the values that the input of a field can store, while it is there.
offers(id) == IF rendered(id) /\ isLeaf(taskOf(id)) THEN Options[taskOf(id)] ELSE {}

\* The add button of a group in a section, or of one below another group, which is
\* there while one of the latter is visible.
canAdd(t, parent) ==
    /\ canUserCreateInstances(t)
    /\ taskOf(parent) = Parent[t]
    /\ rendered(parent)
    /\ \/ Parent[t] \in rootTasks
       \/ ~missingSource(parent) /\ \E i \in instancesUnder(inst, t, parent) : shouldShowTask(inst, answers, i)

hasMoreThanOneInstance(id) ==
    \E i \in getInstancesForTask(inst, taskOf(id)) \ {id} : inst[i].parent = inst[id].parent

-------------------------------------------------------------------------------
\* localStorage

savedForm(i, a, c) == [state |-> groupAnswers(a, DOMAIN i), completed |-> c]
\* Nothing in localStorage; a stored state without answers loads as nothing too.
NoState == [state |-> EmptyState, completed |-> {}]
hasSavedState(s) == ~isEmptyState(s.state)

\* Form.vue onMounted: load, init, apply, rebuild, sync.  init() empties the
\* task store; without a saved state nothing empties the answer store.
loadedForm(s, a) ==
    LET flat == appliedAnswers(s.state, a)
        rebuilt == IF hasSavedState(s) THEN rebuildRepeatableInstances(createDefaultInstances, flat, s.state)
                   ELSE createDefaultInstances
    IN  [inst |-> syncInstances(rebuilt), answers |-> flat,
         completed |-> IF hasSavedState(s) THEN s.completed ELSE {}]

\* The watchers of setupWatchers, after a change.
SaveAppState == stored' = IF watching THEN savedForm(inst', answers', completed') ELSE stored

-------------------------------------------------------------------------------
Init ==
    /\ inst = NoInstances
    /\ answers = NoAnswers
    /\ cache = NoAnswers
    /\ completed = {}
    /\ stored = NoState
    /\ phase = "landing"
    /\ watching = FALSE

\* The watchers of earlier forms save what was just loaded.
MountForm(s) ==
    LET form == loadedForm(s, answers)
    IN  /\ phase = "landing"
        /\ inst' = form.inst
        /\ answers' = form.answers
        /\ completed' = form.completed
        /\ cache' = NoAnswers
        /\ phase' = IF hasSavedState(s) THEN "form" ELSE "upload"
        /\ watching' = TRUE
        /\ stored' = IF watching THEN savedForm(inst', answers', completed') ELSE s

OpenForm == MountForm(stored)
StartFresh == hasSavedState(stored) /\ MountForm(NoState)

Start ==
    /\ phase = "upload"
    /\ phase' = "form"
    /\ UNCHANGED <<inst, answers, cache, completed, stored, watching>>

\* What a handler leaves in the stores, and the flush after it.
Settle(newInst, newAnswers) ==
    LET form == reconcile(newInst, answers, newAnswers, cache)
    IN  /\ answers' = form.answers
        /\ cache' = form.cache
        /\ inst' = syncInstances(newInst)

Upload(file) ==
    LET flat == appliedAnswers(file.state, answers)
    IN  /\ phase = "upload"
        /\ completed' = IF file.completed = {} THEN completed ELSE file.completed
        /\ Settle(syncInstances(rebuildRepeatableInstances(inst, flat, file.state)), flat)
        /\ phase' = "form"
        /\ SaveAppState
        /\ UNCHANGED watching

Edit(id, value) ==
    /\ phase = "form"
    /\ value \in offers(id)
    /\ Settle(inst, (id :> value) @@ answers)
    /\ UNCHANGED <<completed, phase, watching>>
    /\ SaveAppState

\* Nothing syncs after an addition: the mapped groups follow at the next answer.
AddInstance(t, parent) ==
    /\ phase = "form"
    /\ canAdd(t, parent)
    /\ nextAvailableIndex(inst, t) <= MaxIndex
    /\ inst' = addRepeatableTaskInstance(inst, t, parent, NoIndex)
    /\ UNCHANGED <<answers, cache, completed, phase, watching>>
    /\ SaveAppState

\* Mutant of answersWithout: the answers of every instance of the task go.
answersWithoutTask(id) ==
    Restrict(answers, {i \in DOMAIN answers : taskOf(i) \notin subtreeOf(taskOf(id))})
answersWithout(id) == Restrict(answers, DOMAIN answers \ descendants(inst, id))

DeleteInstance(id) ==
    /\ phase = "form"
    /\ id \in DOMAIN inst
    /\ canUserCreateInstances(taskOf(id))
    /\ hasMoreThanOneInstance(id)
    /\ rendered(id)
    /\ Settle(removeRepeatableTaskInstance(inst, id), answersWithout(id))
    /\ UNCHANGED <<completed, phase, watching>>
    /\ SaveAppState

ToggleComplete(t) ==
    /\ phase = "form"
    /\ completed' = SymDiff(completed, {t})
    /\ UNCHANGED <<inst, answers, cache, phase, watching>>
    /\ SaveAppState

\* handleReset: the stored form goes, and the empty one is saved in its place.
Reset ==
    /\ phase = "form"
    /\ completed' = {}
    /\ Settle(createDefaultInstances, NoAnswers)
    /\ phase' = "upload"
    /\ UNCHANGED watching
    /\ SaveAppState

Leave ==
    /\ phase # "landing"
    /\ phase' = "landing"
    /\ cache' = NoAnswers
    /\ UNCHANGED <<inst, answers, completed, stored, watching>>

\* The tab is closed or reloaded, at any moment: only localStorage survives.
PageReload ==
    /\ inst' = NoInstances
    /\ answers' = NoAnswers
    /\ cache' = NoAnswers
    /\ completed' = {}
    /\ phase' = "landing"
    /\ watching' = FALSE
    /\ UNCHANGED stored

\* DEFAULT_TTL_MS after it was hidden, an answer is gone.
CacheExpires(id) ==
    /\ id \in DOMAIN cache
    /\ cache' = Restrict(cache, DOMAIN cache \ {id})
    /\ UNCHANGED <<inst, answers, completed, stored, phase, watching>>

Next ==
    \/ OpenForm
    \/ StartFresh
    \/ Start
    \/ \E file \in Files : Upload(file)
    \/ \E id \in DOMAIN inst : \E value \in Options[taskOf(id)] : Edit(id, value)
    \/ \E t \in Repeatable, parent \in DOMAIN inst : AddInstance(t, parent)
    \/ \E id \in DOMAIN inst : DeleteInstance(id)
    \/ \E t \in Completable : ToggleComplete(t)
    \/ Reset
    \/ Leave
    \/ PageReload
    \/ \E id \in DOMAIN cache : CacheExpires(id)

Spec == Init /\ [][Next]_vars

-------------------------------------------------------------------------------
\* Correctness

\* A repeated group in a repeated one; a rebuild leaves it to the group it is in.
nestedRepeatables == {t \in Repeatable : Parent[t] \in Repeatable}

\* In another place than the indices tell: a group that the user added to a
\* repeated one got the next free index, not that of the group it was added to.
displaced(id, parent) ==
    taskOf(id) \in nestedRepeatables /\ indexOf(id) # indexOf(parent)

\* The instances are a tree with links both ways: createTaskInstance, removal,
\* rebuild and sync keep the links that rendering and deletion walk, and what is
\* below a repeated instance has its index.  A displaced group may be taken over
\* by the group of its own index, when that is made; the link of the first stays.
InstancesAreATree ==
    \A id \in DOMAIN inst :
        /\ IF taskOf(id) \in rootTasks THEN inst[id].parent = NoId
           ELSE /\ inst[id].parent \in DOMAIN inst
                /\ taskOf(inst[id].parent) = Parent[taskOf(id)]
                /\ id \in inst[inst[id].parent].children
        /\ \A c \in inst[id].children :
              displaced(c, id) \/ (c \in DOMAIN inst /\ inst[c].parent = id)
        /\ \A t \in childrenIds[taskOf(id)] \ Repeatable :
              Cardinality({c \in inst[id].children : taskOf(c) = t}) = 1
        /\ indexOf(id) # NoIndex /\ taskOf(id) \notin Repeatable =>
              indexOf(inst[id].parent) = indexOf(id)

\* A field asks the condition of its own group: groups are told apart by a
\* groupId that no save keeps, made by the default instances, by the user, by a
\* rebuild or by a sync.  A repeated group asks the condition beside it or, once it
\* was added or rebuilt with a groupId of its own, none.
OwnCondition ==
    \A id \in DOMAIN inst :
        LET condition == Condition[taskOf(id)]
            asked == findRelatedInstances(inst, condition, id)
        IN  condition # NoTask =>
              IF taskOf(id) \in Repeatable THEN asked \subseteq {<<condition, indexOf(inst[id].parent)>>}
              ELSE asked = {<<condition, indexOf(id)>>}

\* The form's data stay well formed through every user action, rebuild and sync.
FormWellFormed == FormTypeOK /\ InstancesAreATree /\ OwnCondition

\* A mapped group never outlives its source, and every change of an answer
\* leaves one for every source: a group that was only added has to wait for
\* the next answer, because the sync watches the answers.
sourcesOf(t) == existingIndices(DOMAIN inst, MappedFrom[t])
targetsOf(t) == existingIndices(DOMAIN inst, t)
MappedFollowSource ==
    [][\A t \in Repeatable :
         MappedFrom[t] # NoTask =>
            /\ targetsOf(t)' \subseteq sourcesOf(t)'
            /\ answers' # answers /\ phase' # "landing" => sourcesOf(t)' \subseteq targetsOf(t)']_vars

\* What a reload brings back is what is on the screen, whatever happened before:
\* the same answers, and every group that is there or has an answer.  A single
\* group without answers may come back as the default one, and completion marks
\* come back only with an answer (elementIndices, loadAppState).  Of the groups in
\* a repeated group, one for each of those comes back, whichever there were.
ReloadGivesForm ==
    LET again == loadedForm(stored, NoAnswers)
    IN  phase = "form" =>
          /\ again.answers = answers
          /\ answers # NoAnswers => again.completed = completed
          /\ \A t \in nestedRepeatables :
                existingIndices(DOMAIN again.inst, t) = existingIndices(DOMAIN again.inst, Parent[t])
          /\ \A t \in {u \in Repeatable \ nestedRepeatables : MappedFrom[u] = NoTask} :
                LET shown == existingIndices(DOMAIN inst, t)
                    kept == {indexOf(id) : id \in answered(answers, t)}
                    shownAgain == existingIndices(DOMAIN again.inst, t)
                IN  IF Cardinality(shown) = 1 /\ kept = {}
                    THEN Cardinality(shownAgain) = 1
                    ELSE shownAgain = shown \cup kept

\* The reports and the JSON export hold every answer that is on the page, the
\* two reports agree, and what a report prints is in the JSON export.
shownAnswers == {id \in withValue(answers, DOMAIN answers) : rendered(id)}
ExportsAgree ==
    phase = "form" =>
        LET json == flattenGroupedAnswers(buildOutputData(inst, answers, completed).state)
            printed == pdfAnswers(inst, answers)
            listed == markdownAnswers(inst, answers)
        IN  /\ {id \in shownAnswers : \E s \in Sections : taskOf(id) \in subtreeOf(s)} \subseteq printed
            /\ listed = {id \in printed : \A s \in PdfSections : taskOf(id) \notin subtreeOf(s)}
            /\ printed \subseteq DOMAIN json
            /\ \A id \in DOMAIN json : json[id] = answers[id]

\* An export that is uploaded into a fresh form shows every answer again that is
\* on the page, and prints it.  (An answer of a mapped group whose source is
\* blank is not on the page and may stay behind; one in a displaced group comes
\* back without its group.)
keptAnswers ==
    LET nested == UNION {getInstancesForTask(inst, t) : t \in nestedRepeatables}
    IN  shownAnswers \ UNION {descendants(inst, i) : i \in {j \in nested : displaced(j, inst[j].parent)}}
ExportCanBeUploaded ==
    phase = "form" =>
        LET again == loadedForm(buildOutputData(inst, answers, completed), NoAnswers)
        IN  /\ keptAnswers \subseteq pdfAnswers(again.inst, again.answers)
            /\ \A id \in shownAnswers : again.answers[id] = answers[id]

\* While the form is filled in, an answer leaves the store only with its instance
\* (the sync may make another of that id) or for the hidden answer cache, and a step
\* changes at most one.
\* Deleting a group takes no answer off the page that the delete dialog did not
\* announce: what the dialog computes on the schema beforehand is what removal and
\* the sync after it do, with every answer that was on the page.  (A displaced group
\* may go unannounced: the sync gives it to a group that has no name yet, and it
\* goes with the group that it was added to.)
deletedGroups ==
    {id \in DOMAIN inst \ DOMAIN inst' : canUserCreateInstances(taskOf(id)) /\ inst[id].parent \in DOMAIN inst'}
AnswersStayOrMove ==
    [][phase = "form" /\ phase' = "form" =>
         /\ \A i \in DOMAIN answers \ DOMAIN answers' :
               \/ i \in DOMAIN inst /\ (i \in DOMAIN inst' => inst'[i] # inst[i])
               \/ i \in DOMAIN cache'
         /\ \A i, j \in DOMAIN answers \cap DOMAIN answers' :
               answers'[i] # answers[i] /\ answers'[j] # answers[j] =>
                   i = j \/ {i, j} \cap DOMAIN cache # {}
         /\ deletedGroups # {} => \E id \in deletedGroups :
               keptAnswers \ shownAnswers' \subseteq findImpactedByDelete(inst, answers, id)]_vars

=============================================================================
