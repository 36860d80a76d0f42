------------------------------ MODULE FormStores ------------------------------
(***************************************************************************)
(* The form stores of packages/assessment-core: the task instances         *)
(* (stores/tasks.ts), which of them are shown (utils/dependency.ts), the   *)
(* groups that follow another group (composables/useTaskDependencies.ts),  *)
(* the answers that a change hides (utils/impactedAnswers.ts and           *)
(* composables/useConditionalHideReconcile.ts) and how a saved state comes *)
(* back (utils/applyState.ts).                                             *)
(***************************************************************************)
EXTENDS GroupedAnswers, Sequences, SequencesExt

CONSTANTS
    TaskOrder,    \* the tasks in the order of the schema, parents first
    Condition,    \* the task whose answer Yes shows this task, or NoTask
    MappedFrom,   \* the source task of an instance_mapping, or NoTask
    Yes,          \* the answer that meets a condition
    Empty,        \* the answer '' of a cleared field
    NoValue       \* null

ASSUME TaskOrderAssumption ==
    /\ TaskOrder \in Seq(Tasks)
    /\ {TaskOrder[n] : n \in 1..Len(TaskOrder)} = Tasks
    /\ \A n \in 1..Len(TaskOrder) :
          Parent[TaskOrder[n]] = NoTask \/ \E m \in 1..n - 1 : TaskOrder[m] = Parent[TaskOrder[n]]
ASSUME DependencyAssumption ==
    /\ Condition \in [Tasks -> Tasks \cup {NoTask}]
    /\ MappedFrom \in [Tasks -> Tasks \cup {NoTask}]
ASSUME ValueAssumption == Yes \in Values /\ Empty \in Values /\ Yes # Empty /\ NoValue \notin Values

NoId == <<NoTask, NoIndex>>
rootTasks == {t \in Tasks : Parent[t] = NoTask}
childrenIds == [t \in Tasks |-> {c \in Tasks : Parent[c] = t}]
IdOrder == [n \in 1..(MaxIndex + 2) * Len(TaskOrder) |->
               <<TaskOrder[((n - 1) \div (MaxIndex + 2)) + 1], ((n - 1) % (MaxIndex + 2)) - 1>>]

inOrder(ids) == SelectSeq(IdOrder, LAMBDA id : id \in ids)

IndexOrder == [n \in 1..MaxIndex + 1 |-> n - 1]

\* TaskInstance; a groupId is named after the instance that opened the group.
Instance == [parent : Ids \cup {NoId}, children : SUBSET Ids, group : Ids, source : Ids \cup {NoId}]

\* --- stores/tasks.ts ---------------------------------------------------

Subtrees ==
    LET below[t \in Tasks] == {t} \cup UNION {below[c] : c \in childrenIds[t]}
    IN  [t \in Tasks |-> below[t]]
subtreeOf(t) == Subtrees[t]

getInstancesForTask(inst, t) == ({t} \X ({NoIndex} \cup Index)) \cap DOMAIN inst

nextAvailableIndex(inst, t) ==
    IF getInstancesForTask(inst, t) = {} THEN 0
    ELSE Max({indexOf(id) : id \in getInstancesForTask(inst, t)}) + 1

\* The ids of the instances that one createTaskInstance makes, one per task below t.
createdIds(inst, t, parent, specificIndex) ==
    LET created[u \in subtreeOf(t)] ==
            LET above == IF u = t THEN parent ELSE created[Parent[u]]
                given == IF u = t THEN specificIndex
                         ELSE IF Parent[u] \in Repeatable THEN indexOf(above) ELSE NoIndex
            IN  <<u, IF u \notin Repeatable /\ indexOf(above) = NoIndex THEN NoIndex
                     ELSE IF given # NoIndex THEN given ELSE nextAvailableIndex(inst, u)>>
    IN  created

groupFor(inst, parent, newGroup, id) ==
    IF newGroup \/ parent = NoId THEN id ELSE inst[parent].group

insertInstances(inst, t, parent, newGroup, ids) ==
    LET made == [id \in {ids[u] : u \in subtreeOf(t)} |->
                    [parent |-> IF id = ids[t] THEN parent ELSE ids[Parent[taskOf(id)]],
                     children |-> {ids[c] : c \in childrenIds[taskOf(id)]},
                     group |-> groupFor(inst, parent, newGroup, ids[t]),
                     source |-> NoId]]
        linked == [id \in DOMAIN inst |->
                      IF id = parent THEN [inst[id] EXCEPT !.children = @ \cup {ids[t]}] ELSE inst[id]]
    IN  made @@ linked

\* An instance of t and of every task below it; a repeated group opened by the
\* user, by a mapping or by a saved state is a group of its own.
createTaskInstance(inst, t, parent, newGroup, specificIndex) ==
    insertInstances(inst, t, parent, newGroup, createdIds(inst, t, parent, specificIndex))

NoInstances == [id \in {} |-> id]
createDefaultInstances ==
    FoldLeft(LAMBDA inst, t : IF t \in rootTasks
                              THEN createTaskInstance(inst, t, NoId, FALSE, NoIndex) ELSE inst,
             NoInstances, TaskOrder)

addRepeatableTaskInstance(inst, t, parent, specificIndex) ==
    IF t \notin Repeatable THEN inst
    ELSE createTaskInstance(inst, t, parent, TRUE, specificIndex)

\* collectInstanceIds, collectDescendantInstances: an instance and what is below it.
descendants(inst, id) ==
    LET below[i \in Ids] == IF i \notin DOMAIN inst THEN {i}
                            ELSE {i} \cup UNION {below[c] : c \in inst[i].children}
    IN  below[id]

\* Mutant of removeRepeatableTaskInstance: the parent keeps its link.
removeKeepingLink(inst, id) ==
    IF id \notin DOMAIN inst THEN inst ELSE Restrict(inst, DOMAIN inst \ descendants(inst, id))

removeRepeatableTaskInstance(inst, id) ==
    IF id \notin DOMAIN inst THEN inst
    ELSE LET gone == descendants(inst, id) \cap DOMAIN inst
         IN  [i \in DOMAIN inst \ gone |->
                 [inst[i] EXCEPT !.children = @ \ {c \in gone : inst[c].parent = i}]]

findRelatedInstances(inst, t, id) ==
    {i \in getInstancesForTask(inst, t) : inst[i].group = inst[id].group}

\* --- answers and visibility --------------------------------------------

getAnswer(answers, id) ==
    IF id \in DOMAIN answers /\ answers[id] # Empty THEN answers[id] ELSE NoValue

shouldShowTask(inst, answers, id) ==
    \/ Condition[taskOf(id)] = NoTask
    \/ id \notin DOMAIN inst
    \/ \A i \in findRelatedInstances(inst, Condition[taskOf(id)], id) : getAnswer(answers, i) = Yes

\* hasSourceTaskValues, for a mapped task.
hasSourceTaskValues(inst, answers, t) ==
    MappedFrom[t] = NoTask \/
    \E i \in getInstancesForTask(inst, MappedFrom[t]) : getAnswer(answers, i) # NoValue

\* --- groups that follow another group ----------------------------------

\* Mutant of targetsToRemove: a target whose source is gone stays.
targetsKept(sources, targets) == {}
targetsToRemove(sources, targets) == targets \ sources

syncTargets(inst, t, sources, targets) ==
    FoldLeft(LAMBDA i, k : IF k \in sources \ targets
                           THEN addRepeatableTaskInstance(i, t, <<Parent[t], NoIndex>>, k)
                           ELSE IF k \in targetsToRemove(sources, targets)
                           THEN removeRepeatableTaskInstance(i, <<t, k>>)
                           ELSE i,
             inst, IndexOrder)

\* registerMapping, for every source.
mapSources(inst, t, sources) ==
    [id \in ({t} \X sources) \cap DOMAIN inst |->
        [inst[id] EXCEPT !.source = <<MappedFrom[t], indexOf(id)>>]] @@ inst

\* One mapped task: every source index has a target, and every other target goes.
syncTask(inst, t) ==
    LET sources == existingIndices(DOMAIN inst, MappedFrom[t])
    IN  mapSources(syncTargets(inst, t, sources, existingIndices(DOMAIN inst, t)), t, sources)

mappedOrder == SelectSeq(TaskOrder, LAMBDA t : MappedFrom[t] # NoTask)
syncInstances(inst) == FoldLeft(syncTask, inst, mappedOrder)

\* --- answers hidden by a change ----------------------------------------

\* findImpactedByConditionalChange: nothing when the answer already has the value.
findImpactedByConditionalChange(inst, answers, id, value) ==
    IF getAnswer(answers, id) = value THEN {}
    ELSE {i \in DOMAIN inst \cap DOMAIN answers :
            /\ Condition[taskOf(i)] = taskOf(id)
            /\ indexOf(i) = indexOf(id) \/ indexOf(i) = NoIndex \/ indexOf(id) = NoIndex
            /\ answers[i] # Empty
            /\ \E r \in findRelatedInstances(inst, taskOf(id), i) :
                  (IF r = id THEN value ELSE getAnswer(answers, r)) # Yes}

\* The answers in the store, and those in the hidden answer cache.
hide(inst, form, id, value) ==
    LET impacted == findImpactedByConditionalChange(inst, form.answers, id, value)
    IN  [answers |-> Restrict(form.answers, DOMAIN form.answers \ impacted),
         cache |-> Restrict(form.answers, impacted) @@ form.cache]

restoreEntry(inst, form, id) ==
    IF id \notin DOMAIN form.cache \/ ~shouldShowTask(inst, form.answers, id) THEN form
    ELSE [answers |-> (id :> form.cache[id]) @@ form.answers,
          cache |-> Restrict(form.cache, DOMAIN form.cache \ {id})]

restoreNowVisible(inst, form) ==
    FoldLeft(LAMBDA f, id : restoreEntry(inst, f, id), form, inOrder(DOMAIN form.cache))

touchedBy(before, after) ==
    {id \in DOMAIN after : id \notin DOMAIN before \/ before[id] # after[id]}

\* The groups that a deletion takes along, mapped from a task below a deleted one.
mappedFrom(inst, id) ==
    {i \in DOMAIN inst : /\ indexOf(i) = indexOf(id)
                         /\ indexOf(i) # NoIndex
                         /\ MappedFrom[taskOf(i)] \in subtreeOf(taskOf(id))}

deletedWith(inst, id) ==
    FoldLeft(LAMBDA ids, t : ids \cup UNION {mappedFrom(inst, i) : i \in ids}, {id}, TaskOrder)

\* The answers that the delete dialog announces as lost.
\* Mutant of findImpactedByDelete: the groups mapped from the deleted one are missed.
impactedItself(inst, answers, id) ==
    {i \in descendants(inst, id) \cap DOMAIN answers : answers[i] # Empty}
findImpactedByDelete(inst, answers, id) ==
    {i \in UNION {descendants(inst, j) : j \in deletedWith(inst, id)} \cap DOMAIN answers :
        answers[i] # Empty}

\* The watcher of useConditionalHideReconcile, run after the answers changed.
reconcile(inst, before, after, cache) ==
    LET touched == touchedBy(before, after)
        hidden == FoldLeft(LAMBDA f, id : hide(inst, f, id, after[id]),
                           [answers |-> after, cache |-> cache], inOrder(touched))
    IN  IF touched = {} THEN hidden ELSE restoreNowVisible(inst, hidden)

\* --- a saved state comes back ------------------------------------------

\* The grouped answers of a saved state have no key at all.
isEmptyState(state) == DOMAIN state.flat = {} /\ DOMAIN state.arrays = {}

\* Mutant of savedIndices: only the answers tell which groups there were.
answeredIndices(answers, state, t) ==
    {indexOf(id) : id \in {i \in DOMAIN answers : Parent[taskOf(i)] = t /\ indexOf(i) # NoIndex}}

\* Indices of a group in the applied answers and in the saved arrays.
savedIndices(answers, state, t) ==
    {indexOf(id) : id \in {i \in DOMAIN answers : Parent[taskOf(i)] = t /\ indexOf(i) # NoIndex}}
    \cup (IF t \in DOMAIN state.arrays THEN DOMAIN state.arrays[t] ELSE {})

addSaved(inst, t, indices) ==
    FoldLeft(LAMBDA i, k : IF k \in indices \ {0}
                           THEN addRepeatableTaskInstance(i, t, <<Parent[t], NoIndex>>, k) ELSE i,
             inst, IndexOrder)

\* The default instance goes when only others were saved.
withoutDefault(inst, t, indices) ==
    IF indices # {} /\ 0 \notin indices THEN removeRepeatableTaskInstance(inst, <<t, 0>>) ELSE inst

rebuildTask(inst, answers, state, t) ==
    LET indices == savedIndices(answers, state, t)
    IN  withoutDefault(addSaved(inst, t, indices), t, indices)

\* A repeatable below a repeatable is left to createTaskInstance.
rebuiltOrder == SelectSeq(TaskOrder, LAMBDA t : t \in Repeatable /\ Parent[t] \notin Repeatable)
rebuildRepeatableInstances(inst, answers, state) ==
    FoldLeft(LAMBDA i, t : rebuildTask(i, answers, state, t), inst, rebuiltOrder)

\* applyStateToStores: a state without answers leaves those in the store.
appliedAnswers(state, answers) ==
    IF isEmptyState(state) THEN answers ELSE flattenGroupedAnswers(state) @@ [id \in {} |-> Empty]

=============================================================================
