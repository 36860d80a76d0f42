---------------------------- MODULE GroupedAnswers ----------------------------
(***************************************************************************)
(* The two shapes of the answers of a form (packages/assessment-core).     *)
(* In memory an answer belongs to an instance: a task, and an index when   *)
(* the task is repeated.  What is saved, exported and compared groups the  *)
(* answers below a repeatable task into an array with one element per      *)
(* index (utils/groupedAnswers.ts).  The schema of the form is a constant. *)
(***************************************************************************)
EXTENDS Integers, FiniteSets

CONSTANTS
    Tasks,        \* the task ids of the schema
    NoTask,       \* the parent of a root task, and "no such dependency"
    Parent,       \* FlatTask.parentId
    Repeatable,   \* the tasks with FlatTask.repeatable
    MaxIndex,     \* bound on the index of an instance
    Values        \* the values of an answer

ASSUME NoTaskAssumption == NoTask \notin Tasks
ASSUME ParentAssumption == Parent \in [Tasks -> Tasks \cup {NoTask}]
ASSUME RepeatableAssumption == Repeatable \subseteq Tasks
ASSUME MaxIndexAssumption == MaxIndex \in Nat

\* parseInstanceId: a task id and an index, or none; buildInstanceId pairs them.
NoIndex == -1
Index == 0..MaxIndex
Ids == Tasks \X ({NoIndex} \cup Index)
taskOf(id) == id[1]
indexOf(id) == id[2]

\* The answers of some instances, Record<string, Answer>.
IsAnswers(answers) ==
    /\ DOMAIN answers \subseteq Ids
    /\ answers \in [DOMAIN answers -> Values]

\* childToRepeatableParent: the answers that go into an array.
isGrouped(id) == indexOf(id) # NoIndex /\ Parent[taskOf(id)] \in Repeatable
answered(answers, t) == {id \in DOMAIN answers : isGrouped(id) /\ Parent[taskOf(id)] = t}

existingIndices(instances, t) == {k \in Index : <<t, k>> \in instances}

\* An instance without answers is kept only beside another one, or an answer.
elementIndices(answers, instances, t) ==
    LET withAnswers == {indexOf(id) : id \in answered(answers, t)}
        existing == existingIndices(instances, t)
    IN  IF Cardinality(existing) <= 1 /\ withAnswers = {} THEN {} ELSE withAnswers \cup existing

groupedTasks(answers, instances) == {t \in Repeatable : elementIndices(answers, instances, t) # {}}
element(answers, t, k) ==
    [c \in {taskOf(id) : id \in {i \in answered(answers, t) : indexOf(i) = k}} |-> answers[<<c, k>>]]

groupAnswers(answers, instances) ==
    [flat |-> [id \in {i \in DOMAIN answers : ~isGrouped(i)} |-> answers[id]],
     arrays |-> [t \in groupedTasks(answers, instances) |->
                    [k \in elementIndices(answers, instances, t) |-> element(answers, t, k)]]]

\* The answers that the elements of an array stand for: buildInstanceId(child, _index).
elementIds(array) == UNION {{<<c, k>> : c \in DOMAIN array[k]} : k \in DOMAIN array}
arrayIds(arrays) == UNION {elementIds(arrays[t]) : t \in DOMAIN arrays}

\* An answer is normally in the array of its own group.
arrayWith(arrays, id) ==
    LET holders == {t \in DOMAIN arrays : id \in elementIds(arrays[t])}
    IN  IF Parent[taskOf(id)] \in holders THEN Parent[taskOf(id)] ELSE CHOOSE t \in holders : TRUE

flattenGroupedAnswers(state) ==
    LET grouped == arrayIds(state.arrays)
    IN  [id \in DOMAIN state.flat \cup grouped |->
            IF id \in grouped
            THEN state.arrays[arrayWith(state.arrays, id)][indexOf(id)][taskOf(id)]
            ELSE state.flat[id]]

EmptyState == [flat |-> [id \in {} |-> id], arrays |-> [t \in {} |-> t]]

=============================================================================
