-------------------------------- MODULE EditLog --------------------------------
(***************************************************************************)
(* The edits of an assessment in detail (apps/boekhouding-backend/src/     *)
(* utils): diffStates turns the difference between the stored state and a  *)
(* saved one into edit rows, rebuildState replays the rows.  In            *)
(* AssessmentStore an edit is one value of one field; here a state is what *)
(* the form saves, with arrays for the repeated groups, and an edit names  *)
(* a field or a whole instance.                                            *)
(*                                                                         *)
(* All rows of a save carry the time of its transaction, and replay sorts  *)
(* by version and time: the rows of one save come in any order.            *)
(***************************************************************************)
EXTENDS GroupedAnswers, SequencesExt

CONSTANTS
    Above,        \* the tasks whose dotted id is a prefix of a task's id, the longest first
    Sections,     \* the root tasks that can be marked complete
    Gone,         \* null: an answer_change that removes the answer
    Saves         \* the grouped states that clients save

ASSUME GoneAssumption == Gone \notin Values
ASSUME SectionsAssumption == Sections \subseteq Tasks
ASSUME FiniteAssumption == IsFiniteSet(Tasks)

\* The prefixes of a prefix are the shorter ones.  A child of a repeated group has
\* the id of the group for its longest prefix, and no other task has the id of a
\* repeated group for a prefix; so it is in every form.
ASSUME AboveAssumption ==
    /\ Above \in [Tasks -> Seq(Tasks)]
    /\ \A t \in Tasks : \A i \in DOMAIN Above[t] :
          Above[Above[t][i]] = SubSeq(Above[t], i + 1, Len(Above[t]))
ASSUME NestingAssumption ==
    \A t \in Tasks :
       IF Parent[t] \in Repeatable
       THEN Above[t] # <<>> /\ Head(Above[t]) = Parent[t]
       ELSE ToSet(Above[t]) \cap Repeatable = {}

VARIABLES
    cached,       \* assessment_instances.cached_state: answers and completed tasks
    replayed,     \* what rebuildState makes of the edits written so far
    implicit      \* history: the groups that got their first instance unrecorded
vars == <<cached, replayed, implicit>>

IsElement(e) == DOMAIN e \subseteq Tasks /\ \A c \in DOMAIN e : e[c] \in Values
IsState(state) ==
    /\ IsAnswers(state.flat)
    /\ DOMAIN state.arrays \subseteq Repeatable
    /\ \A t \in DOMAIN state.arrays :
          /\ DOMAIN state.arrays[t] # {}
          /\ DOMAIN state.arrays[t] \subseteq Index
          /\ \A k \in DOMAIN state.arrays[t] : IsElement(state.arrays[t][k])

EditTypeOK ==
    /\ IsState(cached.state)
    /\ IsState(replayed.state)
    /\ cached.completed \subseteq Sections
    /\ replayed.completed \subseteq Sections
    /\ implicit \subseteq Repeatable

\* What the form saves: every answer in the place that groupAnswers gives it.
isSaved(doc) ==
    /\ doc = [state |-> [flat |-> doc.state.flat, arrays |-> doc.state.arrays],
              completed |-> doc.completed]
    /\ IsState(doc.state)
    /\ \A id \in DOMAIN doc.state.flat : ~isGrouped(id)
    /\ \A t \in DOMAIN doc.state.arrays : \A k \in DOMAIN doc.state.arrays[t] :
          \A c \in DOMAIN doc.state.arrays[t][k] : Parent[c] = t
    /\ doc.completed \subseteq Sections
ASSUME SavesAssumption == \A doc \in Saves : isSaved(doc)

-------------------------------------------------------------------------------
\* diffStates

AnswerChange(id, value) == [type |-> "answer_change", id |-> id, value |-> value]
InstanceAdded(t, k, e) == [type |-> "instance_added", id |-> <<t, k>>, element |-> e]
InstanceRemoved(t, k) == [type |-> "instance_removed", id |-> <<t, k>>]
SectionComplete(t, value) == [type |-> "section_complete", id |-> <<t, NoIndex>>, done |-> value]

valueIn(f, x) == IF x \in DOMAIN f THEN f[x] ELSE Gone
arrayIn(state, t) == IF t \in DOMAIN state.arrays THEN state.arrays[t] ELSE [k \in {} |-> EmptyState]

\* Mutant of skipDefault: the first instance of a group is taken for the default.
skipFirst(old, k) == DOMAIN old = {}
\* The default instance of a group that was not saved before is no user action.
skipDefault(old, k) == k = 0 /\ DOMAIN old = {}

diffGroupedArrays(old, new, t) ==
    {InstanceAdded(t, k, new[k]) :
        k \in {j \in DOMAIN new \ DOMAIN old : ~skipDefault(old, j)}}
    \cup {InstanceRemoved(t, k) : k \in DOMAIN old \ DOMAIN new}
    \cup UNION {{AnswerChange(<<c, k>>, valueIn(new[k], c)) :
                   c \in {d \in DOMAIN old[k] \cup DOMAIN new[k] : valueIn(old[k], d) # valueIn(new[k], d)}} :
                k \in DOMAIN old \cap DOMAIN new}

diffStates(old, new) ==
    {AnswerChange(id, valueIn(new.state.flat, id)) :
        id \in {i \in DOMAIN old.state.flat \cup DOMAIN new.state.flat :
                    valueIn(old.state.flat, i) # valueIn(new.state.flat, i)}}
    \cup (UNION {diffGroupedArrays(arrayIn(old.state, t), arrayIn(new.state, t), t) :
                 t \in DOMAIN old.state.arrays \cup DOMAIN new.state.arrays})
    \cup {SectionComplete(t, TRUE) : t \in new.completed \ old.completed}
    \cup {SectionComplete(t, FALSE) : t \in old.completed \ new.completed}

-------------------------------------------------------------------------------
\* rebuildState

groupedPrefixes(state, t) == {i \in DOMAIN Above[t] : Above[t][i] \in DOMAIN state.arrays}
\* Mutant of findGroupedParent: the outermost prefix that is an array.
findOutermostParent(state, t) ==
    LET grouped == groupedPrefixes(state, t)
    IN  IF grouped = {} THEN NoTask ELSE Above[t][Max(grouped)]
\* The longest prefix that is an array in the state.
findGroupedParent(state, t) ==
    LET grouped == groupedPrefixes(state, t)
    IN  IF grouped = {} THEN NoTask ELSE Above[t][Min(grouped)]

put(f, x, value) == [y \in DOMAIN f \cup {x} |-> IF y = x THEN value ELSE f[y]]
stored(f, x, value) ==
    IF value = Gone THEN Restrict(f, DOMAIN f \ {x}) ELSE put(f, x, value)
withArray(state, t, array) == [state EXCEPT !.arrays = put(@, t, array)]
NewElement == [c \in {} |-> Gone]
elementAt(array, k) == IF k \in DOMAIN array THEN array[k] ELSE NewElement

answerChanged(state, id, value) ==
    LET t == findGroupedParent(state, taskOf(id))
        array == state.arrays[t]
        changed == stored(elementAt(array, indexOf(id)), taskOf(id), value)
    IN  IF indexOf(id) = NoIndex \/ t = NoTask
        THEN [state EXCEPT !.flat = stored(@, id, value)]
        ELSE withArray(state, t, put(array, indexOf(id), changed))

instanceAdded(state, t, k, e) ==
    IF k \in DOMAIN arrayIn(state, t) THEN state
    ELSE withArray(state, t, put(arrayIn(state, t), k, e))

instanceRemoved(state, t, k) ==
    LET rest == Restrict(arrayIn(state, t), DOMAIN arrayIn(state, t) \ {k})
    IN  IF t \notin DOMAIN state.arrays THEN state
        ELSE IF DOMAIN rest = {}
        THEN [state EXCEPT !.arrays = Restrict(@, DOMAIN @ \ {t})]
        ELSE withArray(state, t, rest)

applied(doc, edit) ==
    CASE edit.type = "answer_change" ->
            [doc EXCEPT !.state = answerChanged(@, edit.id, edit.value)]
      [] edit.type = "instance_added" ->
            [doc EXCEPT !.state = instanceAdded(@, edit.id[1], edit.id[2], edit.element)]
      [] edit.type = "instance_removed" ->
            [doc EXCEPT !.state = instanceRemoved(@, edit.id[1], edit.id[2])]
      [] edit.type = "section_complete" ->
            [doc EXCEPT !.completed = IF edit.done THEN @ \cup {edit.id[1]} ELSE @ \ {edit.id[1]}]

-------------------------------------------------------------------------------
\* The initial state is kept as one edit; a body without a state is an empty one.
Init ==
    /\ cached \in {[state |-> EmptyState, completed |-> {}]} \cup Saves
    /\ replayed = cached
    /\ implicit = {}

\* The states that the rows of one save rebuild, in whatever order they are applied.
replays(doc, edits) ==
    LET after[n \in 0..Cardinality(edits)] ==
            IF n = 0 THEN {<<doc, edits>>}
            ELSE UNION {{<<applied(p[1], e), p[2] \ {e}>> : e \in p[2]} : p \in after[n - 1]}
    IN  {p[1] : p \in after[Cardinality(edits)]}

Save(new) ==
    /\ replayed' \in replays(replayed, diffStates(cached, new))
    /\ cached' = new
    /\ implicit' = implicit \cup
          {t \in DOMAIN new.state.arrays :
              0 \in DOMAIN new.state.arrays[t] /\ skipDefault(arrayIn(cached.state, t), 0)}

Next == \E new \in Saves : Save(new)

Spec == Init /\ [][Next]_vars

-------------------------------------------------------------------------------
\* Correctness

\* Apart from index 0 of the groups with a first instance, of their own or inside
\* them, that was never recorded, what any order of the edits of a save rebuilds is
\* what was saved: the same answers and completion marks, and the same instances of
\* every group.
groupsBelow(t) == {g \in Repeatable : g = t \/ t \in ToSet(Above[g])}
recorded(t, k) == k # 0 \/ groupsBelow(t) \cap implicit = {}
HistoryHoldsTheRest ==
    LET now == flattenGroupedAnswers(cached.state)
        rebuilt == flattenGroupedAnswers(replayed.state)
        kept(answers) == {id \in DOMAIN answers : isGrouped(id) => recorded(Parent[taskOf(id)], indexOf(id))}
    IN  /\ replayed.completed = cached.completed
        /\ Restrict(rebuilt, kept(rebuilt)) = Restrict(now, kept(now))
        /\ \A t \in Repeatable, k \in Index :
              recorded(t, k) =>
                  (k \in DOMAIN arrayIn(replayed.state, t) <=> k \in DOMAIN arrayIn(cached.state, t))

\* The rebuilt state is a state the form could have saved.  A change is put into
\* the nearest group that has an array at that point of the replay; above index 0
\* that is always the group the answer belongs to.
ElementsHoldTheirOwn ==
    /\ EditTypeOK
    /\ \A t \in DOMAIN replayed.state.arrays, k \in Index \ {0} :
          \A c \in DOMAIN elementAt(arrayIn(replayed.state, t), k) : Parent[c] = t

===============================================================================
