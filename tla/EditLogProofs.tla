----------------------------- MODULE EditLogProofs -----------------------------
(***************************************************************************)
(* Proofs about EditLog for any form, however deep its groups are nested,  *)
(* any answers, instances and completion marks, and any number of saves:   *)
(* whatever the order in which the edits of a save are replayed, what they *)
(* rebuild is what was saved, wherever the history has recorded it.        *)
(***************************************************************************)
EXTENDS EditLog, FiniteSetTheorems, WellFoundedInduction, TLAPS

-------------------------------------------------------------------------------
\* Induction: sets of numbers have a least element.

LEMMA Least ==
    ASSUME NEW T, T \subseteq Nat, T # {}
    PROVE  \E x \in T : \A y \in T : x <= y
<1> DEFINE R == OpToRel(<, Nat)
<1>1. IsWellFoundedOn(R, Nat)
  BY NatLessThanWellFounded
<1>2. \A x, y \in Nat : <<y, x>> \in R <=> y < x
  BY DEF OpToRel
<1> HIDE DEF R
<1>3. PICK x \in T : \A y \in T : ~ (<<y, x>> \in R)
  BY <1>1, WFMin
<1>4. ASSUME NEW y \in T PROVE x <= y
  <2>1. x \in Nat /\ y \in Nat
    OBVIOUS
  <2>2. ~ (y < x)
    BY <2>1, <1>2, <1>3
  <2> QED
    BY <2>1, <2>2
<1> QED
  BY <1>4

LEMMA NatSetInduction ==
    ASSUME NEW S, 0 \in S, \A n \in Nat : n \in S => n + 1 \in S
    PROVE  Nat \subseteq S
<1> SUFFICES ASSUME Nat \ S # {} PROVE FALSE
  OBVIOUS
<1>1. PICK x \in Nat \ S : \A y \in Nat \ S : x <= y
  BY Least
<1>2. x # 0
  BY <1>1
<1>3. x - 1 \in Nat /\ x - 1 \in S
  BY <1>1, <1>2
<1> QED
  BY <1>1, <1>3


-------------------------------------------------------------------------------
\* What a reader finds in a state: an answer outside the groups, whether an
\* instance is there, and an answer in it.
flatAt(state, id) == valueIn(state.flat, id)
has(state, t, k) == k \in DOMAIN arrayIn(state, t)
at(state, t, k, c) == valueIn(elementAt(arrayIn(state, t), k), c)

Fine(state) ==
    /\ state = [flat |-> state.flat, arrays |-> state.arrays]
    /\ IsState(state)

AnswerOrNone == Values \cup {Gone}

SameFlat(old, new) == \A id \in Ids : flatAt(new, id) = flatAt(old, id)
FlatBecomes(old, new, id, value) ==
    \A i \in Ids : flatAt(new, i) = IF i = id THEN value ELSE flatAt(old, i)
SameInstance(old, new, t, k) ==
    /\ has(new, t, k) <=> has(old, t, k)
    /\ \A c \in Tasks : at(new, t, k, c) = at(old, t, k, c)
SameArrays(old, new) == \A t \in Repeatable, k \in Index : SameInstance(old, new, t, k)
OnlyInstance(old, new, t, k) ==
    \A u \in Repeatable, j \in Index : u # t \/ j # k => SameInstance(old, new, u, j)

LEMMA StoredReads ==
    ASSUME NEW f, NEW x, NEW value
    PROVE  /\ \A y : valueIn(stored(f, x, value), y) = IF y = x THEN value ELSE valueIn(f, y)
           /\ DOMAIN stored(f, x, value) \subseteq DOMAIN f \cup {x}
           /\ \A y \in DOMAIN stored(f, x, value) :
                 \/ y = x /\ value # Gone /\ stored(f, x, value)[y] = value
                 \/ y \in DOMAIN f /\ stored(f, x, value)[y] = f[y]
<1>1. CASE value = Gone
  <2>1. stored(f, x, value) = [y \in DOMAIN f \ {x} |-> f[y]]
    BY <1>1 DEF stored, Restrict
  <2> QED
    BY <2>1, <1>1 DEF valueIn
<1>2. CASE value # Gone
  <2>1. stored(f, x, value) = [y \in DOMAIN f \cup {x} |-> IF y = x THEN value ELSE f[y]]
    BY <1>2 DEF stored, put
  <2> QED
    BY <2>1, <1>2 DEF valueIn
<1> QED
  BY <1>1, <1>2

LEMMA WithArrayReads ==
    ASSUME NEW state, state = [flat |-> state.flat, arrays |-> state.arrays], NEW t, NEW array
    PROVE  LET new == withArray(state, t, array)
           IN  /\ new = [flat |-> state.flat, arrays |-> new.arrays]
               /\ new.flat = state.flat
               /\ DOMAIN new.arrays = DOMAIN state.arrays \cup {t}
               /\ new.arrays[t] = array
               /\ \A u \in DOMAIN state.arrays \ {t} : new.arrays[u] = state.arrays[u]
               /\ \A u : arrayIn(new, u) = IF u = t THEN array ELSE arrayIn(state, u)
<1> DEFINE arrays == put(state.arrays, t, array)
           new == withArray(state, t, array)
<1>1. arrays = [u \in DOMAIN state.arrays \cup {t} |-> IF u = t THEN array ELSE state.arrays[u]]
  BY DEF put
<1>2. new = [flat |-> state.flat, arrays |-> arrays]
  BY DEF withArray
<1>3. new.flat = state.flat /\ new.arrays = arrays
  BY <1>2
<1> HIDE DEF arrays, new
<1>4. DOMAIN new.arrays = DOMAIN state.arrays \cup {t}
  BY <1>1, <1>3
<1>5. new.arrays[t] = array /\ \A u \in DOMAIN state.arrays \ {t} : new.arrays[u] = state.arrays[u]
  BY <1>1, <1>3
<1>6. \A u : arrayIn(new, u) = IF u = t THEN array ELSE arrayIn(state, u)
  BY <1>4, <1>5 DEF arrayIn
<1>7. new = [flat |-> state.flat, arrays |-> new.arrays]
  BY <1>2, <1>3
<1> QED
  BY <1>3, <1>4, <1>5, <1>6, <1>7 DEF new

\* An instance is put into its array: the rest of the state reads as before.
LEMMA InstancePut ==
    ASSUME NEW state, Fine(state), NEW t \in Repeatable, NEW k \in Index, NEW e, IsElement(e)
    PROVE  LET new == withArray(state, t, put(arrayIn(state, t), k, e))
           IN  /\ Fine(new)
               /\ SameFlat(state, new)
               /\ OnlyInstance(state, new, t, k)
               /\ has(new, t, k)
               /\ \A c : at(new, t, k, c) = valueIn(e, c)
<1> DEFINE array == arrayIn(state, t)
           after == put(array, k, e)
           new == withArray(state, t, after)
<1>1. /\ new = [flat |-> state.flat, arrays |-> new.arrays]
      /\ new.flat = state.flat
      /\ DOMAIN new.arrays = DOMAIN state.arrays \cup {t}
      /\ new.arrays[t] = after
      /\ \A u \in DOMAIN state.arrays \ {t} : new.arrays[u] = state.arrays[u]
      /\ \A u : arrayIn(new, u) = IF u = t THEN after ELSE arrayIn(state, u)
  BY WithArrayReads DEF Fine
<1>2. /\ DOMAIN after = DOMAIN array \cup {k}
      /\ \A j \in DOMAIN after : after[j] = IF j = k THEN e ELSE array[j]
  BY DEF put
<1>3. DOMAIN array \subseteq Index /\ \A j \in DOMAIN array : IsElement(array[j])
  BY DEF arrayIn, Fine, IsState
<1> HIDE DEF array, after, new
<1>4. \A j \in DOMAIN after : IsElement(after[j])
  BY <1>2, <1>3
<1>5. Fine(new)
  <2>1. IsAnswers(state.flat) /\ DOMAIN state.arrays \subseteq Repeatable
    BY DEF Fine, IsState
  <2>2. ASSUME NEW u \in DOMAIN new.arrays
        PROVE  /\ DOMAIN new.arrays[u] # {}
               /\ DOMAIN new.arrays[u] \subseteq Index
               /\ \A j \in DOMAIN new.arrays[u] : IsElement(new.arrays[u][j])
    <3>1. CASE u = t
      BY <3>1, <1>1, <1>2, <1>3, <1>4
    <3>2. CASE u # t
      BY <3>2, <1>1 DEF Fine, IsState
    <3> QED
      BY <3>1, <3>2
  <2>3. new = [flat |-> new.flat, arrays |-> new.arrays]
    BY <1>1
  <2> QED
    BY <2>1, <2>2, <2>3, <1>1 DEF Fine, IsState
<1>6. SameFlat(state, new)
  BY <1>1 DEF SameFlat, flatAt
<1>7. \A j : j # k => (j \in DOMAIN after <=> j \in DOMAIN array) /\ elementAt(after, j) = elementAt(array, j)
  BY <1>2 DEF elementAt
<1>8. OnlyInstance(state, new, t, k)
  <2> SUFFICES ASSUME NEW u \in Repeatable, NEW j \in Index, u # t \/ j # k
               PROVE  SameInstance(state, new, u, j)
    BY DEF OnlyInstance
  <2>1. CASE u # t
    BY <2>1, <1>1 DEF SameInstance, has, at
  <2>2. CASE u = t /\ j # k
    BY <2>2, <1>1, <1>7 DEF SameInstance, has, at, array
  <2> QED
    BY <2>1, <2>2
<1>9. has(new, t, k) /\ elementAt(arrayIn(new, t), k) = e
  BY <1>1, <1>2 DEF has, elementAt
<1> QED
  BY <1>5, <1>6, <1>8, <1>9 DEF at, new, after, array

LEMMA ElementIsElement ==
    ASSUME NEW state, Fine(state), NEW t \in Repeatable, NEW k
    PROVE  IsElement(elementAt(arrayIn(state, t), k))
<1>1. DOMAIN NewElement = {}
  BY DEF NewElement
<1> QED
  BY <1>1 DEF elementAt, arrayIn, Fine, IsState, IsElement

LEMMA StoredElement ==
    ASSUME NEW e, IsElement(e), NEW c \in Tasks, NEW value \in AnswerOrNone
    PROVE  IsElement(stored(e, c, value))
BY StoredReads DEF IsElement, AnswerOrNone

\* An instance is removed, and its array with the last one.
LEMMA InstanceGone ==
    ASSUME NEW state, Fine(state), NEW t \in Repeatable, NEW k \in Index
    PROVE  LET new == instanceRemoved(state, t, k)
           IN  /\ Fine(new)
               /\ SameFlat(state, new)
               /\ OnlyInstance(state, new, t, k)
               /\ ~has(new, t, k)
               /\ \A c : at(new, t, k, c) = Gone
<1> DEFINE array == arrayIn(state, t)
           rest == Restrict(array, DOMAIN array \ {k})
           new == instanceRemoved(state, t, k)
<1>1. DOMAIN rest = DOMAIN array \ {k} /\ \A j \in DOMAIN rest : rest[j] = array[j]
  BY DEF Restrict
<1>2. DOMAIN array \subseteq Index /\ \A j \in DOMAIN array : IsElement(array[j])
  BY DEF arrayIn, Fine, IsState
<1>3. DOMAIN NewElement = {}
  BY DEF NewElement
<1> HIDE DEF array, rest
<1>4. \A j : j # k => (j \in DOMAIN rest <=> j \in DOMAIN array) /\ elementAt(rest, j) = elementAt(array, j)
  BY <1>1 DEF elementAt
<1>5. \A c : valueIn(elementAt(rest, k), c) = Gone
  BY <1>1, <1>3 DEF elementAt, valueIn
<1>6. /\ new = [flat |-> state.flat, arrays |-> new.arrays]
      /\ DOMAIN new.arrays \subseteq DOMAIN state.arrays
      /\ \A u \in DOMAIN new.arrays \ {t} : new.arrays[u] = state.arrays[u]
      /\ t \in DOMAIN new.arrays => new.arrays[t] = rest /\ DOMAIN rest # {}
      /\ \A u : u # t => arrayIn(new, u) = arrayIn(state, u)
      /\ DOMAIN arrayIn(new, t) = DOMAIN rest
      /\ \A j : elementAt(arrayIn(new, t), j) = elementAt(rest, j)
  <2>1. CASE t \notin DOMAIN state.arrays
    <3>1. new = state
      BY <2>1 DEF instanceRemoved
    <3>2. arrayIn(state, t) = [j \in {} |-> EmptyState] /\ DOMAIN array = {} /\ DOMAIN rest = {}
      BY <2>1, <1>1 DEF arrayIn, array
    <3>3. DOMAIN arrayIn(new, t) = {}
      BY <3>1, <3>2
    <3>4. \A j : elementAt(arrayIn(new, t), j) = NewElement /\ elementAt(rest, j) = NewElement
      BY <3>2, <3>3 DEF elementAt
    <3> HIDE DEF new
    <3> QED
      BY <3>1, <3>2, <3>3, <3>4, <2>1 DEF Fine
  <2>2. CASE t \in DOMAIN state.arrays /\ DOMAIN rest = {}
    <3> DEFINE arrays == Restrict(state.arrays, DOMAIN state.arrays \ {t})
    <3>1. new = [flat |-> state.flat, arrays |-> arrays]
      <4>1. new = [state EXCEPT !.arrays = arrays]
        BY <2>2 DEF instanceRemoved, rest, array
      <4> HIDE DEF new, arrays
      <4> QED
        BY <4>1 DEF Fine
    <3>2. DOMAIN arrays = DOMAIN state.arrays \ {t} /\ \A u \in DOMAIN arrays : arrays[u] = state.arrays[u]
      BY DEF Restrict
    <3> HIDE DEF new, arrays
    <3>3. new.flat = state.flat /\ new.arrays = arrays
      BY <3>1
    <3>4. \A u : u # t => arrayIn(new, u) = arrayIn(state, u)
      BY <3>2, <3>3 DEF arrayIn
    <3>5. DOMAIN arrayIn(new, t) = {}
      BY <3>2, <3>3 DEF arrayIn
    <3>6. \A j : elementAt(arrayIn(new, t), j) = NewElement /\ elementAt(rest, j) = NewElement
      BY <3>5, <2>2 DEF elementAt
    <3> QED
      BY <3>1, <3>2, <3>3, <3>4, <3>5, <3>6, <2>2
  <2>3. CASE t \in DOMAIN state.arrays /\ DOMAIN rest # {}
    <3>1. new = withArray(state, t, rest)
      BY <2>3 DEF instanceRemoved, rest, array
    <3> HIDE DEF new
    <3> QED
      BY <3>1, <2>3, WithArrayReads DEF Fine
  <2> QED
    BY <2>1, <2>2, <2>3
<1> HIDE DEF new
<1>7. Fine(new)
  <2>1. IsAnswers(state.flat) /\ DOMAIN state.arrays \subseteq Repeatable
    BY DEF Fine, IsState
  <2>2. ASSUME NEW u \in DOMAIN new.arrays
        PROVE  /\ DOMAIN new.arrays[u] # {}
               /\ DOMAIN new.arrays[u] \subseteq Index
               /\ \A j \in DOMAIN new.arrays[u] : IsElement(new.arrays[u][j])
    <3>1. CASE u = t
      BY <3>1, <1>1, <1>2, <1>6
    <3>2. CASE u # t
      BY <3>2, <1>6 DEF Fine, IsState
    <3> QED
      BY <3>1, <3>2
  <2>3. new.flat = state.flat /\ new = [flat |-> new.flat, arrays |-> new.arrays]
    BY <1>6
  <2> QED
    BY <2>1, <2>2, <2>3, <1>6 DEF Fine, IsState
<1>8. SameFlat(state, new)
  BY <1>6 DEF SameFlat, flatAt
<1>9. OnlyInstance(state, new, t, k)
  <2> SUFFICES ASSUME NEW u \in Repeatable, NEW j \in Index, u # t \/ j # k
               PROVE  SameInstance(state, new, u, j)
    BY DEF OnlyInstance
  <2>1. CASE u # t
    BY <2>1, <1>6 DEF SameInstance, has, at
  <2>2. CASE u = t /\ j # k
    BY <2>2, <1>6, <1>4 DEF SameInstance, has, at, array
  <2> QED
    BY <2>1, <2>2
<1>10. ~has(new, t, k) /\ \A c : at(new, t, k, c) = Gone
  BY <1>1, <1>5, <1>6 DEF has, at
<1> QED
  BY <1>7, <1>8, <1>9, <1>10 DEF new

-------------------------------------------------------------------------------
\* findGroupedParent

LEMMA NearestPrefix ==
    ASSUME NEW T, T \subseteq Nat, T # {}
    PROVE  Min(T) \in T /\ \A y \in T : Min(T) <= y
BY Least DEF Min

\* What is found is the longest prefix with an array, and only a prefix is found.
LEMMA FoundParent ==
    ASSUME NEW state, Fine(state), NEW t \in Tasks
    PROVE  LET g == findGroupedParent(state, t)
           IN  \/ g = NoTask /\ ToSet(Above[t]) \cap DOMAIN state.arrays = {}
               \/ /\ g \in ToSet(Above[t]) \cap DOMAIN state.arrays
                  /\ g # NoTask
                  /\ Above[t][1] \in DOMAIN state.arrays => g = Above[t][1]
<1> DEFINE grouped == groupedPrefixes(state, t)
<1>1. Above[t] \in Seq(Tasks)
  BY AboveAssumption
<1>2. DOMAIN Above[t] = 1..Len(Above[t]) /\ Len(Above[t]) \in Nat
  BY <1>1
<1>3. ToSet(Above[t]) = {Above[t][i] : i \in DOMAIN Above[t]}
  BY DEF ToSet
<1>4. grouped = {i \in DOMAIN Above[t] : Above[t][i] \in DOMAIN state.arrays}
  BY DEF groupedPrefixes
<1>5. DOMAIN state.arrays \subseteq Tasks
  BY RepeatableAssumption DEF Fine, IsState
<1>6. findGroupedParent(state, t) = IF grouped = {} THEN NoTask ELSE Above[t][Min(grouped)]
  BY DEF findGroupedParent
<1> HIDE DEF grouped
<1>7. CASE grouped = {}
  BY <1>7, <1>3, <1>4, <1>6
<1>8. CASE grouped # {}
  <2>1. grouped \subseteq Nat
    BY <1>2, <1>4
  <2>2. Min(grouped) \in grouped /\ \A i \in grouped : Min(grouped) <= i
    BY <2>1, <1>8, NearestPrefix
  <2>3. Above[t][Min(grouped)] \in ToSet(Above[t]) \cap DOMAIN state.arrays
    BY <2>2, <1>3, <1>4
  <2>4. Above[t][Min(grouped)] # NoTask
    BY <2>3, <1>5, NoTaskAssumption
  <2>5. ASSUME Above[t][1] \in DOMAIN state.arrays PROVE Min(grouped) = 1
    <3>1. Min(grouped) \in 1..Len(Above[t])
      BY <2>2, <1>2, <1>4
    <3>2. 1 \in grouped
      BY <3>1, <2>5, <1>2, <1>4
    <3> QED
      BY <3>1, <3>2, <2>2, <1>2
  <2> QED
    BY <2>3, <2>4, <2>5, <1>6, <1>8
<1> QED
  BY <1>7, <1>8

\* The groups inside a group are also inside every group that the group is in.
LEMMA GroupsBelowGrow ==
    ASSUME NEW t \in Tasks, NEW g \in ToSet(Above[t])
    PROVE  groupsBelow(t) \subseteq groupsBelow(g)
<1> SUFFICES ASSUME NEW r \in groupsBelow(t) PROVE r \in groupsBelow(g)
  OBVIOUS
<1>1. r \in Repeatable /\ r \in Tasks /\ (r = t \/ t \in ToSet(Above[r]))
  BY RepeatableAssumption DEF groupsBelow
<1>2. CASE r = t
  BY <1>1, <1>2 DEF groupsBelow
<1>3. CASE t \in ToSet(Above[r])
  <2>1. PICK i \in DOMAIN Above[r] : Above[r][i] = t
    BY <1>3 DEF ToSet
  <2>2. PICK j \in DOMAIN Above[t] : Above[t][j] = g
    BY DEF ToSet
  <2>3. Above[r] \in Seq(Tasks) /\ Above[t] = SubSeq(Above[r], i + 1, Len(Above[r]))
    BY <1>1, <2>1, AboveAssumption
  <2>4. i \in 1..Len(Above[r]) /\ Len(Above[r]) \in Nat
    BY <2>1, <2>3
  <2>5. DOMAIN Above[t] = 1..(Len(Above[r]) - i) /\ Above[t][j] = Above[r][i + j]
    <3> DEFINE up == Above[r]
    <3>1. up \in Seq(Tasks) /\ i \in 1..Len(up) /\ Len(up) \in Nat
      BY <2>3, <2>4
    <3>2. Above[t] = SubSeq(up, i + 1, Len(up))
      BY <2>3
    <3>3. Len(SubSeq(up, i + 1, Len(up))) = Len(up) - i
      BY <3>1
    <3>4. SubSeq(up, i + 1, Len(up))[j] = up[i + j]
      <4>1. j \in 1..(Len(up) - i)
        BY <2>2, <3>1, <3>2, <3>3
      <4> HIDE DEF up
      <4> QED
        BY <3>1, <4>1
    <3>5. SubSeq(up, i + 1, Len(up)) \in Seq(Tasks)
      BY <3>1
    <3> HIDE DEF up
    <3>6. DOMAIN Above[t] = 1..(Len(up) - i)
      BY <3>2, <3>3, <3>5
    <3>7. Above[t][j] = up[i + j]
      BY <3>2, <3>4
    <3> QED
      BY <3>6, <3>7 DEF up
  <2>6. i + j \in DOMAIN Above[r]
    BY <2>2, <2>3, <2>4, <2>5
  <2> QED
    BY <1>1, <2>2, <2>5, <2>6 DEF groupsBelow, ToSet
<1> QED
  BY <1>1, <1>2, <1>3

-------------------------------------------------------------------------------
\* One edit

LEMMA IdOf ==
    ASSUME NEW id \in Ids
    PROVE  /\ taskOf(id) \in Tasks
           /\ indexOf(id) = NoIndex \/ indexOf(id) \in Index
           /\ id = <<taskOf(id), indexOf(id)>>
BY DEF Ids, taskOf, indexOf

LEMMA FlatStored ==
    ASSUME NEW state, Fine(state), NEW id \in Ids, NEW value \in AnswerOrNone
    PROVE  LET new == [state EXCEPT !.flat = stored(@, id, value)]
           IN  /\ Fine(new)
               /\ FlatBecomes(state, new, id, value)
               /\ SameArrays(state, new)
<1> DEFINE flat == stored(state.flat, id, value)
           new == [state EXCEPT !.flat = stored(@, id, value)]
<1>1. new = [flat |-> flat, arrays |-> state.arrays]
  <2>1. new = [state EXCEPT !.flat = flat]
    OBVIOUS
  <2> HIDE DEF flat, new
  <2> QED
    BY <2>1 DEF Fine
<1>2. /\ \A y : valueIn(flat, y) = IF y = id THEN value ELSE valueIn(state.flat, y)
      /\ DOMAIN flat \subseteq DOMAIN state.flat \cup {id}
      /\ \A y \in DOMAIN flat :
            \/ y = id /\ value # Gone /\ flat[y] = value
            \/ y \in DOMAIN state.flat /\ flat[y] = state.flat[y]
  BY StoredReads
<1>3. flat = [y \in DOMAIN flat |-> flat[y]]
  BY DEF stored, put, Restrict
<1> HIDE DEF flat
<1>4. new.flat = flat /\ new.arrays = state.arrays
  BY <1>1
<1> HIDE DEF new
<1>5. IsAnswers(flat)
  <2>1. IsAnswers(state.flat)
    BY DEF Fine, IsState
  <2>2. DOMAIN flat \subseteq Ids
    BY <2>1, <1>2 DEF IsAnswers
  <2>3. \A y \in DOMAIN flat : flat[y] \in Values
    BY <2>1, <1>2 DEF IsAnswers, AnswerOrNone
  <2> QED
    BY <2>2, <2>3, <1>3 DEF IsAnswers
<1>6. Fine(new)
  BY <1>1, <1>4, <1>5 DEF Fine, IsState
<1>7. FlatBecomes(state, new, id, value)
  BY <1>2, <1>4 DEF FlatBecomes, flatAt
<1>8. SameArrays(state, new)
  BY <1>4 DEF SameArrays, SameInstance, has, at, arrayIn
<1> QED
  BY <1>6, <1>7, <1>8 DEF new

\* A change of an answer outside the groups.
LEMMA PlainChange ==
    ASSUME NEW state, Fine(state), NEW id \in Ids, ~isGrouped(id), NEW value \in AnswerOrNone
    PROVE  LET new == answerChanged(state, id, value)
           IN  /\ Fine(new)
               /\ FlatBecomes(state, new, id, value)
               /\ SameArrays(state, new)
<1>1. indexOf(id) = NoIndex \/ findGroupedParent(state, taskOf(id)) = NoTask
  <2> SUFFICES ASSUME indexOf(id) # NoIndex PROVE findGroupedParent(state, taskOf(id)) = NoTask
    OBVIOUS
  <2>1. taskOf(id) \in Tasks /\ Parent[taskOf(id)] \notin Repeatable
    BY IdOf DEF isGrouped
  <2>2. ToSet(Above[taskOf(id)]) \cap Repeatable = {}
    BY <2>1, NestingAssumption
  <2>3. DOMAIN state.arrays \subseteq Repeatable
    BY DEF Fine, IsState
  <2> QED
    BY <2>1, <2>2, <2>3, FoundParent
<1>2. answerChanged(state, id, value) = [state EXCEPT !.flat = stored(@, id, value)]
  BY <1>1 DEF answerChanged
<1> QED
  BY <1>2, FlatStored

\* A change of an answer in an instance goes to the group of the answer when the
\* instance is there, and otherwise to a group around it or out of the groups.
LEMMA GroupedChange ==
    ASSUME NEW state, Fine(state), NEW c \in Tasks, NEW k \in Index, Parent[c] \in Repeatable,
           NEW value \in AnswerOrNone
    PROVE  LET new == answerChanged(state, <<c, k>>, value)
           IN  /\ Fine(new)
               /\ \/ /\ ~has(state, Parent[c], k)
                     /\ FlatBecomes(state, new, <<c, k>>, value)
                     /\ SameArrays(state, new)
                  \/ \E g \in Repeatable :
                        /\ g = Parent[c] \/ (g \in ToSet(Above[Parent[c]]) /\ ~has(state, Parent[c], k))
                        /\ SameFlat(state, new)
                        /\ OnlyInstance(state, new, g, k)
                        /\ has(new, g, k)
                        /\ \A d \in Tasks : at(new, g, k, d) = IF d = c THEN value ELSE at(state, g, k, d)
<1> DEFINE id == <<c, k>>
           t == Parent[c]
           g == findGroupedParent(state, c)
           new == answerChanged(state, id, value)
<1>1. id \in Ids /\ taskOf(id) = c /\ indexOf(id) = k /\ k # NoIndex
  BY MaxIndexAssumption DEF Ids, taskOf, indexOf, NoIndex, Index
<1>2. /\ Above[c] \in Seq(Tasks) /\ Above[c] # <<>> /\ Head(Above[c]) = t
  BY AboveAssumption, NestingAssumption
<1>3. 1 \in DOMAIN Above[c] /\ Above[c][1] = t
  BY <1>2
<1>4. \A p \in ToSet(Above[c]) : p = t \/ p \in ToSet(Above[t])
  <2> SUFFICES ASSUME NEW i \in DOMAIN Above[c], Above[c][i] # t
               PROVE  Above[c][i] \in ToSet(Above[t])
    BY DEF ToSet
  <2>1. Above[t] = SubSeq(Above[c], 2, Len(Above[c]))
    <3>1. Above[Above[c][1]] = SubSeq(Above[c], 1 + 1, Len(Above[c]))
      BY <1>3, AboveAssumption
    <3>2. 1 + 1 = 2
      OBVIOUS
    <3> QED
      BY <1>3, <3>1, <3>2
  <2>2. i \in 2..Len(Above[c]) /\ Len(Above[c]) \in Nat
    BY <1>2, <1>3
  <2>3. i - 1 \in DOMAIN Above[t] /\ Above[t][i - 1] = Above[c][i]
    BY <1>2, <2>1, <2>2
  <2> QED
    BY <2>3 DEF ToSet
<1>5. has(state, t, k) => t \in DOMAIN state.arrays
  BY DEF has, arrayIn
<1>6. CASE g = NoTask
  <2>1. ~has(state, t, k)
    BY <1>2, <1>3, <1>5, <1>6, FoundParent DEF ToSet
  <2>2. new = [state EXCEPT !.flat = stored(@, id, value)]
    BY <1>1, <1>6 DEF answerChanged
  <2> QED
    BY <1>1, <2>1, <2>2, FlatStored
<1>7. CASE g # NoTask
  <2>1. /\ g \in ToSet(Above[c]) /\ g \in DOMAIN state.arrays
        /\ t \in DOMAIN state.arrays => g = t
    BY <1>3, <1>7, FoundParent
  <2>2. g \in Repeatable /\ (g = t \/ (g \in ToSet(Above[t]) /\ ~has(state, t, k)))
    BY <1>4, <1>5, <2>1 DEF Fine, IsState
  <2> DEFINE old == elementAt(arrayIn(state, g), k)
             e == stored(old, c, value)
  <2>3. arrayIn(state, g) = state.arrays[g]
    BY <2>1 DEF arrayIn
  <2>4. new = withArray(state, g, put(arrayIn(state, g), k, e))
    BY <1>1, <1>7, <2>3 DEF answerChanged
  <2>5. IsElement(e)
    BY <2>2, ElementIsElement, StoredElement
  <2>6. \A d : valueIn(e, d) = IF d = c THEN value ELSE at(state, g, k, d)
    BY StoredReads DEF at
  <2> HIDE DEF e, new, g
  <2>7. /\ Fine(new)
        /\ SameFlat(state, new)
        /\ OnlyInstance(state, new, g, k)
        /\ has(new, g, k)
        /\ \A d : at(new, g, k, d) = valueIn(e, d)
    BY <2>2, <2>4, <2>5, InstancePut
  <2> QED
    BY <2>2, <2>6, <2>7 DEF new
<1> QED
  BY <1>6, <1>7

LEMMA InstanceComes ==
    ASSUME NEW state, Fine(state), NEW t \in Repeatable, NEW k \in Index, NEW e, IsElement(e)
    PROVE  LET new == instanceAdded(state, t, k, e)
           IN  /\ Fine(new)
               /\ SameFlat(state, new)
               /\ OnlyInstance(state, new, t, k)
               /\ has(new, t, k)
               /\ \A c : at(new, t, k, c) = IF has(state, t, k) THEN at(state, t, k, c) ELSE valueIn(e, c)
<1>1. CASE has(state, t, k)
  <2>1. instanceAdded(state, t, k, e) = state
    BY <1>1 DEF instanceAdded, has
  <2> QED
    BY <1>1, <2>1 DEF SameFlat, OnlyInstance, SameInstance
<1>2. CASE ~has(state, t, k)
  <2>1. instanceAdded(state, t, k, e) = withArray(state, t, put(arrayIn(state, t), k, e))
    BY <1>2 DEF instanceAdded, has
  <2> QED
    BY <1>2, <2>1, InstancePut
<1> QED
  BY <1>1, <1>2

-------------------------------------------------------------------------------
\* diffStates: which edits a save writes, and what they say

PlainEdit(e, new) ==
    \E id \in Ids : ~isGrouped(id) /\ e = AnswerChange(id, flatAt(new.state, id))
InnerEdit(e, old, new) ==
    \E c \in Tasks, k \in Index :
       /\ Parent[c] \in Repeatable
       /\ has(old.state, Parent[c], k) /\ has(new.state, Parent[c], k)
       /\ e = AnswerChange(<<c, k>>, at(new.state, Parent[c], k, c))
ComingEdit(e, old, new) ==
    \E t \in Repeatable, k \in Index :
       /\ ~has(old.state, t, k) /\ has(new.state, t, k)
       /\ e = InstanceAdded(t, k, elementAt(arrayIn(new.state, t), k))
GoingEdit(e, old, new) ==
    \E t \in Repeatable, k \in Index :
       /\ has(old.state, t, k) /\ ~has(new.state, t, k)
       /\ e = InstanceRemoved(t, k)
MarkEdit(e, new) ==
    \E s \in Sections :
       \/ s \in new.completed /\ e = SectionComplete(s, TRUE)
       \/ s \notin new.completed /\ e = SectionComplete(s, FALSE)

LEMMA SavedReads ==
    ASSUME NEW doc, isSaved(doc)
    PROVE  /\ Fine(doc.state)
           /\ doc = [state |-> doc.state, completed |-> doc.completed]
           /\ doc.completed \subseteq Sections
           /\ \A id \in Ids : isGrouped(id) => flatAt(doc.state, id) = Gone
           /\ \A t, k, c : at(doc.state, t, k, c) # Gone => Parent[c] = t
<1> DEFINE state == doc.state
<1>1. doc = [state |-> [flat |-> state.flat, arrays |-> state.arrays], completed |-> doc.completed]
  BY DEF isSaved
<1>2. state = [flat |-> state.flat, arrays |-> state.arrays]
  BY <1>1
<1>3. doc = [state |-> state, completed |-> doc.completed]
  BY <1>1, <1>2
<1>4. \A id \in Ids : isGrouped(id) => flatAt(state, id) = Gone
  BY DEF flatAt, valueIn, isSaved
<1>5. ASSUME NEW t, NEW k, NEW c, at(state, t, k, c) # Gone PROVE Parent[c] = t
  <2>1. k \in DOMAIN arrayIn(state, t) /\ c \in DOMAIN arrayIn(state, t)[k]
    BY <1>5 DEF at, valueIn, elementAt, NewElement
  <2>2. t \in DOMAIN state.arrays /\ arrayIn(state, t) = state.arrays[t]
    BY <2>1 DEF arrayIn
  <2> QED
    BY <2>1, <2>2 DEF isSaved
<1>6. IsState(state) /\ doc.completed \subseteq Sections
  BY DEF isSaved
<1>7. Fine(state)
  BY <1>2, <1>6 DEF Fine
<1> QED
  BY <1>3, <1>4, <1>5, <1>6, <1>7

flatEdits(old, new) ==
    {AnswerChange(id, valueIn(new.flat, id)) :
        id \in {i \in DOMAIN old.flat \cup DOMAIN new.flat : valueIn(old.flat, i) # valueIn(new.flat, i)}}
arrayEdits(old, new) ==
    UNION {diffGroupedArrays(arrayIn(old, t), arrayIn(new, t), t) :
              t \in DOMAIN old.arrays \cup DOMAIN new.arrays}
markEdits(old, new) ==
    {SectionComplete(t, TRUE) : t \in new \ old} \cup {SectionComplete(t, FALSE) : t \in old \ new}

LEMMA DiffParts ==
    ASSUME NEW old, NEW new
    PROVE  diffStates(old, new) = flatEdits(old.state, new.state)
              \cup (arrayEdits(old.state, new.state) \cup markEdits(old.completed, new.completed))
<1> DEFINE X == flatEdits(old.state, new.state)
           Y == arrayEdits(old.state, new.state)
           on == {SectionComplete(t, TRUE) : t \in new.completed \ old.completed}
           off == {SectionComplete(t, FALSE) : t \in old.completed \ new.completed}
<1>1. diffStates(old, new) = ((X \cup Y) \cup on) \cup off
  BY DEF diffStates, flatEdits, arrayEdits
<1>2. markEdits(old.completed, new.completed) = on \cup off
  BY DEF markEdits
<1> HIDE DEF X, Y, on, off
<1>3. ((X \cup Y) \cup on) \cup off = X \cup (Y \cup (on \cup off))
  OBVIOUS
<1> QED
  BY <1>1, <1>2, <1>3 DEF X, Y

comingEdits(old, new, t) ==
    {InstanceAdded(t, k, new[k]) : k \in {j \in DOMAIN new \ DOMAIN old : ~skipDefault(old, j)}}
goingEdits(old, new, t) == {InstanceRemoved(t, k) : k \in DOMAIN old \ DOMAIN new}
elementEdits(old, new, k) ==
    {AnswerChange(<<c, k>>, valueIn(new[k], c)) :
        c \in {d \in DOMAIN old[k] \cup DOMAIN new[k] : valueIn(old[k], d) # valueIn(new[k], d)}}

LEMMA ArrayParts ==
    ASSUME NEW old, NEW new, NEW t
    PROVE  diffGroupedArrays(old, new, t) = comingEdits(old, new, t)
              \cup (goingEdits(old, new, t)
                    \cup UNION {elementEdits(old, new, k) : k \in DOMAIN old \cap DOMAIN new})
BY DEF diffGroupedArrays, comingEdits, goingEdits, elementEdits

\* Each edit is one of five kinds, and carries what the save has.
LEMMA DiffKinds ==
    ASSUME NEW old, isSaved(old), NEW new, isSaved(new), NEW e \in diffStates(old, new)
    PROVE  \/ PlainEdit(e, new)
           \/ InnerEdit(e, old, new)
           \/ ComingEdit(e, old, new)
           \/ GoingEdit(e, old, new)
           \/ MarkEdit(e, new)
<1>1. /\ IsState(old.state) /\ IsState(new.state)
      /\ old.completed \subseteq Sections /\ new.completed \subseteq Sections
  BY DEF isSaved
<1>2. CASE e \in flatEdits(old.state, new.state)
  <2>1. PICK id \in DOMAIN old.state.flat \cup DOMAIN new.state.flat :
           e = AnswerChange(id, valueIn(new.state.flat, id))
    BY <1>2 DEF flatEdits
  <2>2. id \in Ids /\ ~isGrouped(id)
    BY <1>1, <2>1 DEF isSaved, IsState, IsAnswers
  <2> QED
    BY <2>1, <2>2 DEF PlainEdit, flatAt
<1>3. CASE e \in arrayEdits(old.state, new.state)
  <2>1. PICK t \in DOMAIN old.state.arrays \cup DOMAIN new.state.arrays :
           e \in diffGroupedArrays(arrayIn(old.state, t), arrayIn(new.state, t), t)
    BY <1>3 DEF arrayEdits
  <2>2. t \in Repeatable
    BY <1>1 DEF IsState
  <2> DEFINE a == arrayIn(old.state, t)
             b == arrayIn(new.state, t)
  <2>3. DOMAIN a \subseteq Index /\ DOMAIN b \subseteq Index
    BY <1>1 DEF IsState, arrayIn
  <2>4. \A k \in Index : (has(old.state, t, k) <=> k \in DOMAIN a) /\ (has(new.state, t, k) <=> k \in DOMAIN b)
    BY DEF has
  <2>5. /\ \A k \in DOMAIN a : elementAt(a, k) = a[k]
        /\ \A k \in DOMAIN b : elementAt(b, k) = b[k]
    BY DEF elementAt
  <2>6. \A c : \A k \in DOMAIN a : valueIn(a[k], c) = at(old.state, t, k, c)
    BY <2>5 DEF at
  <2>7. \A c : \A k \in DOMAIN b : valueIn(b[k], c) = at(new.state, t, k, c)
    BY <2>5 DEF at
  <2>8. \/ e \in comingEdits(a, b, t)
        \/ e \in goingEdits(a, b, t)
        \/ \E k \in DOMAIN a \cap DOMAIN b : e \in elementEdits(a, b, k)
    BY <2>1, ArrayParts
  <2> HIDE DEF a, b
  <2>9. CASE e \in comingEdits(a, b, t)
    <3>1. PICK k \in DOMAIN b \ DOMAIN a : e = InstanceAdded(t, k, b[k])
      BY <2>9 DEF comingEdits
    <3>2. k \in Index /\ ~has(old.state, t, k) /\ has(new.state, t, k)
      BY <3>1, <2>3, <2>4
    <3>3. e = InstanceAdded(t, k, elementAt(arrayIn(new.state, t), k))
      BY <3>1, <2>5 DEF b
    <3> QED
      BY <2>2, <3>2, <3>3 DEF ComingEdit
  <2>10. CASE e \in goingEdits(a, b, t)
    <3>1. PICK k \in DOMAIN a \ DOMAIN b : e = InstanceRemoved(t, k)
      BY <2>10 DEF goingEdits
    <3>2. k \in Index /\ has(old.state, t, k) /\ ~has(new.state, t, k)
      BY <3>1, <2>3, <2>4
    <3> QED
      BY <2>2, <3>1, <3>2 DEF GoingEdit
  <2>11. ASSUME NEW k \in DOMAIN a \cap DOMAIN b, e \in elementEdits(a, b, k) PROVE InnerEdit(e, old, new)
    <3>1. PICK c \in DOMAIN a[k] \cup DOMAIN b[k] :
             e = AnswerChange(<<c, k>>, valueIn(b[k], c)) /\ valueIn(a[k], c) # valueIn(b[k], c)
      BY <2>11 DEF elementEdits
    <3>2. at(old.state, t, k, c) # Gone \/ at(new.state, t, k, c) # Gone
      BY <3>1, <2>6, <2>7, <2>11
    <3>3. Parent[c] = t
      BY <3>2, SavedReads
    <3>4. k \in Index /\ has(old.state, t, k) /\ has(new.state, t, k)
      BY <2>3, <2>4, <2>11
    <3>5. c \in Tasks
      <4>1. IsElement(elementAt(a, k)) /\ IsElement(elementAt(b, k))
        BY <2>2, SavedReads, ElementIsElement DEF a, b
      <4> QED
        BY <4>1, <2>5, <2>11, <3>1 DEF IsElement
    <3>6. e = AnswerChange(<<c, k>>, at(new.state, Parent[c], k, c))
      BY <3>1, <3>3, <2>7, <2>11
    <3> QED
      BY <2>2, <3>3, <3>4, <3>5, <3>6 DEF InnerEdit
  <2> QED
    BY <2>8, <2>9, <2>10, <2>11
<1>4. CASE e \in markEdits(old.completed, new.completed)
  BY <1>1, <1>4 DEF markEdits, MarkEdit
<1> QED
  BY <1>2, <1>3, <1>4, DiffParts

\* What differs has an edit, but for a skipped default instance.
Covers(edits, old, new) ==
    /\ \A id \in Ids : flatAt(old.state, id) # flatAt(new.state, id) =>
          \E e \in edits : e.type = "answer_change" /\ e.id = id
    /\ \A t \in Repeatable, k \in Index :
          ~(has(new.state, t, k) <=> has(old.state, t, k)) =>
             \/ has(new.state, t, k) /\ skipDefault(arrayIn(old.state, t), k)
             \/ \E e \in edits : (e.type = "instance_added" \/ e.type = "instance_removed") /\ e.id = <<t, k>>
    /\ \A t \in Repeatable, k \in Index, c \in Tasks :
          /\ has(old.state, t, k) /\ has(new.state, t, k)
          /\ at(old.state, t, k, c) # at(new.state, t, k, c)
          => \E e \in edits : e.type = "answer_change" /\ e.id = <<c, k>>
    /\ \A s \in Sections :
          ~(s \in new.completed <=> s \in old.completed) =>
             \E e \in edits : e.type = "section_complete" /\ e.id = <<s, NoIndex>>

LEMMA DiffCovers ==
    ASSUME NEW old, isSaved(old), NEW new, isSaved(new)
    PROVE  Covers(diffStates(old, new), old, new)
<1> DEFINE edits == diffStates(old, new)
<1>1. edits = flatEdits(old.state, new.state)
                 \cup (arrayEdits(old.state, new.state) \cup markEdits(old.completed, new.completed))
  BY DiffParts
<1> HIDE DEF edits
<1>2. ASSUME NEW id \in Ids, flatAt(old.state, id) # flatAt(new.state, id)
      PROVE  \E e \in edits : e.type = "answer_change" /\ e.id = id
  <2> DEFINE e == AnswerChange(id, valueIn(new.state.flat, id))
  <2>1. id \in DOMAIN old.state.flat \cup DOMAIN new.state.flat
    BY <1>2 DEF flatAt, valueIn
  <2>2. e \in flatEdits(old.state, new.state)
    BY <1>2, <2>1 DEF flatAt, flatEdits
  <2>3. e.type = "answer_change" /\ e.id = id
    BY DEF AnswerChange
  <2> QED
    BY <1>1, <2>2, <2>3
<1>3. ASSUME NEW t \in Repeatable, NEW k \in Index, has(old.state, t, k) \/ has(new.state, t, k)
      PROVE  /\ diffGroupedArrays(arrayIn(old.state, t), arrayIn(new.state, t), t) \subseteq edits
  <2>1. t \in DOMAIN old.state.arrays \cup DOMAIN new.state.arrays
    BY <1>3 DEF has, arrayIn
  <2> QED
    BY <1>1, <2>1 DEF arrayEdits
<1>4. ASSUME NEW t \in Repeatable, NEW k \in Index, ~(has(new.state, t, k) <=> has(old.state, t, k)),
             ~(has(new.state, t, k) /\ skipDefault(arrayIn(old.state, t), k))
      PROVE  \E e \in edits : (e.type = "instance_added" \/ e.type = "instance_removed") /\ e.id = <<t, k>>
  <2> DEFINE a == arrayIn(old.state, t)
             b == arrayIn(new.state, t)
  <2>1. CASE has(new.state, t, k)
    <3>1. k \in DOMAIN b \ DOMAIN a /\ ~skipDefault(a, k)
      BY <1>4, <2>1 DEF has
    <3> DEFINE e == InstanceAdded(t, k, b[k])
    <3>2. e \in comingEdits(a, b, t)
      BY <3>1 DEF comingEdits
    <3>3. e \in edits
      BY <3>2, <1>3, <2>1, ArrayParts
    <3>4. e.type = "instance_added" /\ e.id = <<t, k>>
      BY DEF InstanceAdded
    <3> QED
      BY <3>3, <3>4
  <2>2. CASE has(old.state, t, k) /\ ~has(new.state, t, k)
    <3>1. k \in DOMAIN a \ DOMAIN b
      BY <2>2 DEF has
    <3> DEFINE e == InstanceRemoved(t, k)
    <3>2. e \in goingEdits(a, b, t)
      BY <3>1 DEF goingEdits
    <3>3. e \in edits
      BY <3>2, <1>3, <2>2, ArrayParts
    <3>4. e.type = "instance_removed" /\ e.id = <<t, k>>
      BY DEF InstanceRemoved
    <3> QED
      BY <3>3, <3>4
  <2> QED
    BY <1>4, <2>1, <2>2
<1>5. ASSUME NEW t \in Repeatable, NEW k \in Index, NEW c \in Tasks, has(old.state, t, k), has(new.state, t, k),
             at(old.state, t, k, c) # at(new.state, t, k, c)
      PROVE  \E e \in edits : e.type = "answer_change" /\ e.id = <<c, k>>
  <2> DEFINE a == arrayIn(old.state, t)
             b == arrayIn(new.state, t)
             e == AnswerChange(<<c, k>>, valueIn(b[k], c))
  <2>1. k \in DOMAIN a \cap DOMAIN b
    BY <1>5 DEF has
  <2>2. valueIn(a[k], c) # valueIn(b[k], c)
    BY <1>5, <2>1 DEF at, elementAt
  <2>3. c \in DOMAIN a[k] \cup DOMAIN b[k]
    BY <2>2 DEF valueIn
  <2>4. e \in elementEdits(a, b, k)
    BY <2>2, <2>3 DEF elementEdits
  <2>5. e \in diffGroupedArrays(a, b, t)
    BY <2>1, <2>4, ArrayParts
  <2>6. e.type = "answer_change" /\ e.id = <<c, k>>
    BY DEF AnswerChange
  <2> QED
    BY <1>3, <1>5, <2>5, <2>6
<1>6. ASSUME NEW s \in Sections, ~(s \in new.completed <=> s \in old.completed)
      PROVE  \E e \in edits : e.type = "section_complete" /\ e.id = <<s, NoIndex>>
  <2>1. SectionComplete(s, TRUE) \in edits \/ SectionComplete(s, FALSE) \in edits
    BY <1>1, <1>6 DEF markEdits
  <2>2. \A done : SectionComplete(s, done).type = "section_complete" /\ SectionComplete(s, done).id = <<s, NoIndex>>
    BY DEF SectionComplete
  <2>3. CASE SectionComplete(s, TRUE) \in edits
    BY ONLY <2>2, <2>3, Zenon
  <2>4. CASE SectionComplete(s, FALSE) \in edits
    BY ONLY <2>2, <2>4, Zenon
  <2> QED
    BY <2>1, <2>3, <2>4
<1>7. \A id \in Ids : flatAt(old.state, id) # flatAt(new.state, id) =>
         \E e \in edits : e.type = "answer_change" /\ e.id = id
  BY <1>2
<1>8. \A t \in Repeatable, k \in Index :
         ~(has(new.state, t, k) <=> has(old.state, t, k)) =>
            \/ has(new.state, t, k) /\ skipDefault(arrayIn(old.state, t), k)
            \/ \E e \in edits : (e.type = "instance_added" \/ e.type = "instance_removed") /\ e.id = <<t, k>>
  BY <1>4
<1>9. \A t \in Repeatable, k \in Index, c \in Tasks :
         /\ has(old.state, t, k) /\ has(new.state, t, k)
         /\ at(old.state, t, k, c) # at(new.state, t, k, c)
         => \E e \in edits : e.type = "answer_change" /\ e.id = <<c, k>>
  BY <1>5
<1>10. \A s \in Sections :
         ~(s \in new.completed <=> s \in old.completed) =>
            \E e \in edits : e.type = "section_complete" /\ e.id = <<s, NoIndex>>
  BY <1>6
<1> QED
  BY <1>7, <1>8, <1>9, <1>10, Zenon DEF edits, Covers

-------------------------------------------------------------------------------
\* The replay of one save

\* recorded, for any set of groups with an unrecorded first instance.
certain(S, t, k) == k # 0 \/ groupsBelow(t) \cap S = {}

IsDoc(doc) ==
    /\ doc = [state |-> doc.state, completed |-> doc.completed]
    /\ Fine(doc.state)
    /\ doc.completed \subseteq Sections

\* Out of its place an answer is only found in an index 0 that is not certain.
Placed(S, state) ==
    /\ \A id \in Ids : isGrouped(id) /\ certain(S, Parent[taskOf(id)], indexOf(id)) => flatAt(state, id) = Gone
    /\ \A t \in Repeatable, k \in Index, c \in Tasks :
          at(state, t, k, c) # Gone => Parent[c] = t \/ (Parent[c] \in Repeatable /\ ~certain(S, Parent[c], k))

\* The edits among rest that are about a place.
changes(rest, id) == {e \in rest : e.type = "answer_change" /\ e.id = id}
additions(rest, t, k) == {e \in rest : e.type = "instance_added" /\ e.id = <<t, k>>}
removals(rest, t, k) == {e \in rest : e.type = "instance_removed" /\ e.id = <<t, k>>}
marks(rest, s) == {e \in rest : e.type = "section_complete" /\ e.id = <<s, NoIndex>>}
moves(rest, t, k) == additions(rest, t, k) \cup removals(rest, t, k)

\* What the edits that are left say nothing about is as it was saved, and an
\* instance that is still to be added is not there.
AnswersFollow(state, rest, new) ==
    \A id \in Ids : ~isGrouped(id) /\ changes(rest, id) = {} => flatAt(state, id) = flatAt(new.state, id)
InstancesFollow(S, state, rest, new) ==
    \A t \in Repeatable, k \in Index : certain(S, t, k) =>
       /\ additions(rest, t, k) # {} => ~has(state, t, k)
       /\ moves(rest, t, k) = {} => (has(state, t, k) <=> has(new.state, t, k))
ElementsFollow(S, state, rest, new) ==
    \A c \in Tasks, k \in Index :
       /\ Parent[c] \in Repeatable /\ certain(S, Parent[c], k)
       /\ moves(rest, Parent[c], k) = {} /\ changes(rest, <<c, k>>) = {}
       => at(state, Parent[c], k, c) = at(new.state, Parent[c], k, c)
MarksFollow(completed, rest, new) ==
    \A s \in Sections : marks(rest, s) = {} => (s \in completed <=> s \in new.completed)

Follows(S, doc, rest, new) ==
    /\ IsDoc(doc)
    /\ Placed(S, doc.state)
    /\ AnswersFollow(doc.state, rest, new)
    /\ InstancesFollow(S, doc.state, rest, new)
    /\ ElementsFollow(S, doc.state, rest, new)
    /\ MarksFollow(doc.completed, rest, new)

LEMMA CertainAround ==
    ASSUME NEW S, NEW t \in Tasks, NEW g \in ToSet(Above[t]), NEW k, certain(S, g, k)
    PROVE  certain(S, t, k)
BY GroupsBelowGrow DEF certain

\* An edit that is applied leaves the edits about other places.
LEMMA LeftByChange ==
    ASSUME NEW rest, NEW e, e.type = "answer_change"
    PROVE  LET left == rest \ {e}
           IN  /\ \A id : id # e.id => changes(left, id) = changes(rest, id)
               /\ \A t, k : additions(left, t, k) = additions(rest, t, k) /\ moves(left, t, k) = moves(rest, t, k)
               /\ \A s : marks(left, s) = marks(rest, s)
BY DEF changes, additions, removals, moves, marks

LEMMA LeftByMove ==
    ASSUME NEW rest, NEW e, e.type = "instance_added" \/ e.type = "instance_removed"
    PROVE  LET left == rest \ {e}
           IN  /\ \A id : changes(left, id) = changes(rest, id)
               /\ \A t, k : e.id # <<t, k>> =>
                     additions(left, t, k) = additions(rest, t, k) /\ moves(left, t, k) = moves(rest, t, k)
               /\ \A t, k : additions(left, t, k) \subseteq additions(rest, t, k)
               /\ \A s : marks(left, s) = marks(rest, s)
BY DEF changes, additions, removals, moves, marks

LEMMA LeftByMark ==
    ASSUME NEW rest, NEW e, e.type = "section_complete"
    PROVE  LET left == rest \ {e}
           IN  /\ \A id : changes(left, id) = changes(rest, id)
               /\ \A t, k : additions(left, t, k) = additions(rest, t, k) /\ moves(left, t, k) = moves(rest, t, k)
               /\ \A s : e.id # <<s, NoIndex>> => marks(left, s) = marks(rest, s)
BY DEF changes, additions, removals, moves, marks

\* The instance of an inner change is neither added nor removed by the save.
LEMMA StayingInstance ==
    ASSUME NEW old, isSaved(old), NEW new, isSaved(new), NEW rest, rest \subseteq diffStates(old, new),
           NEW t \in Repeatable, NEW k \in Index, has(old.state, t, k), has(new.state, t, k)
    PROVE  moves(rest, t, k) = {}
<1> SUFFICES ASSUME NEW e \in rest, (e.type = "instance_added" \/ e.type = "instance_removed"), e.id = <<t, k>>
             PROVE  FALSE
  BY DEF moves, additions, removals
<1>1. \/ PlainEdit(e, new)
      \/ InnerEdit(e, old, new)
      \/ ComingEdit(e, old, new)
      \/ GoingEdit(e, old, new)
      \/ MarkEdit(e, new)
  BY DiffKinds
<1>2. ~PlainEdit(e, new) /\ ~InnerEdit(e, old, new)
  BY DEF PlainEdit, InnerEdit, AnswerChange
<1>3. ~MarkEdit(e, new)
  <2>1. \A s, done : SectionComplete(s, done).type = "section_complete"
    BY DEF SectionComplete
  <2> QED
    BY <2>1 DEF MarkEdit
<1>4. ~ComingEdit(e, old, new)
  <2> SUFFICES ASSUME NEW u \in Repeatable, NEW j \in Index, ~has(old.state, u, j), NEW x, e = InstanceAdded(u, j, x)
               PROVE  FALSE
    BY DEF ComingEdit
  <2>1. e.id = <<u, j>>
    BY DEF InstanceAdded
  <2> QED
    BY <2>1
<1>5. ~GoingEdit(e, old, new)
  <2> SUFFICES ASSUME NEW u \in Repeatable, NEW j \in Index, ~has(new.state, u, j), e = InstanceRemoved(u, j)
               PROVE  FALSE
    BY DEF GoingEdit
  <2>1. e.id = <<u, j>>
    BY DEF InstanceRemoved
  <2> QED
    BY <2>1
<1> QED
  BY <1>1, <1>2, <1>3, <1>4, <1>5

\* Every addition of a place is the same edit.
LEMMA OneAddition ==
    ASSUME NEW old, isSaved(old), NEW new, isSaved(new), NEW rest, rest \subseteq diffStates(old, new),
           NEW t \in Repeatable, NEW k \in Index, NEW e \in additions(rest, t, k)
    PROVE  e = InstanceAdded(t, k, elementAt(arrayIn(new.state, t), k)) /\ ~has(old.state, t, k)
<1>1. e \in rest /\ e.type = "instance_added" /\ e.id = <<t, k>>
  BY DEF additions
<1>2. \/ PlainEdit(e, new)
      \/ InnerEdit(e, old, new)
      \/ ComingEdit(e, old, new)
      \/ GoingEdit(e, old, new)
      \/ MarkEdit(e, new)
  BY <1>1, DiffKinds
<1>3. ~PlainEdit(e, new) /\ ~InnerEdit(e, old, new)
  BY <1>1 DEF PlainEdit, InnerEdit, AnswerChange
<1>4. ~MarkEdit(e, new)
  <2>1. \A s, done : SectionComplete(s, done).type = "section_complete"
    BY DEF SectionComplete
  <2> QED
    BY <1>1, <2>1 DEF MarkEdit
<1>5. ~GoingEdit(e, old, new)
  BY <1>1 DEF GoingEdit, InstanceRemoved
<1>6. PICK u \in Repeatable, j \in Index :
         e = InstanceAdded(u, j, elementAt(arrayIn(new.state, u), j)) /\ ~has(old.state, u, j)
  BY <1>2, <1>3, <1>4, <1>5 DEF ComingEdit
<1>7. e.id = <<u, j>>
  BY <1>6 DEF InstanceAdded
<1> QED
  BY <1>1, <1>6, <1>7

LEMMA AbsentReads ==
    ASSUME NEW state, NEW t, NEW k, ~has(state, t, k), NEW c
    PROVE  at(state, t, k, c) = Gone
BY DEF has, at, elementAt, NewElement, valueIn

LEMMA NewState ==
    ASSUME NEW doc, IsDoc(doc), NEW state, Fine(state), NEW after, after = [doc EXCEPT !.state = state]
    PROVE  IsDoc(after) /\ after.state = state /\ after.completed = doc.completed
<1>1. doc = [state |-> doc.state, completed |-> doc.completed]
  BY DEF IsDoc
<1>2. after = [state |-> state, completed |-> doc.completed]
  BY <1>1
<1>3. after.state = state /\ after.completed = doc.completed
  BY <1>2
<1> QED
  BY <1>2, <1>3 DEF IsDoc

\* What an edit of each kind does to a document.
LEMMA AppliedChange ==
    ASSUME NEW doc, NEW id, NEW value
    PROVE  applied(doc, AnswerChange(id, value)) = [doc EXCEPT !.state = answerChanged(doc.state, id, value)]
<1> DEFINE e == AnswerChange(id, value)
<1>1. e.type = "answer_change" /\ e.id = id /\ e.value = value
  BY DEF AnswerChange
<1> HIDE DEF e
<1> QED
  BY <1>1 DEF applied, e

LEMMA AppliedAddition ==
    ASSUME NEW doc, NEW t, NEW k, NEW x
    PROVE  applied(doc, InstanceAdded(t, k, x)) = [doc EXCEPT !.state = instanceAdded(doc.state, t, k, x)]
<1> DEFINE e == InstanceAdded(t, k, x)
<1>1. e.type = "instance_added" /\ e.id[1] = t /\ e.id[2] = k /\ e.element = x
  BY DEF InstanceAdded
<1> HIDE DEF e
<1> QED
  BY <1>1 DEF applied, e

LEMMA AppliedRemoval ==
    ASSUME NEW doc, NEW t, NEW k
    PROVE  applied(doc, InstanceRemoved(t, k)) = [doc EXCEPT !.state = instanceRemoved(doc.state, t, k)]
<1> DEFINE e == InstanceRemoved(t, k)
<1>1. e.type = "instance_removed" /\ e.id[1] = t /\ e.id[2] = k
  BY DEF InstanceRemoved
<1> HIDE DEF e
<1> QED
  BY <1>1 DEF applied, e

LEMMA AppliedMark ==
    ASSUME NEW doc, NEW s
    PROVE  /\ applied(doc, SectionComplete(s, TRUE)) = [doc EXCEPT !.completed = doc.completed \cup {s}]
           /\ applied(doc, SectionComplete(s, FALSE)) = [doc EXCEPT !.completed = doc.completed \ {s}]
<1> DEFINE on == SectionComplete(s, TRUE)
           off == SectionComplete(s, FALSE)
<1>1. /\ on.type = "section_complete" /\ on.id[1] = s
      /\ off.type = "section_complete" /\ off.id[1] = s
  BY DEF SectionComplete
<1>2. on.done /\ ~off.done
  BY DEF SectionComplete
<1> HIDE DEF on, off
<1> QED
  BY <1>1, <1>2 DEF applied, on, off

\* Nothing but one kind of place is about to change when the edit is of that kind.
LEMMA FollowsPlain ==
    ASSUME NEW S, NEW doc, NEW rest, NEW old, isSaved(old), NEW new, isSaved(new),
           Follows(S, doc, rest, new), NEW e \in rest, PlainEdit(e, new)
    PROVE  Follows(S, applied(doc, e), rest \ {e}, new)
<1> DEFINE left == rest \ {e}
           after == applied(doc, e)
<1>1. PICK id \in Ids : ~isGrouped(id) /\ e = AnswerChange(id, flatAt(new.state, id))
  BY DEF PlainEdit
<1> DEFINE value == flatAt(new.state, id)
           state == answerChanged(doc.state, id, value)
<1>2. e.type = "answer_change" /\ e.id = id
  BY <1>1 DEF AnswerChange
<1>3. value \in AnswerOrNone
  BY DEF flatAt, valueIn, AnswerOrNone, isSaved, IsState, IsAnswers
<1>4. /\ Fine(state)
      /\ FlatBecomes(doc.state, state, id, value)
      /\ SameArrays(doc.state, state)
  BY <1>1, <1>3, PlainChange DEF Follows, IsDoc
<1>5. after = [doc EXCEPT !.state = state]
  BY <1>1, AppliedChange
<1> HIDE DEF state, after, value
<1>6. IsDoc(after) /\ after.state = state /\ after.completed = doc.completed
  BY <1>4, <1>5, NewState DEF Follows
<1>7. /\ \A i : i # id => changes(left, i) = changes(rest, i)
      /\ \A t, k : additions(left, t, k) = additions(rest, t, k) /\ moves(left, t, k) = moves(rest, t, k)
      /\ \A s : marks(left, s) = marks(rest, s)
  BY <1>2, LeftByChange
<1>9. \A c \in Tasks, k \in Index : Parent[c] \in Repeatable => <<c, k>> # id
  <2>1. \A c, k : taskOf(<<c, k>>) = c /\ indexOf(<<c, k>>) = k
    BY DEF taskOf, indexOf
  <2>2. \A k \in Index : k # NoIndex
    BY MaxIndexAssumption DEF Index, NoIndex
  <2> QED
    BY <1>1, <2>1, <2>2 DEF isGrouped
<1> HIDE DEF left
<1>10. Placed(S, state)
  BY <1>1, <1>4 DEF Follows, Placed, FlatBecomes, SameArrays, SameInstance
<1>11. AnswersFollow(state, left, new)
  BY <1>4, <1>7 DEF Follows, AnswersFollow, FlatBecomes, value
<1>12. InstancesFollow(S, state, left, new)
  BY <1>4, <1>7 DEF Follows, InstancesFollow, SameArrays, SameInstance
<1>13. ElementsFollow(S, state, left, new)
  BY <1>4, <1>7, <1>9 DEF Follows, ElementsFollow, SameArrays, SameInstance
<1>14. MarksFollow(doc.completed, left, new)
  BY <1>7 DEF Follows, MarksFollow
<1> QED
  BY <1>6, <1>10, <1>11, <1>12, <1>13, <1>14 DEF Follows, left, after

LEMMA FollowsMark ==
    ASSUME NEW S, NEW doc, NEW rest, NEW new, isSaved(new),
           Follows(S, doc, rest, new), NEW e \in rest, MarkEdit(e, new)
    PROVE  Follows(S, applied(doc, e), rest \ {e}, new)
<1> DEFINE left == rest \ {e}
           after == applied(doc, e)
<1>1. PICK s \in Sections :
         \/ s \in new.completed /\ e = SectionComplete(s, TRUE)
         \/ s \notin new.completed /\ e = SectionComplete(s, FALSE)
  BY DEF MarkEdit
<1>2. e.type = "section_complete" /\ e.id = <<s, NoIndex>>
  <2>1. \A done : SectionComplete(s, done).type = "section_complete" /\ SectionComplete(s, done).id = <<s, NoIndex>>
    BY DEF SectionComplete
  <2>2. CASE e = SectionComplete(s, TRUE)
    BY ONLY <2>1, <2>2, Zenon
  <2>3. CASE e = SectionComplete(s, FALSE)
    BY ONLY <2>1, <2>3, Zenon
  <2> QED
    BY <1>1, <2>2, <2>3
<1>3. PICK done : /\ after = [doc EXCEPT !.completed = done]
                  /\ done \subseteq Sections
                  /\ \A u : u # s => (u \in done <=> u \in doc.completed)
                  /\ s \in done <=> s \in new.completed
  <2>1. doc.completed \subseteq Sections
    BY DEF Follows, IsDoc
  <2>2. CASE s \in new.completed /\ e = SectionComplete(s, TRUE)
    <3>1. after = [doc EXCEPT !.completed = doc.completed \cup {s}]
      BY <2>2, AppliedMark, Zenon
    <3> HIDE DEF after
    <3>2. WITNESS doc.completed \cup {s}
    <3> QED
      BY <2>1, <2>2, <3>1
  <2>3. CASE s \notin new.completed /\ e = SectionComplete(s, FALSE)
    <3>1. after = [doc EXCEPT !.completed = doc.completed \ {s}]
      BY <2>3, AppliedMark, Zenon
    <3> HIDE DEF after
    <3>2. WITNESS doc.completed \ {s}
    <3> QED
      BY <2>1, <2>3, <3>1
  <2> QED
    BY <1>1, <2>2, <2>3
<1> HIDE DEF after
<1>4. after = [state |-> doc.state, completed |-> done]
  <2>1. doc = [state |-> doc.state, completed |-> doc.completed]
    BY DEF Follows, IsDoc
  <2> QED
    BY <1>3, <2>1
<1>5. after.state = doc.state /\ after.completed = done
  BY <1>4
<1>6. IsDoc(after)
  BY <1>3, <1>4, <1>5 DEF Follows, IsDoc
<1>7. /\ \A i : changes(left, i) = changes(rest, i)
      /\ \A t, k : additions(left, t, k) = additions(rest, t, k) /\ moves(left, t, k) = moves(rest, t, k)
      /\ \A u : u # s => marks(left, u) = marks(rest, u)
  BY <1>2, LeftByMark
<1> HIDE DEF left
<1>9. AnswersFollow(doc.state, left, new)
  BY <1>7 DEF Follows, AnswersFollow
<1>10. InstancesFollow(S, doc.state, left, new)
  BY <1>7 DEF Follows, InstancesFollow
<1>11. ElementsFollow(S, doc.state, left, new)
  BY <1>7 DEF Follows, ElementsFollow
<1>12. MarksFollow(done, left, new)
  BY <1>3, <1>7 DEF Follows, MarksFollow
<1> QED
  BY <1>5, <1>6, <1>9, <1>10, <1>11, <1>12 DEF Follows, left, after

LEMMA FollowsInner ==
    ASSUME NEW S, NEW doc, NEW rest, NEW old, isSaved(old), NEW new, isSaved(new),
           rest \subseteq diffStates(old, new), Follows(S, doc, rest, new),
           NEW e \in rest, InnerEdit(e, old, new)
    PROVE  Follows(S, applied(doc, e), rest \ {e}, new)
<1> DEFINE left == rest \ {e}
           after == applied(doc, e)
<1>1. PICK c \in Tasks, k \in Index :
         /\ Parent[c] \in Repeatable
         /\ has(old.state, Parent[c], k) /\ has(new.state, Parent[c], k)
         /\ e = AnswerChange(<<c, k>>, at(new.state, Parent[c], k, c))
  BY DEF InnerEdit
<1> DEFINE t == Parent[c]
           value == at(new.state, t, k, c)
           state == answerChanged(doc.state, <<c, k>>, value)
<1>2. e.type = "answer_change" /\ e.id = <<c, k>>
  BY <1>1 DEF AnswerChange
<1>3. value \in AnswerOrNone
  <2>1. IsElement(elementAt(arrayIn(new.state, t), k))
    BY <1>1, SavedReads, ElementIsElement
  <2> QED
    BY <2>1 DEF IsElement, at, valueIn, AnswerOrNone
<1>4. t \in Tasks /\ t \in Repeatable
  BY <1>1, RepeatableAssumption
<1>5. IsDoc(doc) /\ Fine(doc.state)
  BY DEF Follows, IsDoc
<1> HIDE DEF value
<1>6. /\ Fine(state)
      /\ \/ /\ ~has(doc.state, t, k)
            /\ FlatBecomes(doc.state, state, <<c, k>>, value)
            /\ SameArrays(doc.state, state)
         \/ \E g \in Repeatable :
               /\ g = t \/ (g \in ToSet(Above[t]) /\ ~has(doc.state, t, k))
               /\ SameFlat(doc.state, state)
               /\ OnlyInstance(doc.state, state, g, k)
               /\ has(state, g, k)
               /\ \A d \in Tasks : at(state, g, k, d) = IF d = c THEN value ELSE at(doc.state, g, k, d)
  BY <1>1, <1>3, <1>5, GroupedChange
<1>7. after = [doc EXCEPT !.state = state]
  BY <1>1, AppliedChange DEF value
<1> HIDE DEF state, after
<1>8. IsDoc(after) /\ after.state = state /\ after.completed = doc.completed
  BY <1>5, <1>6, <1>7, NewState
<1>9. /\ \A i : i # <<c, k>> => changes(left, i) = changes(rest, i)
      /\ \A u, j : additions(left, u, j) = additions(rest, u, j) /\ moves(left, u, j) = moves(rest, u, j)
      /\ \A s : marks(left, s) = marks(rest, s)
  BY <1>2, LeftByChange
<1>10. <<c, k>> \in Ids /\ isGrouped(<<c, k>>) /\ taskOf(<<c, k>>) = c /\ indexOf(<<c, k>>) = k
  BY <1>4, MaxIndexAssumption DEF Ids, isGrouped, taskOf, indexOf, Index, NoIndex
<1>11. moves(rest, t, k) = {} /\ additions(rest, t, k) = {}
  <2>1. moves(rest, t, k) = {}
    BY <1>1, StayingInstance
  <2> QED
    BY <2>1 DEF moves
<1>12. certain(S, t, k) => has(doc.state, t, k)
  BY <1>1, <1>4, <1>11 DEF Follows, InstancesFollow
<1>13. MarksFollow(doc.completed, left, new)
  BY <1>9 DEF Follows, MarksFollow
<1> HIDE DEF left
<1>14. CASE /\ ~has(doc.state, t, k)
            /\ FlatBecomes(doc.state, state, <<c, k>>, value)
            /\ SameArrays(doc.state, state)
  <2>1. ~certain(S, t, k)
    BY <1>12, <1>14
  <2>2. Placed(S, state)
    BY <1>10, <1>14, <2>1 DEF Follows, Placed, FlatBecomes, SameArrays, SameInstance
  <2>3. AnswersFollow(state, left, new)
    BY <1>9, <1>10, <1>14 DEF Follows, AnswersFollow, FlatBecomes
  <2>4. InstancesFollow(S, state, left, new)
    BY <1>9, <1>14 DEF Follows, InstancesFollow, SameArrays, SameInstance
  <2>5. ElementsFollow(S, state, left, new)
    <3> SUFFICES ASSUME NEW d \in Tasks, NEW j \in Index, Parent[d] \in Repeatable, certain(S, Parent[d], j),
                        moves(left, Parent[d], j) = {}, changes(left, <<d, j>>) = {}
                 PROVE  at(state, Parent[d], j, d) = at(new.state, Parent[d], j, d)
      BY DEF ElementsFollow
    <3>1. <<d, j>> # <<c, k>>
      BY <2>1
    <3> QED
      BY <1>9, <1>14, <3>1 DEF Follows, ElementsFollow, SameArrays, SameInstance
  <2> QED
    BY <1>8, <1>13, <2>2, <2>3, <2>4, <2>5 DEF Follows, left, after
<1>15. ASSUME NEW g \in Repeatable,
              g = t \/ (g \in ToSet(Above[t]) /\ ~has(doc.state, t, k)),
              SameFlat(doc.state, state),
              OnlyInstance(doc.state, state, g, k),
              has(state, g, k),
              \A d \in Tasks : at(state, g, k, d) = IF d = c THEN value ELSE at(doc.state, g, k, d)
       PROVE  Follows(S, after, left, new)
  <2>1. g # t => ~certain(S, t, k) /\ ~certain(S, g, k)
    BY <1>4, <1>12, <1>15, CertainAround
  <2>2. \A u \in Repeatable, j \in Index : certain(S, u, j) /\ (u # g \/ j # k) => SameInstance(doc.state, state, u, j)
    BY <1>15 DEF OnlyInstance
  <2>3. certain(S, g, k) => g = t /\ has(doc.state, g, k)
    BY <2>1, <1>12
  <2>4. Placed(S, state)
    <3>1. \A id \in Ids : isGrouped(id) /\ certain(S, Parent[taskOf(id)], indexOf(id)) => flatAt(state, id) = Gone
      BY <1>15 DEF Follows, Placed, SameFlat
    <3>2. ASSUME NEW u \in Repeatable, NEW j \in Index, NEW d \in Tasks, at(state, u, j, d) # Gone
          PROVE  Parent[d] = u \/ (Parent[d] \in Repeatable /\ ~certain(S, Parent[d], j))
      <4>1. CASE at(state, u, j, d) = at(doc.state, u, j, d)
        BY <3>2, <4>1 DEF Follows, Placed
      <4>2. CASE u = g /\ j = k /\ d = c
        BY <1>4, <2>1, <4>2
      <4>3. CASE u # g \/ j # k
        BY <4>1, <4>3, <1>15 DEF OnlyInstance, SameInstance
      <4>4. CASE u = g /\ j = k /\ d # c
        BY <4>1, <4>4, <1>15
      <4> QED
        BY <4>2, <4>3, <4>4
    <3> QED
      BY <3>1, <3>2 DEF Placed
  <2>5. AnswersFollow(state, left, new)
    BY <1>9, <1>10, <1>15 DEF Follows, AnswersFollow, SameFlat
  <2>6. InstancesFollow(S, state, left, new)
    <3> SUFFICES ASSUME NEW u \in Repeatable, NEW j \in Index, certain(S, u, j)
                 PROVE  /\ additions(left, u, j) # {} => ~has(state, u, j)
                        /\ moves(left, u, j) = {} => (has(state, u, j) <=> has(new.state, u, j))
      BY DEF InstancesFollow
    <3>1. has(state, u, j) <=> has(doc.state, u, j)
      <4>1. CASE u # g \/ j # k
        BY <4>1, <2>2 DEF SameInstance
      <4>2. CASE u = g /\ j = k
        BY <4>2, <2>3, <1>15
      <4> QED
        BY <4>1, <4>2
    <3>2. additions(left, u, j) = additions(rest, u, j) /\ moves(left, u, j) = moves(rest, u, j)
      BY <1>9
    <3> QED
      BY <3>1, <3>2 DEF Follows, InstancesFollow
  <2>7. ElementsFollow(S, state, left, new)
    <3> SUFFICES ASSUME NEW d \in Tasks, NEW j \in Index, Parent[d] \in Repeatable, certain(S, Parent[d], j),
                        moves(left, Parent[d], j) = {}, changes(left, <<d, j>>) = {}
                 PROVE  at(state, Parent[d], j, d) = at(new.state, Parent[d], j, d)
      BY DEF ElementsFollow
    <3>1. CASE d = c /\ j = k
      <4>1. g = t /\ Parent[d] = g
        BY <3>1, <2>1
      <4> QED
        BY <3>1, <4>1, <1>15 DEF value
    <3>2. CASE d # c \/ j # k
      <4>1. moves(rest, Parent[d], j) = {} /\ changes(rest, <<d, j>>) = {}
        BY <3>2, <1>9
      <4>2. at(doc.state, Parent[d], j, d) = at(new.state, Parent[d], j, d)
        BY <4>1 DEF Follows, ElementsFollow
      <4>3. CASE Parent[d] # g \/ j # k
        BY <4>2, <4>3, <2>2 DEF SameInstance
      <4>4. CASE Parent[d] = g /\ j = k
        BY <3>2, <4>2, <4>4, <1>15
      <4> QED
        BY <4>3, <4>4
    <3> QED
      BY <3>1, <3>2
  <2> QED
    BY <1>8, <1>13, <2>4, <2>5, <2>6, <2>7 DEF Follows
<1>16. Follows(S, after, left, new)
  BY <1>6, <1>14, <1>15 DEF left, after
<1> QED
  BY <1>16 DEF left, after

LEMMA FollowsComing ==
    ASSUME NEW S, NEW doc, NEW rest, NEW old, isSaved(old), NEW new, isSaved(new),
           rest \subseteq diffStates(old, new), Follows(S, doc, rest, new),
           NEW e \in rest, ComingEdit(e, old, new)
    PROVE  Follows(S, applied(doc, e), rest \ {e}, new)
<1> DEFINE left == rest \ {e}
           after == applied(doc, e)
<1>1. PICK t \in Repeatable, k \in Index :
         /\ ~has(old.state, t, k) /\ has(new.state, t, k)
         /\ e = InstanceAdded(t, k, elementAt(arrayIn(new.state, t), k))
  BY DEF ComingEdit
<1> DEFINE x == elementAt(arrayIn(new.state, t), k)
           state == instanceAdded(doc.state, t, k, x)
<1>2. e.type = "instance_added" /\ e.id = <<t, k>>
  BY <1>1 DEF InstanceAdded
<1>3. IsElement(x) /\ \A c : valueIn(x, c) = at(new.state, t, k, c)
  BY SavedReads, ElementIsElement DEF at
<1>4. IsDoc(doc) /\ Fine(doc.state)
  BY DEF Follows, IsDoc
<1>5. after = [doc EXCEPT !.state = state]
  BY <1>1, AppliedAddition
<1> HIDE DEF x, after
<1>6. /\ Fine(state)
      /\ SameFlat(doc.state, state)
      /\ OnlyInstance(doc.state, state, t, k)
      /\ has(state, t, k)
      /\ \A c : at(state, t, k, c) = IF has(doc.state, t, k) THEN at(doc.state, t, k, c) ELSE valueIn(x, c)
  BY <1>3, <1>4, InstanceComes
<1> HIDE DEF state
<1>7. IsDoc(after) /\ after.state = state /\ after.completed = doc.completed
  BY <1>4, <1>5, <1>6, NewState
<1>8. /\ \A i : changes(left, i) = changes(rest, i)
      /\ \A u, j : u # t \/ j # k => additions(left, u, j) = additions(rest, u, j) /\ moves(left, u, j) = moves(rest, u, j)
      /\ \A u, j : additions(left, u, j) \subseteq additions(rest, u, j)
      /\ \A s : marks(left, s) = marks(rest, s)
  <2>1. e.type = "instance_added" \/ e.type = "instance_removed"
    BY <1>2
  <2>2. \A u, j : u # t \/ j # k => e.id # <<u, j>>
    BY <1>2
  <2>3. /\ \A i : changes(left, i) = changes(rest, i)
        /\ \A u, j : e.id # <<u, j>> =>
              additions(left, u, j) = additions(rest, u, j) /\ moves(left, u, j) = moves(rest, u, j)
        /\ \A u, j : additions(left, u, j) \subseteq additions(rest, u, j)
        /\ \A s : marks(left, s) = marks(rest, s)
    BY ONLY <2>1, LeftByMove DEF left
  <2> HIDE DEF left
  <2> QED
    BY <2>2, <2>3
<1>9. additions(left, t, k) = {}
  BY <1>1, <1>8, OneAddition DEF additions
<1>10. certain(S, t, k) => ~has(doc.state, t, k)
  <2>1. e \in additions(rest, t, k)
    BY <1>2 DEF additions
  <2> QED
    BY <2>1 DEF Follows, InstancesFollow
<1>11. MarksFollow(doc.completed, left, new)
  BY <1>8 DEF Follows, MarksFollow
<1> HIDE DEF left
<1>12. Placed(S, state)
  <2>1. \A id \in Ids : isGrouped(id) /\ certain(S, Parent[taskOf(id)], indexOf(id)) => flatAt(state, id) = Gone
    BY <1>6 DEF Follows, Placed, SameFlat
  <2>2. ASSUME NEW u \in Repeatable, NEW j \in Index, NEW d \in Tasks, at(state, u, j, d) # Gone
        PROVE  Parent[d] = u \/ (Parent[d] \in Repeatable /\ ~certain(S, Parent[d], j))
    <3>1. CASE at(state, u, j, d) = at(doc.state, u, j, d)
      BY <2>2, <3>1 DEF Follows, Placed
    <3>2. CASE u # t \/ j # k
      BY <3>1, <3>2, <1>6 DEF OnlyInstance, SameInstance
    <3>3. CASE u = t /\ j = k
      <4>1. at(state, u, j, d) = at(doc.state, u, j, d) \/ at(state, u, j, d) = at(new.state, u, j, d)
        BY <3>3, <1>3, <1>6
      <4>2. at(new.state, u, j, d) # Gone => Parent[d] = u
        BY SavedReads
      <4> QED
        BY <2>2, <3>1, <4>1, <4>2
    <3> QED
      BY <3>2, <3>3
  <2> QED
    BY <2>1, <2>2 DEF Placed
<1>13. AnswersFollow(state, left, new)
  BY <1>6, <1>8 DEF Follows, AnswersFollow, SameFlat
<1>14. InstancesFollow(S, state, left, new)
  <2> SUFFICES ASSUME NEW u \in Repeatable, NEW j \in Index, certain(S, u, j)
               PROVE  /\ additions(left, u, j) # {} => ~has(state, u, j)
                      /\ moves(left, u, j) = {} => (has(state, u, j) <=> has(new.state, u, j))
    BY DEF InstancesFollow
  <2>1. CASE u = t /\ j = k
    BY <2>1, <1>1, <1>6, <1>9
  <2>2. CASE u # t \/ j # k
    BY <2>2, <1>6, <1>8 DEF Follows, InstancesFollow, OnlyInstance, SameInstance
  <2> QED
    BY <2>1, <2>2
<1>15. ElementsFollow(S, state, left, new)
  <2> SUFFICES ASSUME NEW d \in Tasks, NEW j \in Index, Parent[d] \in Repeatable, certain(S, Parent[d], j),
                      moves(left, Parent[d], j) = {}, changes(left, <<d, j>>) = {}
               PROVE  at(state, Parent[d], j, d) = at(new.state, Parent[d], j, d)
    BY DEF ElementsFollow
  <2>1. CASE Parent[d] = t /\ j = k
    BY <2>1, <1>3, <1>6, <1>10
  <2>2. CASE Parent[d] # t \/ j # k
    BY <2>2, <1>6, <1>8 DEF Follows, ElementsFollow, OnlyInstance, SameInstance
  <2> QED
    BY <2>1, <2>2
<1> QED
  BY <1>7, <1>11, <1>12, <1>13, <1>14, <1>15 DEF Follows, left, after

LEMMA FollowsGoing ==
    ASSUME NEW S, NEW doc, NEW rest, NEW old, isSaved(old), NEW new, isSaved(new),
           Follows(S, doc, rest, new), NEW e \in rest, GoingEdit(e, old, new)
    PROVE  Follows(S, applied(doc, e), rest \ {e}, new)
<1> DEFINE left == rest \ {e}
           after == applied(doc, e)
<1>1. PICK t \in Repeatable, k \in Index :
         has(old.state, t, k) /\ ~has(new.state, t, k) /\ e = InstanceRemoved(t, k)
  BY DEF GoingEdit
<1> DEFINE state == instanceRemoved(doc.state, t, k)
<1>2. e.type = "instance_removed" /\ e.id = <<t, k>>
  BY <1>1 DEF InstanceRemoved
<1>3. \A c : at(new.state, t, k, c) = Gone
  BY <1>1, AbsentReads
<1>4. IsDoc(doc) /\ Fine(doc.state)
  BY DEF Follows, IsDoc
<1>5. after = [doc EXCEPT !.state = state]
  BY <1>1, AppliedRemoval
<1> HIDE DEF after
<1>6. /\ Fine(state)
      /\ SameFlat(doc.state, state)
      /\ OnlyInstance(doc.state, state, t, k)
      /\ ~has(state, t, k)
      /\ \A c : at(state, t, k, c) = Gone
  BY <1>4, InstanceGone
<1> HIDE DEF state
<1>7. IsDoc(after) /\ after.state = state /\ after.completed = doc.completed
  BY <1>4, <1>5, <1>6, NewState
<1>8. /\ \A i : changes(left, i) = changes(rest, i)
      /\ \A u, j : u # t \/ j # k => additions(left, u, j) = additions(rest, u, j) /\ moves(left, u, j) = moves(rest, u, j)
      /\ \A s : marks(left, s) = marks(rest, s)
  <2>1. e.type = "instance_added" \/ e.type = "instance_removed"
    BY <1>2
  <2>2. \A u, j : u # t \/ j # k => e.id # <<u, j>>
    BY <1>2
  <2>3. /\ \A i : changes(left, i) = changes(rest, i)
        /\ \A u, j : e.id # <<u, j>> =>
              additions(left, u, j) = additions(rest, u, j) /\ moves(left, u, j) = moves(rest, u, j)
        /\ \A u, j : additions(left, u, j) \subseteq additions(rest, u, j)
        /\ \A s : marks(left, s) = marks(rest, s)
    BY ONLY <2>1, LeftByMove DEF left
  <2> HIDE DEF left
  <2> QED
    BY <2>2, <2>3
<1>9. MarksFollow(doc.completed, left, new)
  BY <1>8 DEF Follows, MarksFollow
<1> HIDE DEF left
<1>10. Placed(S, state)
  BY <1>6 DEF Follows, Placed, SameFlat, OnlyInstance, SameInstance
<1>11. AnswersFollow(state, left, new)
  BY <1>6, <1>8 DEF Follows, AnswersFollow, SameFlat
<1>12. InstancesFollow(S, state, left, new)
  BY <1>1, <1>6, <1>8 DEF Follows, InstancesFollow, OnlyInstance, SameInstance
<1>13. ElementsFollow(S, state, left, new)
  BY <1>3, <1>6, <1>8 DEF Follows, ElementsFollow, OnlyInstance, SameInstance
<1> QED
  BY <1>7, <1>9, <1>10, <1>11, <1>12, <1>13 DEF Follows, left, after

\* Whichever of the edits that are left comes next.
LEMMA FollowsStep ==
    ASSUME NEW S, NEW doc, NEW rest, NEW old, isSaved(old), NEW new, isSaved(new),
           rest \subseteq diffStates(old, new), Follows(S, doc, rest, new), NEW e \in rest
    PROVE  Follows(S, applied(doc, e), rest \ {e}, new)
BY DiffKinds, FollowsPlain, FollowsInner, FollowsComing, FollowsGoing, FollowsMark

-------------------------------------------------------------------------------
\* The edits of a save are finitely many: each is known by its type and its place.

LEMMA FiniteIds == IsFiniteSet(Ids)
<1>1. 0 \in Int /\ MaxIndex \in Int
  BY MaxIndexAssumption
<1>2. IsFiniteSet(0..MaxIndex)
  BY ONLY <1>1, FS_Interval
<1>3. IsFiniteSet({NoIndex})
  BY ONLY FS_Singleton
<1>4. IsFiniteSet({NoIndex} \cup Index)
  BY ONLY <1>2, <1>3, FS_Union DEF Index
<1>5. IsFiniteSet(Tasks)
  BY FiniteAssumption
<1> QED
  BY ONLY <1>4, <1>5, FS_Product DEF Ids

EditTypes == {"answer_change", "instance_added"} \cup {"instance_removed", "section_complete"}

LEMMA FiniteTypes == IsFiniteSet(EditTypes)
<1>1. \A x, y : IsFiniteSet({x} \cup {y})
  BY ONLY FS_Singleton, FS_Union
<1>2. \A x, y : {x} \cup {y} = {x, y}
  OBVIOUS
<1>3. \A x, y : IsFiniteSet({x, y})
  <2> TAKE x, y
  <2>1. IsFiniteSet({x} \cup {y})
    BY ONLY <1>1
  <2>2. {x} \cup {y} = {x, y}
    BY ONLY <1>2
  <2> QED
    BY ONLY <2>1, <2>2
<1> QED
  BY ONLY <1>3, FS_Union DEF EditTypes

\* What an edit is, from its type and its place.
changeAt(id, new) ==
    AnswerChange(id, IF isGrouped(id) THEN at(new.state, Parent[id[1]], id[2], id[1]) ELSE flatAt(new.state, id))
additionAt(id, new) == InstanceAdded(id[1], id[2], elementAt(arrayIn(new.state, id[1]), id[2]))
removalAt(id) == InstanceRemoved(id[1], id[2])
HasForm(e, new) ==
    /\ e.type \in EditTypes /\ e.id \in Ids
    /\ e.type = "answer_change" => e = changeAt(e.id, new)
    /\ e.type = "instance_added" => e = additionAt(e.id, new)
    /\ e.type = "instance_removed" => e = removalAt(e.id)
    /\ e.type = "section_complete" =>
          \/ e.id[1] \in new.completed /\ e = SectionComplete(e.id[1], TRUE)
          \/ e.id[1] \notin new.completed /\ e = SectionComplete(e.id[1], FALSE)

LEMMA EditForm ==
    ASSUME NEW old, isSaved(old), NEW new, isSaved(new), NEW e \in diffStates(old, new)
    PROVE  HasForm(e, new)
<1>1. \A t \in Repeatable, k \in Index : <<t, k>> \in Ids
  BY RepeatableAssumption DEF Ids
<1>2. \A s \in Sections : <<s, NoIndex>> \in Ids
  BY SectionsAssumption DEF Ids
<1>3. CASE PlainEdit(e, new)
  <2>1. PICK id \in Ids : ~isGrouped(id) /\ e = AnswerChange(id, flatAt(new.state, id))
    BY <1>3 DEF PlainEdit
  <2>2. e.type = "answer_change" /\ e.id = id
    BY <2>1 DEF AnswerChange
  <2> QED
    BY <2>1, <2>2 DEF HasForm, EditTypes, changeAt, additionAt, removalAt
<1>4. CASE InnerEdit(e, old, new)
  <2>1. PICK c \in Tasks, k \in Index :
           Parent[c] \in Repeatable /\ e = AnswerChange(<<c, k>>, at(new.state, Parent[c], k, c))
    BY <1>4 DEF InnerEdit
  <2>2. e.type = "answer_change" /\ e.id = <<c, k>>
    BY <2>1 DEF AnswerChange
  <2>3. e.id \in Ids /\ e.id[1] = c /\ e.id[2] = k
    BY <2>2 DEF Ids
  <2>4. isGrouped(e.id)
    BY <2>1, <2>3, MaxIndexAssumption DEF isGrouped, taskOf, indexOf, Index, NoIndex
  <2> QED
    BY <2>1, <2>2, <2>3, <2>4 DEF HasForm, EditTypes, changeAt
<1>5. CASE ComingEdit(e, old, new)
  <2>1. PICK t \in Repeatable, k \in Index : e = InstanceAdded(t, k, elementAt(arrayIn(new.state, t), k))
    BY <1>5 DEF ComingEdit
  <2>2. e.type = "instance_added" /\ e.id = <<t, k>> /\ e.id[1] = t /\ e.id[2] = k
    BY <2>1 DEF InstanceAdded
  <2> QED
    BY <1>1, <2>1, <2>2 DEF HasForm, EditTypes, changeAt, additionAt, removalAt
<1>6. CASE GoingEdit(e, old, new)
  <2>1. PICK t \in Repeatable, k \in Index : e = InstanceRemoved(t, k)
    BY <1>6 DEF GoingEdit
  <2>2. e.type = "instance_removed" /\ e.id = <<t, k>> /\ e.id[1] = t /\ e.id[2] = k
    BY <2>1 DEF InstanceRemoved
  <2> QED
    BY <1>1, <2>1, <2>2 DEF HasForm, EditTypes, changeAt, additionAt, removalAt
<1>7. CASE MarkEdit(e, new)
  <2>1. PICK s \in Sections :
           \/ s \in new.completed /\ e = SectionComplete(s, TRUE)
           \/ s \notin new.completed /\ e = SectionComplete(s, FALSE)
    BY <1>7 DEF MarkEdit
  <2>2. \A done : SectionComplete(s, done).type = "section_complete" /\ SectionComplete(s, done).id = <<s, NoIndex>>
    BY DEF SectionComplete
  <2>3. e.type = "section_complete" /\ e.id = <<s, NoIndex>>
    <3>1. CASE e = SectionComplete(s, TRUE)
      BY ONLY <2>2, <3>1, Zenon
    <3>2. CASE e = SectionComplete(s, FALSE)
      BY ONLY <2>2, <3>2, Zenon
    <3> QED
      BY <2>1, <3>1, <3>2
  <2>4. e.id[1] = s
    BY <2>3
  <2>5. \/ e.id[1] \in new.completed /\ e = SectionComplete(e.id[1], TRUE)
        \/ e.id[1] \notin new.completed /\ e = SectionComplete(e.id[1], FALSE)
    BY ONLY <2>1, <2>4, Zenon
  <2>6. e.type \in EditTypes /\ e.id \in Ids
    BY <1>2, <2>3 DEF EditTypes
  <2>7. e.type # "answer_change" /\ e.type # "instance_added" /\ e.type # "instance_removed"
    BY <2>3
  <2> QED
    BY ONLY <2>5, <2>6, <2>7, Zenon DEF HasForm
<1> QED
  BY <1>3, <1>4, <1>5, <1>6, <1>7, DiffKinds

LEMMA DiffFinite ==
    ASSUME NEW old, isSaved(old), NEW new, isSaved(new)
    PROVE  IsFiniteSet(diffStates(old, new))
<1> DEFINE edits == diffStates(old, new)
           place == [e \in edits |-> <<e.type, e.id>>]
<1>1. place \in [edits -> EditTypes \X Ids]
  BY EditForm DEF HasForm
<1>2. ASSUME NEW e \in edits, NEW f \in edits, place[e] = place[f] PROVE e = f
  <2>1. HasForm(e, new) /\ HasForm(f, new)
    BY EditForm
  <2>2. e.type = f.type /\ e.id = f.id
    BY <1>2
  <2> HIDE DEF edits, place
  <2>3. CASE e.type = "answer_change"
    BY ONLY <2>1, <2>2, <2>3, Zenon DEF HasForm
  <2>4. CASE e.type = "instance_added"
    BY ONLY <2>1, <2>2, <2>4, Zenon DEF HasForm
  <2>5. CASE e.type = "instance_removed"
    BY ONLY <2>1, <2>2, <2>5, Zenon DEF HasForm
  <2>6. CASE e.type = "section_complete"
    BY ONLY <2>1, <2>2, <2>6, Zenon DEF HasForm
  <2>7. e.type \in EditTypes
    BY <2>1 DEF HasForm
  <2> QED
    BY <2>3, <2>4, <2>5, <2>6, <2>7 DEF EditTypes
<1>3. place \in Injection(edits, EditTypes \X Ids)
  <2> HIDE DEF edits
  <2>1. IsInjective(place)
    BY <1>2 DEF IsInjective
  <2> HIDE DEF place
  <2> QED
    BY <1>1, <2>1 DEF Injection
<1>4. IsFiniteSet(EditTypes \X Ids)
  BY ONLY FiniteIds, FiniteTypes, FS_Product
<1> HIDE DEF edits, place
<1>5. IsFiniteSet(edits)
  BY ONLY <1>3, <1>4, FS_Injection
<1> QED
  BY <1>5 DEF edits

-------------------------------------------------------------------------------
\* The beginning and the end of a replay

LEMMA NothingLeft ==
    /\ \A id : changes({}, id) = {}
    /\ \A t, k : additions({}, t, k) = {} /\ moves({}, t, k) = {}
    /\ \A s : marks({}, s) = {}
BY DEF changes, additions, removals, moves, marks

\* A document that says what was saved before is about to become the new one, the
\* group of a default instance that is not recorded apart.
LEMMA FollowsFirst ==
    ASSUME NEW old, isSaved(old), NEW new, isSaved(new), NEW S, NEW doc, Follows(S, doc, {}, old),
           NEW T, S \subseteq T,
           \A t \in Repeatable : has(new.state, t, 0) /\ skipDefault(arrayIn(old.state, t), 0) => t \in T
    PROVE  Follows(T, doc, diffStates(old, new), new)
<1> DEFINE edits == diffStates(old, new)
           state == doc.state
<1>1. \A t, k : certain(T, t, k) => certain(S, t, k)
  BY DEF certain
<1>2. \A t \in Repeatable : t \in T => ~certain(T, t, 0)
  BY DEF certain, groupsBelow
<1>3. /\ \A id \in Ids : ~isGrouped(id) => flatAt(state, id) = flatAt(old.state, id)
      /\ \A t \in Repeatable, k \in Index : certain(S, t, k) => (has(state, t, k) <=> has(old.state, t, k))
      /\ \A c \in Tasks, k \in Index : Parent[c] \in Repeatable /\ certain(S, Parent[c], k) =>
            at(state, Parent[c], k, c) = at(old.state, Parent[c], k, c)
      /\ \A s \in Sections : s \in doc.completed <=> s \in old.completed
  BY NothingLeft DEF Follows, AnswersFollow, InstancesFollow, ElementsFollow, MarksFollow
<1>4. IsDoc(doc)
  BY DEF Follows
<1>5. Placed(T, state)
  BY <1>1 DEF Follows, Placed
<1>6. /\ \A id \in Ids : flatAt(old.state, id) # flatAt(new.state, id) => changes(edits, id) # {}
      /\ \A t \in Repeatable, k \in Index :
            ~(has(new.state, t, k) <=> has(old.state, t, k)) =>
               (has(new.state, t, k) /\ skipDefault(arrayIn(old.state, t), k)) \/ moves(edits, t, k) # {}
      /\ \A t \in Repeatable, k \in Index, c \in Tasks :
            has(old.state, t, k) /\ has(new.state, t, k) /\ at(old.state, t, k, c) # at(new.state, t, k, c) =>
               changes(edits, <<c, k>>) # {}
      /\ \A s \in Sections :
            ~(s \in new.completed <=> s \in old.completed) => marks(edits, s) # {}
  <2>0. Covers(edits, old, new)
    BY DiffCovers
  <2> HIDE DEF edits
  <2>1. \A id \in Ids : flatAt(old.state, id) # flatAt(new.state, id) => changes(edits, id) # {}
    BY <2>0 DEF Covers, changes
  <2>2. ASSUME NEW t \in Repeatable, NEW k \in Index, ~(has(new.state, t, k) <=> has(old.state, t, k)),
               ~(has(new.state, t, k) /\ skipDefault(arrayIn(old.state, t), k))
        PROVE  moves(edits, t, k) # {}
    <3>1. PICK e \in edits : (e.type = "instance_added" \/ e.type = "instance_removed") /\ e.id = <<t, k>>
      BY <2>0, <2>2 DEF Covers
    <3> QED
      BY <3>1 DEF moves, additions, removals
  <2>3. \A t \in Repeatable, k \in Index, c \in Tasks :
           has(old.state, t, k) /\ has(new.state, t, k) /\ at(old.state, t, k, c) # at(new.state, t, k, c) =>
              changes(edits, <<c, k>>) # {}
    BY <2>0 DEF Covers, changes
  <2>4. \A s \in Sections : ~(s \in new.completed <=> s \in old.completed) => marks(edits, s) # {}
    BY <2>0 DEF Covers, marks
  <2> QED
    BY <2>1, <2>2, <2>3, <2>4
<1>7. AnswersFollow(state, edits, new)
  BY <1>3, <1>6 DEF AnswersFollow
<1>8. ASSUME NEW t \in Repeatable, NEW k \in Index, certain(T, t, k)
      PROVE  /\ additions(edits, t, k) # {} => ~has(old.state, t, k)
             /\ moves(edits, t, k) = {} => (has(old.state, t, k) <=> has(new.state, t, k))
  <2>1. additions(edits, t, k) # {} => ~has(old.state, t, k)
    <3> SUFFICES ASSUME NEW e \in additions(edits, t, k) PROVE ~has(old.state, t, k)
      OBVIOUS
    <3> QED
      BY OneAddition
  <2>2. has(new.state, t, k) /\ skipDefault(arrayIn(old.state, t), k) => FALSE
    BY <1>2, <1>8 DEF skipDefault
  <2> QED
    BY <1>6, <2>1, <2>2
<1> HIDE DEF edits
<1>9. InstancesFollow(T, state, edits, new)
  BY <1>1, <1>3, <1>8 DEF InstancesFollow
<1>10. ElementsFollow(T, state, edits, new)
  <2> SUFFICES ASSUME NEW c \in Tasks, NEW k \in Index, Parent[c] \in Repeatable, certain(T, Parent[c], k),
                      moves(edits, Parent[c], k) = {}, changes(edits, <<c, k>>) = {}
               PROVE  at(state, Parent[c], k, c) = at(new.state, Parent[c], k, c)
    BY DEF ElementsFollow
  <2>1. at(state, Parent[c], k, c) = at(old.state, Parent[c], k, c)
    BY <1>1, <1>3
  <2>2. has(old.state, Parent[c], k) <=> has(new.state, Parent[c], k)
    BY <1>8
  <2>3. CASE has(old.state, Parent[c], k)
    BY <1>6, <2>1, <2>2, <2>3
  <2>4. CASE ~has(old.state, Parent[c], k)
    BY <2>1, <2>2, <2>4, AbsentReads
  <2> QED
    BY <2>3, <2>4
<1>11. MarksFollow(doc.completed, edits, new)
  BY <1>3, <1>6 DEF MarksFollow
<1> QED
  BY <1>4, <1>5, <1>7, <1>9, <1>10, <1>11 DEF Follows, edits

\* What was saved is its own replay.
LEMMA FollowsSelf ==
    ASSUME NEW doc, isSaved(doc)
    PROVE  Follows({}, doc, {}, doc)
<1>1. IsDoc(doc)
  BY SavedReads DEF IsDoc
<1>2. Placed({}, doc.state)
  BY SavedReads DEF Placed
<1> QED
  BY <1>1, <1>2, NothingLeft DEF Follows, AnswersFollow, InstancesFollow, ElementsFollow, MarksFollow

-------------------------------------------------------------------------------
\* The recursion of replays

nextReplays(replaysOf) == UNION {{<<applied(p[1], e), p[2] \ {e}>> : e \in p[2]} : p \in replaysOf}

\* A document and the edits that are left, once some of them have been applied.
LEMMA ReplaysDefined ==
    ASSUME NEW start, NEW n \in Nat
    PROVE  \E f : f = [i \in 0..n |-> IF i = 0 THEN start ELSE nextReplays(f[i - 1])]
<1> DEFINE S == {m \in Nat : \E f : f = [i \in 0..m |-> IF i = 0 THEN start ELSE nextReplays(f[i - 1])]}
<1>1. 0 \in S
  <2> DEFINE f == [i \in 0..0 |-> start]
  <2>1. f = [i \in 0..0 |-> IF i = 0 THEN start ELSE nextReplays(f[i - 1])]
    OBVIOUS
  <2> HIDE DEF f
  <2> QED
    BY <2>1
<1>2. ASSUME NEW m \in Nat, m \in S PROVE m + 1 \in S
  <2>1. PICK f : f = [i \in 0..m |-> IF i = 0 THEN start ELSE nextReplays(f[i - 1])]
    BY <1>2
  <2> DEFINE g == [i \in 0..(m + 1) |-> IF i <= m THEN f[i] ELSE nextReplays(f[m])]
             h == [i \in 0..(m + 1) |-> IF i = 0 THEN start ELSE nextReplays(g[i - 1])]
  <2>2. f[0] = start /\ \A i \in 1..m : f[i] = nextReplays(f[i - 1])
    <3>1. 0 \in 0..m /\ \A i \in 1..m : i \in 0..m /\ i # 0
      OBVIOUS
    <3> QED
      BY ONLY <2>1, <3>1
  <2>3. ASSUME NEW i \in 0..(m + 1) PROVE g[i] = h[i]
    <3>1. CASE i = 0
      <4>1. g[0] = f[0]
        OBVIOUS
      <4> QED
        BY <2>2, <3>1, <4>1
    <3>2. CASE i \in 1..m
      <4>1. i - 1 \in 0..(m + 1) /\ i - 1 <= m /\ i <= m
        BY <3>2
      <4>2. g[i] = f[i] /\ g[i - 1] = f[i - 1]
        BY <4>1
      <4>3. h[i] = nextReplays(g[i - 1])
        BY <3>2
      <4> QED
        BY <2>2, <3>2, <4>2, <4>3
    <3>3. CASE i = m + 1
      <4>1. m \in 0..(m + 1) /\ (m + 1) - 1 = m /\ ~(m + 1 <= m) /\ m + 1 # 0
        OBVIOUS
      <4>2. g[m] = f[m] /\ g[m + 1] = nextReplays(f[m])
        BY <4>1
      <4>3. h[m + 1] = nextReplays(g[m])
        BY <4>1
      <4> QED
        BY <3>3, <4>2, <4>3
    <3> QED
      BY <3>1, <3>2, <3>3
  <2>4. g = [i \in 0..(m + 1) |-> g[i]] /\ h = [i \in 0..(m + 1) |-> h[i]]
    OBVIOUS
  <2>5. g = h
    BY <2>3, <2>4
  <2>6. g = [i \in 0..(m + 1) |-> IF i = 0 THEN start ELSE nextReplays(g[i - 1])]
    BY <2>5
  <2> HIDE DEF g, h
  <2> QED
    BY <2>6
<1> HIDE DEF S
<1>3. Nat \subseteq S
  BY <1>1, <1>2, NatSetInduction
<1> QED
  BY <1>3 DEF S

LEMMA ReplaysFollow ==
    ASSUME NEW doc, NEW edits, Cardinality(edits) \in Nat
    PROVE  \E after :
              /\ after[0] = {<<doc, edits>>}
              /\ \A n \in 1..Cardinality(edits) : after[n] = nextReplays(after[n - 1])
              /\ replays(doc, edits) = {p[1] : p \in after[Cardinality(edits)]}
<1> DEFINE N == Cardinality(edits)
           step(f) == [n \in 0..N |-> IF n = 0 THEN {<<doc, edits>>} ELSE nextReplays(f[n - 1])]
           after == CHOOSE f : f = step(f)
<1>1. \E f : f = step(f)
  BY ReplaysDefined
<1>2. after = step(after)
  BY <1>1
<1>3. replays(doc, edits) = {p[1] : p \in after[N]}
  BY DEF replays, nextReplays
<1> HIDE DEF after
<1>4. after[0] = {<<doc, edits>>} /\ \A n \in 1..N : after[n] = nextReplays(after[n - 1])
  <2>1. 0 \in 0..N /\ \A n \in 1..N : n \in 0..N /\ n # 0
    OBVIOUS
  <2> QED
    BY ONLY <1>2, <2>1 DEF step
<1> QED
  BY <1>3, <1>4

\* Any replay of the edits of a save ends with what was saved.
LEMMA ReplaysEnd ==
    ASSUME NEW S, NEW old, isSaved(old), NEW new, isSaved(new), NEW doc,
           Follows(S, doc, diffStates(old, new), new), NEW end \in replays(doc, diffStates(old, new))
    PROVE  Follows(S, end, {}, new)
<1> DEFINE edits == diffStates(old, new)
           N == Cardinality(edits)
<1>1. IsFiniteSet(edits) /\ N \in Nat
  BY DiffFinite, FS_CardinalityType
<1>2. PICK after : /\ after[0] = {<<doc, edits>>}
                   /\ \A n \in 1..N : after[n] = nextReplays(after[n - 1])
                   /\ replays(doc, edits) = {p[1] : p \in after[N]}
  BY <1>1, ReplaysFollow
<1> DEFINE Good(p, n) == /\ p[2] \subseteq edits /\ IsFiniteSet(p[2]) /\ Cardinality(p[2]) = N - n
                         /\ Follows(S, p[1], p[2], new)
           T == {n \in Nat : n <= N => \A p \in after[n] : Good(p, n)}
<1>3. 0 \in T
  BY <1>1, <1>2
<1>4. ASSUME NEW n \in Nat, n \in T PROVE n + 1 \in T
  <2> SUFFICES ASSUME n + 1 <= N, NEW p \in after[n + 1] PROVE Good(p, n + 1)
    OBVIOUS
  <2>1. n + 1 \in 1..N /\ (n + 1) - 1 = n /\ n <= N
    BY <1>1
  <2>2. p \in nextReplays(after[n])
    BY <1>2, <2>1
  <2>3. PICK q \in after[n] : \E e \in q[2] : p = <<applied(q[1], e), q[2] \ {e}>>
    BY <2>2 DEF nextReplays
  <2> PICK e \in q[2] : p = <<applied(q[1], e), q[2] \ {e}>>
    BY <2>3
  <2>4. Good(q, n)
    BY <1>4, <2>1
  <2>5. p[1] = applied(q[1], e) /\ p[2] = q[2] \ {e}
    OBVIOUS
  <2>6. Follows(S, applied(q[1], e), q[2] \ {e}, new)
    BY <2>4, FollowsStep
  <2>7. IsFiniteSet(q[2] \ {e}) /\ Cardinality(q[2] \ {e}) = Cardinality(q[2]) - 1
    BY <2>4, FS_RemoveElement
  <2>8. (N - n) - 1 = N - (n + 1)
    BY <1>1
  <2> QED
    BY <2>4, <2>5, <2>6, <2>7, <2>8
<1> HIDE DEF T
<1>5. N \in T
  BY <1>1, <1>3, <1>4, NatSetInduction
<1>6. PICK p \in after[N] : end = p[1]
  BY <1>2
<1>7. Good(p, N)
  BY <1>1, <1>5, <1>6 DEF T
<1>8. p[2] = {}
  <2>1. Cardinality(p[2]) = 0
    BY <1>1, <1>7
  <2> QED
    BY <1>7, <2>1, FS_EmptySet
<1> QED
  BY <1>6, <1>7, <1>8

-------------------------------------------------------------------------------
\* The inductive invariant: the replay reads as what was saved wherever it is certain.
LogInv ==
    /\ isSaved(cached)
    /\ implicit \subseteq Repeatable
    /\ Follows(implicit, replayed, {}, cached)

LEMMA EmptySaved == isSaved([state |-> EmptyState, completed |-> {}])
<1> DEFINE doc == [state |-> EmptyState, completed |-> {}]
<1>1. /\ doc.state = EmptyState /\ doc.completed = {}
      /\ EmptyState.flat = [id \in {} |-> id] /\ EmptyState.arrays = [t \in {} |-> t]
      /\ EmptyState = [flat |-> EmptyState.flat, arrays |-> EmptyState.arrays]
  BY DEF EmptyState
<1>2. DOMAIN EmptyState.flat = {} /\ DOMAIN EmptyState.arrays = {}
  BY <1>1
<1>3. EmptyState.flat \in [DOMAIN EmptyState.flat -> Values]
  BY <1>1
<1>4. IsState(EmptyState)
  BY <1>2, <1>3 DEF IsState, IsAnswers
<1> QED
  BY <1>1, <1>2, <1>4 DEF isSaved

LEMMA InitLogInv == Init => LogInv
<1> SUFFICES ASSUME Init PROVE LogInv
  OBVIOUS
<1>1. isSaved(cached)
  BY EmptySaved, SavesAssumption DEF Init
<1>2. replayed = cached /\ implicit = {}
  BY DEF Init
<1> QED
  BY <1>1, <1>2, FollowsSelf DEF LogInv

LEMMA NextLogInv == LogInv /\ [Next]_vars => LogInv'
<1> SUFFICES ASSUME LogInv, [Next]_vars PROVE LogInv'
  OBVIOUS
<1>1. CASE UNCHANGED vars
  BY <1>1 DEF LogInv, vars
<1>2. ASSUME NEW new \in Saves, Save(new) PROVE LogInv'
  <2>1. isSaved(cached) /\ isSaved(new)
    BY SavesAssumption DEF LogInv
  <2> DEFINE skipped == {t \in DOMAIN new.state.arrays :
                            0 \in DOMAIN new.state.arrays[t] /\ skipDefault(arrayIn(cached.state, t), 0)}
  <2>2. /\ replayed' \in replays(replayed, diffStates(cached, new))
        /\ cached' = new
        /\ implicit' = implicit \cup skipped
    BY <1>2 DEF Save
  <2>3. implicit' \subseteq Repeatable
    BY <2>1, <2>2 DEF LogInv, isSaved, IsState
  <2>4. \A t \in Repeatable : has(new.state, t, 0) /\ skipDefault(arrayIn(cached.state, t), 0) => t \in implicit'
    BY <2>2 DEF has, arrayIn
  <2> HIDE DEF skipped
  <2>5. Follows(implicit', replayed, diffStates(cached, new), new)
    BY <2>1, <2>2, <2>4, FollowsFirst DEF LogInv
  <2>6. Follows(implicit', replayed', {}, new)
    BY <2>1, <2>2, <2>5, ReplaysEnd
  <2> QED
    BY <2>1, <2>2, <2>3, <2>6 DEF LogInv
<1> QED
  BY <1>1, <1>2 DEF Next

LEMMA LogInvHolds == Spec => []LogInv
BY InitLogInv, NextLogInv, PTL DEF Spec

-------------------------------------------------------------------------------
\* What follows from it

LEMMA CertainIsRecorded == \A t, k : certain(implicit, t, k) <=> recorded(t, k)
BY DEF certain, recorded

\* The rebuilt state is always one that the form could have saved, and above index 0
\* an instance holds answers of its own group only, however the rows are ordered.
THEOREM ElementsHoldTheirOwnHolds == Spec => []ElementsHoldTheirOwn
<1>1. LogInv => ElementsHoldTheirOwn
  <2> SUFFICES ASSUME LogInv PROVE ElementsHoldTheirOwn
    OBVIOUS
  <2>1. EditTypeOK
    BY DEF LogInv, EditTypeOK, Follows, IsDoc, Fine, isSaved
  <2>2. ASSUME NEW t \in DOMAIN replayed.state.arrays, NEW k \in Index \ {0},
               NEW c \in DOMAIN elementAt(arrayIn(replayed.state, t), k)
        PROVE  Parent[c] = t
    <3>1. Fine(replayed.state) /\ t \in Repeatable
      BY DEF LogInv, Follows, IsDoc, Fine, IsState
    <3>2. IsElement(elementAt(arrayIn(replayed.state, t), k))
      BY <3>1, ElementIsElement
    <3>3. c \in Tasks /\ at(replayed.state, t, k, c) # Gone
      BY <3>2, GoneAssumption DEF IsElement, at, valueIn
    <3>4. certain(implicit, Parent[c], k)
      BY DEF certain
    <3> QED
      BY <3>1, <3>3, <3>4 DEF LogInv, Follows, Placed
  <2> QED
    BY <2>1, <2>2 DEF ElementsHoldTheirOwn
<1> QED
  BY <1>1, LogInvHolds, PTL

\* What a state says of an answer: in the array of its group, or outside the groups.
look(state, id) ==
    IF isGrouped(id) THEN at(state, Parent[taskOf(id)], indexOf(id), taskOf(id)) ELSE flatAt(state, id)

LEMMA InElements ==
    ASSUME NEW state, Fine(state), NEW t \in DOMAIN state.arrays, NEW id
    PROVE  /\ id \in elementIds(state.arrays[t]) =>
                 /\ id \in Ids /\ indexOf(id) \in Index
                 /\ at(state, t, indexOf(id), taskOf(id)) # Gone
                 /\ state.arrays[t][indexOf(id)][taskOf(id)] = at(state, t, indexOf(id), taskOf(id))
           /\ id \in Ids /\ indexOf(id) \in Index /\ at(state, t, indexOf(id), taskOf(id)) # Gone =>
                 id \in elementIds(state.arrays[t])
<1> DEFINE array == state.arrays[t]
<1>1. arrayIn(state, t) = array
  BY DEF arrayIn
<1>2. t \in Repeatable /\ DOMAIN array \subseteq Index /\ \A k \in DOMAIN array : IsElement(array[k])
  BY DEF Fine, IsState
<1>3. elementIds(array) = UNION {{<<c, k>> : c \in DOMAIN array[k]} : k \in DOMAIN array}
  BY DEF elementIds
<1>4. \A k, c : at(state, t, k, c) = IF k \in DOMAIN array THEN valueIn(array[k], c) ELSE Gone
  BY <1>1 DEF at, elementAt, NewElement, valueIn
<1> HIDE DEF array
<1>5. ASSUME id \in elementIds(array)
      PROVE  /\ id \in Ids /\ indexOf(id) \in Index
             /\ at(state, t, indexOf(id), taskOf(id)) # Gone
             /\ array[indexOf(id)][taskOf(id)] = at(state, t, indexOf(id), taskOf(id))
  <2>1. PICK k \in DOMAIN array : \E c \in DOMAIN array[k] : id = <<c, k>>
    BY <1>3, <1>5
  <2>2. PICK c \in DOMAIN array[k] : id = <<c, k>>
    BY <2>1
  <2>3. taskOf(id) = c /\ indexOf(id) = k
    BY <2>2 DEF taskOf, indexOf
  <2>4. c \in Tasks /\ k \in Index /\ array[k][c] \in Values
    BY <1>2 DEF IsElement
  <2>5. at(state, t, k, c) = array[k][c]
    BY <1>4 DEF valueIn
  <2>6. id \in Ids
    BY <2>2, <2>4 DEF Ids
  <2> QED
    BY <2>3, <2>4, <2>5, <2>6, GoneAssumption
<1>6. ASSUME id \in Ids, at(state, t, indexOf(id), taskOf(id)) # Gone PROVE id \in elementIds(array)
  <2>1. indexOf(id) \in DOMAIN array /\ taskOf(id) \in DOMAIN array[indexOf(id)]
    BY <1>4, <1>6 DEF valueIn
  <2>2. id = <<taskOf(id), indexOf(id)>>
    BY <1>6, IdOf
  <2> QED
    BY <1>3, <2>1, <2>2
<1> QED
  BY <1>5, <1>6 DEF array

\* Taking a state apart gives the answer that it says, wherever it is certain.
LEMMA FlattenReads ==
    ASSUME NEW S, NEW state, Fine(state), Placed(S, state), NEW id \in Ids,
           isGrouped(id) => certain(S, Parent[taskOf(id)], indexOf(id))
    PROVE  LET answers == flattenGroupedAnswers(state)
           IN  /\ id \in DOMAIN answers <=> look(state, id) # Gone
               /\ id \in DOMAIN answers => answers[id] = look(state, id)
<1> DEFINE answers == flattenGroupedAnswers(state)
           home == Parent[taskOf(id)]
<1>1. /\ DOMAIN answers = DOMAIN state.flat \cup arrayIds(state.arrays)
      /\ id \in arrayIds(state.arrays) =>
            answers[id] = state.arrays[arrayWith(state.arrays, id)][indexOf(id)][taskOf(id)]
      /\ id \in DOMAIN state.flat \ arrayIds(state.arrays) => answers[id] = state.flat[id]
  BY DEF flattenGroupedAnswers
<1>2. id \in arrayIds(state.arrays) <=> \E t \in DOMAIN state.arrays : id \in elementIds(state.arrays[t])
  BY DEF arrayIds
<1>3. /\ id \in DOMAIN state.flat <=> flatAt(state, id) # Gone
      /\ id \in DOMAIN state.flat => state.flat[id] = flatAt(state, id)
  BY GoneAssumption DEF flatAt, valueIn, Fine, IsState, IsAnswers
<1>4. taskOf(id) \in Tasks
  BY IdOf
<1>5. DOMAIN state.arrays \subseteq Repeatable
  BY DEF Fine, IsState
<1>6. ASSUME NEW t \in DOMAIN state.arrays, id \in elementIds(state.arrays[t])
      PROVE  isGrouped(id) /\ t = home
  <2>1. indexOf(id) \in Index /\ at(state, t, indexOf(id), taskOf(id)) # Gone
    BY <1>6, InElements
  <2>2. home = t \/ (home \in Repeatable /\ ~certain(S, home, indexOf(id)))
    BY <1>4, <1>5, <2>1 DEF Placed
  <2>3. indexOf(id) # NoIndex
    BY <2>1, MaxIndexAssumption DEF Index, NoIndex
  <2>4. isGrouped(id)
    BY <1>5, <2>2, <2>3 DEF isGrouped
  <2> QED
    BY <2>2, <2>4
<1> HIDE DEF answers
<1>7. CASE ~isGrouped(id)
  <2>1. id \notin arrayIds(state.arrays)
    BY <1>2, <1>6, <1>7
  <2>2. look(state, id) = flatAt(state, id)
    BY <1>7 DEF look
  <2> QED
    BY <1>1, <1>3, <2>1, <2>2 DEF answers
<1>8. CASE isGrouped(id)
  <2>1. id \notin DOMAIN state.flat
    BY <1>3, <1>8 DEF Placed
  <2>2. look(state, id) = at(state, home, indexOf(id), taskOf(id))
    BY <1>8 DEF look
  <2>3. indexOf(id) \in Index
    BY <1>8, IdOf DEF isGrouped
  <2>4. id \in arrayIds(state.arrays) => home \in DOMAIN state.arrays /\ id \in elementIds(state.arrays[home])
    BY <1>2, <1>6
  <2>5. look(state, id) # Gone => home \in DOMAIN state.arrays
    BY <2>2 DEF at, arrayIn, elementAt, NewElement, valueIn
  <2>6. home \in DOMAIN state.arrays /\ id \in elementIds(state.arrays[home]) =>
           /\ look(state, id) # Gone
           /\ state.arrays[home][indexOf(id)][taskOf(id)] = look(state, id)
           /\ arrayWith(state.arrays, id) = home
    <3>1. SUFFICES ASSUME home \in DOMAIN state.arrays, id \in elementIds(state.arrays[home])
                   PROVE  /\ look(state, id) # Gone
                          /\ state.arrays[home][indexOf(id)][taskOf(id)] = look(state, id)
                          /\ arrayWith(state.arrays, id) = home
      OBVIOUS
    <3>2. look(state, id) # Gone /\ state.arrays[home][indexOf(id)][taskOf(id)] = look(state, id)
      BY <2>2, <3>1, InElements
    <3>3. arrayWith(state.arrays, id) = home
      BY <3>1 DEF arrayWith
    <3> QED
      BY <3>2, <3>3
  <2>7. look(state, id) # Gone => id \in elementIds(state.arrays[home])
    BY <2>2, <2>3, <2>5, InElements
  <2> QED
    BY <1>1, <1>2, <2>1, <2>4, <2>5, <2>6, <2>7 DEF answers
<1> QED
  BY <1>7, <1>8

LEMMA FlattenIds ==
    ASSUME NEW state, Fine(state)
    PROVE  DOMAIN flattenGroupedAnswers(state) \subseteq Ids
<1>1. DOMAIN flattenGroupedAnswers(state) = DOMAIN state.flat \cup arrayIds(state.arrays)
  BY DEF flattenGroupedAnswers
<1>2. DOMAIN state.flat \subseteq Ids
  BY DEF Fine, IsState, IsAnswers
<1>3. arrayIds(state.arrays) \subseteq Ids
  BY InElements DEF arrayIds
<1> QED
  BY <1>1, <1>2, <1>3

\* However many saves, each with its rows in any order: the replay holds what was
\* saved, but for index 0 of the groups whose first instance was taken for the default.
THEOREM HistoryHoldsTheRestHolds == Spec => []HistoryHoldsTheRest
<1>1. LogInv => HistoryHoldsTheRest
  <2> SUFFICES ASSUME LogInv PROVE HistoryHoldsTheRest
    OBVIOUS
  <2> DEFINE now == flattenGroupedAnswers(cached.state)
             rebuilt == flattenGroupedAnswers(replayed.state)
             kept(answers) == {id \in DOMAIN answers : isGrouped(id) => recorded(Parent[taskOf(id)], indexOf(id))}
  <2>1. Fine(replayed.state) /\ Placed(implicit, replayed.state)
    BY DEF LogInv, Follows, IsDoc
  <2>2. Fine(cached.state) /\ Placed(implicit, cached.state)
    BY SavedReads DEF LogInv, Placed
  <2>3. /\ \A id \in Ids : ~isGrouped(id) => flatAt(replayed.state, id) = flatAt(cached.state, id)
        /\ \A t \in Repeatable, k \in Index : certain(implicit, t, k) =>
              (has(replayed.state, t, k) <=> has(cached.state, t, k))
        /\ \A c \in Tasks, k \in Index : Parent[c] \in Repeatable /\ certain(implicit, Parent[c], k) =>
              at(replayed.state, Parent[c], k, c) = at(cached.state, Parent[c], k, c)
        /\ \A s \in Sections : s \in replayed.completed <=> s \in cached.completed
    BY NothingLeft DEF LogInv, Follows, AnswersFollow, InstancesFollow, ElementsFollow, MarksFollow
  <2>4. replayed.completed = cached.completed
    BY <2>3, SavedReads DEF LogInv, Follows, IsDoc
  <2>5. ASSUME NEW id \in Ids, isGrouped(id) => recorded(Parent[taskOf(id)], indexOf(id))
        PROVE  /\ id \in DOMAIN rebuilt <=> id \in DOMAIN now
               /\ id \in DOMAIN rebuilt => rebuilt[id] = now[id]
    <3>1. isGrouped(id) => certain(implicit, Parent[taskOf(id)], indexOf(id))
      BY <2>5, CertainIsRecorded
    <3>2. look(replayed.state, id) = look(cached.state, id)
      <4>1. CASE isGrouped(id)
        <5>1. taskOf(id) \in Tasks /\ indexOf(id) \in Index /\ Parent[taskOf(id)] \in Repeatable
          BY <4>1, IdOf DEF isGrouped
        <5> QED
          BY <2>3, <3>1, <4>1, <5>1 DEF look
      <4>2. CASE ~isGrouped(id)
        BY <2>3, <4>2 DEF look
      <4> QED
        BY <4>1, <4>2
    <3>3. /\ id \in DOMAIN rebuilt <=> look(replayed.state, id) # Gone
          /\ id \in DOMAIN rebuilt => rebuilt[id] = look(replayed.state, id)
      BY <2>1, <3>1, FlattenReads
    <3>4. /\ id \in DOMAIN now <=> look(cached.state, id) # Gone
          /\ id \in DOMAIN now => now[id] = look(cached.state, id)
      BY <2>2, <3>1, FlattenReads
    <3> HIDE DEF now, rebuilt
    <3> QED
      BY <3>2, <3>3, <3>4
  <2>6. DOMAIN rebuilt \subseteq Ids /\ DOMAIN now \subseteq Ids
    BY <2>1, <2>2, FlattenIds
  <2> HIDE DEF now, rebuilt
  <2>7. kept(rebuilt) = kept(now) /\ \A id \in kept(rebuilt) : rebuilt[id] = now[id]
    BY <2>5, <2>6
  <2>8. Restrict(rebuilt, kept(rebuilt)) = Restrict(now, kept(now))
    <3> HIDE DEF kept
    <3> QED
      BY <2>7 DEF Restrict
  <2>9. \A t \in Repeatable, k \in Index :
           recorded(t, k) => (k \in DOMAIN arrayIn(replayed.state, t) <=> k \in DOMAIN arrayIn(cached.state, t))
    BY <2>3, CertainIsRecorded DEF has
  <2> QED
    BY <2>4, <2>8, <2>9 DEF HistoryHoldsTheRest, kept, now, rebuilt
<1> QED
  BY <1>1, LogInvHolds, PTL

\* The assumption on what is saved is no restriction: groupAnswers keeps it, for all
\* answers and instances.
THEOREM GroupedIsSaved ==
    ASSUME NEW answers, IsAnswers(answers), NEW instances, instances \subseteq Ids,
           NEW completed, completed \subseteq Sections
    PROVE  isSaved([state |-> groupAnswers(answers, instances), completed |-> completed])
<1> DEFINE flat == [id \in {i \in DOMAIN answers : ~isGrouped(i)} |-> answers[id]]
           arrays == [t \in groupedTasks(answers, instances) |->
                        [k \in elementIndices(answers, instances, t) |-> element(answers, t, k)]]
           state == groupAnswers(answers, instances)
           doc == [state |-> state, completed |-> completed]
<1>1. state = [flat |-> flat, arrays |-> arrays]
  BY DEF groupAnswers
<1>2. IsAnswers(flat) /\ \A id \in DOMAIN flat : ~isGrouped(id)
  BY DEF IsAnswers
<1>3. ASSUME NEW t \in DOMAIN arrays
      PROVE  /\ t \in Repeatable /\ DOMAIN arrays[t] # {} /\ DOMAIN arrays[t] \subseteq Index
             /\ \A k \in DOMAIN arrays[t] : IsElement(arrays[t][k]) /\ \A c \in DOMAIN arrays[t][k] : Parent[c] = t
  <2>1. t \in Repeatable /\ elementIndices(answers, instances, t) # {}
    BY <1>3 DEF groupedTasks
  <2>2. DOMAIN arrays[t] = elementIndices(answers, instances, t)
    BY <1>3
  <2>3. ASSUME NEW id \in answered(answers, t)
        PROVE  /\ id \in DOMAIN answers /\ answers[id] \in Values /\ Parent[taskOf(id)] = t
               /\ taskOf(id) \in Tasks /\ indexOf(id) \in Index /\ id = <<taskOf(id), indexOf(id)>>
    BY IdOf DEF answered, isGrouped, IsAnswers
  <2>4. elementIndices(answers, instances, t) \subseteq Index
    BY <2>3, IdOf DEF elementIndices, existingIndices
  <2>5. ASSUME NEW k \in DOMAIN arrays[t]
        PROVE  IsElement(arrays[t][k]) /\ \A c \in DOMAIN arrays[t][k] : Parent[c] = t
    <3>1. arrays[t][k] = element(answers, t, k)
      BY <1>3, <2>2, <2>5
    <3>2. /\ DOMAIN element(answers, t, k) = {taskOf(id) : id \in {i \in answered(answers, t) : indexOf(i) = k}}
          /\ \A c \in DOMAIN element(answers, t, k) : element(answers, t, k)[c] = answers[<<c, k>>]
      BY DEF element
    <3>3. ASSUME NEW c \in DOMAIN element(answers, t, k)
          PROVE  c \in Tasks /\ element(answers, t, k)[c] \in Values /\ Parent[c] = t
      <4>1. PICK id \in answered(answers, t) : indexOf(id) = k /\ taskOf(id) = c
        BY <3>2
      <4> QED
        BY <2>3, <3>2, <4>1
    <3> HIDE DEF arrays
    <3> QED
      BY <3>1, <3>3 DEF IsElement
  <2> QED
    BY <2>1, <2>2, <2>4, <2>5
<1> HIDE DEF flat, arrays
<1>4. state.flat = flat /\ state.arrays = arrays
  BY <1>1
<1>5. IsState(state)
  <2>1. DOMAIN arrays \subseteq Repeatable
    BY <1>3
  <2> HIDE DEF state
  <2> QED
    BY <1>2, <1>3, <1>4, <2>1 DEF IsState
<1>6. doc.state = state /\ doc.completed = completed
  OBVIOUS
<1>7. doc = [state |-> [flat |-> doc.state.flat, arrays |-> doc.state.arrays], completed |-> doc.completed]
  BY <1>1, <1>4, <1>6
<1>8. \A t \in DOMAIN arrays : \A k \in DOMAIN arrays[t] : \A c \in DOMAIN arrays[t][k] : Parent[c] = t
  BY <1>3
<1> HIDE DEF doc, state
<1>9. isSaved(doc)
  BY <1>2, <1>4, <1>5, <1>6, <1>7, <1>8 DEF isSaved
<1> QED
  BY <1>9 DEF doc, state

===============================================================================
