-------------------------- MODULE VersionHistoryProofs --------------------------
(***************************************************************************)
(* Proofs about VersionHistory for any questions, values and saves, any    *)
(* page size, and any number of versions and clicks.                       *)
(***************************************************************************)
EXTENDS VersionHistory, FiniteSetTheorems, WellFoundedInduction, TLAPS

(***************************************************************************)
(* The inductive invariant.                                                *)
(***************************************************************************)
ServerIsRecord == DOMAIN server = {"version", "content", "rows"} /\ server.version \in Nat

\* A restored state is the one the server has, but for one field, for as long as
\* the server has the version that was read for it.
RestoreIsOfVersion ==
    restore.pc = "putField" =>
        /\ restore.expected \in Nat /\ restore.expected <= server.version
        /\ restore.expected = server.version =>
              \A k \in DOMAIN server.content \ {contentKey(restore.field)} :
                  restore.state[k] = server.content[k]

RestoreInv == ServerIsRecord /\ RestoreIsOfVersion

(* VersionHistory.vue:87-182: what a field is put back to leaves the rest.   *)
LEMMA WithFieldTouchesOne ==
    ASSUME NEW content, NEW field, NEW k \in DOMAIN content \ {contentKey(field)}
    PROVE  withField(content, field)[k] = content[k]
<1>1. CASE field.key \in Questions
  BY <1>1 DEF withField, contentKey
<1>2. CASE field.key \notin Questions
  BY <1>2 DEF withField, contentKey
<1> QED
  BY <1>1, <1>2

(***************************************************************************)
(* The steps, by what they do to the server.                               *)
(***************************************************************************)
\* The steps that neither touch the server nor start the write of a field.
VersionReads == ConfirmVersion \/ FindVersion \/ ReplayVersion \/ ReadCurrent

ScreenStep ==
    \/ CountRows \/ OpenPage \/ Leave \/ LoadMore \/ PageArrives \/ PageFails
    \/ \E n \in Numbers : ToggleDiff(n) \/ EditsArrive(n) \/ EditsFail(n) \/ OpenVersionRestore(n)
    \/ \E field \in diffFields : OpenFieldRestore(field)
    \/ CancelRestore \/ VersionReads \/ CountForRefresh \/ Refresh \/ RestoreFails

LEMMA ScreenKeepsServer ==
    ASSUME ScreenStep
    PROVE  server' = server /\ (restore' = restore \/ restore'.pc # "putField")
<1>1. CASE CountRows \/ OpenPage \/ Leave \/ LoadMore \/ PageArrives \/ PageFails
  BY <1>1 DEF CountRows, OpenPage, Leave, LoadMore, PageArrives, PageFails, stored
<1>2. CASE \E n \in Numbers : ToggleDiff(n) \/ EditsArrive(n) \/ EditsFail(n) \/ OpenVersionRestore(n)
  BY <1>2 DEF ToggleDiff, EditsArrive, EditsFail, OpenVersionRestore, stored
<1>3. CASE \E field \in diffFields : OpenFieldRestore(field)
  BY <1>3 DEF OpenFieldRestore, stored
<1>4. CASE CancelRestore \/ CountForRefresh \/ Refresh \/ RestoreFails
  BY <1>4 DEF CancelRestore, CountForRefresh, Refresh, RestoreFails, stored, Idle
<1>5. CASE VersionReads
  BY <1>5 DEF VersionReads, ConfirmVersion, FindVersion, ReplayVersion, ReadCurrent, versionRestore, stored
<1> QED
  BY <1>1, <1>2, <1>3, <1>4, <1>5 DEF ScreenStep

LEMMA NextCases ==
    Next => \/ ScreenStep
            \/ \E c \in Saves, consolidate \in BOOLEAN : OtherSaves(c, consolidate)
            \/ \E n \in Numbers, described \in BOOLEAN : SaveDescription(n, described)
            \/ ReadForField \/ RestoreField \/ RestoreVersion
BY DEF Next, ScreenStep, VersionReads

LEMMA StoredServer ==
    ASSUME ServerIsRecord, NEW content, NEW consolidate, NEW description,
           Stored(content, consolidate, description)
    PROVE  /\ ServerIsRecord'
           /\ server'.version = server.version + 1
           /\ server'.content = content
BY DEF Stored, ServerIsRecord

LEMMA NextRestoreInv == RestoreInv /\ [Next]_vars => RestoreInv'
<1> SUFFICES ASSUME RestoreInv, [Next]_vars PROVE RestoreInv'
  OBVIOUS
<1> USE DEF RestoreInv
<1>1. CASE UNCHANGED vars \/ ScreenStep
  <2>1. server' = server /\ (restore' = restore \/ restore'.pc # "putField")
    BY <1>1, ScreenKeepsServer DEF vars, stored
  <2> QED
    BY <2>1 DEF ServerIsRecord, RestoreIsOfVersion
<1>2. CASE \E c \in Saves, consolidate \in BOOLEAN : OtherSaves(c, consolidate)
  <2>1. PICK c \in Saves, consolidate \in BOOLEAN : OtherSaves(c, consolidate)
    BY <1>2
  <2>2. Stored(c, consolidate, FALSE) /\ restore' = restore
    BY <2>1 DEF OtherSaves
  <2>3. ServerIsRecord' /\ server'.version = server.version + 1
    BY <2>2, StoredServer
  <2> QED
    BY <2>2, <2>3 DEF ServerIsRecord, RestoreIsOfVersion
<1>3. CASE \E n \in Numbers, described \in BOOLEAN : SaveDescription(n, described)
  <2>1. restore' = restore /\ \/ server' = server
                              \/ \E i, described : server' = [server EXCEPT !.rows[i].described = described]
    BY <1>3 DEF SaveDescription
  <2>2. DOMAIN server' = DOMAIN server /\ server'.version = server.version
        /\ server'.content = server.content
    BY <2>1 DEF ServerIsRecord
  <2> QED
    BY <2>1, <2>2 DEF ServerIsRecord, RestoreIsOfVersion
<1>4. CASE ReadForField
  <2>1. /\ server' = server /\ restore'.expected = server.version
        /\ restore'.state = withField(server.content, restore'.field)
    BY <1>4 DEF ReadForField, stored
  <2>2. \A k \in DOMAIN server.content \ {contentKey(restore'.field)} :
            restore'.state[k] = server.content[k]
    BY <2>1, WithFieldTouchesOne
  <2> QED
    BY <2>1, <2>2 DEF ServerIsRecord, RestoreIsOfVersion, contentKey
<1>5. CASE RestoreField
  <2>1. Stored(restore.state, FALSE, TRUE) /\ restore'.pc # "putField"
    BY <1>5 DEF RestoreField
  <2> QED
    BY <2>1, StoredServer DEF RestoreIsOfVersion
<1>6. CASE RestoreVersion
  <2>1. Stored(restore.state, FALSE, TRUE) /\ restore'.pc # "putField"
    BY <1>6 DEF RestoreVersion, Idle
  <2> QED
    BY <2>1, StoredServer DEF RestoreIsOfVersion
<1> QED
  BY <1>1, <1>2, <1>3, <1>4, <1>5, <1>6, NextCases

(* VersionHistory.vue:72-203, assessments.ts:170-189: whatever is stored     *)
(* while a restore waits for the user or for an answer, a restore that is   *)
(* accepted was made from the version that is current.                      *)
THEOREM RestoreIsOfVersionHolds == Spec => []RestoreInv
<1>1. Init => RestoreInv
  BY DEF Init, RestoreInv, ServerIsRecord, RestoreIsOfVersion, Idle
<1> QED
  BY <1>1, NextRestoreInv, PTL DEF Spec

\* The write of a field is the only step from "putField" to "refresh".
LEMMA FieldRestoredBy == [Next]_vars /\ fieldRestored => RestoreField
<1> SUFFICES ASSUME [Next]_vars, restore.pc = "putField", restore'.pc = "refresh" PROVE RestoreField
  BY DEF fieldRestored
<1>1. CASE UNCHANGED vars
  BY <1>1 DEF vars
<1>2. CASE ScreenStep
  BY <1>2 DEF ScreenStep, CountRows, OpenPage, Leave, LoadMore, PageArrives, PageFails, ToggleDiff, EditsArrive,
     EditsFail, OpenVersionRestore, OpenFieldRestore, CancelRestore, VersionReads, ConfirmVersion,
     FindVersion, ReplayVersion, ReadCurrent, versionRestore, CountForRefresh, Refresh,
     RestoreFails, Click, dialog, Idle
<1>3. CASE \E c \in Saves, consolidate \in BOOLEAN : OtherSaves(c, consolidate)
  BY <1>3 DEF OtherSaves
<1>4. CASE \E n \in Numbers, described \in BOOLEAN : SaveDescription(n, described)
  BY <1>4 DEF SaveDescription
<1>5. CASE ReadForField \/ RestoreVersion
  BY <1>5 DEF ReadForField, RestoreVersion
<1> QED
  BY <1>1, <1>2, <1>3, <1>4, <1>5, NextCases

(* VersionHistory.vue:72-203: for any questions and values, and whatever     *)
(* others save meanwhile, restoring one field keeps all else on the server. *)
THEOREM RestoreTouchesOneFieldHolds == Spec => RestoreTouchesOneField
<1> DEFINE OneField == fieldRestored => \A k \in DOMAIN server.content \ {contentKey(restore.field)} :
                                            server'.content[k] = server.content[k]
<1>1. RestoreInv /\ [Next]_vars => OneField
  <2> SUFFICES ASSUME RestoreInv, [Next]_vars, fieldRestored
               PROVE  \A k \in DOMAIN server.content \ {contentKey(restore.field)} :
                          server'.content[k] = server.content[k]
    OBVIOUS
  <2>1. /\ Stored(restore.state, FALSE, TRUE)
        /\ restore.pc = "putField" /\ restore.expected = server.version
    BY FieldRestoredBy DEF RestoreField, isExpected
  <2>2. server'.content = restore.state
    BY <2>1, StoredServer DEF RestoreInv
  <2> QED
    BY <2>1, <2>2 DEF RestoreInv, RestoreIsOfVersion
<1> QED
  BY <1>1, RestoreIsOfVersionHolds, PTL DEF Spec, RestoreTouchesOneField

-------------------------------------------------------------------------------
(***************************************************************************)
(* The list.  What is on screen is a stretch of the rows on the server, as *)
(* long as nothing has overtaken it; the rows are identified by their      *)
(* place on the server, which later saves leave alone.                     *)
(***************************************************************************)
rowCount == Len(server.rows)

\* Every row has an id, larger than that of the row below, whatever has been
\* consolidated; the oldest one has id 1.
RowsInv ==
    /\ rowCount \in Nat \ {0}
    /\ server.rows = [i \in 1..rowCount |-> server.rows[i]]
    /\ \A i \in 1..rowCount :
          /\ {"id", "version"} \subseteq DOMAIN server.rows[i]
          /\ server.rows[i].id \in Nat /\ server.rows[i].version \in Nat
          /\ server.rows[i].id <= server.version
    /\ \A i, j \in 1..rowCount : i < j => server.rows[i].id < server.rows[j].id
    /\ server.rows[1].id = 1

\* A restore is under way on an open page only; a closed one shows nothing.
PageInv ==
    /\ open \/ restore = Idle
    /\ ~open => versions = <<>> /\ more = 0 /\ ~overtaken

\* The rows that were counted for a refresh are still there.
RefreshCounted == restore.pc = "refresh" => restore.count \in 0..rowCount

\* No row is on screen twice, also when the list was overtaken.
ShownOnce ==
    \A i, j \in DOMAIN versions : versions[i].id = versions[j].id => i = j

idsOf(lo, hi) == {server.rows[i].id : i \in lo..hi}

\* The rows from lo to hi are on screen; they are at least those of the pages that
\* were loaded, and when no more are offered there is a page of newer ones.
Stretch(lo, hi) ==
    /\ lo \in 1..rowCount /\ hi \in lo..rowCount
    /\ idsShown = idsOf(lo, hi)
    /\ hi <= total + outrun
    /\ lo = 1 \/ rowCount - lo + 1 >= page * PageSize
    /\ ended => lo = 1 \/ rowCount - hi >= PageSize

ScreenIsStretch ==
    open /\ ~overtaken =>
        /\ more \in {0, page + 1} /\ (ended => more = 0)
        /\ Len(versions) <= page * PageSize
        /\ \E lo, hi \in Nat : Stretch(lo, hi)

ListInv == RowsInv /\ PageInv /\ RefreshCounted /\ ListTypeOK /\ ShownOnce /\ ScreenIsStretch

(***************************************************************************)
(* Sequences.                                                              *)
(***************************************************************************)
LEMMA IntervalCounted ==
    ASSUME NEW n \in Nat
    PROVE  IsFiniteSet(1..n) /\ Cardinality(1..n) = n
<1>1. n \in Int /\ 1 \in Int /\ (IF 1 > n THEN 0 ELSE n - 1 + 1) = n
  OBVIOUS
<1> QED
  BY ONLY <1>1, FS_Interval

LEMMA FunctionInSeq ==
    ASSUME NEW S, NEW n \in Nat, NEW f \in [1..n -> S]
    PROVE  f \in Seq(S) /\ Len(f) = n
OBVIOUS

LEMMA FunctionIsSequence ==
    ASSUME NEW s, Len(s) \in Nat, s = [i \in 1..Len(s) |-> s[i]], NEW x
    PROVE  s \in Seq({s[i] : i \in 1..Len(s)} \cup {x})
<1> DEFINE n == Len(s)
           S == {s[i] : i \in 1..n} \cup {x}
<1>1. s \in [1..n -> S]
  OBVIOUS
<1> HIDE DEF n
<1>2. n \in Nat
  BY DEF n
<1> QED
  BY <1>1, <1>2 DEF n

LEMMA AppendGrows ==
    ASSUME NEW S, NEW s \in Seq(S), NEW x \in S
    PROVE  /\ Append(s, x) \in Seq(S) /\ Len(Append(s, x)) = Len(s) + 1
           /\ \A i \in 1..Len(s) : Append(s, x)[i] = s[i]
           /\ Append(s, x)[Len(s) + 1] = x
OBVIOUS

LEMMA LastReplaced ==
    ASSUME NEW S, NEW s \in Seq(S), Len(s) # 0, NEW x \in S
    PROVE  LET t == Front(s) \o <<x>>
           IN  /\ t \in Seq(S) /\ Len(t) = Len(s) /\ t[Len(s)] = x
               /\ \A i \in 1..(Len(s) - 1) : t[i] = s[i]
<1> DEFINE m == Len(s) - 1
           front == Front(s)
<1>1. m \in Nat /\ Len(s) = m + 1
  OBVIOUS
<1>2. front = SubSeq(s, 1, m)
  BY DEF Front
<1> HIDE DEF m, front
<1>3. /\ front \in Seq(S) /\ Len(front) = m
      /\ \A i \in 1..m : front[i] = s[i]
  BY ONLY <1>1, <1>2, s \in Seq(S)
<1>4. /\ front \o <<x>> \in Seq(S) /\ Len(front \o <<x>>) = m + 1 /\ (front \o <<x>>)[m + 1] = x
      /\ \A i \in 1..m : (front \o <<x>>)[i] = s[i]
  BY ONLY <1>1, <1>3, x \in S
<1> QED
  BY <1>1, <1>4 DEF front, m

\* What is at the given places is there once for every place.
OncePerPlace(seq, places) ==
    \E f \in Bijection(1..Cardinality(places), places) :
        \A k \in 1..Cardinality(places) : atPlaces(seq, places)[k] = seq[f[k]]

LEMMA AtPlacesIsBijection ==
    ASSUME NEW seq, NEW n \in Nat, NEW places \in SUBSET (1..n)
    PROVE  /\ Cardinality(places) \in Nat /\ Cardinality(places) <= n
           /\ (Cardinality(places) = 0) <=> (places = {})
           /\ atPlaces(seq, places) =
                 [k \in 1..Cardinality(places) |-> atPlaces(seq, places)[k]]
           /\ OncePerPlace(seq, places)
<1> DEFINE upTo_(i) == {j \in places : j <= i}
           card == Cardinality(places)
           rank == [i \in places |-> Cardinality(upTo_(i))]
           place(k) == CHOOSE i \in places : Cardinality(upTo_(i)) = k
           f == [k \in 1..card |-> place(k)]
<1>1. IsFiniteSet(1..n) /\ Cardinality(1..n) = n
  BY IntervalCounted
<1>2. IsFiniteSet(places) /\ card <= n
  BY <1>1, FS_Subset
<1>3. card \in Nat /\ (card = 0 <=> places = {})
  BY <1>2, FS_CardinalityType, FS_EmptySet
<1>4. \A i \in places : IsFiniteSet(upTo_(i)) /\ Cardinality(upTo_(i)) <= card
  <2> SUFFICES ASSUME NEW i \in places PROVE IsFiniteSet(upTo_(i)) /\ Cardinality(upTo_(i)) <= card
    OBVIOUS
  <2>1. upTo_(i) \in SUBSET places
    OBVIOUS
  <2> QED
    BY <2>1, <1>2, FS_Subset
<1>5. \A i \in places : Cardinality(upTo_(i)) \in 1..card
  <2> SUFFICES ASSUME NEW i \in places PROVE Cardinality(upTo_(i)) \in 1..card
    OBVIOUS
  <2>1. i \in upTo_(i)
    OBVIOUS
  <2>2. Cardinality(upTo_(i)) \in Nat /\ Cardinality(upTo_(i)) # 0
    BY <2>1, <1>4, FS_CardinalityType, FS_EmptySet
  <2> QED
    BY <2>2, <1>3, <1>4
<1>6. \A i, j \in places : i < j => Cardinality(upTo_(i)) # Cardinality(upTo_(j))
  <2> SUFFICES ASSUME NEW i \in places, NEW j \in places, i < j
               PROVE  Cardinality(upTo_(i)) # Cardinality(upTo_(j))
    OBVIOUS
  <2> \A l \in places : l \in Nat
    OBVIOUS
  <2>1. upTo_(i) \in SUBSET upTo_(j)
    <3> SUFFICES ASSUME NEW l \in places, l <= i PROVE l <= j
      OBVIOUS
    <3> l \in Nat /\ i \in Nat /\ j \in Nat
      OBVIOUS
    <3> QED
      OBVIOUS
  <2>2. j \in upTo_(j) /\ j \notin upTo_(i)
    OBVIOUS
  <2> QED
    BY <2>1, <2>2, <1>4, FS_Subset
<1>7. rank \in Injection(places, 1..card)
  <2>1. rank \in [places -> 1..card]
    BY <1>5
  <2>2. \A i, j \in places : rank[i] = rank[j] => i = j
    <3> SUFFICES ASSUME NEW i \in places, NEW j \in places, i # j PROVE rank[i] # rank[j]
      OBVIOUS
    <3> i \in 1..n /\ j \in 1..n
      OBVIOUS
    <3>1. i < j \/ j < i
      OBVIOUS
    <3>2. rank[i] = Cardinality(upTo_(i)) /\ rank[j] = Cardinality(upTo_(j))
      OBVIOUS
    <3> QED
      BY <3>1, <3>2, <1>6
  <2> HIDE DEF rank
  <2> QED
    BY <2>1, <2>2 DEF Injection, IsInjective
<1>8. rank \in Surjection(places, 1..card)
  <2>1. IsFiniteSet(1..card) /\ Cardinality(1..card) = card
    BY <1>3, IntervalCounted
  <2> HIDE DEF rank
  <2> QED
    BY <1>7, <2>1, FS_Injection
<1>9. atPlaces(seq, places) = [k \in 1..card |-> seq[f[k]]]
  <2>1. atPlaces(seq, places) = [k \in 1..card |-> seq[place(k)]]
    BY Zenon DEF atPlaces
  <2> HIDE DEF place
  <2>2. \A k \in 1..card : f[k] = place(k)
    OBVIOUS
  <2> HIDE DEF f
  <2> QED
    BY <2>1, <2>2
<1>14. \A i \in places : rank[i] = Cardinality(upTo_(i))
  OBVIOUS
<1> HIDE DEF upTo_, rank
<1>10. \A k \in 1..card : f[k] \in places /\ rank[f[k]] = k
  <2> SUFFICES ASSUME NEW k \in 1..card PROVE f[k] \in places /\ rank[f[k]] = k
    OBVIOUS
  <2>1. \E i \in places : Cardinality(upTo_(i)) = k
    BY <1>8, <1>14 DEF Surjection
  <2>2. place(k) \in places /\ Cardinality(upTo_(place(k))) = k
    BY <2>1
  <2> HIDE DEF place
  <2> QED
    BY <2>2, <1>14
<1> HIDE DEF place
<1>11. \A i \in places : rank[i] \in 1..card /\ f[rank[i]] = i
  <2> SUFFICES ASSUME NEW i \in places PROVE rank[i] \in 1..card /\ f[rank[i]] = i
    OBVIOUS
  <2>1. rank[i] \in 1..card
    BY <1>7 DEF Injection
  <2>2. f[rank[i]] \in places /\ rank[f[rank[i]]] = rank[i]
    BY <2>1, <1>10
  <2> HIDE DEF f
  <2> QED
    BY <2>1, <2>2, <1>7 DEF Injection, IsInjective
<1>12. f \in [1..card -> places]
  BY <1>10
<1> HIDE DEF f
<1>13. f \in Bijection(1..card, places)
  BY <1>10, <1>11, <1>12 DEF Bijection, Injection, Surjection, IsInjective
<1>15. /\ atPlaces(seq, places) = [k \in 1..card |-> atPlaces(seq, places)[k]]
       /\ \A k \in 1..card : atPlaces(seq, places)[k] = seq[f[k]]
  BY <1>9
<1>16. OncePerPlace(seq, places)
  BY <1>13, <1>15 DEF OncePerPlace
<1> QED
  BY <1>2, <1>3, <1>15, <1>16

(***************************************************************************)
(* The rows on the server.                                                 *)
(***************************************************************************)
RowsGrow ==
    /\ rowCount' >= rowCount
    /\ \A i \in 1..rowCount : server'.rows[i].id = server.rows[i].id

LEMMA RowAppended ==
    ASSUME ServerIsRecord, RowsInv, NEW row, {"id", "version"} \subseteq DOMAIN row,
           row.id = server.version + 1, row.version = server.version + 1,
           server'.rows = Append(server.rows, row), server'.version = server.version + 1
    PROVE  RowsInv' /\ RowsGrow
<1> DEFINE n == rowCount
           S == {server.rows[i] : i \in 1..n} \cup {row}
           rows == server'.rows
<1>1. n \in Nat \ {0} /\ server.version \in Nat
  BY DEF RowsInv, ServerIsRecord
<1>2. server.rows \in Seq(S)
  BY <1>1, FunctionIsSequence DEF RowsInv, rowCount
<1>3. row \in S
  OBVIOUS
<1> HIDE DEF S
<1>4. /\ rows \in Seq(S) /\ Len(rows) = n + 1 /\ rows[n + 1] = row
      /\ \A i \in 1..n : rows[i] = server.rows[i]
  BY <1>2, <1>3, AppendGrows DEF rowCount
<1>5. rows = [i \in 1..Len(rows) |-> rows[i]]
  BY <1>4
<1>6. rowCount' = n + 1
  BY <1>4 DEF rowCount
<1> HIDE DEF n
<1>7. \A i \in 1..(n + 1) : i \in 1..n \/ i = n + 1
  BY <1>1
<1>8. \A i \in 1..n :
          /\ {"id", "version"} \subseteq DOMAIN rows[i]
          /\ rows[i].id \in Nat /\ rows[i].version \in Nat
          /\ rows[i].id <= server.version
  BY <1>4 DEF RowsInv, n
<1>9. \A i \in 1..(n + 1) :
          /\ {"id", "version"} \subseteq DOMAIN rows[i]
          /\ rows[i].id \in Nat /\ rows[i].version \in Nat
          /\ rows[i].id <= server.version + 1
  BY <1>1, <1>4, <1>7, <1>8
<1>10. \A i, j \in 1..(n + 1) : i < j => rows[i].id < rows[j].id
  <2> SUFFICES ASSUME NEW i \in 1..(n + 1), NEW j \in 1..(n + 1), i < j
               PROVE  rows[i].id < rows[j].id
    OBVIOUS
  <2>1. i \in 1..n
    BY <1>1
  <2>2. CASE j \in 1..n
    BY <2>1, <2>2, <1>4 DEF RowsInv, n
  <2>3. CASE j = n + 1
    BY <2>1, <2>3, <1>1, <1>4, <1>8
  <2> QED
    BY <2>2, <2>3, <1>7
<1>11. rows[1].id = 1
  BY <1>1, <1>4 DEF RowsInv
<1> HIDE DEF rows
<1>12. RowsInv'
  BY <1>1, <1>5, <1>6, <1>9, <1>10, <1>11 DEF RowsInv, rows, rowCount
<1> QED
  BY <1>12, <1>1, <1>4, <1>6 DEF RowsGrow, n, rows

LEMMA NewestReplaced ==
    ASSUME ServerIsRecord, RowsInv, NEW row, {"id", "version"} \subseteq DOMAIN row,
           row.id = Last(server.rows).id, row.version \in Nat,
           server'.rows = Front(server.rows) \o <<row>>, server'.version = server.version + 1
    PROVE  RowsInv' /\ RowsGrow
<1> DEFINE n == rowCount
           S == {server.rows[i] : i \in 1..n} \cup {row}
           rows == server'.rows
<1>1. n \in Nat \ {0} /\ server.version \in Nat
  BY DEF RowsInv, ServerIsRecord
<1>2. server.rows \in Seq(S)
  BY <1>1, FunctionIsSequence DEF RowsInv, rowCount
<1>3. row \in S
  OBVIOUS
<1> HIDE DEF S
<1>4. /\ rows \in Seq(S) /\ Len(rows) = n /\ rows[n] = row
      /\ \A i \in 1..(n - 1) : rows[i] = server.rows[i]
  <2>1. Len(server.rows) = n /\ n # 0 /\ rows = Front(server.rows) \o <<row>>
    BY <1>1 DEF rowCount
  <2> HIDE DEF n, rows
  <2> QED
    BY ONLY <1>2, <1>3, <2>1, LastReplaced
<1>5. rows = [i \in 1..Len(rows) |-> rows[i]]
  BY <1>4
<1>6. rowCount' = n
  BY <1>4 DEF rowCount
<1>7. row.id = server.rows[n].id
  BY DEF Last, rowCount
<1> HIDE DEF n
<1>8. \A i \in 1..n : i \in 1..(n - 1) \/ i = n
  BY <1>1
<1>9. \A i \in 1..n : rows[i].id = server.rows[i].id
  BY <1>4, <1>7, <1>8
<1>10. \A i \in 1..n :
          /\ {"id", "version"} \subseteq DOMAIN rows[i]
          /\ rows[i].id \in Nat /\ rows[i].version \in Nat
          /\ rows[i].id <= server.version + 1
  <2> SUFFICES ASSUME NEW i \in 1..n
               PROVE  /\ {"id", "version"} \subseteq DOMAIN rows[i]
                      /\ rows[i].id \in Nat /\ rows[i].version \in Nat
                      /\ rows[i].id <= server.version + 1
    OBVIOUS
  <2>1. server.rows[i].id \in Nat /\ server.rows[i].id <= server.version
    BY DEF RowsInv, n
  <2>2. {"id", "version"} \subseteq DOMAIN server.rows[i] /\ server.rows[i].version \in Nat
    BY DEF RowsInv, n
  <2>3. {"id", "version"} \subseteq DOMAIN rows[i] /\ rows[i].version \in Nat
    BY <2>2, <1>4, <1>8
  <2> QED
    BY ONLY <2>1, <2>3, <1>1, <1>9
<1>11. \A i, j \in 1..n : i < j => rows[i].id < rows[j].id
  BY <1>9 DEF RowsInv, n
<1>12. rows[1].id = 1
  <2>1. 1 \in 1..n /\ server.rows[1].id = 1
    BY <1>1 DEF RowsInv
  <2> QED
    BY <2>1, <1>9
<1> HIDE DEF rows
<1>13. RowsInv'
  BY <1>1, <1>5, <1>6, <1>10, <1>11, <1>12 DEF RowsInv, rows, rowCount
<1>14. rowCount' >= rowCount /\ \A i \in 1..rowCount : server'.rows[i].id = server.rows[i].id
  BY ONLY <1>1, <1>6, <1>9 DEF n, rows
<1> QED
  BY <1>13, <1>14 DEF RowsGrow

LEMMA StoredRows ==
    ASSUME ServerIsRecord, RowsInv, NEW content, NEW consolidate, NEW description,
           Stored(content, consolidate, description)
    PROVE  RowsInv' /\ RowsGrow
<1> DEFINE n == server.version + 1
           newest == Last(server.rows)
           merged == [newest EXCEPT !.version = n, !.saves = Append(@, diffStates(server.content, content))]
           fresh == [id |-> n, version |-> n, described |-> description,
                     saves |-> <<diffStates(server.content, content)>>]
<1>1. server.version \in Nat /\ server'.version = n
  BY StoredServer DEF ServerIsRecord
<1>2. newest = server.rows[rowCount] /\ rowCount \in 1..rowCount
  BY DEF Last, rowCount, RowsInv
<1>3. {"id", "version"} \subseteq DOMAIN newest /\ newest.id \in Nat
  BY <1>2 DEF RowsInv
<1>4. CASE consolidate
  <2>1. server'.rows = Front(server.rows) \o <<merged>>
    BY <1>4 DEF Stored
  <2>2. {"id", "version"} \subseteq DOMAIN merged /\ merged.id = newest.id /\ merged.version = n
    BY <1>3
  <2> HIDE DEF merged
  <2> QED
    BY <2>1, <2>2, <1>1, NewestReplaced
<1>5. CASE ~consolidate
  <2>1. server'.rows = Append(server.rows, fresh)
    BY <1>5 DEF Stored
  <2>2. {"id", "version"} \subseteq DOMAIN fresh /\ fresh.id = n /\ fresh.version = n
    OBVIOUS
  <2> HIDE DEF fresh
  <2> QED
    BY <2>1, <2>2, <1>1, RowAppended
<1> QED
  BY <1>4, <1>5

LEMMA DescribedRows ==
    ASSUME ServerIsRecord, RowsInv, NEW n, NEW described,
           server' = IF hasRow(n) THEN [server EXCEPT !.rows[rowOf(n)].described = described] ELSE server
    PROVE  RowsInv' /\ RowsGrow
<1>1. CASE ~hasRow(n)
  BY <1>1 DEF RowsInv, RowsGrow, rowCount
<1>2. CASE hasRow(n)
  <2> DEFINE k == rowOf(n)
             rows == [server.rows EXCEPT ![k].described = described]
  <2>1. server'.rows = rows /\ server'.version = server.version
    BY <1>2 DEF ServerIsRecord
  <2>2. DOMAIN server.rows = 1..rowCount /\ rowCount \in Nat
    BY DEF RowsInv
  <2>3. rows = [i \in 1..rowCount |-> rows[i]]
    BY <2>2
  <2>4. \A i \in 1..rowCount : {"id", "version"} \subseteq DOMAIN server.rows[i]
    BY DEF RowsInv
  <2>5. \A i \in 1..rowCount : /\ {"id", "version"} \subseteq DOMAIN rows[i]
                               /\ rows[i].id = server.rows[i].id
                               /\ rows[i].version = server.rows[i].version
    <3> SUFFICES ASSUME NEW i \in 1..rowCount
                 PROVE  /\ {"id", "version"} \subseteq DOMAIN rows[i]
                        /\ rows[i].id = server.rows[i].id
                        /\ rows[i].version = server.rows[i].version
      OBVIOUS
    <3>1. rows[i] = server.rows[i] \/ rows[i] = [server.rows[i] EXCEPT !.described = described]
      BY <2>2, Zenon
    <3>2. LET r == [server.rows[i] EXCEPT !.described = described]
          IN  DOMAIN r = DOMAIN server.rows[i] /\ r.id = server.rows[i].id
              /\ r.version = server.rows[i].version
      BY <2>4, Zenon
    <3> QED
      BY <3>1, <3>2, <2>4
  <2> HIDE DEF rows
  <2>6. Len(rows) = rowCount
    BY <2>2, <2>3
  <2>7. rowCount' = rowCount
    BY <2>1, <2>6 DEF rowCount
  <2>8. RowsInv'
    <3>1. server'.version \in Nat /\ rowCount \in Nat \ {0} /\ 1 \in 1..rowCount
      BY <2>1 DEF RowsInv, ServerIsRecord
    <3>2. \A i \in 1..rowCount :
             /\ {"id", "version"} \subseteq DOMAIN rows[i]
             /\ rows[i].id \in Nat /\ rows[i].version \in Nat
             /\ rows[i].id <= server'.version
      BY <2>1, <2>5 DEF RowsInv
    <3>3. \A i, j \in 1..rowCount : i < j => rows[i].id < rows[j].id
      BY <2>5 DEF RowsInv
    <3>4. rows[1].id = 1
      BY <2>5, <3>1 DEF RowsInv
    <3> QED
      BY ONLY <2>1, <2>3, <2>7, <3>1, <3>2, <3>3, <3>4 DEF RowsInv
  <2>9. rowCount' >= rowCount /\ \A i \in 1..rowCount : server'.rows[i].id = server.rows[i].id
    BY <2>1, <2>2, <2>5, <2>7
  <2> QED
    BY <2>8, <2>9 DEF RowsGrow
<1> QED
  BY <1>1, <1>2

(***************************************************************************)
(* Pages of the list, and what is counted in it.                           *)
(***************************************************************************)
\* The newest row of the page after p pages, and the rows on that page.
topOf(p) == rowCount - p * PageSize
sizeOf(p) == IF topOf(p) <= 0 THEN 0 ELSE IF topOf(p) <= PageSize THEN topOf(p) ELSE PageSize

LEMMA Products ==
    ASSUME NEW p \in Nat
    PROVE  /\ PageSize \in Nat \ {0}
           /\ p * PageSize \in Nat
           /\ (p + 1) * PageSize = p * PageSize + PageSize
           /\ (p + 1 - 1) * PageSize = p * PageSize
<1>1. PageSize \in Nat \ {0}
  BY BoundsAssumption
<1> QED
  BY <1>1

LEMMA RowsOfPage ==
    ASSUME RowsInv, NEW p \in Nat
    PROVE  /\ rowsOfPage(p + 1) \in Seq([id : Nat, version : Nat])
           /\ sizeOf(p) \in Nat /\ sizeOf(p) <= PageSize
           /\ Len(rowsOfPage(p + 1)) = sizeOf(p)
           /\ \A i \in 1..sizeOf(p) :
                 /\ topOf(p) - i + 1 \in 1..rowCount
                 /\ rowsOfPage(p + 1)[i].id = server.rows[topOf(p) - i + 1].id
<1> DEFINE N == rowCount
           before == p * PageSize
           newestFirst == Reverse(server.rows)
           upper == IF (p + 1) * PageSize < Len(newestFirst) THEN (p + 1) * PageSize ELSE Len(newestFirst)
           rowAt(i) == newestFirst[(p + 1 - 1) * PageSize + i]
           rows == [i \in 1..(upper - (p + 1 - 1) * PageSize) |->
                       [id |-> rowAt(i).id, version |-> rowAt(i).version]]
<1>1. rowsOfPage(p + 1) = rows
  BY DEF rowsOfPage
<1>2. N \in Nat \ {0}
  BY DEF RowsInv
<1>3. newestFirst = [k \in 1..N |-> server.rows[(N - k) + 1]]
  BY DEF Reverse, rowCount
<1> HIDE DEF newestFirst
<1>4. Len(newestFirst) = N
  BY <1>2, <1>3
<1>5. /\ before \in Nat /\ PageSize \in Nat \ {0}
      /\ (p + 1) * PageSize = before + PageSize /\ (p + 1 - 1) * PageSize = before
  BY Products
<1> HIDE DEF before, N
<1>6. topOf(p) = N - before
  BY DEF topOf, before, N
<1>7. upper - (p + 1 - 1) * PageSize = IF N - before <= PageSize THEN N - before ELSE PageSize
  <2>1. upper = IF before + PageSize < N THEN before + PageSize ELSE N
    BY <1>4, <1>5
  <2> HIDE DEF upper
  <2> QED
    BY <2>1, <1>2, <1>5
<1> HIDE DEF upper
<1>8. sizeOf(p) \in Nat /\ sizeOf(p) <= PageSize
  BY <1>2, <1>5, <1>6 DEF sizeOf
<1>9. 1..(upper - (p + 1 - 1) * PageSize) = 1..sizeOf(p)
  BY <1>2, <1>5, <1>6, <1>7 DEF sizeOf
<1>10. \A i \in 1..sizeOf(p) : topOf(p) - i + 1 \in 1..N /\ before + i \in 1..N
  BY <1>2, <1>5, <1>6 DEF sizeOf
<1>11. \A i \in 1..sizeOf(p) : rowAt(i) = server.rows[topOf(p) - i + 1]
  <2> SUFFICES ASSUME NEW i \in 1..sizeOf(p)
               PROVE  newestFirst[before + i] = server.rows[topOf(p) - i + 1]
    BY <1>5
  <2>1. before + i \in 1..N /\ (N - (before + i)) + 1 = topOf(p) - i + 1
    BY <1>2, <1>5, <1>6, <1>10
  <2>2. newestFirst[before + i] = server.rows[(N - (before + i)) + 1]
    BY <1>3, <2>1
  <2> QED
    BY <2>1, <2>2
<1> HIDE DEF rowAt
<1>12. rows = [i \in 1..sizeOf(p) |-> [id |-> rowAt(i).id, version |-> rowAt(i).version]]
  BY <1>9
<1> HIDE DEF rows
<1>13. Len(rows) = sizeOf(p)
  BY <1>8, <1>12
<1>14. \A i \in 1..sizeOf(p) : rowAt(i).id \in Nat /\ rowAt(i).version \in Nat
  BY <1>10, <1>11 DEF RowsInv, N
<1>15. rows \in Seq([id : Nat, version : Nat])
  <2>1. \A i \in 1..sizeOf(p) : [id |-> rowAt(i).id, version |-> rowAt(i).version] \in [id : Nat, version : Nat]
    BY <1>14
  <2>2. rows \in [1..sizeOf(p) -> [id : Nat, version : Nat]]
    BY ONLY <1>12, <2>1
  <2> QED
    BY ONLY <1>8, <2>2, FunctionInSeq
<1>16. \A i \in 1..sizeOf(p) : rows[i].id = server.rows[topOf(p) - i + 1].id
  BY <1>11, <1>12
<1> QED
  BY <1>1, <1>8, <1>10, <1>13, <1>15, <1>16 DEF N

LEMMA IdsCounted ==
    ASSUME RowsInv, NEW lo \in 1..rowCount, NEW hi \in lo..rowCount
    PROVE  Cardinality(idsOf(lo, hi)) = hi - lo + 1
<1> DEFINE f == [i \in lo..hi |-> server.rows[i].id]
<1>1. rowCount \in Nat /\ lo \in Nat /\ hi \in Nat /\ lo <= hi
  BY DEF RowsInv
<1>2. \A i \in lo..hi : i \in 1..rowCount
  BY <1>1
<1>3. \A i, j \in lo..hi : f[i] = f[j] => i = j
  <2> SUFFICES ASSUME NEW i \in lo..hi, NEW j \in lo..hi, i # j
               PROVE  server.rows[i].id # server.rows[j].id
    OBVIOUS
  <2>1. i < j \/ j < i
    BY <1>1
  <2>2. server.rows[i].id \in Nat /\ server.rows[j].id \in Nat
    BY <1>2 DEF RowsInv
  <2> QED
    BY <2>1, <2>2, <1>2 DEF RowsInv
<1>4. f \in [lo..hi -> idsOf(lo, hi)] /\ \A id \in idsOf(lo, hi) : \E i \in lo..hi : f[i] = id
  BY DEF idsOf
<1> HIDE DEF f
<1>5. f \in Bijection(lo..hi, idsOf(lo, hi))
  BY <1>3, <1>4 DEF Bijection, Injection, Surjection, IsInjective
<1>6. IsFiniteSet(lo..hi) /\ Cardinality(lo..hi) = hi - lo + 1
  <2>1. lo \in Int /\ hi \in Int /\ ~(lo > hi)
    BY <1>1
  <2> QED
    BY ONLY <2>1, FS_Interval
<1> QED
  BY <1>5, <1>6, FS_Bijection DEF ExistsBijection

LEMMA ShownCounted ==
    ASSUME versions \in Seq([id : Nat, version : Nat]), ShownOnce
    PROVE  Cardinality(idsShown) = Len(versions)
<1> DEFINE n == Len(versions)
           f == [i \in 1..n |-> versions[i].id]
<1>1. n \in Nat /\ DOMAIN versions = 1..n
  OBVIOUS
<1>2. \A i, j \in 1..n : f[i] = f[j] => i = j
  BY <1>1 DEF ShownOnce
<1>3. f \in [1..n -> idsShown] /\ \A id \in idsShown : \E i \in 1..n : f[i] = id
  BY <1>1 DEF idsShown
<1> HIDE DEF f
<1>4. f \in Bijection(1..n, idsShown)
  <2>1. f \in Injection(1..n, idsShown)
    BY <1>2, <1>3 DEF Injection, IsInjective
  <2>2. f \in Surjection(1..n, idsShown)
    BY <1>3 DEF Surjection
  <2> QED
    BY <2>1, <2>2 DEF Bijection
<1>5. IsFiniteSet(1..n) /\ Cardinality(1..n) = n
  BY <1>1, IntervalCounted
<1> QED
  BY <1>4, <1>5, FS_Bijection DEF ExistsBijection

LEMMA NewerCounted ==
    ASSUME RowsInv, NEW lo \in 1..rowCount, NEW hi \in lo..rowCount, idsShown = idsOf(lo, hi)
    PROVE  Cardinality(newerRows) = rowCount - hi
<1>1. rowCount \in Nat /\ lo \in Nat /\ hi \in Nat /\ lo <= hi /\ hi <= rowCount
  BY DEF RowsInv
<1>2. newerRows = {i \in 1..rowCount : \A k \in lo..hi : server.rows[i].id > server.rows[k].id}
  BY DEF newerRows, idsOf, RowsInv
<1>3. ASSUME NEW i \in 1..rowCount
      PROVE  (\A k \in lo..hi : server.rows[i].id > server.rows[k].id) <=> i \in (hi + 1)..rowCount
  <2>1. \A k \in lo..hi : k \in 1..rowCount
    BY <1>1
  <2>2. CASE i > hi
    <3> SUFFICES ASSUME NEW k \in lo..hi PROVE server.rows[i].id > server.rows[k].id
      BY <1>1, <2>2
    <3>1. k \in 1..rowCount /\ k < i
      BY <1>1, <2>1, <2>2
    <3>2. server.rows[i].id \in Nat /\ server.rows[k].id \in Nat /\ server.rows[k].id < server.rows[i].id
      BY <3>1 DEF RowsInv
    <3> QED
      BY <3>2
  <2>3. CASE i <= hi
    <3>1. hi \in lo..hi /\ hi \in 1..rowCount
      BY <1>1
    <3>2. server.rows[i].id \in Nat /\ server.rows[hi].id \in Nat
          /\ (i = hi \/ server.rows[i].id < server.rows[hi].id)
      BY <1>1, <2>3, <3>1 DEF RowsInv
    <3>3. ~(server.rows[i].id > server.rows[hi].id)
      BY <3>2
    <3> QED
      BY <1>1, <2>3, <3>1, <3>3
  <2> QED
    BY <1>1, <2>2, <2>3
<1>4. newerRows = (hi + 1)..rowCount
  <2>1. \A i \in (hi + 1)..rowCount : i \in 1..rowCount
    BY <1>1
  <2> QED
    BY <1>2, <1>3, <2>1
<1>5. Cardinality((hi + 1)..rowCount) = IF hi + 1 > rowCount THEN 0 ELSE rowCount - (hi + 1) + 1
  <2>1. hi + 1 \in Int /\ rowCount \in Int
    BY <1>1
  <2> QED
    BY ONLY <2>1, FS_Interval
<1>6. (IF hi + 1 > rowCount THEN 0 ELSE rowCount - (hi + 1) + 1) = rowCount - hi
  BY ONLY <1>1
<1> QED
  BY ONLY <1>4, <1>5, <1>6

LEMMA OlderCounted ==
    ASSUME RowsInv, NEW lo \in 1..rowCount, NEW hi \in lo..rowCount, idsShown = idsOf(lo, hi)
    PROVE  Cardinality(olderRows) = lo - 1
<1>1. rowCount \in Nat /\ lo \in Nat \ {0} /\ hi \in Nat /\ lo <= hi /\ hi <= rowCount
  BY DEF RowsInv
<1>2. olderRows = {i \in 1..rowCount : \A k \in lo..hi : server.rows[i].id < server.rows[k].id}
  BY DEF olderRows, idsOf, RowsInv
<1>3. ASSUME NEW i \in 1..rowCount
      PROVE  (\A k \in lo..hi : server.rows[i].id < server.rows[k].id) <=> i \in 1..(lo - 1)
  <2>1. CASE i < lo
    <3> SUFFICES ASSUME NEW k \in lo..hi PROVE server.rows[i].id < server.rows[k].id
      BY <1>1, <2>1
    <3>1. k \in 1..rowCount /\ i < k
      BY <1>1, <2>1
    <3> QED
      BY <3>1 DEF RowsInv
  <2>2. CASE i >= lo
    <3>1. lo \in lo..hi /\ lo \in 1..rowCount
      BY <1>1
    <3>2. server.rows[i].id \in Nat /\ server.rows[lo].id \in Nat
          /\ (i = lo \/ server.rows[lo].id < server.rows[i].id)
      BY <1>1, <2>2, <3>1 DEF RowsInv
    <3>3. ~(server.rows[i].id < server.rows[lo].id)
      BY <3>2
    <3> QED
      BY <1>1, <2>2, <3>1, <3>3
  <2> QED
    BY <1>1, <2>1, <2>2
<1>4. olderRows = 1..(lo - 1)
  <2>1. \A i \in 1..(lo - 1) : i \in 1..rowCount
    BY <1>1
  <2> QED
    BY <1>2, <1>3, <2>1
<1>5. lo - 1 \in Nat
  BY <1>1
<1> QED
  BY <1>4, <1>5, IntervalCounted

LEMMA IdsOfPage ==
    ASSUME RowsInv, NEW p \in Nat
    PROVE  {rowsOfPage(p + 1)[i].id : i \in 1..sizeOf(p)} = idsOf(topOf(p) - sizeOf(p) + 1, topOf(p))
<1> DEFINE rows == rowsOfPage(p + 1)
           size == sizeOf(p)
           top == topOf(p)
<1>1. /\ size \in Nat
      /\ \A i \in 1..size : top - i + 1 \in 1..rowCount /\ rows[i].id = server.rows[top - i + 1].id
  BY RowsOfPage
<1>2. top \in Int
  BY Products DEF topOf, RowsInv
<1> HIDE DEF rows, size, top
<1>3. \A i \in 1..size : top - i + 1 \in (top - size + 1)..top
  BY <1>1, <1>2
<1>4. \A k \in (top - size + 1)..top : top - k + 1 \in 1..size /\ top - (top - k + 1) + 1 = k
  BY <1>1, <1>2
<1>5. \A k \in (top - size + 1)..top : server.rows[k].id = rows[top - k + 1].id
  BY <1>1, <1>4
<1>6. {rows[i].id : i \in 1..size} = idsOf(top - size + 1, top)
  BY <1>1, <1>3, <1>4, <1>5 DEF idsOf
<1> QED
  BY <1>6 DEF rows, size, top

idsIn(rows) == {rows[i].id : i \in DOMAIN rows}
onceIn(rows) == \A i, j \in DOMAIN rows : rows[i].id = rows[j].id => i = j

\* What a page adds to the screen: what is not there yet, once.
LEMMA FreshAdded ==
    ASSUME RowsInv, versions \in Seq([id : Nat, version : Nat]), ShownOnce, NEW p \in Nat,
           NEW fresh, fresh = freshIn(rowsOfPage(p + 1)), NEW v, v = versions \o fresh
    PROVE  /\ v \in Seq([id : Nat, version : Nat])
           /\ Len(v) <= Len(versions) + sizeOf(p)
           /\ onceIn(v)
           /\ idsIn(v) = idsShown \cup idsOf(topOf(p) - sizeOf(p) + 1, topOf(p))
           /\ fresh = <<>> => idsOf(topOf(p) - sizeOf(p) + 1, topOf(p)) \subseteq idsShown
<1> DEFINE V == [id : Nat, version : Nat]
           rows == rowsOfPage(p + 1)
           size == sizeOf(p)
           top == topOf(p)
           places == {i \in 1..size : rows[i].id \notin idsShown}
           card == Cardinality(places)
           n == Len(versions)
<1>1. /\ rows \in Seq(V) /\ size \in Nat /\ Len(rows) = size /\ DOMAIN rows = 1..size
      /\ \A i \in 1..size : top - i + 1 \in 1..rowCount /\ rows[i].id = server.rows[top - i + 1].id
  <2>1. /\ rows \in Seq(V) /\ size \in Nat /\ Len(rows) = size
        /\ \A i \in 1..size : top - i + 1 \in 1..rowCount /\ rows[i].id = server.rows[top - i + 1].id
    BY RowsOfPage
  <2>2. DOMAIN rows = 1..Len(rows)
    BY <2>1
  <2> QED
    BY <2>1, <2>2
<1>2. {rows[i].id : i \in 1..size} = idsOf(top - size + 1, top)
  BY IdsOfPage
<1>3. top \in Int
  BY Products DEF topOf, RowsInv
<1>4. fresh = atPlaces(rows, places)
  BY <1>1 DEF freshIn
<1> HIDE DEF rows, size, top
<1>5. \A i, j \in 1..size : rows[i].id = rows[j].id => i = j
  <2> SUFFICES ASSUME NEW i \in 1..size, NEW j \in 1..size, i # j PROVE rows[i].id # rows[j].id
    OBVIOUS
  <2> DEFINE k == top - i + 1
             l == top - j + 1
  <2>1. /\ k \in 1..rowCount /\ rows[i].id = server.rows[k].id
        /\ l \in 1..rowCount /\ rows[j].id = server.rows[l].id
    BY <1>1
  <2>2. k < l \/ l < k
    BY <1>1, <1>3
  <2> HIDE DEF k, l
  <2>3. server.rows[k].id \in Nat /\ server.rows[l].id \in Nat
    BY <2>1 DEF RowsInv
  <2> QED
    BY <2>1, <2>2, <2>3 DEF RowsInv
<1>6. /\ card \in Nat /\ card <= size
      /\ fresh = [k \in 1..card |-> fresh[k]]
      /\ \E f \in Bijection(1..card, places) : \A k \in 1..card : fresh[k] = rows[f[k]]
  <2>1. places \in SUBSET (1..size)
    OBVIOUS
  <2>2. size \in Nat
    BY <1>1
  <2> HIDE DEF places
  <2>3. card \in Nat /\ card <= size
    BY ONLY <2>1, <2>2, AtPlacesIsBijection
  <2>4. atPlaces(rows, places) = [k \in 1..card |-> atPlaces(rows, places)[k]]
    BY ONLY <2>1, <2>2, AtPlacesIsBijection
  <2>5. OncePerPlace(rows, places)
    BY ONLY <2>1, <2>2, AtPlacesIsBijection
  <2> QED
    BY ONLY <1>4, <2>3, <2>4, <2>5 DEF OncePerPlace
<1>7. PICK f \in Bijection(1..card, places) : \A k \in 1..card : fresh[k] = rows[f[k]]
  BY <1>6
<1>8. /\ \A k \in 1..card : f[k] \in 1..size /\ rows[f[k]].id \notin idsShown
      /\ \A k, l \in 1..card : f[k] = f[l] => k = l
      /\ \A i \in 1..size : rows[i].id \in idsShown \/ \E k \in 1..card : f[k] = i
  <2>1. /\ f \in [1..card -> places]
        /\ \A k, l \in 1..card : f[k] = f[l] => k = l
        /\ \A i \in places : \E k \in 1..card : f[k] = i
    BY <1>7 DEF Bijection, Injection, Surjection, IsInjective
  <2> HIDE DEF card
  <2> QED
    BY <2>1
<1> HIDE DEF card, places
<1>9. /\ fresh \in Seq(V) /\ Len(fresh) = card
      /\ \A k \in 1..card : fresh[k] = rows[f[k]]
  <2> HIDE DEF V
  <2>1. \A k \in 1..card : rows[f[k]] \in V
    <3>1. \A i \in 1..size : rows[i] \in V
      BY ONLY <1>1
    <3> QED
      BY ONLY <3>1, <1>8
  <2>2. fresh \in [1..card -> V]
    BY ONLY <1>6, <1>7, <2>1
  <2> QED
    BY ONLY <1>6, <1>7, <2>2, FunctionInSeq
<1>10. n \in Nat /\ DOMAIN versions = 1..n /\ versions \in Seq(V)
  OBVIOUS
<1> HIDE DEF V, n
<1>11. /\ v \in Seq(V) /\ Len(v) = n + card /\ DOMAIN v = 1..(n + card)
       /\ \A i \in 1..n : v[i] = versions[i]
       /\ \A k \in 1..card : v[n + k] = fresh[k]
  <2>1. v \in Seq(V) /\ Len(v) = Len(versions) + Len(fresh)
    BY <1>9, <1>10
  <2>2. \A i \in 1..(Len(versions) + Len(fresh)) :
            v[i] = IF i <= Len(versions) THEN versions[i] ELSE fresh[i - Len(versions)]
    BY <1>9, <1>10
  <2>3. n = Len(versions)
    BY DEF n
  <2>4. Len(v) = n + card /\ DOMAIN v = 1..(n + card)
    <3>1. Len(v) = n + card
      BY ONLY <1>9, <2>1, <2>3
    <3>2. DOMAIN v = 1..Len(v)
      BY ONLY <2>1
    <3> QED
      BY ONLY <3>1, <3>2
  <2>5. \A i \in 1..n : i \in 1..(n + card) /\ i <= n
    BY <1>6, <1>10
  <2>6. \A k \in 1..card : n + k \in 1..(n + card) /\ ~(n + k <= n) /\ n + k - n = k
    BY <1>6, <1>10
  <2>7. \A i \in 1..n : v[i] = versions[i]
    BY <2>2, <2>3, <2>5, <1>9
  <2>8. \A k \in 1..card : v[n + k] = fresh[k]
    BY <2>2, <2>3, <2>6, <1>9
  <2> QED
    BY <2>1, <2>4, <2>7, <2>8
<1>12. /\ \A i \in 1..n : v[i].id \in idsShown
       /\ \A id \in idsShown : \E i \in 1..n : v[i].id = id
  BY <1>10, <1>11 DEF idsShown
<1>13. /\ \A k \in 1..card : v[n + k].id = rows[f[k]].id /\ v[n + k].id \notin idsShown
       /\ \A i \in 1..size : rows[i].id \in idsShown \/ \E k \in 1..card : v[n + k].id = rows[i].id
  <2>1. \A k \in 1..card : v[n + k] = rows[f[k]]
    BY ONLY <1>9, <1>11
  <2> QED
    BY ONLY <1>8, <2>1
<1>14. \A i \in 1..(n + card) : i \in 1..n \/ \E k \in 1..card : i = n + k
  <2> SUFFICES ASSUME NEW i \in 1..(n + card), i \notin 1..n PROVE \E k \in 1..card : i = n + k
    OBVIOUS
  <2>1. i - n \in 1..card /\ i = n + (i - n)
    BY <1>6, <1>10
  <2> QED
    BY <2>1
<1>15. \A i, j \in DOMAIN v : v[i].id = v[j].id => i = j
  <2> SUFFICES ASSUME NEW i \in 1..(n + card), NEW j \in 1..(n + card), v[i].id = v[j].id
               PROVE  i = j
    BY <1>11
  <2>1. CASE i \in 1..n /\ j \in 1..n
    BY <2>1, <1>10, <1>11 DEF ShownOnce
  <2>2. CASE i \in 1..n /\ j \notin 1..n
    BY ONLY <2>2, <1>12, <1>13, <1>14, v[i].id = v[j].id, i \in 1..(n + card), j \in 1..(n + card)
  <2>3. CASE i \notin 1..n /\ j \in 1..n
    BY ONLY <2>3, <1>12, <1>13, <1>14, v[i].id = v[j].id, i \in 1..(n + card), j \in 1..(n + card)
  <2>4. CASE i \notin 1..n /\ j \notin 1..n
    <3>1. PICK k \in 1..card, l \in 1..card : i = n + k /\ j = n + l
      BY <2>4, <1>14
    <3>2. rows[f[k]].id = rows[f[l]].id
      BY <3>1, <1>13
    <3>3. k = l
      BY <3>2, <1>5, <1>8
    <3> QED
      BY <3>1, <3>3
  <2> QED
    BY <2>1, <2>2, <2>3, <2>4
<1>16. {v[i].id : i \in DOMAIN v} = idsShown \cup {rows[i].id : i \in 1..size}
  <2>1. ASSUME NEW i \in DOMAIN v PROVE v[i].id \in idsShown \cup {rows[j].id : j \in 1..size}
    <3>1. CASE i \in 1..n
      BY <3>1, <1>12
    <3>2. CASE i \notin 1..n
      <4>1. PICK k \in 1..card : i = n + k
        BY <3>2, <1>11, <1>14
      <4>2. v[i].id = rows[f[k]].id /\ f[k] \in 1..size
        BY ONLY <4>1, <1>8, <1>13
      <4> QED
        BY ONLY <4>2
    <3> QED
      BY <3>1, <3>2
  <2>2. ASSUME NEW id \in idsShown PROVE id \in {v[i].id : i \in DOMAIN v}
    <3>1. PICK i \in 1..n : v[i].id = id
      BY <1>12
    <3>2. i \in DOMAIN v
      BY <1>6, <1>10, <1>11
    <3> QED
      BY <3>1, <3>2
  <2>3. ASSUME NEW i \in 1..size PROVE rows[i].id \in {v[j].id : j \in DOMAIN v}
    <3>1. CASE rows[i].id \in idsShown
      BY <3>1, <2>2
    <3>2. CASE rows[i].id \notin idsShown
      <4>1. PICK k \in 1..card : v[n + k].id = rows[i].id
        BY <3>2, <1>13
      <4>2. n + k \in DOMAIN v
        BY <1>6, <1>10, <1>11
      <4> QED
        BY <4>1, <4>2
    <3> QED
      BY <3>1, <3>2
  <2> QED
    BY ONLY <2>1, <2>2, <2>3
<1>17. fresh = <<>> => {rows[i].id : i \in 1..size} \subseteq idsShown
  <2> SUFFICES ASSUME fresh = <<>>, NEW i \in 1..size PROVE rows[i].id \in idsShown
    OBVIOUS
  <2>1. card = 0
    BY <1>9
  <2> QED
    BY <2>1, <1>8
<1>18. Len(v) <= n + size
  BY ONLY <1>1, <1>6, <1>10, <1>11
<1>19. Len(v) <= Len(versions) + size
  BY ONLY <1>18 DEF n
<1>21. onceIn(v)
  BY <1>15 DEF onceIn
<1>20. idsIn(v) = idsShown \cup idsOf(top - size + 1, top)
  BY <1>2, <1>16 DEF idsIn
<1> QED
  BY <1>2, <1>11, <1>17, <1>19, <1>20, <1>21 DEF V, size, top

(***************************************************************************)
(* The steps: what they do to the rows on the server and to the list.      *)
(***************************************************************************)
LEMMA NextRows == ServerIsRecord /\ RowsInv /\ [Next]_vars => RowsInv' /\ RowsGrow
<1> SUFFICES ASSUME ServerIsRecord, RowsInv, [Next]_vars PROVE RowsInv' /\ RowsGrow
  OBVIOUS
<1>1. ASSUME server' = server PROVE RowsInv' /\ RowsGrow
  BY <1>1 DEF RowsInv, RowsGrow, rowCount
<1>2. CASE UNCHANGED vars \/ ScreenStep \/ ReadForField
  BY <1>1, <1>2, ScreenKeepsServer DEF vars, stored, ReadForField
<1>3. CASE \E c \in Saves, consolidate \in BOOLEAN : OtherSaves(c, consolidate)
  BY <1>3, StoredRows DEF OtherSaves
<1>4. CASE \E n \in Numbers, described \in BOOLEAN : SaveDescription(n, described)
  <2>1. PICK n \in Numbers, described \in BOOLEAN : SaveDescription(n, described)
    BY <1>4
  <2>2. server' = IF hasRow(n) THEN [server EXCEPT !.rows[rowOf(n)].described = described] ELSE server
    BY <2>1 DEF SaveDescription
  <2> QED
    BY <2>2, DescribedRows
<1>5. CASE RestoreField \/ RestoreVersion
  BY <1>5, StoredRows DEF RestoreField, RestoreVersion
<1> QED
  BY <1>2, <1>3, <1>4, <1>5, NextCases

ListShape == ListTypeOK /\ ShownOnce /\ ScreenIsStretch

LEMMA DifferenceGrows ==
    ASSUME NEW m \in Nat, NEW n \in Nat, NEW k \in Nat, NEW size \in Nat, m <= n, m - k >= size
    PROVE  n - k >= size
OBVIOUS

\* While the list stays as it is, the stretch does, whatever is stored.
LEMMA ListKept ==
    ASSUME RowsInv, RowsInv', RowsGrow, ListShape, open' = open,
           versions' = versions, total' = total, outrun' = outrun, page' = page, ended' = ended,
           overtaken' = overtaken, counted' \in {counted, 0} \/ counted' = rowCount,
           more' \in {more, 0} \/ (more' = page + 1 /\ ~ended)
    PROVE  ListShape'
<1>1. /\ rowCount \in Nat \ {0} /\ rowCount' \in Nat \ {0} /\ rowCount <= rowCount'
      /\ page \in Nat \ {0} /\ total \in Nat /\ more \in Nat /\ outrun \in Nat /\ counted \in Nat
      /\ total + outrun <= rowCount /\ counted <= rowCount
      /\ page * PageSize \in Nat /\ PageSize \in Nat
  BY Products DEF RowsInv, RowsGrow, ListShape, ListTypeOK, rowCount
<1>2. ListTypeOK'
  BY <1>1 DEF ListShape, ListTypeOK, rowCount
<1>3. ShownOnce'
  BY DEF ListShape, ShownOnce
<1>4. ASSUME NEW lo \in Nat, NEW hi \in Nat, Stretch(lo, hi) PROVE Stretch(lo, hi)'
  <2>1. /\ lo \in 1..rowCount /\ hi \in lo..rowCount /\ idsShown = idsOf(lo, hi) /\ hi <= total + outrun
        /\ lo = 1 \/ rowCount - lo + 1 >= page * PageSize
        /\ ended => lo = 1 \/ rowCount - hi >= PageSize
    BY <1>4 DEF Stretch
  <2>2. lo \in 1..rowCount' /\ hi \in lo..rowCount' /\ hi <= total' + outrun'
    BY <1>1, <2>1
  <2>3. idsShown' = idsShown
    BY DEF idsShown
  <2>4. \A i \in lo..hi : i \in 1..rowCount
    BY <1>1, <2>1
  <2>5. idsOf(lo, hi)' = idsOf(lo, hi)
    BY <2>4 DEF idsOf, RowsGrow
  <2>6. lo = 1 \/ rowCount' - lo + 1 >= page' * PageSize
    <3> DEFINE loaded == page * PageSize
    <3>1. page' * PageSize = loaded
      OBVIOUS
    <3> HIDE DEF loaded
    <3>2. loaded \in Nat /\ (lo = 1 \/ rowCount - lo + 1 >= loaded) /\ lo \in Nat
      BY <1>1, <2>1 DEF loaded
    <3> QED
      BY ONLY <1>1, <3>1, <3>2
  <2>7. ended' => lo = 1 \/ rowCount' - hi >= PageSize
    <3>1. ASSUME ended' PROVE lo = 1 \/ rowCount - hi >= PageSize
      BY <2>1, <3>1
    <3>2. PICK m \in Nat, n \in Nat : m = rowCount /\ n = rowCount' /\ m <= n
      BY <1>1
    <3>3. PageSize \in Nat
      BY <1>1
    <3>4. m - hi >= PageSize => n - hi >= PageSize
      BY ONLY <3>2, <3>3, hi \in Nat, m \in Nat, n \in Nat, DifferenceGrows
    <3> QED
      BY <3>1, <3>2, <3>4
  <2> QED
    BY <2>1, <2>2, <2>3, <2>5, <2>6, <2>7 DEF Stretch
<1>5. ScreenIsStretch'
  <2> SUFFICES ASSUME open', ~overtaken'
               PROVE  /\ more' \in {0, page' + 1} /\ (ended' => more' = 0)
                      /\ Len(versions') <= page' * PageSize
                      /\ \E lo, hi \in Nat : Stretch(lo, hi)'
    BY DEF ScreenIsStretch
  <2>1. /\ more \in {0, page + 1} /\ (ended => more = 0)
        /\ Len(versions) <= page * PageSize
        /\ \E lo, hi \in Nat : Stretch(lo, hi)
    BY DEF ListShape, ScreenIsStretch
  <2>2. more' \in {0, page' + 1} /\ (ended' => more' = 0)
    BY <2>1
  <2>3. \E lo, hi \in Nat : Stretch(lo, hi)'
    BY <2>1, <1>4
  <2> QED
    BY <2>1, <2>2, <2>3
<1> QED
  BY <1>2, <1>3, <1>5 DEF ListShape

LEMMA FirstPageList ==
    ASSUME RowsInv, server' = server, NEW count \in 0..rowCount, FirstPage(count),
           more' \in Nat, counted' \in 0..rowCount, overtaken' \/ more' = 0
    PROVE  ListShape'
<1>1. PageSize \in Nat \ {0} /\ 0 * PageSize = 0 /\ 1 * PageSize = PageSize /\ 0 + 1 = 1
  BY BoundsAssumption
<1>2. PICK n \in Nat \ {0} : n = rowCount
  BY DEF RowsInv
<1>3. rowCount' = n
  BY <1>2 DEF rowCount
<1>4. topOf(0) = n
  BY <1>1, <1>2 DEF topOf
<1>5. PICK size \in Nat : size = sizeOf(0)
  BY RowsOfPage
<1>6. size = IF n <= PageSize THEN n ELSE PageSize
  BY <1>1, <1>2, <1>4, <1>5 DEF sizeOf
<1>7. PICK lo \in Nat : lo = n - size + 1
  <2>1. PageSize \in Nat \ {0}
    BY <1>1
  <2>2. n - size + 1 \in Nat
    BY ONLY <1>6, <2>1, n \in Nat \ {0}, size \in Nat
  <2> QED
    BY ONLY <2>2
<1>8. /\ versions' = rowsOfPage(1) /\ total' = count /\ outrun' = n - count
      /\ page' = 1 /\ ended' = FALSE
  BY <1>2 DEF FirstPage, Answered, rowCount
<1>17. total' \in Nat /\ outrun' \in Nat /\ total' + outrun' = n
  BY <1>2, <1>8
<1>9. /\ versions' \in Seq([id : Nat, version : Nat]) /\ Len(versions') = size
      /\ \A i \in 1..size : n - i + 1 \in 1..n /\ versions'[i].id = server.rows[n - i + 1].id
  <2>1. 0 \in Nat
    OBVIOUS
  <2>2. /\ rowsOfPage(0 + 1) \in Seq([id : Nat, version : Nat]) /\ Len(rowsOfPage(0 + 1)) = sizeOf(0)
        /\ \A i \in 1..sizeOf(0) : /\ topOf(0) - i + 1 \in 1..rowCount
                                  /\ rowsOfPage(0 + 1)[i].id = server.rows[topOf(0) - i + 1].id
    BY ONLY <2>1, RowsInv, RowsOfPage
  <2>3. rowsOfPage(0 + 1) = versions'
    BY <1>1, <1>8
  <2> QED
    BY ONLY <2>2, <2>3, <1>2, <1>4, <1>5
<1>10. {versions'[i].id : i \in 1..size} = idsOf(lo, n)
  <2>1. {rowsOfPage(0 + 1)[i].id : i \in 1..sizeOf(0)} = idsOf(topOf(0) - sizeOf(0) + 1, topOf(0))
    BY IdsOfPage
  <2> QED
    BY <2>1, <1>1, <1>4, <1>5, <1>7, <1>8
<1>11. DOMAIN versions' = 1..size
  BY <1>9
<1>12. lo \in 1..n /\ n \in lo..n /\ size <= 1 * PageSize /\ (lo = 1 \/ n - lo + 1 >= 1 * PageSize)
  BY <1>1, <1>6, <1>7
<1>13. Stretch(lo, n)'
  <2>1. idsShown' = idsOf(lo, n)'
    BY <1>10, <1>11 DEF idsShown, idsOf
  <2> QED
    BY <2>1, <1>3, <1>8, <1>12, <1>17 DEF Stretch
<1>14. ShownOnce'
  <2> SUFFICES ASSUME NEW i \in 1..size, NEW j \in 1..size, i # j
               PROVE  versions'[i].id # versions'[j].id
    BY <1>11 DEF ShownOnce
  <2> DEFINE k == n - i + 1
             l == n - j + 1
  <2>1. k \in 1..rowCount /\ l \in 1..rowCount /\ (k < l \/ l < k)
    BY <1>2, <1>9
  <2>2. versions'[i].id = server.rows[k].id /\ versions'[j].id = server.rows[l].id
    BY <1>9
  <2> HIDE DEF k, l
  <2>3. server.rows[k].id \in Nat /\ server.rows[l].id \in Nat
    BY <2>1 DEF RowsInv
  <2>4. server.rows[k].id < server.rows[l].id \/ server.rows[l].id < server.rows[k].id
    BY <2>1 DEF RowsInv
  <2>5. server.rows[k].id # server.rows[l].id
    BY ONLY <2>3, <2>4
  <2> QED
    BY ONLY <2>2, <2>5
<1>15. ListTypeOK'
  BY <1>2, <1>3, <1>8, <1>9, <1>17 DEF ListTypeOK, rowCount
<1>16. ScreenIsStretch'
  <2>1. Len(versions') <= page' * PageSize
    BY <1>8, <1>9, <1>12
  <2> QED
    BY <2>1, <1>8, <1>13 DEF ScreenIsStretch
<1> QED
  BY <1>14, <1>15, <1>16 DEF ListShape

\* The page that arrives adjoins the stretch, on the side of the older rows or, when
\* rows have come, within it or just above; when it brings nothing new, the oldest
\* row is on screen or a page of newer ones is not.
LEMMA PageArrivesStretch ==
    ASSUME RowsInv, ListShape, PageArrives, open, ~overtaken'
    PROVE  /\ Len(versions') <= page' * PageSize
           /\ \E lo, hi \in Nat : Stretch(lo, hi)'
<1> DEFINE fresh == freshIn(rowsOfPage(page + 1))
<1>1. /\ server' = server /\ ~overtaken /\ page \in Nat \ {0} /\ more \in Nat
      /\ versions \in Seq([id : Nat, version : Nat]) /\ ShownOnce
  BY DEF PageArrives, stored, ListShape, ListTypeOK
<1>2. /\ more \in {0, page + 1} /\ (ended => more = 0)
      /\ Len(versions) <= page * PageSize
      /\ \E lo, hi \in Nat : Stretch(lo, hi)
  BY <1>1 DEF ListShape, ScreenIsStretch
<1>3. more = page + 1 /\ ~ended
  BY <1>2 DEF PageArrives
<1>4. PICK lo \in Nat, hi \in Nat : Stretch(lo, hi)
  BY <1>2
<1>5. PICK n \in Nat \ {0} : n = rowCount
  BY DEF RowsInv
<1>6. /\ lo \in 1..n /\ hi \in lo..n /\ idsShown = idsOf(lo, hi)
      /\ (lo = 1 \/ n - lo + 1 >= page * PageSize)
  BY <1>4, <1>5 DEF Stretch
<1>7. /\ page' = page + 1 /\ total' + outrun' = n /\ versions' = versions \o fresh
      /\ ended' = (fresh = <<>>)
  <2>1. counted \in Nat
    BY DEF ListShape, ListTypeOK
  <2> QED
    BY <1>3, <1>5, <2>1 DEF PageArrives, Answered, rowCount
<1>8. Cardinality(newerRows) = n - hi
  BY <1>5, <1>6, NewerCounted
<1>9. n - hi <= (page + 1) * PageSize
  <2>1. ~(Cardinality(newerRows) > more * PageSize)
    BY DEF PageArrives
  <2>2. (page + 1) * PageSize \in Nat
    <3>1. page + 1 \in Nat
      BY <1>1
    <3> QED
      BY <3>1, Products
  <2> QED
    BY <2>1, <2>2, <1>3, <1>5, <1>6, <1>8
<1>10. PICK loaded \in Nat : loaded = page * PageSize
  BY <1>1, Products
<1>11. PageSize \in Nat \ {0} /\ (page + 1) * PageSize = loaded + PageSize
  BY <1>1, <1>10, Products
<1>12. PICK size \in Nat, top \in Int : size = sizeOf(page) /\ top = topOf(page) /\ top = n - loaded
  <2>1. topOf(page) = n - loaded
    BY <1>5, <1>10 DEF topOf
  <2>2. sizeOf(page) \in Nat
    BY <1>1, RowsOfPage
  <2> QED
    BY <2>1, <2>2
<1>13. size = IF top <= 0 THEN 0 ELSE IF top <= PageSize THEN top ELSE PageSize
  BY <1>12 DEF sizeOf
<1>14. PICK bottom \in Int : bottom = top - size + 1
  OBVIOUS
<1> HIDE DEF fresh
<1>15. /\ versions' \in Seq([id : Nat, version : Nat]) /\ Len(versions') <= Len(versions) + size
       /\ idsIn(versions') = idsShown \cup idsOf(bottom, top)
       /\ fresh = <<>> => idsOf(bottom, top) \subseteq idsShown
  <2>1. page \in Nat /\ fresh = freshIn(rowsOfPage(page + 1))
    BY <1>1 DEF fresh
  <2>2. /\ versions' \in Seq([id : Nat, version : Nat])
        /\ Len(versions') <= Len(versions) + sizeOf(page)
        /\ idsIn(versions') = idsShown \cup idsOf(topOf(page) - sizeOf(page) + 1, topOf(page))
        /\ fresh = <<>> => idsOf(topOf(page) - sizeOf(page) + 1, topOf(page)) \subseteq idsShown
    <3>1. versions \in Seq([id : Nat, version : Nat]) /\ ShownOnce
      BY <1>1
    <3>2. versions' = versions \o fresh
      BY <1>7
    <3>3. versions' \in Seq([id : Nat, version : Nat])
      BY ONLY <3>1, <3>2, <2>1, RowsInv, FreshAdded
    <3>4. Len(versions') <= Len(versions) + sizeOf(page)
      BY ONLY <3>1, <3>2, <2>1, RowsInv, FreshAdded
    <3>5. idsIn(versions') = idsShown \cup idsOf(topOf(page) - sizeOf(page) + 1, topOf(page))
      BY ONLY <3>1, <3>2, <2>1, RowsInv, FreshAdded
    <3>6. fresh = <<>> => idsOf(topOf(page) - sizeOf(page) + 1, topOf(page)) \subseteq idsShown
      BY ONLY <3>1, <3>2, <2>1, RowsInv, FreshAdded
    <3> QED
      BY ONLY <3>3, <3>4, <3>5, <3>6
  <2> QED
    BY ONLY <2>2, <1>12, <1>14
<1>16. Len(versions) \in Nat /\ Len(versions) = hi - lo + 1 /\ Len(versions) <= loaded
  <2>1. Cardinality(idsShown) = Len(versions)
    BY <1>1, ShownCounted
  <2>2. Cardinality(idsOf(lo, hi)) = hi - lo + 1
    BY <1>5, <1>6, IdsCounted
  <2>3. Len(versions) \in Nat
    BY <1>1
  <2> QED
    BY <2>1, <2>2, <2>3, <1>2, <1>6, <1>10
<1>17. Len(versions') <= page' * PageSize
  <2>1. size <= PageSize
    BY <1>11, <1>13
  <2>3. Len(versions') \in Nat /\ Len(versions') <= Len(versions) + size
    BY <1>15
  <2>2. Len(versions') <= loaded + PageSize
    BY ONLY <2>1, <2>3, <1>11, <1>16, loaded \in Nat, size \in Nat
  <2> QED
    BY <2>2, <1>7, <1>11
<1>18. PICK low \in Nat, high \in Nat : /\ low = IF size > 0 /\ bottom < lo THEN bottom ELSE lo
                                        /\ high = IF size > 0 /\ top > hi THEN top ELSE hi
  <2>1. size > 0 => top \in Nat /\ bottom \in Nat
    BY <1>13, <1>14
  <2> QED
    BY <2>1
<1>19. size > 0 => /\ bottom \in 1..n /\ top \in bottom..n /\ bottom <= hi + 1 /\ top >= lo - 1
                   /\ (bottom = 1 \/ bottom = n - loaded - PageSize + 1)
  <2>1. n - hi <= loaded + PageSize /\ (lo = 1 \/ n - lo + 1 >= loaded)
    BY <1>6, <1>9, <1>10, <1>11
  <2>2. PageSize \in Nat \ {0} /\ lo \in 1..n /\ hi \in lo..n
    BY <1>6, <1>11
  <2>3. top = n - loaded
    BY <1>12
  <2> QED
    BY ONLY <2>1, <2>2, <2>3, <1>13, <1>14, n \in Nat \ {0}, loaded \in Nat, size \in Nat, hi \in Nat,
            lo \in Nat
<1>20. size = 0 => lo = 1 /\ idsOf(bottom, top) = {}
  <2>1. ASSUME size = 0 PROVE top <= 0 /\ bottom > top
    BY <2>1, <1>11, <1>13, <1>14
  <2>2. ASSUME size = 0 PROVE lo = 1
    BY <2>1, <2>2, <1>6, <1>10, <1>12
  <2>3. ASSUME size = 0 PROVE idsOf(bottom, top) = {}
    <3>1. bottom..top = {}
      BY <2>1, <2>3
    <3> QED
      BY <3>1 DEF idsOf
  <2> QED
    BY <2>2, <2>3
<1>21. idsOf(lo, hi) \cup idsOf(bottom, top) = idsOf(low, high)
  <2>1. CASE size = 0
    BY <2>1, <1>18, <1>20
  <2>2. CASE size > 0
    <3>1. lo..hi \cup bottom..top = low..high
      BY ONLY <2>2, <1>6, <1>18, <1>19, n \in Nat \ {0}, lo \in Nat, hi \in Nat, bottom \in Int, top \in Int
    <3> QED
      BY <3>1 DEF idsOf
  <2> QED
    BY <2>1, <2>2
<1>22. low \in 1..n /\ high \in low..n
  BY <1>6, <1>18, <1>19
<1>23. low = 1 \/ n - low + 1 >= (page + 1) * PageSize
  <2>1. CASE size = 0
    BY <2>1, <1>18, <1>20
  <2>2. CASE size > 0
    <3>1. low <= bottom /\ low \in Nat
      BY <2>2, <1>6, <1>18
    <3>2. low = 1 \/ n - low + 1 >= loaded + PageSize
      BY ONLY <2>2, <3>1, <1>11, <1>19, <1>22, n \in Nat \ {0}, loaded \in Nat
    <3> QED
      BY <3>2, <1>11
  <2> QED
    BY <2>1, <2>2
<1>24. fresh = <<>> => low = 1 \/ n - high >= PageSize
  <2> SUFFICES ASSUME fresh = <<>> PROVE low = 1 \/ n - high >= PageSize
    OBVIOUS
  <2>1. CASE size = 0
    BY <2>1, <1>18, <1>20
  <2>2. CASE size > 0
    <3>1. lo <= bottom
      <4>6. server.rows[bottom].id \in idsOf(bottom, top)
        <5>1. bottom \in bottom..top
          BY <2>2, <1>19
        <5> QED
          BY ONLY <5>1 DEF idsOf
      <4>1. server.rows[bottom].id \in idsOf(lo, hi)
        BY <4>6, <1>6, <1>15
      <4>2. PICK k \in lo..hi : server.rows[k].id = server.rows[bottom].id
        BY <4>1 DEF idsOf
      <4>3. k \in 1..rowCount /\ bottom \in 1..rowCount
        BY <2>2, <1>5, <1>6, <1>19
      <4>4. server.rows[k].id \in Nat
        BY <4>3 DEF RowsInv
      <4>5. k = bottom
        BY <4>2, <4>3, <4>4 DEF RowsInv
      <4> QED
        BY <4>5, <1>6
    <3>2. top <= hi
      <4>6. server.rows[top].id \in idsOf(bottom, top)
        <5>1. top \in bottom..top
          BY <2>2, <1>19
        <5> QED
          BY ONLY <5>1 DEF idsOf
      <4>1. server.rows[top].id \in idsOf(lo, hi)
        BY <4>6, <1>6, <1>15
      <4>2. PICK k \in lo..hi : server.rows[k].id = server.rows[top].id
        BY <4>1 DEF idsOf
      <4>3. k \in 1..rowCount /\ top \in 1..rowCount
        BY <2>2, <1>5, <1>6, <1>19
      <4>4. server.rows[k].id \in Nat
        BY <4>3 DEF RowsInv
      <4>5. k = top
        BY <4>2, <4>3, <4>4 DEF RowsInv
      <4> QED
        BY <4>5, <1>6
    <3>3. low = lo /\ high = hi
      BY <3>1, <3>2, <1>18
    <3>4. lo = 1 \/ n - hi >= PageSize
      BY ONLY <2>2, <3>1, <1>6, <1>11, <1>16, <1>19, n \in Nat \ {0}, loaded \in Nat
    <3> QED
      BY <3>3, <3>4
  <2> QED
    BY <2>1, <2>2
<1>25. rowCount' = n /\ idsOf(low, high)' = idsOf(low, high)
  BY <1>1, <1>5 DEF rowCount, idsOf
<1>26. idsShown' = idsOf(low, high)
  BY <1>6, <1>15, <1>21 DEF idsShown, idsIn
<1>27. Stretch(low, high)'
  <2>1. ended' => low = 1 \/ n - high >= PageSize
    BY <1>7, <1>24
  <2>2. high <= n
    BY <1>22
  <2> QED
    BY <2>1, <2>2, <1>7, <1>22, <1>23, <1>25, <1>26 DEF Stretch
<1> QED
  BY <1>17, <1>27

LEMMA PageArrivesShape ==
    ASSUME RowsInv, PageInv, ListShape, PageArrives
    PROVE  ListShape'
<1>1. /\ server' = server /\ open' = open /\ more \in Nat \ {0} /\ more' = 0 /\ page \in Nat \ {0}
      /\ page' = page + 1 /\ total' \in Nat /\ outrun' \in Nat /\ total' + outrun' = rowCount
      /\ counted' = 0
      /\ versions \in Seq([id : Nat, version : Nat]) /\ ShownOnce
  BY DEF PageArrives, Answered, stored, ListShape, ListTypeOK, RowsInv, rowCount
<1>2. PICK p \in Nat : more = p + 1
  <2>1. more - 1 \in Nat /\ more = (more - 1) + 1
    BY <1>1
  <2> QED
    BY <2>1
<1>3. versions' = versions \o freshIn(rowsOfPage(p + 1))
  BY <1>2 DEF PageArrives
<1>4. rowCount' = rowCount /\ rowCount \in Nat
  BY <1>1 DEF rowCount, RowsInv
<1>5. versions' \in Seq([id : Nat, version : Nat])
  BY ONLY <1>1, <1>3, p \in Nat, RowsInv, FreshAdded
<1>6. onceIn(versions')
  BY ONLY <1>1, <1>3, p \in Nat, RowsInv, FreshAdded
<1>7. ListTypeOK'
  BY <1>1, <1>4, <1>5 DEF ListTypeOK, rowCount
<1>8. ShownOnce'
  BY <1>6 DEF ShownOnce, onceIn
<1>9. ScreenIsStretch'
  <2> SUFFICES ASSUME open', ~overtaken' PROVE ScreenIsStretch'
    BY DEF ScreenIsStretch
  <2>1. Len(versions') <= page' * PageSize /\ \E lo, hi \in Nat : Stretch(lo, hi)'
    BY <1>1, PageArrivesStretch
  <2> QED
    BY <2>1, <1>1 DEF ScreenIsStretch
<1> QED
  BY <1>7, <1>8, <1>9 DEF ListShape

LEMMA ClosedShape ==
    ASSUME RowsInv', Closed, restore' = Idle
    PROVE  PageInv' /\ ListShape'
<1>1. /\ versions' = <<>> /\ total' = 0 /\ page' = 1 /\ more' = 0 /\ open' = FALSE /\ overtaken' = FALSE
      /\ counted' = 0 /\ outrun' = 0
  BY DEF Closed
<1>2. ListTypeOK'
  BY <1>1 DEF ListTypeOK, RowsInv
<1>3. ShownOnce'
  BY <1>1 DEF ShownOnce
<1>4. ScreenIsStretch'
  BY <1>1 DEF ScreenIsStretch
<1>5. PageInv'
  BY <1>1 DEF PageInv
<1> QED
  BY <1>2, <1>3, <1>4, <1>5 DEF ListShape

\* The steps that leave the list as it is, but for the page that is asked for.
ListUnchanged ==
    /\ open' = open /\ versions' = versions /\ total' = total /\ outrun' = outrun /\ page' = page
    /\ ended' = ended /\ overtaken' = overtaken
    /\ counted' \in {counted, 0} \/ counted' = rowCount

LEMMA ListSteps ==
    Next => \/ OpenPage \/ PageArrives \/ Refresh
            \/ Closed /\ restore' = Idle
            \/ LoadMore /\ ListUnchanged
            \/ PageFails /\ ListUnchanged
            \/ ListUnchanged /\ more' = more /\ (open \/ restore' = restore \/ restore # Idle)
<1> SUFFICES ASSUME Next
             PROVE  \/ OpenPage \/ PageArrives \/ Refresh
                    \/ Closed /\ restore' = Idle
                    \/ LoadMore /\ ListUnchanged
                    \/ PageFails /\ ListUnchanged
                    \/ ListUnchanged /\ more' = more /\ (open \/ restore' = restore \/ restore # Idle)
  OBVIOUS
<1> USE DEF ListUnchanged, list, Click, rowCount
<1>1. CASE OpenPage \/ PageArrives \/ Refresh
  BY <1>1
<1>2. CASE Leave \/ RestoreVersion
  BY <1>2 DEF Leave, RestoreVersion
<1>3. CASE LoadMore
  BY <1>3 DEF LoadMore
<1>4. CASE PageFails
  BY <1>4 DEF PageFails
<1>5. CASE \E c \in Saves, consolidate \in BOOLEAN : OtherSaves(c, consolidate)
  BY <1>5 DEF OtherSaves
<1>6. CASE \E n \in Numbers : ToggleDiff(n) \/ EditsArrive(n) \/ EditsFail(n) \/ OpenVersionRestore(n)
  BY <1>6 DEF ToggleDiff, EditsArrive, EditsFail, OpenVersionRestore
<1>7. CASE \E n \in Numbers, described \in BOOLEAN : SaveDescription(n, described)
  BY <1>7 DEF SaveDescription
<1>8. CASE \E field \in diffFields : OpenFieldRestore(field)
  BY <1>8 DEF OpenFieldRestore
<1>9. CASE CountRows \/ CancelRestore \/ ReadForField \/ RestoreField \/ CountForRefresh \/ RestoreFails
  <2>1. CASE CancelRestore
    BY <2>1 DEF CancelRestore, Idle
  <2>2. CASE ReadForField
    BY <2>2 DEF ReadForField, Idle
  <2>3. CASE CountRows
    BY <2>3 DEF CountRows
  <2>4. CASE RestoreField
    BY <2>4 DEF RestoreField, Idle
  <2>5. CASE RestoreFails
    BY <2>5 DEF RestoreFails, Idle
  <2>6. CASE CountForRefresh
    BY <2>6 DEF CountForRefresh, Idle
  <2> QED
    BY <1>9, <2>1, <2>2, <2>3, <2>4, <2>5, <2>6
<1>10. CASE VersionReads
  BY <1>10 DEF VersionReads, ConfirmVersion, FindVersion, ReplayVersion, ReadCurrent, Idle
<1> QED
  BY <1>1, <1>2, <1>3, <1>4, <1>5, <1>6, <1>7, <1>8, <1>9, <1>10 DEF Next, VersionReads

LEMMA NextRefreshCounted ==
    ASSUME RowsInv, RowsInv', RowsGrow, RefreshCounted, [Next]_vars
    PROVE  RefreshCounted'
<1>1. rowCount \in Nat /\ rowCount' \in Nat /\ rowCount <= rowCount'
  BY DEF RowsInv, RowsGrow
<1>2. ASSUME restore' = restore \/ restore'.pc # "refresh" PROVE RefreshCounted'
  BY <1>1, <1>2 DEF RefreshCounted
<1>3. CASE UNCHANGED vars
  BY <1>2, <1>3 DEF vars
<1>4. CASE ScreenStep
  <2>1. CASE CountForRefresh
    <3>1. restore'.count = rowCount
      BY <2>1 DEF CountForRefresh, rowCount
    <3> QED
      BY <1>1, <3>1 DEF RefreshCounted
  <2>2. CASE ~CountForRefresh
    <3>1. restore' = restore \/ restore'.pc # "refresh"
      BY <1>4, <2>2 DEF ScreenStep, CountRows, OpenPage, Leave, LoadMore, PageArrives, PageFails, ToggleDiff,
         EditsArrive, EditsFail, OpenVersionRestore, OpenFieldRestore, CancelRestore, VersionReads,
         ConfirmVersion, FindVersion, ReplayVersion, ReadCurrent, versionRestore, Refresh, RestoreFails, Idle
    <3> QED
      BY <1>2, <3>1
  <2> QED
    BY <2>1, <2>2
<1>5. CASE \E c \in Saves, consolidate \in BOOLEAN : OtherSaves(c, consolidate)
  BY <1>2, <1>5 DEF OtherSaves
<1>6. CASE \E n \in Numbers, described \in BOOLEAN : SaveDescription(n, described)
  BY <1>2, <1>6 DEF SaveDescription
<1>7. CASE ReadForField \/ RestoreVersion
  <2>1. ReadForField => restore'.pc = "putField"
    BY DEF ReadForField
  <2>2. RestoreVersion => restore'.pc = "idle"
    BY DEF RestoreVersion, Idle
  <2> QED
    BY <1>2, <1>7, <2>1, <2>2
<1>8. CASE RestoreField
  <2>1. restore'.count = 0
    BY <1>8 DEF RestoreField
  <2> QED
    BY <1>1, <2>1 DEF RefreshCounted
<1> QED
  BY <1>3, <1>4, <1>5, <1>6, <1>7, <1>8, NextCases

LEMMA NextListInv == ServerIsRecord /\ ListInv /\ [Next]_vars => ListInv'
<1> SUFFICES ASSUME ServerIsRecord, RowsInv, PageInv, RefreshCounted, ListShape, [Next]_vars
             PROVE  RowsInv' /\ PageInv' /\ RefreshCounted' /\ ListShape'
  BY DEF ListInv, ListShape
<1>1. RowsInv' /\ RowsGrow /\ RefreshCounted'
  BY NextRows, NextRefreshCounted
<1>2. more \in Nat /\ page \in Nat \ {0} /\ counted \in 0..rowCount /\ rowCount \in Nat
  BY DEF ListShape, ListTypeOK, RowsInv, rowCount
<1>3. CASE UNCHANGED vars
  <2>1. ListUnchanged /\ more' = more /\ restore' = restore
    BY <1>3 DEF vars, list, ListUnchanged
  <2> QED
    BY <2>1, <1>1, ListKept DEF ListUnchanged, PageInv
<1>4. CASE OpenPage
  <2>1. FirstPage(counted) /\ server' = server /\ more' = 0 /\ open' = TRUE /\ counted' = 0
    BY <1>4 DEF OpenPage, stored, PageInv
  <2>2. ListShape'
    BY <1>2, <2>1, FirstPageList
  <2> QED
    BY <2>1, <2>2, <1>1 DEF PageInv
<1>5. CASE PageArrives
  <2>1. open /\ open' = open
    BY <1>5 DEF PageArrives, PageInv
  <2> QED
    BY <2>1, <1>1, <1>5, PageArrivesShape DEF PageInv
<1>6. CASE Refresh
  <2>1. /\ FirstPage(restore.count) /\ server' = server /\ more' = more /\ open' = open
        /\ counted' = counted /\ overtaken' = (more # 0) /\ restore # Idle /\ restore.pc = "refresh"
    BY <1>6 DEF Refresh, stored, Idle
  <2>2. open' /\ (overtaken' \/ more' = 0)
    BY <2>1 DEF PageInv
  <2>3. restore.count \in 0..rowCount
    BY <2>1 DEF RefreshCounted
  <2>4. ListShape'
    BY <2>1, <2>2, <2>3, <1>2, FirstPageList
  <2> QED
    BY <2>2, <2>4, <1>1 DEF PageInv
<1>7. CASE Closed /\ restore' = Idle
  BY <1>1, <1>7, ClosedShape
<1>8. CASE LoadMore /\ ListUnchanged
  <2>1. more' = page + 1 /\ ~ended /\ open /\ open'
    BY <1>8 DEF LoadMore, hasMoreVersions, Click, ListUnchanged
  <2> QED
    BY <2>1, <1>1, <1>8, ListKept DEF ListUnchanged, PageInv
<1>9. CASE PageFails /\ ListUnchanged
  <2>1. more' = 0 /\ restore' = restore
    BY <1>9 DEF PageFails
  <2> QED
    BY <2>1, <1>1, <1>9, ListKept DEF ListUnchanged, PageInv
<1>10. CASE ListUnchanged /\ more' = more /\ (open \/ restore' = restore \/ restore # Idle)
  BY <1>1, <1>10, ListKept DEF ListUnchanged, PageInv
<1> QED
  BY <1>1, <1>3, <1>4, <1>5, <1>6, <1>7, <1>8, <1>9, <1>10, ListSteps

LEMMA InitListInv == Init => ListInv
<1> SUFFICES ASSUME Init PROVE ListInv
  OBVIOUS
<1>1. PICK c \in Saves : server = [version |-> 1, content |-> c,
                 rows |-> <<[id |-> 1, version |-> 1, described |-> FALSE, saves |-> <<>>]>>]
  BY DEF Init
<1>2. server.version = 1 /\ Len(server.rows) = 1 /\ DOMAIN server.rows = {1}
      /\ server.rows[1].id = 1 /\ server.rows[1].version = 1
      /\ {"id", "version"} \subseteq DOMAIN server.rows[1]
  BY <1>1
<1>3. server.rows = [i \in 1..1 |-> server.rows[i]]
  BY <1>1
<1>4. RowsInv
  BY <1>2, <1>3 DEF RowsInv, rowCount
<1>5. /\ versions = <<>> /\ total = 0 /\ page = 1 /\ more = 0 /\ overtaken = FALSE /\ open = FALSE
      /\ counted = 0 /\ outrun = 0 /\ restore = Idle
  BY DEF Init
<1>6. PageInv /\ RefreshCounted
  BY <1>5 DEF PageInv, RefreshCounted, Idle
<1>7. ListTypeOK
  BY <1>2, <1>5 DEF ListTypeOK, rowCount
<1>8. ShownOnce /\ ScreenIsStretch
  BY <1>5 DEF ShownOnce, ScreenIsStretch
<1> QED
  BY <1>4, <1>6, <1>7, <1>8 DEF ListInv

LEMMA ListFollowsFromStretch ==
    ASSUME ListInv
    PROVE  ListFollowsServer
<1> USE DEF ListInv
<1>1. Cardinality(idsShown) = Len(versions)
  BY ShownCounted DEF ListTypeOK
<1>2. CASE overtaken
  BY <1>1, <1>2 DEF ListFollowsServer, ListHasNoGaps, EndIsTheOldest
<1>3. CASE ~open
  <2>1. idsShown = {}
    BY <1>3 DEF PageInv, idsShown
  <2> QED
    BY <1>1, <1>3, <2>1 DEF ListFollowsServer, ListHasNoGaps, EndIsTheOldest
<1>4. CASE open /\ ~overtaken
  <2>1. PICK lo \in Nat, hi \in Nat : Stretch(lo, hi)
    BY <1>4 DEF ScreenIsStretch
  <2>2. /\ lo \in 1..rowCount /\ hi \in lo..rowCount /\ idsShown = idsOf(lo, hi) /\ hi <= total + outrun
        /\ (ended => lo = 1 \/ rowCount - hi >= PageSize)
    BY <2>1 DEF Stretch
  <2>3. rowCount \in Nat /\ DOMAIN server.rows = 1..rowCount /\ total \in Nat /\ outrun \in Nat
    BY DEF RowsInv, ListTypeOK
  <2>4. ASSUME NEW i \in 1..rowCount, NEW a \in idsShown, NEW b \in idsShown,
               a < server.rows[i].id, server.rows[i].id < b
        PROVE  server.rows[i].id \in idsShown
    <3>1. PICK k \in lo..hi, l \in lo..hi : a = server.rows[k].id /\ b = server.rows[l].id
      BY <2>2 DEF idsOf
    <3>2. k \in 1..rowCount /\ l \in 1..rowCount
      BY <2>2, <2>3
    <3>3. ~(i < k) /\ ~(l < i)
      <4>1. /\ server.rows[i].id \in Nat /\ server.rows[k].id \in Nat /\ server.rows[l].id \in Nat
            /\ (i < k => server.rows[i].id < server.rows[k].id)
            /\ (l < i => server.rows[l].id < server.rows[i].id)
        BY <3>2 DEF RowsInv
      <4> QED
        BY <2>4, <3>1, <4>1
    <3>4. i \in lo..hi
      BY <2>2, <2>3, <3>1, <3>2, <3>3
    <3> QED
      BY <2>2, <3>4 DEF idsOf
  <2>5. ListHasNoGaps
    BY <1>1, <2>3, <2>4 DEF ListHasNoGaps
  <2>6. ASSUME ~hasMoreVersions PROVE Cardinality(olderRows) <= outrun \/ Cardinality(newerRows) >= PageSize
    <3>1. Cardinality(olderRows) = lo - 1
      BY <2>2, OlderCounted
    <3>2. Cardinality(newerRows) = rowCount - hi
      BY <2>2, NewerCounted
    <3>3. CASE ended
      BY <2>2, <2>3, <3>1, <3>2, <3>3
    <3>4. CASE ~ended
      <4>1. ~(Len(versions) < total)
        BY <2>6, <3>4 DEF hasMoreVersions
      <4>2. Len(versions) = hi - lo + 1
        BY <1>1, <2>2, IdsCounted
      <4>3. lo - 1 <= outrun
        BY <2>2, <2>3, <4>1, <4>2
      <4> QED
        BY <3>1, <4>3
    <3> QED
      BY <3>3, <3>4
  <2> QED
    BY <1>4, <2>5, <2>6 DEF ListFollowsServer, EndIsTheOldest
<1> QED
  BY <1>2, <1>3, <1>4

(* VersionHistory.vue:274-308, assessments.ts:257-296: for a page of any    *)
(* size and however many rows come while the list is loaded, the rows on    *)
(* screen are a stretch of the rows on the server, each once, which when no *)
(* more are offered leaves out at most as many old rows as came between the *)
(* count of the rows and the page.                                          *)
THEOREM ListFollowsServerHolds == Spec => []ListFollowsServer
<1>1. Init => ListInv
  BY InitListInv
<1>2. RestoreInv => ServerIsRecord
  BY DEF RestoreInv
<1>3. ListInv => ListFollowsServer
  BY ListFollowsFromStretch
<1> QED
  BY <1>1, <1>2, <1>3, NextListInv, RestoreIsOfVersionHolds, PTL DEF Spec

-------------------------------------------------------------------------------
(***************************************************************************)
(* What the edits say.  The rows chain the contents: a row starts where    *)
(* the one below ends, and each of its saves is the difference of two      *)
(* contents that were stored one after the other.                          *)
(***************************************************************************)
WasInv ==
    /\ server.version \in Nat \ {0}
    /\ was \in Seq(Content) /\ Len(was) = server.version
    /\ server.content = was[server.version]

\* Row i holds the saves from one content to another.
Chained(rows, contents, i) ==
    LET saves == rows[i].saves
        start == rows[i - 1].version
    IN  /\ saves = [j \in 1..Len(saves) |-> saves[j]] /\ Len(saves) \in Nat \ {0}
        /\ rows[i].version = start + Len(saves)
        /\ \A j \in 1..Len(saves) :
              saves[j] = diffStates(contents[start + j - 1], contents[start + j])

RowsChain ==
    /\ \A i \in 1..rowCount : "saves" \in DOMAIN server.rows[i]
    /\ \A i, j \in 1..rowCount : i < j => server.rows[i].version < server.rows[j].version
    /\ server.rows[1].version = 1 /\ server.rows[1].saves = <<>>
    /\ \A i \in 2..rowCount : Chained(server.rows, was, i)
    /\ server.rows[rowCount].version = server.version

\* What is put back to is what was before the row.
FieldRight(field) ==
    /\ field.key \in Keys
    /\ field.before \in Content
    /\ field.key \in Questions => field.old = field.before[field.key]
    /\ field.key = "group" =>
          \/ field.type = "instance_added" /\ field.before["group"] = NoElement
          \/ /\ field.type = "instance_removed" /\ field.old \in Values \ {NoElement}
             /\ field.before["group"] # NoElement
    /\ field.key = "child" =>
          /\ field.type = "answer_change" /\ field.old \in Values
          /\ ~field.bundled => field.old = field.before["group"]

FieldsRight ==
    /\ asking \subseteq Nat \ {0, 1}
    /\ \A field \in diffFields : FieldRight(field)
    /\ restore.pc \in {"confirmField", "putField", "refresh"} => FieldRight(restore.field)
    /\ restore.pc = "putField" => \E c \in Content : restore.state = withField(c, restore.field)

\* The number has its row, or was passed over since that was found; and the state is
\* the one of that number, or then maybe of the row below.
Found(n) == n \in 1..server.version /\ (hasRow(n) \/ \E i \in DOMAIN server.rows : PassedOver(i, n))

StateOf(state, n) ==
    \/ state = was[n]
    \/ \E i \in DOMAIN server.rows : PassedOver(i, n) /\ state = was[server.rows[i].version]

VersionRight ==
    restore.pc = "putVersion" =>
        /\ restore.read = "row" => Found(restore.version)
        /\ restore.read = "state" => Found(restore.version) /\ StateOf(restore.state, restore.version)

EditsInv == WasInv /\ RowsChain /\ FieldsRight /\ VersionRight

-------------------------------------------------------------------------------
(***************************************************************************)
(* Induction.  The library's theorems take a predicate as parameter, which *)
(* no prover here instantiates; a set of numbers does as well.             *)
(***************************************************************************)
LEMMA Least ==
    ASSUME NEW T, T \subseteq Nat, T # {}
    PROVE  \E x \in T : \A y \in T : x <= y
<1> DEFINE R == OpToRel(<, Nat)
<1>1. IsWellFoundedOn(R, Nat)
  BY NatLessThanWellFounded
<1>2. \A x, y \in Nat : <<y, x>> \in R <=> y < x
  BY DEF OpToRel
<1> HIDE DEF R
<1>3. PICK x \in T : \A y \in T : ~ (<<y, x>> \in R)
  BY <1>1, WFMin
<1>4. ASSUME NEW y \in T PROVE x <= y
  <2>1. x \in Nat /\ y \in Nat
    OBVIOUS
  <2>2. ~ (y < x)
    BY <2>1, <1>2, <1>3
  <2> QED
    BY <2>1, <2>2
<1> QED
  BY <1>4

LEMMA NatSetInduction ==
    ASSUME NEW S, 0 \in S, \A n \in Nat : n \in S => n + 1 \in S
    PROVE  Nat \subseteq S
<1> SUFFICES ASSUME Nat \ S # {} PROVE FALSE
  OBVIOUS
<1>1. PICK x \in Nat \ S : \A y \in Nat \ S : x <= y
  BY Least
<1>2. x # 0
  BY <1>1
<1>3. x - 1 \in Nat /\ x - 1 \in S
  BY <1>1, <1>2
<1> QED
  BY <1>1, <1>3

\* A recursion over 0..n has one solution: what satisfies its equation is what the
\* recursive function computes.
LEMMA SameRecursion ==
    ASSUME NEW n \in Nat, NEW f, NEW g, f[0] = g[0],
           \A i \in 1..n : f[i - 1] = g[i - 1] => f[i] = g[i]
    PROVE  \A i \in 0..n : f[i] = g[i]
<1> DEFINE S == {i \in Nat : i <= n => f[i] = g[i]}
<1>1. 0 \in S
  OBVIOUS
<1>2. ASSUME NEW i \in Nat, i \in S PROVE i + 1 \in S
  <2> SUFFICES ASSUME i + 1 <= n PROVE f[i + 1] = g[i + 1]
    OBVIOUS
  <2>1. f[i] = g[i] /\ i + 1 \in 1..n /\ (i + 1) - 1 = i
    BY <1>2
  <2> QED
    BY <2>1
<1> HIDE DEF S
<1>3. Nat \subseteq S
  BY <1>1, <1>2, NatSetInduction
<1> QED
  BY <1>3 DEF S

LEMMA ReplayFollows ==
    ASSUME NEW saves, Len(saves) \in Nat, NEW g, g = [i \in 0..Len(saves) |-> g[i]],
           \A i \in 1..Len(saves) : g[i] = apply(g[i - 1], saves[i])
    PROVE  replay(g[0], saves) = g[Len(saves)]
<1> DEFINE n == Len(saves)
           step(f) == [i \in 0..n |-> IF i = 0 THEN g[0] ELSE apply(f[i - 1], saves[i])]
           after == CHOOSE f : f = step(f)
<1>1. g = step(g)
  <2>1. \A i \in 0..n : i # 0 => i \in 1..n
    OBVIOUS
  <2> QED
    BY <2>1
<1>2. after = step(after)
  BY <1>1
<1>3. replay(g[0], saves) = after[n]
  BY DEF replay
<1> HIDE DEF after
<1>4. after[0] = g[0] /\ \A i \in 1..n : after[i] = apply(after[i - 1], saves[i])
  BY <1>2
<1>5. \A i \in 0..n : after[i] = g[i]
  <2>1. /\ n \in Nat /\ after[0] = g[0]
        /\ \A i \in 1..n : after[i - 1] = g[i - 1] => after[i] = g[i]
    BY <1>4
  <2> HIDE DEF n, step
  <2> QED
    BY ONLY <2>1, SameRecursion
<1> QED
  BY <1>3, <1>5

(* diffStates.ts:109-167: what kind of edit a difference has.               *)
EditSays(e, a, b) ==
    /\ e.key \in Questions => e.old = a[e.key]
    /\ e.key = "group" => \/ e.type = "instance_added" /\ a["group"] = NoElement
                          \/ /\ e.type = "instance_removed" /\ a["group"] \in Values
                             /\ e.old = a["group"]
    /\ e.key = "child" => /\ e.type = "answer_change" /\ e.old = a["group"]
                          /\ a["group"] \in Values /\ b["group"] \in Values

LEMMA DiffSays ==
    ASSUME NEW a \in Content, NEW b \in Content
    PROVE  /\ \A e \in diffStates(a, b) : e.key \in Keys /\ EditSays(e, a, b)
           /\ \A q \in Questions : a[q] = b[q] \/ \E e \in diffStates(a, b) : e.key = q
           /\ a["group"] = b["group"] \/ \E e \in diffStates(a, b) : e.key \in {"group", "child"}
           /\ \/ a["group"] = NoElement <=> b["group"] = NoElement
              \/ \E e \in diffStates(a, b) : e.key = "group"
<1> DEFINE edits == diffStates(a, b)
           changes == {[key |-> q, type |-> "answer_change", old |-> a[q], new |-> b[q]] :
                          q \in {p \in Questions : a[p] # b[p]}}
           ofGroup == [key |-> IF NoElement \in {a["group"], b["group"]} THEN "group" ELSE "child",
                       type |-> IF a["group"] = NoElement THEN "instance_added"
                                ELSE IF b["group"] = NoElement THEN "instance_removed"
                                ELSE "answer_change",
                       old |-> a["group"], new |-> b["group"]]
<1>1. edits = changes \cup (IF a["group"] = b["group"] THEN {} ELSE {ofGroup})
  BY DEF diffStates
<1>2. "group" \notin Questions /\ "child" \notin Questions /\ "group" # "child"
  BY QuestionsAssumption
<1>3. {a["group"], b["group"]} \subseteq Values \cup {NoElement}
  BY DEF Content
<1>4. \A e \in changes : e.key \in Keys /\ EditSays(e, a, b)
  BY <1>2 DEF EditSays, Keys
<1>5. a["group"] # b["group"] => ofGroup.key \in Keys /\ EditSays(ofGroup, a, b)
  BY <1>2, <1>3 DEF EditSays, Keys
<1>6. \A e \in edits : e.key \in Keys /\ EditSays(e, a, b)
  BY <1>1, <1>4, <1>5
<1>7. \A q \in Questions : a[q] = b[q] \/ \E e \in edits : e.key = q
  <2> SUFFICES ASSUME NEW q \in Questions, a[q] # b[q] PROVE \E e \in edits : e.key = q
    OBVIOUS
  <2>1. [key |-> q, type |-> "answer_change", old |-> a[q], new |-> b[q]] \in changes
    OBVIOUS
  <2> QED
    BY <1>1, <2>1
<1>8. a["group"] # b["group"] => ofGroup \in edits
  BY <1>1
<1>9. ofGroup.key \in {"group", "child"}
      /\ (NoElement \in {a["group"], b["group"]} => ofGroup.key = "group")
  OBVIOUS
<1> HIDE DEF changes, ofGroup, edits
<1> QED
  BY <1>6, <1>7, <1>8, <1>9 DEF edits

(* diffStates.ts:109-167, rebuildState.ts:56-172: the edits between two      *)
(* contents turn the one into the other.                                    *)
LEMMA ApplyDiff ==
    ASSUME NEW a \in Content, NEW b \in Content
    PROVE  apply(a, diffStates(a, b)) = b
<1> DEFINE edits == diffStates(a, b)
           mine(k) == {e \in edits : e.key = k \/ (e.key = "child" /\ k = "group")}
<1>1. /\ DOMAIN a = Questions \cup {"group"} /\ DOMAIN b = Questions \cup {"group"}
      /\ a = [k \in Questions \cup {"group"} |-> a[k]]
      /\ b = [k \in Questions \cup {"group"} |-> b[k]]
  BY DEF Content
<1>2. \A e \in edits : \/ e.key \in Questions /\ e.key # "group" /\ e.key # "child" /\ e.new = b[e.key]
                       \/ e.key \in {"group", "child"} /\ e.new = b["group"]
  BY QuestionsAssumption DEF diffStates
<1>3. \A k \in Questions \cup {"group"} : \A e \in mine(k) : e.new = b[k]
  BY <1>2, QuestionsAssumption
<1>4. \A k \in Questions \cup {"group"} : mine(k) = {} => a[k] = b[k]
  <2> SUFFICES ASSUME NEW k \in Questions \cup {"group"}, a[k] # b[k] PROVE mine(k) # {}
    OBVIOUS
  <2>1. CASE k \in Questions
    <3>1. [key |-> k, type |-> "answer_change", old |-> a[k], new |-> b[k]] \in mine(k)
      BY <2>1 DEF diffStates
    <3> QED
      BY <3>1
  <2>2. CASE k = "group"
    <3>1. \E e \in edits : e.key \in {"group", "child"}
      BY <2>2, DiffSays
    <3> QED
      BY <2>2, <3>1
  <2> QED
    BY <2>1, <2>2
<1>5. apply(a, edits) = [k \in Questions \cup {"group"} |->
                            IF mine(k) = {} THEN a[k] ELSE (CHOOSE e \in mine(k) : TRUE).new]
  BY <1>1 DEF apply
<1>6. \A k \in Questions \cup {"group"} :
         mine(k) # {} => (CHOOSE e \in mine(k) : TRUE) \in mine(k)
  OBVIOUS
<1> HIDE DEF edits, mine
<1>7. apply(a, edits) = [k \in Questions \cup {"group"} |-> b[k]]
  BY <1>3, <1>4, <1>5, <1>6
<1> QED
  BY <1>1, <1>7 DEF edits

-------------------------------------------------------------------------------
(***************************************************************************)
(* The chain is kept by every save.                                        *)
(***************************************************************************)
(* assessments.ts:162-222: what a save does to the rows.                    *)
LEMMA StoredLastRow ==
    ASSUME ServerIsRecord, RowsInv, RowsChain, NEW content, NEW consolidate, NEW description,
           Stored(content, consolidate, description)
    PROVE  LET edits == diffStates(server.content, content)
               last == server'.rows[rowCount']
           IN  /\ rowCount' = IF consolidate THEN rowCount ELSE rowCount + 1
               /\ \A i \in 1..(rowCount' - 1) : server'.rows[i] = server.rows[i]
               /\ "saves" \in DOMAIN last /\ last.version = server.version + 1
               /\ last.saves = IF consolidate THEN Append(server.rows[rowCount].saves, edits) ELSE <<edits>>
<1> DEFINE n == server.version + 1
           edits == diffStates(server.content, content)
           newest == Last(server.rows)
           merged == [newest EXCEPT !.version = n, !.saves = Append(@, edits)]
           fresh == [id |-> n, version |-> n, described |-> description, saves |-> <<edits>>]
           S == {server.rows[i] : i \in 1..rowCount} \cup {merged}
           T == {server.rows[i] : i \in 1..rowCount} \cup {fresh}
<1>1. rowCount \in Nat \ {0} /\ Len(server.rows) = rowCount /\ newest = server.rows[rowCount]
  BY DEF RowsInv, rowCount, Last
<1>2. server.rows \in Seq(S) /\ server.rows \in Seq(T)
  BY <1>1, FunctionIsSequence DEF RowsInv, rowCount
<1>3. {"id", "version", "saves"} \subseteq DOMAIN newest
  BY <1>1 DEF RowsInv, RowsChain
<1>4. merged.version = n /\ merged.saves = Append(newest.saves, edits) /\ "saves" \in DOMAIN merged
  BY <1>3
<1>5. fresh.version = n /\ fresh.saves = <<edits>> /\ "saves" \in DOMAIN fresh
  OBVIOUS
<1>6. merged \in S /\ fresh \in T
  OBVIOUS
<1>7. CASE consolidate
  <2>1. server'.rows = Front(server.rows) \o <<merged>>
    BY <1>7 DEF Stored
  <2> HIDE DEF merged, S, n, edits
  <2>2. /\ Len(server'.rows) = rowCount /\ server'.rows[rowCount] = merged
        /\ \A i \in 1..(rowCount - 1) : server'.rows[i] = server.rows[i]
    BY ONLY <1>1, <1>2, <1>6, <2>1, LastReplaced
  <2>3. rowCount' = rowCount
    BY <2>2 DEF rowCount
  <2> QED
    BY <1>1, <1>4, <1>7, <2>2, <2>3 DEF n, edits
<1>8. CASE ~consolidate
  <2>1. server'.rows = Append(server.rows, fresh)
    BY <1>8 DEF Stored
  <2> HIDE DEF fresh, T, n, edits
  <2>2. /\ Len(server'.rows) = rowCount + 1 /\ server'.rows[rowCount + 1] = fresh
        /\ \A i \in 1..rowCount : server'.rows[i] = server.rows[i]
    BY <1>1, <1>2, <1>6, <2>1, AppendGrows
  <2>3. rowCount' = rowCount + 1 /\ 1..(rowCount' - 1) = 1..rowCount
    BY <1>1, <2>2 DEF rowCount
  <2>4. \A i \in 1..(rowCount' - 1) : server'.rows[i] = server.rows[i]
    BY ONLY <2>2, <2>3
  <2>5. server'.rows[rowCount'] = fresh
    BY ONLY <2>2, <2>3
  <2> QED
    BY <1>5, <1>8, <2>3, <2>4, <2>5 DEF n, edits
<1> QED
  BY <1>7, <1>8

\* Rows that are as they were, and contents that were only added to.
LEMMA ChainedKept ==
    ASSUME NEW rows, NEW contents, NEW newRows, NEW newContents, NEW n \in Nat, NEW i \in Nat \ {0, 1},
           Chained(rows, contents, i), rows[i - 1].version \in Nat \ {0}, rows[i].version <= n,
           newRows[i].saves = rows[i].saves, newRows[i].version = rows[i].version,
           newRows[i - 1].version = rows[i - 1].version,
           \A v \in 1..n : newContents[v] = contents[v]
    PROVE  Chained(newRows, newContents, i)
<1> DEFINE saves == rows[i].saves
           start == rows[i - 1].version
<1>1. /\ saves = [j \in 1..Len(saves) |-> saves[j]] /\ Len(saves) \in Nat \ {0}
      /\ rows[i].version = start + Len(saves)
      /\ \A j \in 1..Len(saves) :
            saves[j] = diffStates(contents[start + j - 1], contents[start + j])
  BY DEF Chained
<1>2. start \in Nat \ {0} /\ start + Len(saves) <= n
  BY <1>1
<1> HIDE DEF saves, start
<1>3. ASSUME NEW j \in 1..Len(saves)
      PROVE  saves[j] = diffStates(newContents[start + j - 1], newContents[start + j])
  <2>1. start + j - 1 \in 1..n /\ start + j \in 1..n
    BY <1>1, <1>2
  <2> QED
    BY <1>1, <2>1
<1> QED
  BY <1>1, <1>3 DEF Chained, saves, start

LEMMA ChainVersions ==
    ASSUME RowsInv, WasInv, RowsChain
    PROVE  \A i \in 1..rowCount : /\ server.rows[i].version \in Nat \ {0}
                                  /\ server.rows[i].version <= server.version
<1> SUFFICES ASSUME NEW i \in 1..rowCount
             PROVE  server.rows[i].version \in Nat \ {0} /\ server.rows[i].version <= server.version
  OBVIOUS
<1>1. rowCount \in Nat \ {0} /\ server.rows[i].version \in Nat /\ server.rows[1].version = 1
      /\ server.version \in Nat
  BY DEF RowsInv, WasInv, RowsChain
<1>2. i = 1 \/ 1 < i
  BY <1>1
<1>3. i = rowCount \/ i < rowCount
  BY <1>1
<1>4. server.rows[i].version >= 1
  BY <1>1, <1>2 DEF RowsChain
<1>5. server.rows[i].version <= server.version
  BY <1>1, <1>3 DEF RowsChain
<1> QED
  BY <1>1, <1>4, <1>5

LEMMA StoredChain ==
    ASSUME ServerIsRecord, RowsInv, WasInv, RowsChain,
           NEW content \in Content, NEW consolidate, NEW description,
           consolidate => server.rows[rowCount].version # 1,
           Stored(content, consolidate, description)
    PROVE  WasInv' /\ RowsChain' /\ \A v \in 1..server.version : was'[v] = was[v]
<1> DEFINE N == server.version
           n == rowCount
           m == rowCount'
           edits == diffStates(server.content, content)
           rows == server'.rows
<1>1. /\ N \in Nat \ {0} /\ server'.version = N + 1 /\ server'.content = content
      /\ was' = Append(was, content)
  BY StoredServer DEF WasInv, Stored
<1>2. was \in Seq(Content) /\ Len(was) = N /\ server.content = was[N]
  BY DEF WasInv
<1> HIDE DEF N
<1>3. /\ was' \in Seq(Content) /\ Len(was') = N + 1 /\ was'[N + 1] = content
      /\ \A v \in 1..N : was'[v] = was[v]
  BY ONLY <1>1, <1>2, content \in Content, AppendGrows
<1>4. WasInv'
  BY ONLY <1>1, <1>3 DEF WasInv
<1>5. /\ n \in Nat \ {0} /\ m = IF consolidate THEN n ELSE n + 1
      /\ \A i \in 1..(m - 1) : rows[i] = server.rows[i]
      /\ "saves" \in DOMAIN rows[m] /\ rows[m].version = N + 1
      /\ rows[m].saves = IF consolidate THEN Append(server.rows[n].saves, edits) ELSE <<edits>>
  <2>1. n \in Nat \ {0}
    BY DEF RowsInv
  <2> HIDE DEF n, m, edits, rows
  <2>2. /\ m = IF consolidate THEN n ELSE n + 1
        /\ \A i \in 1..(m - 1) : rows[i] = server.rows[i]
        /\ "saves" \in DOMAIN rows[m] /\ rows[m].version = N + 1
        /\ rows[m].saves = IF consolidate THEN Append(server.rows[n].saves, edits) ELSE <<edits>>
    BY StoredLastRow DEF N, n, m, edits, rows
  <2> QED
    BY <2>1, <2>2
<1>6. /\ server.rows[1].version = 1 /\ server.rows[1].saves = <<>>
      /\ server.rows[n].version = N
      /\ \A i \in 1..n : /\ "saves" \in DOMAIN server.rows[i] /\ server.rows[i].version <= N
                         /\ server.rows[i].version \in Nat \ {0}
      /\ \A i, j \in 1..n : i < j => server.rows[i].version < server.rows[j].version
      /\ \A i \in 2..n : Chained(server.rows, was, i)
  BY ChainVersions DEF RowsChain, N
<1> HIDE DEF n, m, edits, rows
<1>7. m \in Nat /\ m >= 2 /\ m <= n + 1
  <2>1. ~(consolidate /\ n = 1)
    BY <1>6 DEF n
  <2> QED
    BY ONLY <1>5, <2>1
<1>8. \A i \in 1..m : i = m \/ (i \in 1..(m - 1) /\ i \in 1..n)
  <2>1. n \in Nat
    BY <1>5
  <2> QED
    BY ONLY <1>7, <2>1
<1>9. \A i \in 1..m : "saves" \in DOMAIN rows[i]
  BY ONLY <1>5, <1>6, <1>8
<1>10. ASSUME NEW i \in 1..m, NEW j \in 1..m, i < j
       PROVE  rows[i].version < rows[j].version
  <2>1. i \in 1..(m - 1) /\ i \in 1..n /\ rows[i] = server.rows[i]
    BY ONLY <1>5, <1>7, <1>8, <1>10
  <2>2. CASE j = m
    BY ONLY <2>1, <2>2, <1>1, <1>5, <1>6
  <2>3. CASE j # m
    BY ONLY <2>1, <2>3, <1>5, <1>6, <1>8, <1>10
  <2> QED
    BY <2>2, <2>3
<1>11. rows[1].version = 1 /\ rows[1].saves = <<>>
  BY ONLY <1>5, <1>6, <1>7
<1>12. ASSUME NEW i \in 2..m, i # m PROVE Chained(rows, was', i)
  <2>1. i \in 2..n /\ i \in 1..(m - 1) /\ i - 1 \in 1..(m - 1) /\ i - 1 \in 1..n /\ i \in 1..n /\ i \in Nat \ {0, 1}
    BY ONLY <1>5, <1>7, <1>12
  <2>2. rows[i] = server.rows[i] /\ rows[i - 1] = server.rows[i - 1]
    BY ONLY <2>1, <1>5
  <2>3. N \in Nat /\ Chained(server.rows, was, i) /\ server.rows[i - 1].version \in Nat \ {0}
        /\ server.rows[i].version <= N
    BY ONLY <2>1, <1>1, <1>6
  <2>4. /\ rows[i].saves = server.rows[i].saves /\ rows[i].version = server.rows[i].version
        /\ rows[i - 1].version = server.rows[i - 1].version
    BY <2>2
  <2>5. i \in Nat \ {0, 1} /\ \A v \in 1..N : was'[v] = was[v]
    BY <2>1, <1>3
  <2> DEFINE oldRows == server.rows
             contents == was'
  <2> HIDE DEF oldRows, contents
  <2>6. /\ Chained(oldRows, was, i) /\ oldRows[i - 1].version \in Nat \ {0}
        /\ oldRows[i].version <= N /\ rows[i].saves = oldRows[i].saves
        /\ rows[i].version = oldRows[i].version /\ rows[i - 1].version = oldRows[i - 1].version
        /\ \A v \in 1..N : contents[v] = was[v]
    BY <2>3, <2>4, <2>5 DEF oldRows, contents
  <2>7. N \in Nat
    BY <2>3
  <2>8. Chained(rows, contents, i)
    BY ONLY <2>5, <2>6, <2>7, ChainedKept
  <2> QED
    BY <2>8 DEF contents
<1>13. Chained(rows, was', m)
  <2> DEFINE saves == rows[m].saves
             start == rows[m - 1].version
  <2>1. m - 1 \in 1..(m - 1) /\ rows[m - 1] = server.rows[m - 1]
    BY ONLY <1>5, <1>7
  <2>2. edits = diffStates(was'[N], was'[N + 1])
    BY <1>1, <1>2, <1>3 DEF edits
  <2>3. CASE consolidate
    <3> DEFINE old == server.rows[n].saves
    <3>1. m = n /\ n \in 2..n /\ n - 1 \in 1..n
      BY ONLY <2>3, <1>5, <1>7
    <3>2. /\ old = [j \in 1..Len(old) |-> old[j]] /\ Len(old) \in Nat \ {0}
          /\ N = start + Len(old)
          /\ \A j \in 1..Len(old) : old[j] = diffStates(was[start + j - 1], was[start + j])
      BY <2>1, <3>1, <1>6 DEF Chained
    <3>3. start \in Nat \ {0}
      BY ONLY <2>1, <3>1, <1>6
    <3>4. saves = Append(old, edits)
      BY ONLY <2>3, <1>5, <3>1
    <3> DEFINE S == {old[j] : j \in 1..Len(old)} \cup {edits}
    <3>5. old \in Seq(S) /\ edits \in S
      BY ONLY <3>2, FunctionIsSequence
    <3> HIDE DEF old, S, saves, start
    <3>6. /\ saves \in Seq(S) /\ Len(saves) = Len(old) + 1 /\ saves[Len(old) + 1] = edits
          /\ \A j \in 1..Len(old) : saves[j] = old[j]
      BY ONLY <3>4, <3>5, AppendGrows
    <3>7. saves = [j \in 1..Len(saves) |-> saves[j]] /\ Len(saves) \in Nat \ {0}
      BY ONLY <3>2, <3>6
    <3>8. N + 1 = start + Len(saves)
      BY ONLY <1>1, <3>2, <3>3, <3>6
    <3>9. ASSUME NEW j \in 1..Len(saves)
          PROVE  saves[j] = diffStates(was'[start + j - 1], was'[start + j])
      <4>1. CASE j = Len(old) + 1
        <5>1. start + j - 1 = N /\ start + j = N + 1
          BY ONLY <4>1, <1>1, <3>2, <3>3
        <5> QED
          BY ONLY <4>1, <5>1, <2>2, <3>6
      <4>2. CASE j # Len(old) + 1
        <5>1. j \in 1..Len(old)
          BY ONLY <4>2, <3>2, <3>6, <3>9
        <5>2. start + j - 1 \in 1..N /\ start + j \in 1..N
          BY ONLY <5>1, <1>1, <3>2, <3>3
        <5> QED
          BY ONLY <5>1, <5>2, <1>3, <3>2, <3>6
      <4> QED
        BY <4>1, <4>2
    <3> QED
      BY <1>5, <3>7, <3>8, <3>9 DEF Chained, saves, start
  <2>4. CASE ~consolidate
    <3>1. m - 1 = n /\ start = N
      BY ONLY <2>1, <2>4, <1>5, <1>6
    <3>2. saves = <<edits>>
      BY ONLY <2>4, <1>5
    <3> HIDE DEF saves, start
    <3>3. Len(saves) = 1 /\ saves = [j \in 1..Len(saves) |-> saves[j]] /\ saves[1] = edits
      BY ONLY <3>2
    <3>4. N + 1 = start + Len(saves) /\ start + 1 - 1 = N /\ start + 1 = N + 1
      BY ONLY <3>1, <3>3, <1>1
    <3>5. \A j \in 1..Len(saves) : saves[j] = diffStates(was'[start + j - 1], was'[start + j])
      <4>1. \A j \in 1..Len(saves) : j = 1
        BY <3>3
      <4> QED
        BY ONLY <4>1, <3>3, <3>4, <2>2
    <3> QED
      BY <1>5, <3>3, <3>4, <3>5 DEF Chained, saves, start
  <2> QED
    BY <2>3, <2>4
<1>14. RowsChain'
  <2>1. rows[m].version = server'.version
    BY <1>1, <1>5
  <2> QED
    BY <1>9, <1>10, <1>11, <1>12, <1>13, <2>1 DEF RowsChain, rows, m
<1> QED
  BY <1>3, <1>4, <1>14 DEF N

-------------------------------------------------------------------------------
(***************************************************************************)
(* Replaying the rows gives the contents that were stored.                 *)
(***************************************************************************)
LEMMA ReplayRow ==
    ASSUME NEW rows, NEW i \in Nat \ {0, 1}, NEW contents \in Seq(Content),
           Chained(rows, contents, i), rows[i - 1].version \in Nat \ {0},
           rows[i].version <= Len(contents)
    PROVE  replay(contents[rows[i - 1].version], rows[i].saves) = contents[rows[i].version]
<1> DEFINE saves == rows[i].saves
           start == rows[i - 1].version
           g == [j \in 0..Len(saves) |-> contents[start + j]]
<1>1. /\ Len(saves) \in Nat \ {0} /\ rows[i].version = start + Len(saves)
      /\ \A j \in 1..Len(saves) :
            saves[j] = diffStates(contents[start + j - 1], contents[start + j])
  BY DEF Chained
<1>2. start \in Nat \ {0} /\ Len(contents) \in Nat /\ start + Len(saves) <= Len(contents)
  BY <1>1
<1> HIDE DEF saves, start
<1>3. ASSUME NEW j \in 1..Len(saves) PROVE g[j] = apply(g[j - 1], saves[j])
  <2>1. /\ start + j - 1 \in 1..Len(contents) /\ start + j \in 1..Len(contents)
        /\ j \in 0..Len(saves) /\ j - 1 \in 0..Len(saves) /\ start + (j - 1) = start + j - 1
    BY <1>1, <1>2
  <2>2. contents[start + j - 1] \in Content /\ contents[start + j] \in Content
    BY <2>1
  <2>3. apply(contents[start + j - 1], saves[j]) = contents[start + j]
    BY <1>1, <2>2, ApplyDiff
  <2> QED
    BY <2>1, <2>3
<1>4. 0 \in 0..Len(saves) /\ Len(saves) \in 0..Len(saves) /\ start + 0 = start
  BY <1>1, <1>2
<1>5. g[0] = contents[start] /\ g[Len(saves)] = contents[start + Len(saves)]
  BY <1>4
<1>6. g = [j \in 0..Len(saves) |-> g[j]]
  OBVIOUS
<1> HIDE DEF g
<1>7. replay(g[0], saves) = g[Len(saves)]
  BY <1>1, <1>3, <1>6, ReplayFollows
<1> QED
  BY <1>1, <1>5, <1>7 DEF saves, start

LEMMA RebuildFollows ==
    ASSUME rowCount \in Nat, NEW n, NEW g, g = [i \in 0..rowCount |-> g[i]], g[0] = was[1],
           \A i \in 1..rowCount :
              g[i] = IF upTo(server.rows[i], n) THEN replay(g[i - 1], server.rows[i].saves) ELSE g[i - 1]
    PROVE  rebuildState(n) = g[rowCount]
<1> DEFINE next(f, i) == IF upTo(server.rows[i], n) THEN replay(f[i - 1], server.rows[i].saves)
                         ELSE f[i - 1]
           step(f) == [i \in 0..rowCount |-> IF i = 0 THEN was[1] ELSE next(f, i)]
           after == CHOOSE f : f = step(f)
<1>1. g = step(g)
  <2>1. \A i \in 0..rowCount : i # 0 => i \in 1..rowCount
    OBVIOUS
  <2> QED
    BY <2>1
<1> HIDE DEF next
<1>2. after = step(after)
  BY <1>1
<1>3. rebuildState(n) = after[rowCount]
  BY DEF rebuildState, rowCount, next
<1> HIDE DEF after
<1>4. after[0] = was[1] /\ \A i \in 1..rowCount : after[i] = next(after, i)
  <2>1. \A i \in 1..rowCount : i \in 0..rowCount /\ i # 0
    OBVIOUS
  <2> QED
    BY <1>2, <2>1
<1>5. \A i \in 1..rowCount : after[i - 1] = g[i - 1] => after[i] = g[i]
  BY <1>4 DEF next
<1> HIDE DEF step
<1>6. \A i \in 0..rowCount : after[i] = g[i]
  <2>1. rowCount \in Nat /\ after[0] = g[0]
    BY <1>4
  <2> QED
    BY ONLY <2>1, <1>5, SameRecursion
<1> QED
  BY <1>3, <1>6

(* rebuildState.ts:16-179: whatever the rows consolidate, replaying those up *)
(* to a number gives the content of the newest of them.                     *)
LEMMA RebuildGivesNewest ==
    ASSUME RowsInv, WasInv, RowsChain, NEW n \in Nat, NEW k \in 1..rowCount,
           server.rows[k].version <= n,
           \A i \in 1..rowCount : k < i => n < server.rows[i].version
    PROVE  rebuildState(n) = was[server.rows[k].version]
<1> DEFINE end(i) == server.rows[i].version
           g == [i \in 0..rowCount |-> IF i = 0 THEN was[1]
                                       ELSE IF end(i) <= n THEN was[end(i)] ELSE was[end(k)]]
<1>1. rowCount \in Nat \ {0} /\ DOMAIN server.rows = 1..rowCount
  BY DEF RowsInv
<1>2. end(k) <= n /\ \A i \in 1..rowCount : k < i => n < end(i)
  OBVIOUS
<1>3. \A i \in 1..rowCount : end(i) \in Nat \ {0} /\ end(i) <= server.version
  BY ChainVersions
<1>4. /\ \A i, j \in 1..rowCount : i < j => end(i) < end(j)
      /\ end(1) = 1 /\ server.rows[1].saves = <<>>
      /\ \A i \in 2..rowCount : Chained(server.rows, was, i)
      /\ end(rowCount) = server.version
      /\ was \in Seq(Content) /\ Len(was) = server.version
      /\ server.version \in Nat \ {0}
  BY DEF RowsChain, WasInv
<1>5. n \in Nat \ {0}
  BY <1>2, <1>3
<1> HIDE DEF end
<1>6. ASSUME NEW i \in 1..rowCount
      PROVE  g[i] = IF upTo(server.rows[i], n) THEN replay(g[i - 1], server.rows[i].saves) ELSE g[i - 1]
  <2>1. upTo(server.rows[i], n) <=> end(i) <= n
    BY DEF upTo, end
  <2>2. i \in 0..rowCount /\ i # 0 /\ g[i] = IF end(i) <= n THEN was[end(i)] ELSE was[end(k)]
    BY <1>1
  <2>3. CASE i = 1
    <3>1. end(i) <= n /\ g[i] = was[1] /\ g[i - 1] = was[1]
      BY <2>2, <2>3, <1>1, <1>4, <1>5
    <3>2. replay(was[1], <<>>) = was[1]
      <4> DEFINE h == [j \in 0..Len(<<>>) |-> was[1]]
      <4>1. h = [j \in 0..Len(<<>>) |-> h[j]] /\ h[0] = was[1] /\ h[Len(<<>>)] = was[1]
        OBVIOUS
      <4>2. Len(<<>>) \in Nat /\ 1..Len(<<>>) = {}
        OBVIOUS
      <4> HIDE DEF h
      <4> QED
        BY <4>1, <4>2, ReplayFollows
    <3> QED
      BY <2>1, <2>3, <3>1, <3>2, <1>4
  <2>4. CASE i # 1
    <3>1. i \in Nat \ {0, 1} /\ i \in 2..rowCount /\ i - 1 \in 1..rowCount /\ i - 1 < i
          /\ i - 1 \in 0..rowCount /\ i - 1 # 0
      BY <2>4, <1>1
    <3>2. g[i - 1] = IF end(i - 1) <= n THEN was[end(i - 1)] ELSE was[end(k)]
      BY <3>1
    <3>3. end(i - 1) < end(i) /\ end(i - 1) \in Nat \ {0} /\ end(i) \in Nat /\ end(i) <= server.version
          /\ n \in Nat
      BY <3>1, <1>3, <1>4, <1>5
    <3> HIDE DEF g
    <3>4. CASE end(i) <= n
      <4>1. replay(was[end(i - 1)], server.rows[i].saves) = was[end(i)]
        BY <3>1, <3>3, <1>4, ReplayRow DEF end
      <4>2. end(i - 1) <= n
        BY <3>3, <3>4
      <4> QED
        BY <2>1, <2>2, <3>2, <3>4, <4>1, <4>2
    <3>5. CASE ~(end(i) <= n)
      <4>1. end(i - 1) <= n => i - 1 = k
        <5> SUFFICES ASSUME end(i - 1) <= n PROVE i - 1 = k
          OBVIOUS
        <5>1. ~(k < i - 1)
          BY <1>2, <3>1, <3>3
        <5>2. ~(i < k) /\ i # k
          BY <1>2, <1>3, <1>4, <3>3, <3>5
        <5> QED
          BY <5>1, <5>2, <3>1, <1>1
      <4> QED
        BY <2>1, <2>2, <3>2, <3>5, <4>1
    <3> QED
      BY <3>4, <3>5
  <2> QED
    BY <2>3, <2>4
<1>7. g = [i \in 0..rowCount |-> g[i]] /\ g[0] = was[1]
  BY <1>1
<1>8. g[rowCount] = was[end(k)]
  <2>1. rowCount \in 0..rowCount /\ rowCount # 0 /\ rowCount \in 1..rowCount
    BY <1>1
  <2>2. g[rowCount] = IF end(rowCount) <= n THEN was[end(rowCount)] ELSE was[end(k)]
    BY <2>1
  <2>3. end(rowCount) <= n => rowCount = k
    BY <1>1, <1>2, <1>3, <2>1
  <2> QED
    BY <2>2, <2>3
<1> HIDE DEF g
<1>9. rebuildState(n) = g[rowCount]
  BY <1>1, <1>6, <1>7, RebuildFollows
<1> QED
  BY <1>8, <1>9 DEF end

LEMMA RebuildGivesVersion ==
    ASSUME RowsInv, WasInv, RowsChain, NEW n, hasRow(n)
    PROVE  n \in 1..server.version /\ rebuildState(n) = was[n]
<1>1. PICK k \in 1..rowCount : server.rows[k].version = n
  BY DEF hasRow, RowsInv
<1>2. n \in Nat /\ n \in 1..server.version
  BY <1>1, ChainVersions DEF WasInv
<1>3. \A i \in 1..rowCount : k < i => n < server.rows[i].version
  BY <1>1 DEF RowsChain
<1> QED
  BY <1>1, <1>2, <1>3, RebuildGivesNewest

LEMMA RebuildGivesBelow ==
    ASSUME RowsInv, WasInv, RowsChain, NEW n \in Nat, NEW k \in DOMAIN server.rows, PassedOver(k, n)
    PROVE  rebuildState(n) = was[server.rows[k].version]
<1>1. /\ k \in 1..rowCount /\ k + 1 \in 1..rowCount
      /\ server.rows[k].version < n /\ n < server.rows[k + 1].version
  BY DEF PassedOver, RowsInv
<1>2. ASSUME NEW i \in 1..rowCount, k < i PROVE n < server.rows[i].version
  <2>1. i = k + 1 \/ k + 1 < i
    BY <1>1, <1>2
  <2>2. k + 1 < i => server.rows[k + 1].version < server.rows[i].version
    BY <1>1 DEF RowsChain
  <2>3. server.rows[k + 1].version \in Nat /\ server.rows[i].version \in Nat
    BY <1>1 DEF RowsInv
  <2> QED
    BY <1>1, <2>1, <2>2, <2>3
<1>3. server.rows[k].version <= n
  BY <1>1 DEF RowsInv
<1> QED
  BY <1>1, <1>2, <1>3, RebuildGivesNewest

-------------------------------------------------------------------------------
(***************************************************************************)
(* A version that was found for a restore, while others save.              *)
(***************************************************************************)
\* No row loses its place; only the newest number grows, and never that of row 1.
NumbersGrow ==
    /\ server.version <= server'.version
    /\ rowCount <= rowCount'
    /\ \A i \in 1..rowCount :
          \/ server'.rows[i].version = server.rows[i].version
          \/ i = rowCount /\ i # 1 /\ server.version < server'.rows[i].version
    /\ \A v \in 1..server.version : was'[v] = was[v]

LEMMA PassedOverKept ==
    ASSUME RowsInv, RowsInv', WasInv, RowsChain, NumbersGrow, NEW i \in DOMAIN server.rows, NEW n \in Nat,
           PassedOver(i, n)
    PROVE  /\ i \in DOMAIN server'.rows /\ PassedOver(i, n)'
           /\ was'[server'.rows[i].version] = was[server.rows[i].version]
<1>1. /\ i \in 1..rowCount /\ i + 1 \in 1..rowCount /\ DOMAIN server'.rows = 1..rowCount'
      /\ rowCount \in Nat /\ rowCount' \in Nat /\ rowCount <= rowCount'
  BY DEF PassedOver, RowsInv, NumbersGrow
<1>2. server'.rows[i].version = server.rows[i].version
  BY <1>1 DEF NumbersGrow
<1>3. /\ server.rows[i].version \in 1..server.version
      /\ server.rows[i + 1].version \in 1..server.version /\ server.version \in Nat
  BY <1>1, ChainVersions DEF WasInv
<1>4. n < server'.rows[i + 1].version
  <2>1. n < server.rows[i + 1].version
    BY DEF PassedOver
  <2>2. server'.rows[i + 1].version \in Nat
    BY <1>1 DEF RowsInv
  <2>3. \/ server'.rows[i + 1].version = server.rows[i + 1].version
        \/ server.version < server'.rows[i + 1].version
    BY <1>1 DEF NumbersGrow
  <2> QED
    BY <1>3, <2>1, <2>2, <2>3
<1> QED
  BY <1>1, <1>2, <1>3, <1>4 DEF PassedOver, NumbersGrow

LEMMA FoundKept ==
    ASSUME RowsInv, RowsInv', WasInv, RowsChain, NumbersGrow, server'.version \in Nat, NEW n, Found(n)
    PROVE  Found(n)'
<1>1. n \in Nat /\ n \in 1..server.version /\ n \in 1..server'.version
  BY DEF Found, WasInv, NumbersGrow
<1>2. CASE hasRow(n)
  <2>1. PICK k \in 1..rowCount : server.rows[k].version = n
    BY <1>2 DEF hasRow, RowsInv
  <2>2. k \in 1..rowCount' /\ DOMAIN server'.rows = 1..rowCount' /\ rowCount \in Nat /\ rowCount' \in Nat
    BY DEF RowsInv, NumbersGrow
  <2>3. CASE server'.rows[k].version = n
    BY <1>1, <2>2, <2>3 DEF Found, hasRow
  <2>4. CASE server'.rows[k].version # n
    <3>1. k = rowCount /\ k # 1 /\ server.version < server'.rows[k].version
      BY <2>1, <2>4 DEF NumbersGrow
    <3>2. PICK i \in 1..rowCount : i = k - 1
      BY <2>2, <3>1
    <3>3. i < k /\ i + 1 = k /\ i # rowCount
      BY <2>2, <3>1, <3>2
    <3>4. server'.rows[i].version = server.rows[i].version /\ server.rows[i].version < n
      BY <2>1, <3>3 DEF NumbersGrow, RowsChain
    <3>5. n < server'.rows[k].version
      <4>1. server'.rows[k].version \in Nat /\ server.version \in Nat
        BY <2>2 DEF RowsInv, WasInv
      <4> QED
        BY <1>1, <3>1, <4>1
    <3>6. i \in DOMAIN server'.rows /\ i + 1 \in DOMAIN server'.rows
      BY <2>2, <3>2, <3>3
    <3>7. PassedOver(i, n)'
      BY <3>3, <3>4, <3>5, <3>6 DEF PassedOver
    <3> QED
      BY <1>1, <3>6, <3>7 DEF Found
  <2> QED
    BY <2>3, <2>4
<1>3. CASE \E i \in DOMAIN server.rows : PassedOver(i, n)
  BY <1>1, <1>3, PassedOverKept DEF Found
<1> QED
  BY <1>2, <1>3 DEF Found

LEMMA StateOfKept ==
    ASSUME RowsInv, RowsInv', WasInv, RowsChain, NumbersGrow, NEW n \in 1..server.version, NEW state,
           StateOf(state, n)
    PROVE  StateOf(state, n)'
<1>1. n \in Nat /\ was'[n] = was[n]
  BY DEF NumbersGrow, WasInv
<1> QED
  BY <1>1, PassedOverKept DEF StateOf

LEMMA VersionKept ==
    ASSUME RowsInv, RowsInv', WasInv, RowsChain, NumbersGrow, server'.version \in Nat, VersionRight,
           restore' = restore
    PROVE  VersionRight'
<1>1. ASSUME restore.pc = "putVersion", restore.read = "row" \/ restore.read = "state"
      PROVE  Found(restore.version) /\ Found(restore.version)'
  <2>1. PICK n : n = restore.version
    OBVIOUS
  <2>2. Found(n)
    BY <1>1, <2>1 DEF VersionRight
  <2>3. Found(n)'
    BY <2>2, FoundKept
  <2> QED
    BY <2>1, <2>2, <2>3 DEF Found, hasRow, PassedOver
<1>2. ASSUME restore.pc = "putVersion", restore.read = "state"
      PROVE  StateOf(restore.state, restore.version)'
  <2>1. PICK n, state : n = restore.version /\ state = restore.state
    OBVIOUS
  <2>2. n \in 1..server.version /\ StateOf(state, n)
    BY <1>1, <1>2, <2>1 DEF VersionRight, Found
  <2>3. StateOf(state, n)'
    BY <2>2, StateOfKept
  <2> QED
    BY <2>1, <2>3 DEF StateOf, PassedOver
<1> QED
  BY <1>1, <1>2 DEF VersionRight


-------------------------------------------------------------------------------
(***************************************************************************)
(* The fields on screen say what was before their row.                     *)
(***************************************************************************)
LEMMA Unchanging ==
    ASSUME NEW n \in Nat, NEW f, \A i \in 1..n : f[i] = f[i - 1]
    PROVE  f[n] = f[0]
<1> DEFINE g == [i \in 0..n |-> f[0]]
<1>1. g[0] = f[0] /\ g[n] = f[0] /\ \A i \in 1..n : g[i] = g[i - 1]
  OBVIOUS
<1> HIDE DEF g
<1>2. \A i \in 1..n : f[i - 1] = g[i - 1] => f[i] = g[i]
  BY <1>1
<1>3. \A i \in 0..n : f[i] = g[i]
  BY <1>1, <1>2, SameRecursion
<1> QED
  BY <1>1, <1>3

\* Of a row's edits of one field, the first is in the difference of two contents of
\* the row, and no difference before it has one of that field.
FirstIsAt(rows, contents, i, key, p) ==
    LET start == rows[i - 1].version
    IN  /\ firstEdit(rows[i], key) \in diffStates(contents[start + p - 1], contents[start + p])
        /\ firstEdit(rows[i], key).key = key
        /\ \A j \in 1..(p - 1) :
              \A e \in diffStates(contents[start + j - 1], contents[start + j]) : e.key # key

LEMMA FirstEditPlace ==
    ASSUME NEW rows, NEW contents, NEW i, Chained(rows, contents, i), NEW key,
           placesOf(rows[i], key) # {}
    PROVE  \E p \in 1..Len(rows[i].saves) : FirstIsAt(rows, contents, i, key, p)
<1> DEFINE saves == rows[i].saves
           start == rows[i - 1].version
           places == placesOf(rows[i], key)
           p == Min(places)
           isOf(e) == e.key = key
<1>1. /\ saves = [j \in 1..Len(saves) |-> saves[j]] /\ Len(saves) \in Nat \ {0}
      /\ \A j \in 1..Len(saves) :
            saves[j] = diffStates(contents[start + j - 1], contents[start + j])
  BY DEF Chained
<1>2. places = {j \in 1..Len(saves) : \E e \in saves[j] : e.key = key}
  BY <1>1 DEF placesOf
<1>3. \E x \in places : \A y \in places : x <= y
  <2>1. places \subseteq Nat
    BY <1>2
  <2> QED
    BY ONLY <2>1, placesOf(rows[i], key) # {}, Least
<1> HIDE DEF places
<1>4. p \in places /\ \A y \in places : p <= y
  BY ONLY <1>3 DEF Min
<1>5. firstEdit(rows[i], key) = CHOOSE e \in saves[p] : e.key = key
  BY DEF firstEdit, editAt, places
<1> HIDE DEF p, saves, start
<1>6. p \in 1..Len(saves) /\ \E e \in saves[p] : e.key = key
  BY <1>2, <1>4
<1>7. firstEdit(rows[i], key) \in saves[p] /\ firstEdit(rows[i], key).key = key
  BY ONLY <1>5, <1>6
<1>8. ASSUME NEW j \in 1..(p - 1) PROVE \A e \in saves[j] : e.key # key
  <2>1. j \in 1..Len(saves) /\ ~(p <= j)
    BY <1>6
  <2> QED
    BY <1>2, <1>4, <2>1
<1>9. \A j \in 1..(p - 1) : j \in 1..Len(saves)
  BY <1>6
<1> QED
  BY <1>1, <1>6, <1>7, <1>8, <1>9 DEF FirstIsAt, saves, start

(* VersionHistory.vue:643-666: the edit that is kept of a field.            *)
LEMMA FirstEditSays ==
    ASSUME RowsInv, WasInv, RowsChain, NEW i \in 2..rowCount, NEW key \in Keys,
           placesOf(server.rows[i], key) # {}
    PROVE  LET edit == firstEdit(server.rows[i], key)
               before == was[server.rows[i - 1].version]
           IN  /\ before \in Content
               /\ key \in Questions => edit.old = before[key]
               /\ key = "group" =>
                     \/ edit.type = "instance_added" /\ before["group"] = NoElement
                     \/ /\ edit.type = "instance_removed" /\ edit.old \in Values \ {NoElement}
                        /\ before["group"] # NoElement
               /\ key = "child" =>
                     /\ edit.type = "answer_change" /\ edit.old \in Values
                     /\ placesOf(server.rows[i], "group") = {} => edit.old = before["group"]
<1> DEFINE row == server.rows[i]
           start == server.rows[i - 1].version
           saves == row.saves
           edit == firstEdit(row, key)
           at(j) == was[start + j]
           diff(j) == diffStates(was[start + j - 1], was[start + j])
<1>1. Chained(server.rows, was, i)
  BY DEF RowsChain
<1>2. /\ saves = [j \in 1..Len(saves) |-> saves[j]] /\ Len(saves) \in Nat \ {0}
      /\ row.version = start + Len(saves)
      /\ \A j \in 1..Len(saves) : saves[j] = diff(j)
  BY <1>1 DEF Chained
<1>3. PICK p \in 1..Len(saves) :
         /\ edit \in diff(p) /\ edit.key = key
         /\ \A j \in 1..(p - 1) : \A e \in diff(j) : e.key # key
  <2>1. PICK p \in 1..Len(server.rows[i].saves) : FirstIsAt(server.rows, was, i, key, p)
    BY <1>1, FirstEditPlace
  <2> QED
    BY <2>1 DEF FirstIsAt
<1>4. start \in Nat \ {0} /\ row.version <= server.version /\ server.version \in Nat
  <2>1. i - 1 \in 1..rowCount /\ i \in 1..rowCount
    BY DEF RowsInv
  <2> QED
    BY <2>1, ChainVersions DEF WasInv
<1> HIDE DEF row, start, saves, edit
<1>5. \A j \in 0..Len(saves) : at(j) \in Content
  <2> SUFFICES ASSUME NEW j \in 0..Len(saves) PROVE at(j) \in Content
    OBVIOUS
  <2>1. start + j \in 1..server.version
    BY <1>2, <1>4
  <2> QED
    BY <2>1 DEF WasInv
<1>6. \A j \in 1..Len(saves) : /\ at(j - 1) \in Content /\ at(j) \in Content
                               /\ diff(j) = diffStates(at(j - 1), at(j))
  <2> SUFFICES ASSUME NEW j \in 1..Len(saves)
               PROVE  /\ at(j - 1) \in Content /\ at(j) \in Content
                      /\ diff(j) = diffStates(at(j - 1), at(j))
    OBVIOUS
  <2>1. j - 1 \in 0..Len(saves) /\ j \in 0..Len(saves) /\ start + (j - 1) = start + j - 1
    BY <1>2, <1>4
  <2> QED
    BY <1>5, <2>1
<1>7. at(0) = was[start] /\ at(0) \in Content
  <2>1. start + 0 = start /\ 0 \in 0..Len(saves)
    BY <1>2, <1>4
  <2> QED
    BY <1>5, <2>1
<1> HIDE DEF at, diff
<1>8. EditSays(edit, at(p - 1), at(p)) /\ at(p - 1) \in Content /\ at(p) \in Content
  BY <1>3, <1>6, DiffSays
<1>9. p - 1 \in Nat /\ \A j \in 1..(p - 1) : j \in 1..Len(saves)
  BY <1>2, <1>3
<1>10. "group" \notin Questions /\ "child" \notin Questions /\ NoElement \notin Values
  BY QuestionsAssumption, BlankAssumption
<1>11. ASSUME key \in Questions PROVE edit.old = at(0)[key]
  <2> DEFINE f == [j \in 0..(p - 1) |-> at(j)[key]]
  <2>1. \A j \in 1..(p - 1) : at(j)[key] = at(j - 1)[key]
    BY <1>3, <1>6, <1>9, <1>11, DiffSays
  <2>2. \A j \in 1..(p - 1) : f[j] = f[j - 1]
    BY <2>1, <1>9
  <2>3. f[p - 1] = at(p - 1)[key] /\ f[0] = at(0)[key]
    BY <1>9
  <2> HIDE DEF f
  <2>4. f[p - 1] = f[0]
    BY ONLY <2>2, <1>9, Unchanging
  <2> QED
    BY <1>3, <1>8, <1>11, <2>3, <2>4 DEF EditSays
<1>12. ASSUME key = "group"
       PROVE  \/ edit.type = "instance_added" /\ at(0)["group"] = NoElement
              \/ /\ edit.type = "instance_removed" /\ edit.old \in Values \ {NoElement}
                 /\ at(0)["group"] # NoElement
  <2> DEFINE gone(j) == IF at(j)["group"] = NoElement THEN 1 ELSE 0
             f == [j \in 0..(p - 1) |-> gone(j)]
  <2>1. \A j \in 1..(p - 1) : gone(j) = gone(j - 1)
    <3>1. \A j \in 1..(p - 1) : at(j)["group"] = NoElement <=> at(j - 1)["group"] = NoElement
      BY <1>3, <1>6, <1>9, <1>12, DiffSays
    <3> QED
      BY <3>1
  <2>2. \A j \in 1..(p - 1) : f[j] = f[j - 1]
    BY <2>1, <1>9
  <2>3. f[p - 1] = gone(p - 1) /\ f[0] = gone(0)
    BY <1>9
  <2> HIDE DEF f
  <2>4. f[p - 1] = f[0]
    BY ONLY <2>2, <1>9, Unchanging
  <2>5. at(p - 1)["group"] = NoElement <=> at(0)["group"] = NoElement
    BY <2>3, <2>4
  <2> QED
    BY <1>3, <1>8, <1>10, <1>12, <2>5 DEF EditSays
<1>13. ASSUME key = "child"
       PROVE  /\ edit.type = "answer_change" /\ edit.old \in Values
              /\ placesOf(row, "group") = {} => edit.old = at(0)["group"]
  <2>1. edit.type = "answer_change" /\ edit.old \in Values /\ edit.old = at(p - 1)["group"]
    BY <1>3, <1>8, <1>13 DEF EditSays
  <2> SUFFICES ASSUME placesOf(row, "group") = {} PROVE at(p - 1)["group"] = at(0)["group"]
    BY <2>1
  <2> DEFINE f == [j \in 0..(p - 1) |-> at(j)["group"]]
  <2>2. \A j \in 1..Len(saves) : \A e \in diff(j) : e.key # "group"
    <3>1. DOMAIN saves = 1..Len(saves)
      BY <1>2
    <3>2. \A j \in DOMAIN saves : ~ \E e \in saves[j] : e.key = "group"
      BY placesOf(row, "group") = {} DEF placesOf, saves
    <3> QED
      BY <1>2, <3>1, <3>2
  <2>3. \A j \in 1..(p - 1) : at(j)["group"] = at(j - 1)["group"]
    BY <1>3, <1>6, <1>9, <1>13, <2>2, DiffSays
  <2>4. \A j \in 1..(p - 1) : f[j] = f[j - 1]
    BY <2>3, <1>9
  <2>5. f[p - 1] = at(p - 1)["group"] /\ f[0] = at(0)["group"]
    BY <1>9
  <2> HIDE DEF f
  <2>6. f[p - 1] = f[0]
    BY ONLY <2>4, <1>9, Unchanging
  <2> QED
    BY <2>5, <2>6
<1> QED
  BY <1>7, <1>11, <1>12, <1>13 DEF row, start, edit

LEMMA FieldsOfRow ==
    ASSUME RowsInv, WasInv, RowsChain, NEW n \in Nat \ {0, 1}, hasRow(n),
           NEW field \in mapEditsToDiffFields(n)
    PROVE  FieldRight(field)
<1> DEFINE i == rowOf(n)
           row == server.rows[i]
<1>1. i \in 2..rowCount /\ row.version = n
  <2>1. i \in DOMAIN server.rows /\ row.version = n
    BY DEF hasRow, rowOf
  <2>2. rowCount \in Nat /\ DOMAIN server.rows = 1..rowCount /\ server.rows[1].version = 1
    BY DEF RowsInv, RowsChain
  <2>3. i # 1
    BY <2>1, <2>2
  <2> QED
    BY <2>1, <2>2, <2>3
<1>2. PICK key \in Keys :
         /\ placesOf(row, key) # {}
         /\ field.key = key /\ field.type = firstEdit(row, key).type
         /\ field.old = firstEdit(row, key).old
         /\ field.before = was[server.rows[i - 1].version]
         /\ field.bundled = (key = "child" /\ placesOf(row, "group") # {})
  BY DEF mapEditsToDiffFields, Keys
<1> HIDE DEF i
<1>3. /\ field.before \in Content
      /\ key \in Questions => field.old = field.before[key]
      /\ key = "group" =>
            \/ field.type = "instance_added" /\ field.before["group"] = NoElement
            \/ /\ field.type = "instance_removed" /\ field.old \in Values \ {NoElement}
               /\ field.before["group"] # NoElement
      /\ key = "child" =>
            /\ field.type = "answer_change" /\ field.old \in Values
            /\ placesOf(row, "group") = {} => field.old = field.before["group"]
  <2>1. LET edit == firstEdit(row, key)
            before == was[server.rows[i - 1].version]
        IN  /\ before \in Content
            /\ key \in Questions => edit.old = before[key]
            /\ key = "group" =>
                  \/ edit.type = "instance_added" /\ before["group"] = NoElement
                  \/ /\ edit.type = "instance_removed" /\ edit.old \in Values \ {NoElement}
                     /\ before["group"] # NoElement
            /\ key = "child" =>
                  /\ edit.type = "answer_change" /\ edit.old \in Values
                  /\ placesOf(row, "group") = {} => edit.old = before["group"]
    BY <1>1, <1>2, FirstEditSays
  <2> QED
    BY <1>2, <2>1
<1>4. key = "child" /\ ~field.bundled => placesOf(row, "group") = {}
  BY <1>2
<1> QED
  BY <1>2, <1>3, <1>4 DEF FieldRight

(* VersionHistory.vue:87-182: a field that is put back gives a content.      *)
LEMMA WithFieldGives ==
    ASSUME NEW content \in Content, NEW field, FieldRight(field)
    PROVE  LET given == withField(content, field)
               before == field.before
           IN  /\ given \in Content
               /\ field.key \in Questions => given[field.key] = before[field.key]
               /\ field.key = "group" => (given["group"] = NoElement <=> before["group"] = NoElement)
               /\ field.key = "child" /\ ~field.bundled => given["group"] = before["group"]
<1> DEFINE D == Questions \cup {"group"}
           V == Values \cup {NoElement}
           given == withField(content, field)
<1>1. content \in [D -> V] /\ (\A q \in Questions : content[q] \in Values)
      /\ field.before \in [D -> V] /\ (\A q \in Questions : field.before[q] \in Values)
  BY DEF Content, FieldRight
<1>2. "group" \notin Questions /\ "child" \notin Questions /\ NoElement \notin Values
  BY QuestionsAssumption, BlankAssumption
<1>3. ASSUME NEW k \in D, NEW v \in V, k \in Questions => v \in Values
      PROVE  [content EXCEPT ![k] = v] \in Content /\ [content EXCEPT ![k] = v][k] = v
  BY <1>1, <1>3 DEF Content
<1>4. CASE field.key \in Questions
  <2>1. given = [content EXCEPT ![field.key] = field.old] /\ field.old = field.before[field.key]
    BY <1>4 DEF withField, FieldRight
  <2>2. field.key \in D /\ field.old \in Values /\ field.old \in V
    BY <1>1, <1>4, <2>1
  <2> DEFINE k == field.key
             v == field.old
  <2> HIDE DEF k, v, D, V
  <2>3. k \in D /\ v \in V /\ v \in Values
    BY <2>2 DEF k, v
  <2>4. [content EXCEPT ![k] = v] \in Content /\ [content EXCEPT ![k] = v][k] = v
    BY ONLY <1>3, <2>3
  <2>5. given \in Content /\ given[field.key] = field.old
    BY <2>1, <2>4 DEF k, v
  <2>6. field.key # "group" /\ field.key # "child"
    BY <1>2, <1>4
  <2> HIDE DEF given
  <2>7. given \in Content /\ given[field.key] = field.before[field.key]
    BY <2>1, <2>5
  <2> QED
    BY <2>6, <2>7 DEF given
<1>5. CASE field.key = "group"
  <2> DEFINE v == CASE field.type = "instance_added" -> NoElement
                    [] field.type = "instance_removed" ->
                          IF content["group"] = NoElement THEN field.old ELSE content["group"]
                    [] OTHER -> field.old
  <2>1. given = [content EXCEPT !["group"] = v]
    BY <1>2, <1>5 DEF withField
  <2>2. CASE field.type = "instance_added" /\ field.before["group"] = NoElement
    <3>1. v = NoElement
      BY <2>2
    <3> HIDE DEF v
    <3>2. given \in Content /\ given["group"] = NoElement
      BY <1>2, <1>3, <2>1, <3>1
    <3> QED
      BY <1>2, <1>5, <2>2, <3>2
  <2>3. CASE /\ field.type = "instance_removed" /\ field.old \in Values \ {NoElement}
             /\ field.before["group"] # NoElement
    <3>1. v \in V /\ v # NoElement
      <4>1. v = IF content["group"] = NoElement THEN field.old ELSE content["group"]
        BY <2>3
      <4> HIDE DEF v
      <4> QED
        BY <1>1, <2>3, <4>1
    <3> HIDE DEF v
    <3>2. given \in Content /\ given["group"] = v
      BY <1>2, <1>3, <2>1, <3>1
    <3> QED
      BY <1>2, <1>5, <2>3, <3>1, <3>2
  <2> QED
    BY <1>5, <2>2, <2>3 DEF FieldRight
<1>6. CASE field.key = "child"
  <2>1. field.type = "answer_change" /\ field.old \in Values
        /\ (~field.bundled => field.old = field.before["group"])
    BY <1>6 DEF FieldRight
  <2>2. given = [content EXCEPT !["group"] = field.old]
    BY <1>2, <1>6, <2>1 DEF withField
  <2>3. given \in Content /\ given["group"] = field.old
    BY <1>2, <1>3, <2>1, <2>2
  <2> QED
    BY <1>2, <1>6, <2>1, <2>3
<1> QED
  BY <1>4, <1>5, <1>6 DEF FieldRight, Keys

-------------------------------------------------------------------------------
(***************************************************************************)
(* The steps.                                                              *)
(***************************************************************************)
LEMMA StoredNumbers ==
    ASSUME ServerIsRecord, RowsInv, RowsChain, NEW content, NEW consolidate, NEW description,
           consolidate => server.rows[rowCount].version # 1,
           Stored(content, consolidate, description),
           server.version \in Nat, \A v \in 1..server.version : was'[v] = was[v]
    PROVE  NumbersGrow
<1>1. /\ rowCount \in Nat \ {0} /\ rowCount' = IF consolidate THEN rowCount ELSE rowCount + 1
      /\ \A i \in 1..(rowCount' - 1) : server'.rows[i] = server.rows[i]
      /\ server'.rows[rowCount'].version = server.version + 1
  <2>1. rowCount \in Nat \ {0}
    BY DEF RowsInv
  <2> DEFINE m == rowCount'
             rows == server'.rows
             edits == diffStates(server.content, content)
  <2>2. /\ m = IF consolidate THEN rowCount ELSE rowCount + 1
        /\ \A i \in 1..(m - 1) : rows[i] = server.rows[i]
        /\ "saves" \in DOMAIN rows[m] /\ rows[m].version = server.version + 1
        /\ rows[m].saves = IF consolidate THEN Append(server.rows[rowCount].saves, edits) ELSE <<edits>>
    BY StoredLastRow DEF m, rows, edits
  <2> QED
    BY <2>1, <2>2
<1>2. server'.version = server.version + 1
  BY StoredServer
<1>3. ASSUME NEW i \in 1..rowCount
      PROVE  \/ server'.rows[i].version = server.rows[i].version
             \/ i = rowCount /\ i # 1 /\ server.version < server'.rows[i].version
  <2>1. CASE i \in 1..(rowCount' - 1)
    BY <1>1, <2>1
  <2>2. CASE i \notin 1..(rowCount' - 1)
    <3>1. consolidate /\ i = rowCount /\ rowCount' = rowCount
      BY <1>1, <2>2
    <3>2. i # 1
      BY <3>1 DEF RowsChain
    <3> QED
      BY <1>1, <3>1, <3>2
  <2> QED
    BY <2>1, <2>2
<1> QED
  BY <1>1, <1>2, <1>3 DEF NumbersGrow

LEMMA DescribedNumbers ==
    ASSUME ServerIsRecord, RowsInv, NEW n, NEW described,
           server' = IF hasRow(n) THEN [server EXCEPT !.rows[rowOf(n)].described = described] ELSE server,
           was' = was, server.version \in Nat
    PROVE  NumbersGrow
<1>1. rowCount \in Nat /\ rowCount' \in Nat /\ rowCount <= rowCount'
  BY DescribedRows DEF RowsInv, RowsGrow
<1>2. server'.version = server.version
  BY DEF ServerIsRecord
<1>3. ASSUME NEW i \in 1..rowCount PROVE server'.rows[i].version = server.rows[i].version
  <2>1. CASE ~hasRow(n)
    BY <2>1
  <2>2. CASE hasRow(n)
    <3> DEFINE new == [server.rows[i] EXCEPT !.described = described]
    <3>1. server'.rows = [server.rows EXCEPT ![rowOf(n)].described = described]
      BY <2>2 DEF ServerIsRecord
    <3>2. i \in DOMAIN server.rows /\ "version" \in DOMAIN server.rows[i]
      BY DEF RowsInv
    <3>3. server'.rows[i] = server.rows[i] \/ server'.rows[i] = new
      BY <3>1, <3>2, Zenon
    <3>4. new.version = server.rows[i].version
      BY <3>2, Zenon
    <3> QED
      BY <3>3, <3>4
  <2> QED
    BY <2>1, <2>2
<1> QED
  BY <1>1, <1>2, <1>3 DEF NumbersGrow

LEMMA DescribedChain ==
    ASSUME ServerIsRecord, RowsInv, RowsChain, NEW n, NEW described,
           server' = IF hasRow(n) THEN [server EXCEPT !.rows[rowOf(n)].described = described] ELSE server,
           was' = was
    PROVE  RowsChain'
<1>1. CASE ~hasRow(n)
  BY <1>1 DEF RowsChain, rowCount
<1>2. CASE hasRow(n)
  <2> DEFINE rows == server'.rows
  <2>1. rows = [server.rows EXCEPT ![rowOf(n)].described = described] /\ server'.version = server.version
    BY <1>2 DEF ServerIsRecord
  <2>2. DOMAIN server.rows = 1..rowCount /\ rowCount \in Nat \ {0}
    BY DEF RowsInv
  <2>3. \A i \in 1..rowCount : {"id", "version", "saves"} \subseteq DOMAIN server.rows[i]
    BY DEF RowsInv, RowsChain
  <2>4. rowCount' = rowCount
    <3>1. DOMAIN rows = 1..rowCount
      BY <2>1, <2>2
    <3>2. rows = [i \in 1..rowCount |-> rows[i]]
      BY <2>1, <2>2
    <3> HIDE DEF rows
    <3>3. Len(rows) = rowCount
      BY <2>2, <3>1, <3>2
    <3> QED
      BY <3>3 DEF rows, rowCount
  <2>5. ASSUME NEW i \in 1..rowCount
        PROVE  /\ rows[i].saves = server.rows[i].saves /\ rows[i].version = server.rows[i].version
               /\ "saves" \in DOMAIN rows[i]
    <3> DEFINE new == [server.rows[i] EXCEPT !.described = described]
    <3>1. rows[i] = server.rows[i] \/ rows[i] = new
      BY <2>1, <2>2, Zenon
    <3>2. new.saves = server.rows[i].saves /\ new.version = server.rows[i].version
          /\ DOMAIN new = DOMAIN server.rows[i]
      BY <2>3, Zenon
    <3> QED
      BY <3>1, <3>2, <2>3
  <2> HIDE DEF rows
  <2>6. ASSUME NEW i \in 2..rowCount PROVE Chained(rows, was, i)
    <3>1. i \in 1..rowCount /\ i - 1 \in 1..rowCount
      BY <2>2
    <3>2. Chained(server.rows, was, i)
      BY DEF RowsChain
    <3> QED
      BY <2>5, <3>1, <3>2 DEF Chained
  <2>7. 1 \in 1..rowCount /\ rowCount \in 1..rowCount
    BY <2>2
  <2> QED
    BY <2>1, <2>4, <2>5, <2>6, <2>7 DEF RowsChain, rows
<1> QED
  BY <1>1, <1>2

LEMMA ScreenKeepsEdits ==
    ASSUME RowsInv, EditsInv, ScreenStep
    PROVE  FieldsRight' /\ VersionRight'
<1> USE DEF EditsInv
<1>1. server' = server /\ was' = was
  BY ScreenKeepsServer DEF ScreenStep, CountRows, OpenPage, Leave, LoadMore, PageArrives, PageFails, ToggleDiff,
     EditsArrive, EditsFail, OpenVersionRestore, OpenFieldRestore, CancelRestore, VersionReads, ConfirmVersion,
     FindVersion, ReplayVersion, ReadCurrent, versionRestore, CountForRefresh, Refresh,
     RestoreFails, stored
<1>2. Idle.pc = "idle"
  BY DEF Idle
<1>14. ASSUME restore' = restore \/ restore'.pc # "putVersion" PROVE VersionRight'
  BY <1>1, <1>14 DEF VersionRight, Found, hasRow, PassedOver, StateOf
<1>3. CASE UNCHANGED <<panel, restore>>
  BY <1>14, <1>1, <1>3 DEF panel, FieldsRight
<1>4. CASE Leave
  <2>1. asking' = {} /\ diffFields' = {} /\ restore' = restore
    BY <1>4 DEF Leave, Closed
  <2> QED
    BY <1>14, <1>1, <2>1 DEF FieldsRight
<1>5. ASSUME NEW n \in Numbers, ToggleDiff(n) PROVE FieldsRight' /\ VersionRight'
  <2>1. n \in Nat \ {0, 1} /\ asking' \subseteq asking \cup {n} /\ restore' = restore
    BY <1>5, BoundsAssumption DEF ToggleDiff, Numbers
  <2>2. diffFields' \subseteq diffFields
    BY <1>5 DEF ToggleDiff
  <2> QED
    BY <1>14, <1>1, <2>1, <2>2 DEF FieldsRight
<1>6. ASSUME NEW n \in Numbers, EditsArrive(n) PROVE FieldsRight' /\ VersionRight'
  <2>1. n \in asking /\ asking' \subseteq asking /\ restore' = restore
        /\ diffFields' = IF hasRow(n) THEN mapEditsToDiffFields(n) ELSE {}
    BY <1>6 DEF EditsArrive
  <2>2. \A field \in diffFields' : FieldRight(field)
    BY <2>1, FieldsOfRow DEF FieldsRight
  <2> QED
    BY <1>14, <1>1, <2>1, <2>2 DEF FieldsRight
<1>7. ASSUME NEW n \in Numbers, EditsFail(n) PROVE FieldsRight' /\ VersionRight'
  BY <1>14, <1>1, <1>7 DEF EditsFail, FieldsRight
<1>8. ASSUME NEW n \in Numbers, OpenVersionRestore(n) PROVE FieldsRight' /\ VersionRight'
  BY <1>14, <1>1, <1>8 DEF OpenVersionRestore, FieldsRight, panel
<1>9. ASSUME NEW field \in diffFields, OpenFieldRestore(field) PROVE FieldsRight' /\ VersionRight'
  BY <1>14, <1>1, <1>9 DEF OpenFieldRestore, FieldsRight, panel
<1>10. CASE CancelRestore \/ Refresh
  <2>1. UNCHANGED panel /\ restore' = Idle
    BY <1>10 DEF CancelRestore, Refresh
  <2> QED
    BY <1>14, <1>1, <1>2, <2>1 DEF FieldsRight, panel
<1>11. CASE VersionReads
  <2>1. /\ UNCHANGED panel /\ restore'.pc = "putVersion" /\ restore.pc \notin {"confirmField", "putField", "refresh"}
        /\ restore.pc = "confirmVersion" => restore'.read = "nothing"
    BY <1>11 DEF VersionReads, ConfirmVersion, FindVersion, ReplayVersion, ReadCurrent, versionRestore
  <2>2. FieldsRight'
    BY <2>1 DEF FieldsRight, panel
  <2>3. ASSUME NEW n, Found(n) PROVE Found(n)'
    BY <1>1, <2>3 DEF Found, hasRow, PassedOver
  <2>4. ASSUME NEW n, NEW state, StateOf(state, n) PROVE StateOf(state, n)'
    BY <1>1, <2>4 DEF StateOf, PassedOver
  <2>5. CASE ConfirmVersion
    BY <2>2, <2>5 DEF ConfirmVersion, versionRestore, VersionRight
  <2>6. CASE FindVersion
    <3>1. PICK n : n = restore.version
      OBVIOUS
    <3>2. Found(n)
      BY <2>6, <3>1, RebuildGivesVersion DEF FindVersion, Found
    <3>3. Found(n)'
      BY <2>3, <3>2
    <3>4. restore'.version = n /\ restore'.read = "row"
      BY <2>6, <3>1 DEF FindVersion, versionRestore
    <3> QED
      BY <2>2, <3>3, <3>4 DEF VersionRight, Found, hasRow, PassedOver
  <2>7. CASE ReplayVersion
    <3>1. PICK n, state : n = restore.version /\ state = rebuildState(n)
      OBVIOUS
    <3>2. Found(n)
      BY <2>7, <3>1 DEF ReplayVersion, VersionRight
    <3>3. StateOf(state, n)
      <4>1. n \in Nat
        BY <3>2 DEF Found, WasInv
      <4> QED
        BY <3>1, <3>2, <4>1, RebuildGivesVersion, RebuildGivesBelow DEF Found, StateOf
    <3>4. Found(n)' /\ StateOf(state, n)'
      BY <2>3, <2>4, <3>2, <3>3
    <3>5. restore'.version = n /\ restore'.read = "state" /\ restore'.state = state
      BY <2>7, <3>1 DEF ReplayVersion, versionRestore
    <3> QED
      BY <2>2, <3>4, <3>5 DEF VersionRight, Found, hasRow, PassedOver, StateOf
  <2>8. CASE ReadCurrent
    <3>1. restore'.version = restore.version /\ restore'.read = restore.read /\ restore'.state = restore.state
          /\ restore.pc = "putVersion"
      BY <2>8 DEF ReadCurrent, versionRestore
    <3> QED
      BY <1>1, <2>2, <3>1 DEF VersionRight, Found, hasRow, PassedOver, StateOf
  <2> QED
    BY <1>11, <2>2, <2>5, <2>6, <2>7, <2>8 DEF VersionReads
<1>12. CASE RestoreFails
  <2>1. UNCHANGED panel /\ restore.pc \in {"putField", "putVersion", "refresh"}
    BY <1>12 DEF RestoreFails
  <2>2. \/ restore'.pc = "confirmVersion"
        \/ restore.pc \in {"putField", "refresh"} /\ restore'.pc = "confirmField" /\ restore'.field = restore.field
    BY <1>12 DEF RestoreFails
  <2> QED
    BY <1>14, <1>1, <2>1, <2>2 DEF FieldsRight, panel
<1>13. CountRows \/ OpenPage \/ LoadMore \/ PageArrives \/ PageFails => UNCHANGED <<panel, restore>>
  BY DEF CountRows, OpenPage, LoadMore, PageArrives, PageFails
<1>15. CASE CountForRefresh
  <2>1. UNCHANGED panel /\ restore.pc = "refresh" /\ restore'.pc = "refresh" /\ restore'.field = restore.field
    BY <1>15 DEF CountForRefresh
  <2> QED
    BY <1>14, <1>1, <2>1 DEF FieldsRight, panel
<1> QED
  BY <1>3, <1>4, <1>5, <1>6, <1>7, <1>8, <1>9, <1>10, <1>11, <1>12, <1>13, <1>15 DEF ScreenStep

LEMMA NextEditsInv == ServerIsRecord /\ RowsInv /\ EditsInv /\ [Next]_vars => EditsInv'
<1> SUFFICES ASSUME ServerIsRecord, RowsInv, EditsInv, [Next]_vars PROVE EditsInv'
  OBVIOUS
<1>1. WasInv /\ RowsChain /\ FieldsRight /\ VersionRight /\ server.content \in Content
  BY DEF EditsInv, WasInv
<1>2. rowCount \in Nat \ {0} /\ Last(server.rows) = server.rows[rowCount]
  BY DEF RowsInv, Last, rowCount
<1>3. ASSUME NumbersGrow, server'.version \in Nat, restore' = restore PROVE VersionRight'
  <2>1. RowsInv'
    BY NextRows
  <2> QED
    BY <1>1, <1>3, <2>1, VersionKept
<1>4. CASE UNCHANGED vars
  BY <1>1, <1>4 DEF vars, stored, panel, EditsInv, WasInv, RowsChain, FieldsRight, VersionRight, rowCount,
     Found, hasRow, PassedOver, StateOf
<1>5. CASE ScreenStep
  <2>1. server' = server /\ was' = was
    BY <1>5, ScreenKeepsServer DEF ScreenStep, CountRows, OpenPage, Leave, LoadMore, PageArrives, PageFails, ToggleDiff,
       EditsArrive, EditsFail, OpenVersionRestore, OpenFieldRestore, CancelRestore, VersionReads, ConfirmVersion,
     FindVersion, ReplayVersion, ReadCurrent, versionRestore, CountForRefresh, Refresh,
       RestoreFails, stored
  <2>2. WasInv' /\ RowsChain'
    BY <1>1, <2>1 DEF WasInv, RowsChain, rowCount
  <2> QED
    BY <1>5, <2>2, ScreenKeepsEdits DEF EditsInv
<1>6. CASE \E c \in Saves, consolidate \in BOOLEAN : OtherSaves(c, consolidate)
  <2>1. PICK c \in Saves, consolidate \in BOOLEAN : OtherSaves(c, consolidate)
    BY <1>6
  <2>2. /\ Stored(c, consolidate, FALSE) /\ restore' = restore /\ UNCHANGED panel
        /\ (consolidate => server.rows[rowCount].version # 1) /\ c \in Content
    BY <1>2, <2>1, SavesAssumption DEF OtherSaves
  <2>3. WasInv' /\ RowsChain' /\ (\A v \in 1..server.version : was'[v] = was[v])
        /\ server'.version = server.version + 1
    BY <1>1, <2>2, StoredChain, StoredServer
  <2>4. VersionRight'
    <3>1. NumbersGrow
      BY <1>1, <2>2, <2>3, StoredNumbers DEF WasInv
    <3>2. server'.version \in Nat
      BY <1>1, <2>3 DEF WasInv
    <3> QED
      BY <1>3, <2>2, <3>1, <3>2
  <2>5. FieldsRight'
    BY <1>1, <2>2 DEF FieldsRight, panel
  <2> QED
    BY <2>3, <2>4, <2>5 DEF EditsInv
<1>7. CASE \E n \in Numbers, described \in BOOLEAN : SaveDescription(n, described)
  <2>1. PICK n \in Numbers, described \in BOOLEAN : SaveDescription(n, described)
    BY <1>7
  <2>2. /\ server' = IF hasRow(n) THEN [server EXCEPT !.rows[rowOf(n)].described = described] ELSE server
        /\ was' = was /\ UNCHANGED panel /\ restore' = restore
    BY <2>1 DEF SaveDescription
  <2>3. RowsChain'
    BY <1>1, <2>2, DescribedChain
  <2>4. server'.version = server.version /\ server'.content = server.content
    BY <2>2 DEF ServerIsRecord
  <2>5. WasInv' /\ VersionRight'
    <3>1. NumbersGrow
      BY <1>1, <2>2, <2>4, DescribedNumbers DEF WasInv
    <3> QED
      BY <1>1, <1>3, <2>2, <2>4, <3>1 DEF WasInv
  <2>6. FieldsRight'
    BY <1>1, <2>2 DEF FieldsRight, panel
  <2> QED
    BY <2>3, <2>5, <2>6 DEF EditsInv
<1>8. CASE ReadForField
  <2>1. /\ server' = server /\ was' = was /\ UNCHANGED panel /\ restore.pc = "confirmField"
        /\ restore'.pc = "putField" /\ restore'.field = restore.field
        /\ restore'.state = withField(server.content, restore.field)
    BY <1>8 DEF ReadForField, stored
  <2>2. WasInv' /\ RowsChain'
    BY <1>1, <2>1 DEF WasInv, RowsChain, rowCount
  <2>3. FieldsRight' /\ VersionRight'
    BY <1>1, <2>1 DEF FieldsRight, VersionRight, panel
  <2> QED
    BY <2>2, <2>3 DEF EditsInv
<1>9. CASE RestoreField
  <2>1. /\ Stored(restore.state, FALSE, TRUE) /\ restore.pc = "putField" /\ UNCHANGED panel
        /\ restore'.pc = "refresh" /\ restore'.field = restore.field
    BY <1>9 DEF RestoreField
  <2>2. restore.state \in Content /\ FieldRight(restore.field)
    BY <1>1, <2>1, WithFieldGives DEF FieldsRight
  <2>3. WasInv' /\ RowsChain'
    BY <1>1, <2>1, <2>2, StoredChain
  <2>4. FieldsRight' /\ VersionRight'
    BY <1>1, <2>1, <2>2 DEF FieldsRight, VersionRight, panel
  <2> QED
    BY <2>3, <2>4 DEF EditsInv
<1>10. CASE RestoreVersion
  <2>1. /\ Stored(restore.state, FALSE, TRUE) /\ restore.pc = "putVersion"
        /\ restore'.pc = "idle" /\ asking' = {} /\ diffFields' = {}
    BY <1>10 DEF RestoreVersion, Closed, Idle
  <2>2. restore.state \in Content
    <3>1. restore.read = "state"
      BY <1>10 DEF RestoreVersion
    <3>2. Found(restore.version) /\ StateOf(restore.state, restore.version)
      BY <1>1, <2>1, <3>1 DEF VersionRight
    <3>3. \A i \in DOMAIN server.rows : server.rows[i].version \in 1..server.version
      BY <1>1, ChainVersions DEF RowsInv, WasInv
    <3> QED
      BY <1>1, <3>2, <3>3 DEF Found, StateOf, WasInv
  <2>3. WasInv' /\ RowsChain'
    BY <1>1, <2>1, <2>2, StoredChain
  <2>4. FieldsRight' /\ VersionRight'
    BY <2>1 DEF FieldsRight, VersionRight
  <2> QED
    BY <2>3, <2>4 DEF EditsInv
<1> QED
  BY <1>4, <1>5, <1>6, <1>7, <1>8, <1>9, <1>10, NextCases

LEMMA InitEditsInv == Init => EditsInv
<1> SUFFICES ASSUME Init PROVE EditsInv
  OBVIOUS
<1>1. PICK c \in Saves : server = [version |-> 1, content |-> c,
                 rows |-> <<[id |-> 1, version |-> 1, described |-> FALSE, saves |-> <<>>]>>]
  BY DEF Init
<1>2. c \in Content /\ was = <<c>>
  BY <1>1, SavesAssumption DEF Init
<1>3. WasInv
  BY <1>1, <1>2 DEF WasInv
<1>4. rowCount = 1 /\ server.rows[1] = [id |-> 1, version |-> 1, described |-> FALSE, saves |-> <<>>]
  BY <1>1 DEF rowCount
<1>5. RowsChain
  BY <1>1, <1>4 DEF RowsChain
<1>6. FieldsRight /\ VersionRight
  BY DEF Init, FieldsRight, VersionRight, Idle
<1> QED
  BY <1>3, <1>5, <1>6 DEF EditsInv

LEMMA EditsInvHolds == Spec => [](ServerIsRecord /\ RowsInv /\ EditsInv)
<1>1. RestoreInv => ServerIsRecord
  BY DEF RestoreInv
<1>2. Init => RowsInv /\ EditsInv
  BY InitListInv, InitEditsInv DEF ListInv
<1>3. ServerIsRecord /\ RowsInv /\ EditsInv /\ [Next]_vars => (RowsInv /\ EditsInv)'
  BY NextRows, NextEditsInv
<1> QED
  BY <1>1, <1>2, <1>3, RestoreIsOfVersionHolds, PTL DEF Spec

(* VersionHistory.vue:87-182,629-740, diffStates.ts:109-167: for any         *)
(* questions and values, and however saves are consolidated into rows before *)
(* and after the edits were loaded, what one field is put back to is what it *)
(* was before the row.                                                      *)
THEOREM RestoredFromRowBelowHolds == Spec => RestoredFromRowBelow
<1> DEFINE FromRowBelow ==
      fieldRestored =>
         LET field == restore.field
         IN  /\ contentKey(field) \in Questions =>
                    server'.content[field.key] = field.before[field.key]
             /\ field.key = "group" =>
                    (server'.content["group"] = NoElement <=> field.before["group"] = NoElement)
             /\ field.key = "child" /\ ~field.bundled =>
                    server'.content["group"] = field.before["group"]
<1>1. ServerIsRecord /\ EditsInv /\ [Next]_vars => FromRowBelow
  <2> SUFFICES ASSUME ServerIsRecord, EditsInv, [Next]_vars, fieldRestored PROVE FromRowBelow
    OBVIOUS
  <2>1. /\ restore.pc = "putField" /\ server'.content = restore.state
    <3>1. RestoreField
      BY FieldRestoredBy
    <3> QED
      BY <3>1, StoredServer DEF RestoreField
  <2>2. PICK c \in Content : restore.state = withField(c, restore.field)
    BY <2>1 DEF EditsInv, FieldsRight
  <2>3. FieldRight(restore.field)
    BY <2>1 DEF EditsInv, FieldsRight
  <2>4. contentKey(restore.field) \in Questions => restore.field.key \in Questions
    BY QuestionsAssumption DEF contentKey
  <2> QED
    BY <2>1, <2>2, <2>3, <2>4, WithFieldGives
<1> QED
  BY <1>1, EditsInvHolds, PTL DEF Spec, RestoredFromRowBelow

(* rebuildState.ts:16-179, assessments.ts:300-344, VersionHistory.vue:350-388:  *)
(* for any number of versions and rows, and whatever is saved while the user *)
(* confirms and while the version is read and put back, what is put back is  *)
(* what was stored under its number, unless the row took in a save after it  *)
(* was found: then it may be what the row below holds.                       *)
THEOREM FullRestoreHolds == Spec => FullRestoreGivesVersion
<1> DEFINE GivesVersion ==
        restore.pc = "putVersion" /\ restore'.pc = "idle" =>
            \/ server'.content = was[restore.version]
            \/ \E i \in DOMAIN server.rows : /\ PassedOver(i, restore.version)
                                            /\ server'.content = was[server.rows[i].version]
<1>1. ServerIsRecord /\ EditsInv /\ [Next]_vars => GivesVersion
  <2> SUFFICES ASSUME ServerIsRecord, EditsInv, [Next]_vars, restore.pc = "putVersion", restore'.pc = "idle"
               PROVE  StateOf(server'.content, restore.version)
    BY DEF StateOf
  <2>1. RestoreVersion
    <3>1. CASE UNCHANGED vars
      BY <3>1 DEF vars
    <3>2. CASE ScreenStep
      BY <3>2 DEF ScreenStep, CountRows, OpenPage, Leave, LoadMore, PageArrives, PageFails, ToggleDiff, EditsArrive,
         EditsFail, OpenVersionRestore, OpenFieldRestore, CancelRestore, VersionReads, ConfirmVersion,
     FindVersion, ReplayVersion, ReadCurrent, versionRestore, CountForRefresh, Refresh,
         RestoreFails, Click, dialog, Idle
    <3>3. CASE \E c \in Saves, consolidate \in BOOLEAN : OtherSaves(c, consolidate)
      BY <3>3 DEF OtherSaves
    <3>4. CASE \E n \in Numbers, described \in BOOLEAN : SaveDescription(n, described)
      BY <3>4 DEF SaveDescription
    <3>5. CASE ReadForField \/ RestoreField
      BY <3>5 DEF ReadForField, RestoreField
    <3> QED
      BY <3>1, <3>2, <3>3, <3>4, <3>5, NextCases
  <2>2. server'.content = restore.state /\ restore.read = "state"
    BY <2>1, StoredServer DEF RestoreVersion
  <2> QED
    BY <2>2 DEF EditsInv, VersionRight
<1> QED
  BY <1>1, EditsInvHolds, PTL DEF Spec, FullRestoreGivesVersion

===============================================================================
