-------------------------- MODULE HistoryReadsProofs --------------------------
(***************************************************************************)
(* Proofs about one assessment and its readers, for any number of users,   *)
(* requests, fields, values, versions and readers, and any size of the     *)
(* cache.  The first part is about AssessmentStore: its version table is   *)
(* sound, its past is frozen, and it implements VersionedDocument.  The    *)
(* second is about HistoryReads: what readers are told about an old version *)
(* is settled, because what a replay of that version gives is settled      *)
(* (StepKeepsPast).                                                        *)
(***************************************************************************)
EXTENDS HistoryReads, WellFoundedInduction, SequenceTheorems, TLAPS

-----------------------------------------------------------------------------
\* AssessmentStore

USE DEF NoRow

(* Diffing and overlaying states stays inside the sets of edits.            *)
LEMMA DiffType ==
    ASSUME NEW old \in Answers, NEW new \in Answers
    PROVE  diffStates(old, new) \in Edits
BY NoEditAssumption DEF diffStates, Answers, Edits

LEMMA OverlayType ==
    ASSUME NEW earlier \in Edits, NEW later \in Edits
    PROVE  Overlay(earlier, later) \in Edits
BY DEF Overlay, Edits

LEMMA AnswersAreEdits == Answers \subseteq Edits
BY DEF Answers, Edits

(* A request that is not idle is a save request.                            *)
LEMMA RequestType ==
    ASSUME TypeOK, NEW r \in Requests, request[r] # Idle
    PROVE  request[r] \in SaveRequest
BY DEF TypeOK

LEMMA IdleHasNoStep == Idle.pc = "idle"
BY DEF Idle

(***************************************************************************)
(* The inductive invariant: the type invariant, the shape of the version   *)
(* table, what requests in flight may still rely on, and attribution.      *)
(***************************************************************************)
CreatorIsFirstSaver ==
    creation.pc = "insertVersion" /\ currentVersion = 1 => lastSaver = creation.user

TableInv ==
    /\ TypeOK
    /\ VersionTable
    /\ InFlightSaves
    /\ NewestRowIsLastSavers
    /\ CreatorIsFirstSaver

LEMMA InitTableInv == Init => TableInv
<1> SUFFICES ASSUME Init PROVE TableInv
  OBVIOUS
<1> PICK creator \in Editors, initial \in Answers :
        /\ currentVersion = 1
        /\ cachedState = initial
        /\ versions = {}
        /\ creation = [pc |-> "insertVersion", user |-> creator, state |-> initial]
        /\ request = [r \in Requests |-> Idle]
        /\ overwritten = FALSE
        /\ lastSaver = creator
  BY DEF Init
<1>1. TypeOK
  <2>1. currentVersion \in 0..MaxVersion
    BY MaxVersionAssumption
  <2>2. lastSaver \in Users
    BY RolesAssumption
  <2>3. creation \in CreateRequest
    BY RolesAssumption DEF CreateRequest
  <2>4. request \in [Requests -> SaveRequest \cup {Idle}]
    OBVIOUS
  <2> QED
    BY <2>1, <2>2, <2>3, <2>4 DEF TypeOK
<1>2. VersionTable
  BY DEF VersionTable, InitialVersion, Created
<1>3. InFlightSaves
  BY DEF InFlightSaves
<1>4. NewestRowIsLastSavers /\ CreatorIsFirstSaver
  BY DEF NewestRowIsLastSavers, CreatorIsFirstSaver
<1> QED
  BY <1>1, <1>2, <1>3, <1>4 DEF TableInv

(* The creation writes version 1 only: nothing that a save relies on.        *)
LEMMA InsertVersionTableInv ==
    ASSUME TableInv, InsertVersion
    PROVE  TableInv'
<1> DEFINE row == [id |-> 1, version |-> 1, createdBy |-> creation.user,
                   described |-> FALSE, edits |-> NoEdits]
<1>1. /\ creation.pc = "insertVersion" /\ currentVersion # 0
      /\ versions' = versions \cup {row}
      /\ creation' = [creation EXCEPT !.pc = "insertEdit"]
      /\ UNCHANGED <<currentVersion, cachedState, request, overwritten, lastSaver>>
  BY DEF InsertVersion
<1>2. creation \in CreateRequest
  BY <1>1 DEF TableInv, TypeOK, Created, Interrupted
<1>3. row \in VersionRow
  BY <1>2, MaxVersionAssumption DEF CreateRequest, VersionRow, Versions, NoEdits, Edits
<1>4. row.id = 1 /\ row.version = 1 /\ row.edits = NoEdits
  OBVIOUS
<1>5. creation' \in CreateRequest /\ creation'.pc = "insertEdit"
  BY <1>1, <1>2 DEF CreateRequest
<1>6. /\ versions \subseteq VersionRow
      /\ \A v \in versions : v.version # 1 /\ v.id # 1
      /\ currentVersion \in Nat
  BY <1>1 DEF TableInv, TypeOK, VersionTable, InitialVersion
<1> HIDE DEF row
<1>7. TypeOK'
  BY <1>1, <1>3, <1>5 DEF TableInv, TypeOK
<1>8. VersionTable'
  <2>1. \A v, w \in versions' : v.id = w.id \/ v.version = w.version => v = w
    BY <1>1, <1>4, <1>6 DEF TableInv, VersionTable
  <2>2. \A v \in versions' : /\ v.id <= v.version /\ v.version <= currentVersion'
                             /\ v.id = 1 => v.version = 1
    BY <1>1, <1>4, <1>6 DEF TableInv, VersionTable
  <2>3. currentVersion' > 1 => \E v \in versions' : v.version = currentVersion'
    BY <1>1 DEF TableInv, VersionTable
  <2>4. InitialVersion'
    BY <1>1, <1>4, <1>5 DEF InitialVersion, Created
  <2> QED
    BY <2>1, <2>2, <2>3, <2>4 DEF VersionTable
<1>9. InFlightSaves'
  BY <1>1 DEF TableInv, InFlightSaves, SaveStillValid
<1>10. NewestRowIsLastSavers'
  <2>1. row.createdBy = creation.user
    BY DEF row
  <2> QED
    BY <1>1, <1>4, <2>1 DEF TableInv, NewestRowIsLastSavers, CreatorIsFirstSaver
<1>11. CreatorIsFirstSaver'
  BY <1>5 DEF CreatorIsFirstSaver
<1> QED
  BY <1>7, <1>8, <1>9, <1>10, <1>11 DEF TableInv

LEMMA InsertInitialEditTableInv ==
    ASSUME TableInv, InsertInitialEdit
    PROVE  TableInv'
<1> DEFINE filled(v) == IF v.id = 1 THEN [v EXCEPT !.edits = creation.state] ELSE v
<1>1. /\ creation.pc = "insertEdit" /\ currentVersion # 0
      /\ versions' = {filled(v) : v \in versions}
      /\ creation' = Created
      /\ UNCHANGED <<currentVersion, cachedState, request, overwritten, lastSaver>>
  BY DEF InsertInitialEdit
<1>2. creation.state \in Answers
  BY <1>1 DEF TableInv, TypeOK, Created, Interrupted, CreateRequest
<1>3. \A v \in versions : /\ filled(v) \in VersionRow
                          /\ filled(v).id = v.id
                          /\ filled(v).version = v.version
                          /\ filled(v).createdBy = v.createdBy
                          /\ filled(v).edits = IF v.id = 1 THEN creation.state ELSE v.edits
  BY <1>2, AnswersAreEdits DEF TableInv, TypeOK, VersionRow
<1> HIDE DEF filled
<1>4. TypeOK'
  BY <1>1, <1>3 DEF TableInv, TypeOK
<1>5. VersionTable'
  <2>1. PICK v \in versions : v.version = 1 /\ v.id <= v.version
    BY <1>1 DEF TableInv, VersionTable, InitialVersion
  <2>2. v.id = 1
    BY <2>1 DEF TableInv, TypeOK, VersionRow, Versions
  <2>3. filled(v) \in versions' /\ filled(v).version = 1 /\ filled(v).edits \in Answers
    BY <1>1, <1>2, <1>3, <2>1, <2>2
  <2>4. InitialVersion'
    BY <1>1, <2>3 DEF InitialVersion, Created
  <2> QED
    BY <1>1, <1>3, <2>4 DEF TableInv, VersionTable
<1>6. InFlightSaves'
  <2> SUFFICES ASSUME NEW x \in Requests, (request[x] # Idle)'
               PROVE  SaveStillValid(request[x])'
    BY DEF InFlightSaves
  <2>1. SaveStillValid(request[x])
    BY <1>1 DEF TableInv, InFlightSaves
  <2> QED
    BY <1>1, <1>3, <2>1 DEF SaveStillValid
<1>7. NewestRowIsLastSavers'
  BY <1>1, <1>3 DEF TableInv, NewestRowIsLastSavers
<1>8. CreatorIsFirstSaver'
  BY <1>1 DEF CreatorIsFirstSaver, Created
<1> QED
  BY <1>4, <1>5, <1>6, <1>7, <1>8 DEF TableInv

LEMMA CreationFailsTableInv ==
    ASSUME TableInv, CreationFails
    PROVE  TableInv'
<1>1. creation' = Interrupted
      /\ UNCHANGED <<currentVersion, cachedState, versions, request, overwritten, lastSaver>>
  BY DEF CreationFails
<1> QED
  BY <1>1 DEF TableInv, TypeOK, VersionTable, InitialVersion, InFlightSaves, SaveStillValid,
              NewestRowIsLastSavers, CreatorIsFirstSaver, Created, Interrupted

LEMMA AccessTableInv ==
    ASSUME TableInv, NEW r \in Requests, NEW u \in Users, NEW s \in Answers,
           NEW newVersion \in BOOLEAN, NEW description \in BOOLEAN,
           Access(r, u, s, newVersion, description)
    PROVE  TableInv'
<1> DEFINE uiOnly == diffStates(cachedState, s) = NoEdits /\ ~newVersion
           q == [pc |-> IF uiOnly THEN "uiOnly" ELSE "selectLast", user |-> u,
                 state |-> s, newVersion |-> newVersion, description |-> description,
                 base |-> cachedState, expected |-> currentVersion, target |-> NoRow]
<1>1. request' = [request EXCEPT ![r] = q] /\ currentVersion # 0
      /\ (uiOnly \/ currentVersion < MaxVersion)
      /\ UNCHANGED <<currentVersion, cachedState, versions, creation, overwritten, lastSaver>>
  BY DEF Access
<1>2. q \in SaveRequest
  BY <1>1 DEF TableInv, TypeOK, SaveRequest, Versions
<1>3. TypeOK'
  BY <1>1, <1>2 DEF TableInv, TypeOK
<1>4. uiOnly => s = cachedState
  <2> SUFFICES ASSUME uiOnly PROVE s = cachedState
    OBVIOUS
  <2>1. \A f \in Fields : s[f] = cachedState[f]
    BY NoEditAssumption DEF diffStates, NoEdits, Answers
  <2> QED
    BY <2>1 DEF TableInv, TypeOK, Answers
<1>5. InFlightSaves'
  <2> SUFFICES ASSUME NEW x \in Requests, (request[x] # Idle)'
               PROVE  SaveStillValid(request[x])'
    BY DEF InFlightSaves
  <2>1. CASE x = r
    <3>1. request'[x] = q
      BY <1>1, <2>1 DEF TableInv, TypeOK
    <3> HIDE DEF uiOnly
    <3> QED
      BY <1>1, <1>4, <3>1 DEF TableInv, TypeOK, SaveStillValid
  <2>2. CASE x # r
    <3>1. request'[x] = request[x]
      BY <1>1, <2>2 DEF TableInv, TypeOK
    <3> QED
      BY <1>1, <3>1 DEF TableInv, InFlightSaves, SaveStillValid
  <2> QED
    BY <2>1, <2>2
<1> QED
  BY <1>1, <1>3, <1>5 DEF TableInv, VersionTable, InitialVersion, NewestRowIsLastSavers,
                          CreatorIsFirstSaver

LEMMA WriteUiOnlyTableInv ==
    ASSUME TableInv, NEW r \in Requests, WriteUiOnly(r)
    PROVE  TableInv'
<1>1. /\ request[r] # Idle
      /\ request[r] \in SaveRequest
      /\ SaveStillValid(request[r])
      /\ request[r].pc = "uiOnly"
  BY RequestType, IdleHasNoStep DEF TableInv, WriteUiOnly, InFlightSaves
<1>2. TypeOK'
  BY <1>1 DEF TableInv, TypeOK, WriteUiOnly, SaveRequest
<1>3. \A x \in Requests : (request[x] # Idle)' => x # r /\ request'[x] = request[x]
  BY DEF TableInv, TypeOK, WriteUiOnly
<1>4. InFlightSaves'
  <2> SUFFICES ASSUME NEW x \in Requests, (request[x] # Idle)'
               PROVE  SaveStillValid(request[x])'
    BY DEF InFlightSaves
  <2>1. request'[x] = request[x] /\ SaveStillValid(request[x])
    BY <1>3 DEF TableInv, InFlightSaves
  <2>2. request[x] \in SaveRequest
    BY <1>3, RequestType DEF TableInv
  <2>3. ASSUME ~overwritten', currentVersion # 0 PROVE cachedState' = cachedState
    BY <1>1, <2>3 DEF SaveStillValid, WriteUiOnly, TableInv, TypeOK
  <2>4. request[x].expected # 0
    BY <2>2 DEF SaveRequest, Versions
  <2>5. ~overwritten' => ~overwritten
    BY DEF WriteUiOnly
  <2> QED
    BY <2>1, <2>3, <2>4, <2>5 DEF SaveStillValid, WriteUiOnly
<1> QED
  BY <1>2, <1>4 DEF TableInv, WriteUiOnly, VersionTable, InitialVersion,
                    NewestRowIsLastSavers, CreatorIsFirstSaver

(* The row chosen for consolidation is the newest one: nothing is above it.  *)
LEMMA LastIsNewest ==
    ASSUME TableInv, currentVersion # 0, NEW v \in versions, isLast(v)
    PROVE  v.version = currentVersion
<1>1. v.version \in Nat /\ 1 <= v.version /\ v.version <= currentVersion /\ currentVersion \in Nat
  BY DEF TableInv, TypeOK, VersionTable, VersionRow, Versions
<1>2. CASE currentVersion = 1
  BY <1>1, <1>2
<1>3. CASE currentVersion > 1
  <2>1. PICK w \in versions : w.version = currentVersion
    BY <1>3 DEF TableInv, VersionTable
  <2>2. w.version <= v.version
    BY <2>1 DEF isLast
  <2> QED
    BY <1>1, <2>1, <2>2
<1> QED
  BY <1>1, <1>2, <1>3

LEMMA SelectLastTableInv ==
    ASSUME TableInv, NEW r \in Requests, SelectLast(r)
    PROVE  TableInv'
<1>1. /\ request[r] # Idle
      /\ request[r] \in SaveRequest
      /\ SaveStillValid(request[r])
      /\ request[r].pc = "selectLast"
  BY RequestType, IdleHasNoStep DEF TableInv, SelectLast, InFlightSaves
<1>2. PICK target \in {NoRow} \cup Versions :
        /\ request' = [request EXCEPT ![r].pc = "commit", ![r].target = target]
        /\ \/ target = NoRow
           \/ \E v \in versions : /\ v.id = target
                                  /\ isLast(v)
                                  /\ v.version # 1
                                  /\ v.createdBy = request[r].user
  <2>1. PICK young \in BOOLEAN :
          LET candidates == {v \in versions : isLast(v) /\ canConsolidate(v, request[r], young)}
              targets == IF candidates = {} THEN {NoRow} ELSE {v.id : v \in candidates}
          IN \E target \in targets :
               request' = [request EXCEPT ![r].pc = "commit", ![r].target = target]
    BY DEF SelectLast
  <2>2. \A v \in versions : v.id \in Versions
    BY DEF TableInv, TypeOK, VersionRow
  <2> QED
    BY <2>1, <2>2 DEF canConsolidate
<1>3. /\ request'[r] = [request[r] EXCEPT !.pc = "commit", !.target = target]
      /\ request'[r] \in SaveRequest
      /\ \A x \in Requests \ {r} : request'[x] = request[x]
  BY <1>1, <1>2 DEF TableInv, TypeOK, SaveRequest
<1>4. UNCHANGED <<currentVersion, cachedState, versions, creation, overwritten, lastSaver>>
  BY DEF SelectLast
<1>5. TypeOK'
  BY <1>2, <1>3, <1>4 DEF TableInv, TypeOK
<1>6. InFlightSaves'
  <2> SUFFICES ASSUME NEW x \in Requests, (request[x] # Idle)'
               PROVE  SaveStillValid(request[x])'
    BY DEF InFlightSaves
  <2>1. CASE x # r
    BY <1>3, <1>4, <2>1 DEF TableInv, InFlightSaves, SaveStillValid
  <2>2. CASE x = r
    <3>1. request[r].expected = currentVersion /\ target # NoRow =>
             \E v \in versions : /\ v.id = target
                                 /\ v.version = currentVersion
                                 /\ v.version # 1
                                 /\ v.createdBy = request[r].user
      BY <1>1, <1>2, LastIsNewest DEF SaveRequest, Versions
    <3>2. /\ request'[r].expected = request[r].expected
          /\ request'[r].base = request[r].base
          /\ request'[r].user = request[r].user
          /\ request'[r].target = target
          /\ request'[r].pc = "commit"
      BY <1>1, <1>3 DEF SaveRequest
    <3> QED
      BY <1>1, <1>4, <2>2, <3>1, <3>2 DEF SaveStillValid
  <2> QED
    BY <2>1, <2>2
<1> QED
  BY <1>4, <1>5, <1>6 DEF TableInv, VersionTable, InitialVersion, NewestRowIsLastSavers,
                          CreatorIsFirstSaver

(* A request that ends without a write leaves the other requests valid.      *)
LEMMA EndTableInv ==
    ASSUME TableInv, NEW r \in Requests, request' = [request EXCEPT ![r] = Idle],
           UNCHANGED <<currentVersion, cachedState, versions, creation, overwritten, lastSaver>>
    PROVE  TableInv'
<1>1. TypeOK'
  BY DEF TableInv, TypeOK
<1>2. InFlightSaves'
  BY DEF TableInv, TypeOK, InFlightSaves, SaveStillValid
<1> QED
  BY <1>1, <1>2 DEF TableInv, VersionTable, InitialVersion, NewestRowIsLastSavers,
                    CreatorIsFirstSaver

(* What holds when a transaction commits, whichever row it writes.           *)
LEMMA CommitFacts ==
    ASSUME TableInv, NEW r \in Requests, Commit(r)
    PROVE  /\ request[r] \in SaveRequest
           /\ SaveStillValid(request[r])
           /\ currentVersion \in Versions
           /\ currentVersion + 1 \in Versions
           /\ currentVersion = request[r].expected
           /\ currentVersion' = currentVersion + 1
           /\ diffStates(request[r].base, request[r].state) \in Edits
<1>1. /\ request[r] # Idle
      /\ request[r] \in SaveRequest
      /\ SaveStillValid(request[r])
      /\ request[r].pc = "commit"
  BY RequestType, IdleHasNoStep DEF TableInv, Commit, InFlightSaves
<1>2. currentVersion = request[r].expected /\ currentVersion' = request[r].expected + 1
  BY DEF Commit, LockAndUpdate
<1>3. request[r].expected \in Versions /\ request[r].expected < MaxVersion
  BY <1>1 DEF SaveRequest, SaveStillValid
<1>4. diffStates(request[r].base, request[r].state) \in Edits
  BY <1>1, DiffType DEF SaveRequest
<1> QED
  BY <1>1, <1>2, <1>3, <1>4, MaxVersionAssumption DEF Versions

(* After a commit the requests that are still in flight expect an older      *)
(* version, so they have nothing left to rely on.                            *)
LEMMA CommitInFlight ==
    ASSUME TableInv, NEW r \in Requests, Commit(r)
    PROVE  InFlightSaves'
<1> SUFFICES ASSUME NEW x \in Requests, (request[x] # Idle)'
             PROVE  SaveStillValid(request[x])'
  BY DEF InFlightSaves
<1>1. x # r /\ request'[x] = request[x]
  BY DEF Commit, TableInv, TypeOK
<1>2. request[x] \in SaveRequest /\ SaveStillValid(request[x])
  BY <1>1, RequestType DEF TableInv, InFlightSaves
<1>3. currentVersion' = currentVersion + 1 /\ currentVersion \in Versions
  BY CommitFacts
<1>4. request[x].expected \in Nat /\ request[x].expected < currentVersion'
  BY <1>2, <1>3 DEF SaveStillValid, SaveRequest, Versions
<1> QED
  BY <1>1, <1>2, <1>3, <1>4 DEF SaveStillValid, Versions

LEMMA CommitNewRow ==
    ASSUME TableInv, NEW r \in Requests, Commit(r), request[r].target = NoRow
    PROVE  (versions \subseteq VersionRow /\ VersionTable /\ NewestRowIsLastSavers)'
<1> DEFINE row == NewRow(request[r])
<1>1. /\ request[r] \in SaveRequest
      /\ currentVersion \in Versions
      /\ currentVersion' = currentVersion + 1
      /\ request[r].expected = currentVersion
      /\ currentVersion + 1 \in Versions
      /\ diffStates(request[r].base, request[r].state) \in Edits
  BY CommitFacts
<1>2. versions' = versions \cup {row} /\ lastSaver' = request[r].user
  BY DEF Commit, LockAndUpdate
<1>3. /\ row \in VersionRow
      /\ row.id = currentVersion + 1
      /\ row.version = currentVersion + 1
      /\ row.createdBy = request[r].user
  BY <1>1 DEF NewRow, VersionRow, SaveRequest
<1>4. \A v \in versions : /\ v.id \in Nat /\ v.version \in Nat
                          /\ v.id <= v.version /\ v.version <= currentVersion
  BY DEF TableInv, TypeOK, VersionTable, VersionRow, Versions
<1>5. currentVersion \in Nat /\ currentVersion # 0
  BY <1>1 DEF Versions
<1> HIDE DEF row
<1>6. (versions \subseteq VersionRow)'
  BY <1>2, <1>3 DEF TableInv, TypeOK
<1>7. \A v, w \in versions' : v.id = w.id \/ v.version = w.version => v = w
  BY <1>2, <1>3, <1>4, <1>5 DEF TableInv, VersionTable
<1>8. \A v \in versions' : /\ v.id <= v.version /\ v.version <= currentVersion'
                           /\ v.id = 1 => v.version = 1
  BY <1>1, <1>2, <1>3, <1>4, <1>5 DEF TableInv, VersionTable
<1>9. (\E v \in versions' : v.version = currentVersion') /\ InitialVersion'
  <2>1. creation' = creation
    BY DEF Commit
  <2>2. row.version # 1
    BY <1>3, <1>5
  <2> QED
    BY <1>1, <1>2, <1>3, <1>5, <2>1, <2>2 DEF TableInv, VersionTable, InitialVersion
<1>10. NewestRowIsLastSavers'
  BY <1>1, <1>2, <1>3, <1>4, <1>5 DEF NewestRowIsLastSavers
<1> QED
  BY <1>6, <1>7, <1>8, <1>9, <1>10 DEF VersionTable

(* Consolidation: the rows keep their identity, only the newest one changes. *)
LEMMA ConsolidationFacts ==
    ASSUME TableInv, NEW r \in Requests, Commit(r), request[r].target # NoRow
    PROVE  \E t \in versions :
             /\ t.id = request[r].target
             /\ t.version = currentVersion
             /\ t.version # 1
             /\ t.createdBy = request[r].user
             /\ LET n == [t EXCEPT !.version = currentVersion + 1,
                             !.edits = Overlay(t.edits,
                                          diffStates(request[r].base, request[r].state))]
                IN  versions' = (versions \ {t}) \cup {n} /\ n \in VersionRow
<1>1. /\ request[r] \in SaveRequest
      /\ SaveStillValid(request[r])
      /\ currentVersion \in Versions
      /\ request[r].expected = currentVersion
      /\ currentVersion + 1 \in Versions
      /\ diffStates(request[r].base, request[r].state) \in Edits
  BY CommitFacts
<1>2. PICK t \in versions : /\ t.id = request[r].target
                            /\ t.version = currentVersion
                            /\ t.version # 1
                            /\ t.createdBy = request[r].user
  BY <1>1 DEF SaveStillValid, Commit
<1> DEFINE n == [t EXCEPT !.version = currentVersion + 1,
                     !.edits = Overlay(t.edits,
                                  diffStates(request[r].base, request[r].state))]
<1>3. t \in VersionRow
  BY DEF TableInv, TypeOK
<1>4. Overlay(t.edits, diffStates(request[r].base, request[r].state)) \in Edits
  BY <1>1, <1>3, OverlayType DEF VersionRow
<1>5. n \in VersionRow
  BY <1>1, <1>3, <1>4 DEF VersionRow
<1>6. versions' = {IF v.id = request[r].target
                   THEN [v EXCEPT !.version = currentVersion + 1,
                                  !.edits = Overlay(v.edits,
                                      diffStates(request[r].base, request[r].state))]
                   ELSE v : v \in versions}
  BY <1>1 DEF Commit, Consolidated
<1>7. \A v \in versions : v.id = request[r].target <=> v = t
  BY <1>2 DEF TableInv, VersionTable
<1>8. versions' = (versions \ {t}) \cup {n}
  BY <1>6, <1>7, <1>2
<1> QED
  BY <1>2, <1>5, <1>8

LEMMA CommitConsolidated ==
    ASSUME TableInv, NEW r \in Requests, Commit(r), request[r].target # NoRow
    PROVE  (versions \subseteq VersionRow /\ VersionTable /\ NewestRowIsLastSavers)'
<1>1. currentVersion \in Versions /\ currentVersion' = currentVersion + 1
  BY CommitFacts
<1> DEFINE new(t) == [t EXCEPT !.version = currentVersion + 1,
                          !.edits = Overlay(t.edits,
                                       diffStates(request[r].base, request[r].state))]
<1>2. PICK t \in versions : /\ t.version = currentVersion
                            /\ t.version # 1
                            /\ t.createdBy = request[r].user
                            /\ versions' = (versions \ {t}) \cup {new(t)}
                            /\ new(t) \in VersionRow
  BY ConsolidationFacts
<1>3. lastSaver' = request[r].user
  BY DEF Commit, LockAndUpdate
<1>4. PICK n : n = new(t)
  OBVIOUS
<1>5. /\ n \in VersionRow
      /\ n.id = t.id
      /\ n.version = currentVersion + 1
      /\ n.createdBy = t.createdBy
  BY <1>2, <1>4 DEF TableInv, TypeOK, VersionRow
<1>6. versions' = (versions \ {t}) \cup {n}
  BY <1>2, <1>4
<1> HIDE DEF new
<1>7. \A v \in versions : /\ v.id \in Nat /\ v.version \in Nat
                          /\ v.id <= v.version /\ v.version <= currentVersion
  BY DEF TableInv, TypeOK, VersionTable, VersionRow, Versions
<1>8. \A v, w \in versions : v.id = w.id \/ v.version = w.version => v = w
  BY DEF TableInv, VersionTable
<1>9. currentVersion \in Nat /\ currentVersion # 0
  BY <1>1 DEF Versions
<1>10. \A v, w \in versions' : v.id = w.id \/ v.version = w.version => v = w
  BY <1>5, <1>6, <1>7, <1>8, <1>9
<1>11. \A v \in versions' : /\ v.id <= v.version /\ v.version <= currentVersion'
                            /\ v.id = 1 => v.version = 1
  BY <1>1, <1>2, <1>5, <1>6, <1>7, <1>9 DEF TableInv, VersionTable
<1>12. \E v \in versions' : v.version = currentVersion'
  BY <1>1, <1>5, <1>6
<1>13. InitialVersion'
  <2>1. creation' = creation
    BY DEF Commit
  <2>2. t.version # 1 /\ n.version # 1
    BY <1>2, <1>5, <1>9
  <2> QED
    BY <1>2, <1>6, <1>9, <2>1, <2>2 DEF TableInv, VersionTable, InitialVersion
<1>14. NewestRowIsLastSavers'
  BY <1>1, <1>2, <1>3, <1>5, <1>6, <1>7, <1>9 DEF NewestRowIsLastSavers
<1>15. (versions \subseteq VersionRow)'
  BY <1>5, <1>6 DEF TableInv, TypeOK
<1> QED
  BY <1>9, <1>10, <1>11, <1>12, <1>13, <1>14, <1>15 DEF VersionTable

LEMMA CommitTableInv ==
    ASSUME TableInv, NEW r \in Requests, Commit(r)
    PROVE  TableInv'
<1>1. (versions \subseteq VersionRow /\ VersionTable /\ NewestRowIsLastSavers)'
  BY CommitNewRow, CommitConsolidated
<1>2. InFlightSaves'
  BY CommitInFlight
<1>3. TypeOK'
  <2>1. request[r] \in SaveRequest /\ currentVersion' \in Versions
    BY CommitFacts
  <2>2. currentVersion' \in 0..MaxVersion
    BY <2>1, MaxVersionAssumption DEF Versions
  <2> QED
    BY <1>1, <2>1, <2>2 DEF TableInv, TypeOK, Commit, LockAndUpdate, SaveRequest
<1>4. CreatorIsFirstSaver'
  <2>1. currentVersion' # 1
    BY CommitFacts DEF Versions
  <2> QED
    BY <2>1 DEF CreatorIsFirstSaver
<1> QED
  BY <1>1, <1>2, <1>3, <1>4 DEF TableInv

LEMMA UpdateDescriptionTableInv ==
    ASSUME TableInv, NEW u \in Users, NEW n \in PatchVersions, NEW described \in BOOLEAN,
           UpdateDescription(u, n, described)
    PROVE  TableInv'
<1> DEFINE patched(v) == IF v.version = n THEN [v EXCEPT !.described = described] ELSE v
<1>1. /\ versions' = {patched(v) : v \in versions}
      /\ UNCHANGED <<currentVersion, cachedState, creation, request, overwritten, lastSaver>>
  BY DEF UpdateDescription
<1>2. \A v \in versions : /\ patched(v) \in VersionRow
                          /\ patched(v).id = v.id
                          /\ patched(v).version = v.version
                          /\ patched(v).createdBy = v.createdBy
                          /\ patched(v).edits = v.edits
  BY DEF TableInv, TypeOK, VersionRow
<1> HIDE DEF patched
<1>3. TypeOK'
  BY <1>1, <1>2 DEF TableInv, TypeOK
<1>4. VersionTable'
  BY <1>1, <1>2 DEF TableInv, VersionTable, InitialVersion
<1>5. InFlightSaves'
  <2> SUFFICES ASSUME NEW x \in Requests, (request[x] # Idle)'
               PROVE  SaveStillValid(request[x])'
    BY DEF InFlightSaves
  <2>1. SaveStillValid(request[x])
    BY <1>1 DEF TableInv, InFlightSaves
  <2> QED
    BY <1>1, <1>2, <2>1 DEF SaveStillValid
<1>6. NewestRowIsLastSavers' /\ CreatorIsFirstSaver'
  BY <1>1, <1>2 DEF TableInv, NewestRowIsLastSavers, CreatorIsFirstSaver
<1> QED
  BY <1>3, <1>4, <1>5, <1>6 DEF TableInv

LEMMA DeleteTableInv ==
    ASSUME TableInv, NEW u \in Users, Delete(u)
    PROVE  TableInv'
<1>1. TypeOK'
  BY MaxVersionAssumption DEF TableInv, TypeOK, Delete
<1>2. InFlightSaves'
  <2> SUFFICES ASSUME NEW x \in Requests, (request[x] # Idle)'
               PROVE  SaveStillValid(request[x])'
    BY DEF InFlightSaves
  <2>1. SaveStillValid(request[x]) /\ request[x] \in SaveRequest
    BY RequestType DEF TableInv, InFlightSaves, Delete
  <2>2. request[x].expected # 0
    BY <2>1 DEF SaveRequest, Versions
  <2> QED
    BY <2>1, <2>2 DEF SaveStillValid, Delete
<1> QED
  BY <1>1, <1>2 DEF TableInv, VersionTable, NewestRowIsLastSavers, CreatorIsFirstSaver, Delete

LEMMA NextTableInv == TableInv /\ [Next]_vars => TableInv'
<1> SUFFICES ASSUME TableInv, [Next]_vars PROVE TableInv'
  OBVIOUS
<1>1. ASSUME NEW r \in Requests, NEW u \in Users, NEW s \in Answers,
             NEW flags \in SaveFlags, Access(r, u, s, flags[1], flags[2])
      PROVE  TableInv'
  <2>1. flags[1] \in BOOLEAN /\ flags[2] \in BOOLEAN
    BY InputsAssumption
  <2> QED
    BY <1>1, <2>1, AccessTableInv
<1>2. ASSUME NEW r \in Requests, WriteUiOnly(r) PROVE TableInv'
  BY <1>2, WriteUiOnlyTableInv
<1>3. ASSUME NEW r \in Requests, SelectLast(r) PROVE TableInv'
  BY <1>3, SelectLastTableInv
<1>4. ASSUME NEW r \in Requests, Commit(r) PROVE TableInv'
  BY <1>4, CommitTableInv
<1>5. ASSUME NEW r \in Requests, Conflict(r) \/ Fail(r) PROVE TableInv'
  BY <1>5, EndTableInv DEF Conflict, Fail
<1>6. ASSUME NEW u \in Users, NEW n \in PatchVersions, NEW described \in BOOLEAN,
             UpdateDescription(u, n, described)
      PROVE  TableInv'
  BY <1>6, UpdateDescriptionTableInv
<1>7. ASSUME NEW u \in Users, Delete(u) PROVE TableInv'
  BY <1>7, DeleteTableInv
<1>8. CASE UNCHANGED vars
  BY <1>8 DEF vars, TableInv, TypeOK, VersionTable, InitialVersion, InFlightSaves,
              SaveStillValid, NewestRowIsLastSavers, CreatorIsFirstSaver
<1>9. CASE InsertVersion \/ InsertInitialEdit \/ CreationFails
  BY <1>9, InsertVersionTableInv, InsertInitialEditTableInv, CreationFailsTableInv
<1> QED
  BY <1>1, <1>2, <1>3, <1>4, <1>5, <1>6, <1>7, <1>8, <1>9 DEF Next

(* TableInv is an invariant of the specification.                            *)
THEOREM TableInvHolds == Spec => []TableInv
BY InitTableInv, NextTableInv, PTL DEF Spec

(* Type correctness: under any interleaving of saves no request drives       *)
(* currentVersion past the bound that it checked when it started.            *)
THEOREM TypeCorrect == Spec => []TypeOK
<1>1. TableInv => TypeOK
  BY DEF TableInv
<1> QED
  BY <1>1, TableInvHolds, PTL

(* The version rows and the instance row never disagree, however the saves,  *)
(* consolidations, description updates and the deletion interleave.          *)
THEOREM VersionTableHolds == Spec => []VersionTable
<1>1. TableInv => VersionTable
  BY DEF TableInv
<1> QED
  BY <1>1, TableInvHolds, PTL

(* Until somebody else saves, a save in flight may rely on what it read: the *)
(* state it was diffed against and the row it chose to consolidate into.     *)
THEOREM InFlightHolds == Spec => []InFlightSaves
<1>1. TableInv => InFlightSaves
  BY DEF TableInv
<1> QED
  BY <1>1, TableInvHolds, PTL

(* lastModifiedBySelf of routes/sync.ts tells the truth: the newest row's    *)
(* author is the user whose save was committed last.                         *)
THEOREM AttributionHolds == Spec => []NewestRowIsLastSavers
<1>1. TableInv => NewestRowIsLastSavers
  BY DEF TableInv
<1> QED
  BY <1>1, TableInvHolds, PTL

-----------------------------------------------------------------------------
(***************************************************************************)
(* The edit history.  rebuildState(n) depends on the rows up to n alone,   *)
(* and of those only on version numbers and edits.                         *)
(***************************************************************************)
LEMMA SameReplaySameRebuild ==
    ASSUME NEW n, \A f \in Fields : replay(versions', f, n) = replay(versions, f, n)
    PROVE  rebuildState(n)' = rebuildState(n)
BY DEF rebuildState

LEMMA SameRowsSameReplay ==
    ASSUME NEW f, NEW n, NEW m, NEW rows, NEW older,
           rowsTouching(rows, f, n) = rowsTouching(older, f, m)
    PROVE  replay(rows, f, n) = replay(older, f, m)
BY DEF replay, lastRows

(* A commit writes no row at or below the version it supersedes.             *)
LEMMA CommitKeepsPast ==
    ASSUME TableInv, NEW r \in Requests, Commit(r), NEW n \in Versions, n < currentVersion
    PROVE  rebuildState(n)' = rebuildState(n)
<1>1. currentVersion \in Versions /\ request[r].expected = currentVersion
  BY CommitFacts
<1> SUFFICES ASSUME NEW f \in Fields
             PROVE  rowsTouching(versions', f, n) = rowsTouching(versions, f, n)
  BY SameRowsSameReplay, SameReplaySameRebuild
<1>2. CASE request[r].target = NoRow
  <2>1. versions' = versions \cup {NewRow(request[r])} /\ ~(NewRow(request[r]).version <= n)
    BY <1>1, <1>2 DEF Commit, NewRow, Versions
  <2> QED
    BY <2>1 DEF rowsTouching
<1>3. CASE request[r].target # NoRow
  <2> DEFINE new(t) == [t EXCEPT !.version = currentVersion + 1,
                            !.edits = Overlay(t.edits,
                                         diffStates(request[r].base, request[r].state))]
  <2>1. PICK t \in versions : /\ t.version = currentVersion
                              /\ versions' = (versions \ {t}) \cup {new(t)}
                              /\ new(t) \in VersionRow
    BY <1>3, ConsolidationFacts
  <2>2. new(t).version = currentVersion + 1
    BY <2>1 DEF TableInv, TypeOK, VersionRow
  <2> HIDE DEF new
  <2>3. ~(t.version <= n) /\ ~(new(t).version <= n)
    BY <1>1, <2>1, <2>2 DEF Versions
  <2> QED
    BY <2>1, <2>3 DEF rowsTouching
<1> QED
  BY <1>2, <1>3

(* Describing a version changes no edit and no version number.               *)
LEMMA UpdateDescriptionKeepsReplay ==
    ASSUME TableInv, NEW u \in Users, NEW m \in PatchVersions, NEW described \in BOOLEAN,
           UpdateDescription(u, m, described), NEW n \in Nat, NEW f \in Fields
    PROVE  /\ replay(versions', f, n) = replay(versions, f, n)
           /\ rowsTouching(versions', f, n) = {} <=> rowsTouching(versions, f, n) = {}
<1> DEFINE patched(v) == IF v.version = m THEN [v EXCEPT !.described = described] ELSE v
<1>1. versions' = {patched(v) : v \in versions}
  BY DEF UpdateDescription
<1>2. \A v \in versions : /\ patched(v).version = v.version
                          /\ patched(v).edits = v.edits
  BY DEF TableInv, TypeOK, VersionRow
<1> HIDE DEF patched
<1>3. rowsTouching(versions', f, n) = {patched(v) : v \in rowsTouching(versions, f, n)}
  BY <1>1, <1>2 DEF rowsTouching
<1>4. \A v \in rowsTouching(versions, f, n) : v \in versions
  BY DEF rowsTouching
<1>5. lastRows(versions', f, n) = {patched(v) : v \in lastRows(versions, f, n)}
  BY <1>2, <1>3, <1>4 DEF lastRows
<1>6. {v.edits[f] : v \in lastRows(versions', f, n)}
        = {v.edits[f] : v \in lastRows(versions, f, n)}
  BY <1>2, <1>4, <1>5 DEF lastRows
<1>7. replay(versions', f, n) = replay(versions, f, n)
  BY <1>6 DEF replay
<1>8. rowsTouching(versions', f, n) = {} <=> rowsTouching(versions, f, n) = {}
  BY <1>3
<1> QED
  BY <1>7, <1>8

LEMMA StepKeepsPast ==
    ASSUME TableInv, [Next]_vars, creation = Created, currentVersion' # 0,
           NEW n \in Versions, n < currentVersion
    PROVE  rebuildState(n)' = rebuildState(n)
<1>1. ASSUME NEW r \in Requests, Commit(r) PROVE rebuildState(n)' = rebuildState(n)
  BY <1>1, CommitKeepsPast
<1>2. ASSUME NEW u \in Users, NEW m \in PatchVersions, NEW described \in BOOLEAN,
             UpdateDescription(u, m, described)
      PROVE  rebuildState(n)' = rebuildState(n)
  BY <1>2, UpdateDescriptionKeepsReplay, SameReplaySameRebuild DEF Versions
<1>3. ASSUME NEW u \in Users, Delete(u) PROVE FALSE
  BY <1>3 DEF Delete
<1>4. CASE UNCHANGED versions
  BY <1>4, SameReplaySameRebuild
<1>5. CASE InsertVersion \/ InsertInitialEdit
  BY <1>5 DEF InsertVersion, InsertInitialEdit, Created
<1> QED
  BY <1>1, <1>2, <1>3, <1>4, <1>5
     DEF Next, vars, Access, WriteUiOnly, SelectLast, Conflict, Fail, CreationFails

(* Versions older than the current one are frozen: what replaying up to them *)
(* gives never changes, so utils/rebuildStateCache.ts needs no invalidation. *)
THEOREM PastFrozen == Spec => PastIsFrozen
<1>1. TableInv /\ [Next]_vars =>
        [versions' # versions /\ creation = Created /\ currentVersion' # 0 =>
           \A n \in Versions : n < currentVersion => rebuildState(n)' = rebuildState(n)]_vars
  BY StepKeepsPast
<1> QED
  BY <1>1, TableInvHolds, PTL DEF Spec, PastIsFrozen

-----------------------------------------------------------------------------
(***************************************************************************)
(* The cached state against the history.  A field that the save changed is *)
(* decided by the newest row; any other field by the rows that decided it  *)
(* before, or by the newest row's own earlier edit.                        *)
(***************************************************************************)
LEMMA NewestRowDecides ==
    ASSUME NEW rows, NEW f \in Fields, NEW n \in Nat, NEW top \in rows,
           rows \subseteq VersionRow, top.version = n, top.edits[f] # NoEdit,
           \A v, w \in rows : v.version = w.version => v = w
    PROVE  replay(rows, f, n) = top.edits[f]
<1>1. top \in rowsTouching(rows, f, n)
  BY DEF rowsTouching
<1>2. \A w \in rowsTouching(rows, f, n) : w.version <= top.version
  BY DEF rowsTouching
<1>3. ASSUME NEW v \in lastRows(rows, f, n) PROVE v = top
  <2>1. v.version \in Nat /\ v.version <= n /\ top.version <= v.version /\ v \in rows
    BY <1>1, <1>3 DEF lastRows, rowsTouching, VersionRow, Versions
  <2> QED
    BY <2>1
<1>4. lastRows(rows, f, n) = {top}
  BY <1>1, <1>2, <1>3 DEF lastRows
<1> QED
  BY <1>4 DEF replay

LEMMA DiffDecides ==
    ASSUME NEW old \in Answers, NEW new \in Answers, NEW f \in Fields
    PROVE  /\ diffStates(old, new)[f] = NoEdit => new[f] = old[f]
           /\ diffStates(old, new)[f] # NoEdit => diffStates(old, new)[f] = new[f]
BY NoEditAssumption DEF diffStates, Answers

LEMMA CommitNewRowReplay ==
    ASSUME TableInv, NEW r \in Requests, Commit(r), request[r].target = NoRow,
           NEW f \in Fields
    PROVE  LET d == diffStates(request[r].base, request[r].state)
           IN  /\ replay(versions', f, currentVersion') =
                    IF d[f] = NoEdit THEN replay(versions, f, currentVersion) ELSE d[f]
               /\ rowsTouching(versions', f, currentVersion') = {} <=>
                    d[f] = NoEdit /\ rowsTouching(versions, f, currentVersion) = {}
<1> DEFINE d == diffStates(request[r].base, request[r].state)
           row == NewRow(request[r])
<1>1. /\ currentVersion \in Versions
      /\ request[r].expected = currentVersion
      /\ currentVersion' = currentVersion + 1
  BY CommitFacts
<1>2. versions' = versions \cup {row}
  BY DEF Commit
<1>3. row.version = currentVersion + 1 /\ row.edits = d
  BY <1>1 DEF NewRow
<1>4. \A v \in versions : v.version \in Nat /\ v.version <= currentVersion
  BY DEF TableInv, TypeOK, VersionTable, VersionRow, Versions
<1>5. (versions \subseteq VersionRow /\ VersionTable)'
  BY CommitNewRow
<1>6. currentVersion + 1 \in Nat /\ currentVersion \in Nat
  BY <1>1 DEF Versions
<1> HIDE DEF row, d
<1>7. CASE d[f] = NoEdit
  <2>1. rowsTouching(versions', f, currentVersion') = rowsTouching(versions, f, currentVersion)
    BY <1>1, <1>2, <1>3, <1>4, <1>6, <1>7 DEF rowsTouching
  <2>2. replay(versions', f, currentVersion') = replay(versions, f, currentVersion)
    BY <2>1, SameRowsSameReplay
  <2>3. rowsTouching(versions', f, currentVersion') = {} <=>
          rowsTouching(versions, f, currentVersion) = {}
    BY <2>1
  <2> QED
    BY <2>2, <2>3, <1>7 DEF d
<1>8. CASE d[f] # NoEdit
  <2>1. /\ replay(versions', f, currentVersion') = row.edits[f]
        /\ row \in rowsTouching(versions', f, currentVersion')
    <3>1. row \in versions' /\ row.version = currentVersion' /\ row.edits[f] # NoEdit
      BY <1>1, <1>2, <1>3, <1>8
    <3>2. currentVersion' \in Nat
      BY <1>1, <1>6
    <3>3. versions' \subseteq VersionRow
          /\ \A v, w \in versions' : v.version = w.version => v = w
      BY <1>5 DEF VersionTable
    <3>4. row \in rowsTouching(versions', f, currentVersion')
      BY <3>1, <3>2 DEF rowsTouching
    <3> QED
      BY <3>1, <3>2, <3>3, <3>4, NewestRowDecides
  <2> QED
    BY <2>1, <1>3, <1>8 DEF d
<1> QED
  BY <1>7, <1>8

LEMMA CommitConsolidatedReplay ==
    ASSUME TableInv, NEW r \in Requests, Commit(r), request[r].target # NoRow,
           NEW f \in Fields
    PROVE  LET d == diffStates(request[r].base, request[r].state)
           IN  /\ replay(versions', f, currentVersion') =
                    IF d[f] = NoEdit THEN replay(versions, f, currentVersion) ELSE d[f]
               /\ rowsTouching(versions', f, currentVersion') = {} <=>
                    d[f] = NoEdit /\ rowsTouching(versions, f, currentVersion) = {}
<1> DEFINE d == diffStates(request[r].base, request[r].state)
           new(t) == [t EXCEPT !.version = currentVersion + 1, !.edits = Overlay(t.edits, d)]
<1>1. /\ currentVersion \in Versions
      /\ currentVersion' = currentVersion + 1
  BY CommitFacts
<1>2. PICK t \in versions : /\ t.version = currentVersion
                            /\ versions' = (versions \ {t}) \cup {new(t)}
                            /\ new(t) \in VersionRow
  BY ConsolidationFacts
<1>3. PICK n : n = new(t)
  OBVIOUS
<1>4. n.version = currentVersion + 1 /\ n.edits = Overlay(t.edits, d)
  BY <1>2, <1>3 DEF TableInv, TypeOK, VersionRow
<1>5. n.edits[f] = IF d[f] = NoEdit THEN t.edits[f] ELSE d[f]
  BY <1>4 DEF Overlay
<1>6. n \in versions' /\ versions' = (versions \ {t}) \cup {n}
  BY <1>2, <1>3
<1> HIDE DEF new, d
<1>7. currentVersion \in Nat /\ currentVersion' \in Nat /\ n.version = currentVersion'
  BY <1>1, <1>4 DEF Versions
<1>8. /\ versions' \subseteq VersionRow
      /\ \A v, w \in versions' : v.version = w.version => v = w
      /\ versions \subseteq VersionRow
      /\ \A v, w \in versions : v.version = w.version => v = w
      /\ \A v \in versions : v.version <= currentVersion
  BY CommitConsolidated DEF VersionTable, TableInv, TypeOK
<1>9. CASE n.edits[f] # NoEdit
  <2>1. replay(versions', f, currentVersion') = n.edits[f]
    BY <1>6, <1>7, <1>8, <1>9, NewestRowDecides
  <2>2. t.edits[f] # NoEdit => replay(versions, f, currentVersion) = t.edits[f]
    BY <1>2, <1>7, <1>8, NewestRowDecides
  <2>3. rowsTouching(versions', f, currentVersion') # {}
    BY <1>6, <1>7, <1>9 DEF rowsTouching
  <2>4. t.edits[f] # NoEdit => rowsTouching(versions, f, currentVersion) # {}
    BY <1>2, <1>7 DEF rowsTouching
  <2> QED
    BY <1>5, <1>9, <2>1, <2>2, <2>3, <2>4 DEF d
<1>10. CASE n.edits[f] = NoEdit
  <2>1. d[f] = NoEdit /\ t.edits[f] = NoEdit
    BY <1>5, <1>10
  <2>2. \A v \in versions : v.version <= currentVersion'
    BY <1>1, <1>7, <1>8 DEF VersionRow, Versions
  <2>3. rowsTouching(versions', f, currentVersion') = rowsTouching(versions, f, currentVersion)
    BY <1>6, <1>8, <1>10, <2>1, <2>2 DEF rowsTouching
  <2> QED
    BY <2>1, <2>3, SameRowsSameReplay DEF d
<1> QED
  BY <1>9, <1>10

(* Strengthening: while the creation is still to write the initial edit, the *)
(* fields that no row edits have the initial value.                          *)
FieldMatchesHistory(f) ==
    cachedState[f] = IF creation # Created /\ rowsTouching(versions, f, currentVersion) = {}
                     THEN creation.state[f]
                     ELSE replay(versions, f, currentVersion)
CacheInv ==
    creation # Interrupted /\ currentVersion # 0 /\ ~overwritten
        => \A f \in Fields : FieldMatchesHistory(f)

LEMMA CommitCache ==
    ASSUME TableInv, CacheInv, NEW r \in Requests, Commit(r)
    PROVE  CacheInv'
<1> SUFFICES ASSUME creation' # Interrupted, ~overwritten', NEW f \in Fields
             PROVE  FieldMatchesHistory(f)'
  BY DEF CacheInv
<1> DEFINE d == diffStates(request[r].base, request[r].state)
<1>1. /\ request[r] \in SaveRequest
      /\ SaveStillValid(request[r])
      /\ currentVersion \in Versions
      /\ currentVersion = request[r].expected
  BY CommitFacts
<1>2. request[r].base = cachedState
  BY <1>1 DEF SaveStillValid, Commit
<1>3. cachedState' = request[r].state /\ request[r].state \in Answers
      /\ request[r].base \in Answers
  BY <1>1 DEF Commit, LockAndUpdate, SaveRequest
<1>4. FieldMatchesHistory(f) /\ creation' = creation
  BY <1>1 DEF CacheInv, Commit, Versions
<1>5. /\ replay(versions', f, currentVersion') =
            IF d[f] = NoEdit THEN replay(versions, f, currentVersion) ELSE d[f]
      /\ rowsTouching(versions', f, currentVersion') = {} <=>
            d[f] = NoEdit /\ rowsTouching(versions, f, currentVersion) = {}
  BY CommitNewRowReplay, CommitConsolidatedReplay
<1>6. /\ d[f] = NoEdit => request[r].state[f] = request[r].base[f]
      /\ d[f] # NoEdit => d[f] = request[r].state[f]
  BY <1>3, DiffDecides
<1> HIDE DEF d
<1> QED
  BY <1>2, <1>3, <1>4, <1>5, <1>6 DEF FieldMatchesHistory

LEMMA InsertVersionCache ==
    ASSUME TableInv, CacheInv, InsertVersion
    PROVE  CacheInv'
<1> SUFFICES ASSUME ~overwritten', NEW f \in Fields
             PROVE  FieldMatchesHistory(f)'
  BY DEF CacheInv
<1>1. creation \in CreateRequest /\ creation # Created /\ creation # Interrupted
  BY DEF InsertVersion, TableInv, TypeOK, Created, Interrupted
<1>2. FieldMatchesHistory(f)
  BY <1>1 DEF CacheInv, InsertVersion
<1>3. creation'.state = creation.state /\ creation' # Created
  BY <1>1 DEF InsertVersion, CreateRequest, Created
<1>4. rowsTouching(versions', f, currentVersion') = rowsTouching(versions, f, currentVersion)
  BY DEF InsertVersion, rowsTouching, NoEdits
<1>5. replay(versions', f, currentVersion') = replay(versions, f, currentVersion)
  BY <1>4, SameRowsSameReplay
<1> QED
  BY <1>1, <1>2, <1>3, <1>4, <1>5 DEF FieldMatchesHistory, InsertVersion

(* The initial edit decides the fields that no later row edits, and no other. *)
LEMMA InsertInitialEditCache ==
    ASSUME TableInv, CacheInv, InsertInitialEdit
    PROVE  CacheInv'
<1> SUFFICES ASSUME ~overwritten', NEW f \in Fields
             PROVE  FieldMatchesHistory(f)'
  BY DEF CacheInv
<1>1. creation \in CreateRequest /\ creation # Created /\ creation # Interrupted
  BY DEF InsertInitialEdit, TableInv, TypeOK, Created, Interrupted
<1>2. FieldMatchesHistory(f) /\ creation.state \in Answers
  BY <1>1 DEF CacheInv, InsertInitialEdit, CreateRequest
<1>3. PICK t \in versions : t.version = 1 /\ t.edits = NoEdits
  BY DEF InsertInitialEdit, TableInv, VersionTable, InitialVersion
<1>4. currentVersion \in Nat /\ currentVersion >= 1 /\ versions \subseteq VersionRow
  BY DEF InsertInitialEdit, TableInv, TypeOK
<1>5. t.id = 1
  BY <1>3, <1>4 DEF TableInv, VersionTable, VersionRow, Versions
<1>6. PICK n : n = [t EXCEPT !.edits = creation.state]
  OBVIOUS
<1>7. n.id = 1 /\ n.version = 1 /\ n.edits = creation.state
  BY <1>2, <1>3, <1>4, <1>5, <1>6 DEF VersionRow
<1>8. versions' = (versions \ {t}) \cup {n}
  <2>1. \A v \in versions : v.id = 1 <=> v = t
    BY <1>5 DEF TableInv, VersionTable
  <2> QED
    BY <1>3, <1>6, <2>1 DEF InsertInitialEdit
<1>9. t \notin rowsTouching(versions, f, currentVersion)
  BY <1>3 DEF rowsTouching, NoEdits
<1>10. n.edits[f] = creation.state[f] /\ n.edits[f] # NoEdit
  BY <1>2, <1>7, NoEditAssumption DEF Answers
<1>11. rowsTouching(versions', f, currentVersion)
         = rowsTouching(versions, f, currentVersion) \cup {n}
  BY <1>4, <1>7, <1>8, <1>9, <1>10 DEF rowsTouching
<1>12. CASE rowsTouching(versions, f, currentVersion) = {}
  <2>1. lastRows(versions', f, currentVersion) = {n}
    BY <1>7, <1>11, <1>12 DEF lastRows
  <2>2. replay(versions', f, currentVersion) = creation.state[f]
    BY <1>10, <2>1 DEF replay
  <2> QED
    BY <1>1, <1>2, <1>12, <2>2 DEF FieldMatchesHistory, InsertInitialEdit
<1>13. CASE rowsTouching(versions, f, currentVersion) # {}
  <2>1. \A v \in rowsTouching(versions, f, currentVersion) : v.version \in Nat /\ v.version > 1
    <3> SUFFICES ASSUME NEW v \in rowsTouching(versions, f, currentVersion)
                 PROVE  v.version \in Nat /\ v.version > 1
      OBVIOUS
    <3>1. v \in versions /\ v \in VersionRow /\ v # t
      BY <1>4, <1>9 DEF rowsTouching
    <3>2. v.version # t.version
      BY <3>1 DEF TableInv, VersionTable
    <3> QED
      BY <1>3, <3>1, <3>2 DEF VersionRow, Versions
  <2>2. lastRows(versions', f, currentVersion) = lastRows(versions, f, currentVersion)
    BY <1>7, <1>11, <1>13, <2>1 DEF lastRows
  <2>3. replay(versions', f, currentVersion) = replay(versions, f, currentVersion)
    BY <2>2 DEF replay
  <2> QED
    BY <1>1, <1>2, <1>13, <2>3 DEF FieldMatchesHistory, InsertInitialEdit
<1> QED
  BY <1>12, <1>13

LEMMA StepCache ==
    ASSUME TableInv, CacheInv, [Next]_vars
    PROVE  CacheInv'
<1>1. ASSUME NEW r \in Requests, Commit(r) PROVE CacheInv'
  BY <1>1, CommitCache
<1>2. ASSUME NEW r \in Requests, WriteUiOnly(r) PROVE CacheInv'
  <2>1. request[r] # Idle /\ SaveStillValid(request[r]) /\ request[r].pc = "uiOnly"
    BY <1>2, IdleHasNoStep DEF WriteUiOnly, TableInv, InFlightSaves
  <2>2. UNCHANGED <<versions, currentVersion, creation>>
    BY <1>2 DEF WriteUiOnly
  <2>3. ~overwritten' /\ currentVersion # 0 => ~overwritten /\ cachedState' = cachedState
    BY <1>2, <2>1 DEF WriteUiOnly, SaveStillValid
  <2> QED
    BY <2>2, <2>3 DEF CacheInv, FieldMatchesHistory
<1>3. ASSUME NEW u \in Users, NEW m \in PatchVersions, NEW described \in BOOLEAN,
             UpdateDescription(u, m, described)
      PROVE  CacheInv'
  <2>1. /\ currentVersion \in Nat
        /\ UNCHANGED <<currentVersion, cachedState, creation, overwritten>>
    BY <1>3 DEF UpdateDescription, TableInv, TypeOK
  <2>2. \A f \in Fields :
          /\ replay(versions', f, currentVersion) = replay(versions, f, currentVersion)
          /\ rowsTouching(versions', f, currentVersion) = {} <=>
               rowsTouching(versions, f, currentVersion) = {}
    BY <1>3, <2>1, UpdateDescriptionKeepsReplay
  <2> QED
    BY <2>1, <2>2 DEF CacheInv, FieldMatchesHistory
<1>4. ASSUME NEW u \in Users, Delete(u) PROVE CacheInv'
  BY <1>4 DEF Delete, CacheInv
<1>5. CASE UNCHANGED <<versions, currentVersion, cachedState, creation, overwritten>>
  BY <1>5 DEF CacheInv, FieldMatchesHistory
<1>6. CASE InsertVersion \/ InsertInitialEdit
  BY <1>6, InsertVersionCache, InsertInitialEditCache
<1>7. CASE CreationFails
  BY <1>7 DEF CreationFails, CacheInv
<1> QED
  BY <1>1, <1>2, <1>3, <1>4, <1>5, <1>6, <1>7 DEF Next, vars, Access, SelectLast, Conflict, Fail

LEMMA InitCache == Init => CacheInv
BY DEF Init, CacheInv, FieldMatchesHistory, rowsTouching, Created

(* Unless a write without a version check replaced a newer state, the cached *)
(* state that clients read is the replay of the edit history: no interleaving*)
(* of the creation and saves loses, invents or misplaces an edit.            *)
THEOREM CacheTracksHistory == Spec => []CacheMatchesHistory
<1>1. Init => TableInv /\ CacheInv
  BY InitTableInv, InitCache
<1>2. (TableInv /\ CacheInv) /\ [Next]_vars => (TableInv /\ CacheInv)'
  BY NextTableInv, StepCache
<1>3. TableInv /\ CacheInv => CacheMatchesHistory
  <2> SUFFICES ASSUME TableInv, CacheInv, creation = Created, currentVersion # 0, ~overwritten
               PROVE  cachedState = rebuildState(currentVersion)
    BY DEF CacheMatchesHistory
  <2>1. \A f \in Fields : cachedState[f] = replay(versions, f, currentVersion)
    BY DEF CacheInv, FieldMatchesHistory, Created, Interrupted
  <2> QED
    BY <2>1 DEF rebuildState, TableInv, TypeOK, Answers
<1> QED
  BY <1>1, <1>2, <1>3, PTL DEF Spec

(* A version that is described before a save looks for a row to consolidate  *)
(* into keeps its number and its edits until the description is cleared.     *)
LEMMA StepKeepsSealed ==
    ASSUME TableInv, [Next]_vars, creation = Created, NEW v \in versions, NEW w \in versions',
           Sealed(v, request), w.id = v.id
    PROVE  /\ w.version = v.version
           /\ w.edits = v.edits
           /\ w.described => Sealed(w, request')
<1>0. /\ \A x, y \in versions : x.id = y.id => x = y
      /\ v \in VersionRow
      /\ v.described
      /\ \A x \in Requests : request[x].pc = "commit" => request[x].target # v.id
  BY DEF TableInv, VersionTable, TypeOK, Sealed
<1>1. ASSUME NEW r \in Requests, Commit(r) PROVE w = v /\ Sealed(w, request')
  <2>1. w = v
    <3>1. CASE request[r].target = NoRow
      <4>1. versions' = versions \cup {NewRow(request[r])}
        BY <1>1, <3>1 DEF Commit
      <4>2. NewRow(request[r]).id # v.id
        <5>1. currentVersion = request[r].expected /\ currentVersion \in Versions
          BY <1>1, CommitFacts
        <5>2. v.id <= currentVersion /\ v.id \in Nat
          BY <1>0, <5>1 DEF TableInv, VersionTable, VersionRow, Versions
        <5> QED
          BY <5>1, <5>2 DEF NewRow, Versions
      <4> QED
        BY <1>0, <4>1, <4>2
    <3>2. CASE request[r].target # NoRow
      <4> DEFINE new(t) == [t EXCEPT !.version = currentVersion + 1,
                                !.edits = Overlay(t.edits,
                                             diffStates(request[r].base, request[r].state))]
      <4>1. PICK t \in versions : /\ t.id = request[r].target
                                  /\ versions' = (versions \ {t}) \cup {new(t)}
        BY <1>1, <3>2, ConsolidationFacts
      <4>2. new(t).id = t.id
        BY <4>1 DEF TableInv, TypeOK, VersionRow
      <4> HIDE DEF new
      <4>3. v.id # t.id
        BY <1>0, <1>1, <4>1 DEF Commit
      <4> QED
        BY <1>0, <4>1, <4>2, <4>3
    <3> QED
      BY <3>1, <3>2
  <2>2. \A x \in Requests : request'[x] = IF x = r THEN Idle ELSE request[x]
    BY <1>1 DEF Commit, TableInv, TypeOK
  <2> QED
    BY <1>0, <2>1, <2>2, IdleHasNoStep DEF Sealed
<1>2. ASSUME NEW u \in Users, NEW m \in PatchVersions, NEW described \in BOOLEAN,
             UpdateDescription(u, m, described)
      PROVE  w.version = v.version /\ w.edits = v.edits /\ (w.described => Sealed(w, request'))
  <2> DEFINE patched(x) == IF x.version = m THEN [x EXCEPT !.described = described] ELSE x
  <2>1. versions' = {patched(x) : x \in versions} /\ request' = request
    BY <1>2 DEF UpdateDescription
  <2>2. \A x \in versions : patched(x).id = x.id /\ patched(x).version = x.version
                            /\ patched(x).edits = x.edits
    BY DEF TableInv, TypeOK, VersionRow
  <2> HIDE DEF patched
  <2>3. w = patched(v)
    BY <1>0, <2>1, <2>2
  <2> QED
    BY <1>0, <2>1, <2>2, <2>3 DEF Sealed
<1>3. ASSUME NEW r \in Requests, SelectLast(r) PROVE w = v /\ Sealed(w, request')
  <2>1. w = v
    BY <1>0, <1>3 DEF SelectLast
  <2>2. PICK target : /\ request' = [request EXCEPT ![r].pc = "commit", ![r].target = target]
                      /\ target = NoRow \/ \E x \in versions : x.id = target /\ ~x.described
    BY <1>3 DEF SelectLast, canConsolidate
  <2>3. target # v.id
    BY <1>0, <2>2 DEF VersionRow, Versions
  <2>4. request[r] \in SaveRequest
    BY <1>3, RequestType, IdleHasNoStep DEF SelectLast, TableInv
  <2>5. request'[r].target = target /\ \A x \in Requests \ {r} : request'[x] = request[x]
    BY <2>2, <2>4 DEF TableInv, TypeOK, SaveRequest
  <2> QED
    BY <1>0, <2>1, <2>3, <2>5 DEF Sealed
<1>4. ASSUME NEW r \in Requests, NEW u \in Users, NEW s \in Answers, NEW flags \in SaveFlags,
             Access(r, u, s, flags[1], flags[2])
      PROVE  w = v /\ Sealed(w, request')
  <2>1. w = v
    BY <1>0, <1>4 DEF Access
  <2>2. request'[r].pc # "commit" /\ \A x \in Requests \ {r} : request'[x] = request[x]
    BY <1>4 DEF Access, TableInv, TypeOK
  <2> QED
    BY <1>0, <2>1, <2>2 DEF Sealed
<1>5. ASSUME NEW r \in Requests, WriteUiOnly(r) \/ Conflict(r) \/ Fail(r)
      PROVE  w = v /\ Sealed(w, request')
  <2>1. versions' = versions /\ request' = [request EXCEPT ![r] = Idle]
    BY <1>5 DEF WriteUiOnly, Conflict, Fail
  <2>2. \A x \in Requests : request'[x] = IF x = r THEN Idle ELSE request[x]
    BY <2>1 DEF TableInv, TypeOK
  <2> QED
    BY <1>0, <2>1, <2>2, IdleHasNoStep DEF Sealed
<1>6. ASSUME NEW u \in Users, Delete(u) PROVE FALSE
  BY <1>6 DEF Delete
<1>7. CASE UNCHANGED vars
  BY <1>0, <1>7 DEF vars, Sealed
<1>8. CASE InsertVersion \/ InsertInitialEdit \/ CreationFails
  BY <1>8 DEF InsertVersion, InsertInitialEdit, CreationFails, Created
<1> QED
  BY <1>1, <1>2, <1>3, <1>4, <1>5, <1>6, <1>7, <1>8 DEF Next

THEOREM SealedKept == Spec => SealedVersionsKept
<1>1. TableInv /\ [Next]_vars =>
        [\A v \in versions, w \in versions' :
            creation = Created /\ Sealed(v, request) /\ w.id = v.id =>
               /\ w.version = v.version
               /\ w.edits = v.edits
               /\ w.described => Sealed(w, request')]_vars
  BY StepKeepsSealed
<1> QED
  BY <1>1, TableInvHolds, PTL DEF Spec, SealedVersionsKept

(***************************************************************************)
(* AssessmentStore implements VersionedDocument, for any number of users,  *)
(* requests, fields, values and versions: each step of the tables is one   *)
(* step of the document as its readers see it, or no step.                 *)
(***************************************************************************)

(* A replay that starts from a complete version 1 gives every field a value. *)
LEMMA NewestExists ==
    ASSUME NEW T, T \subseteq Versions, T # {}
    PROVE  \E x \in T : \A y \in T : y <= x
<1> DEFINE U == {MaxVersion - t : t \in T}
<1>1. MaxVersion \in Nat /\ \A t \in T : t \in Nat /\ t <= MaxVersion
  BY MaxVersionAssumption DEF Versions
<1>2. U \subseteq Nat /\ U # {}
  BY <1>1
<1> HIDE DEF U
<1>3. PICK m \in U : \A k \in U : ~(<<k, m>> \in OpToRel(<, Nat))
  BY <1>2, NatLessThanWellFounded, WFMin
<1>4. \A k \in U : ~(k < m)
  BY <1>2, <1>3, Zenon DEF OpToRel
<1>5. PICK x \in T : m = MaxVersion - x
  BY <1>3 DEF U
<1>6. ASSUME NEW y \in T PROVE y <= x
  <2>1. MaxVersion - y \in U
    BY DEF U
  <2>2. ~(MaxVersion - y < MaxVersion - x)
    BY <1>4, <1>5, <2>1
  <2> QED
    BY <1>1, <2>2
<1> QED
  BY <1>6

LEMMA ReplayType ==
    ASSUME NEW rows, rows \subseteq VersionRow, NEW n \in Nat, NEW first \in rows,
           first.version <= n, first.edits \in Answers
    PROVE  [f \in Fields |-> replay(rows, f, n)] \in Answers
<1> SUFFICES ASSUME NEW f \in Fields PROVE replay(rows, f, n) \in Values
  BY DEF Answers
<1> DEFINE touching == rowsTouching(rows, f, n)
           candidates == {v.edits[f] : v \in lastRows(rows, f, n)}
<1>1. first \in touching
  BY NoEditAssumption DEF rowsTouching, Answers
<1>2. touching \subseteq VersionRow /\ \A v \in touching : v.edits[f] \in Values
  BY DEF rowsTouching, VersionRow, Edits
<1>3. PICK x \in {v.version : v \in touching} : \A y \in {v.version : v \in touching} : y <= x
  <2>1. {v.version : v \in touching} \subseteq Versions
    BY <1>2 DEF VersionRow
  <2> HIDE DEF touching
  <2> QED
    BY <1>1, <2>1, NewestExists
<1>4. PICK top \in touching : \A w \in touching : w.version <= top.version
  BY <1>3
<1>5. top \in lastRows(rows, f, n)
  BY <1>4 DEF lastRows
<1>6. candidates # {} /\ candidates \subseteq Values
  BY <1>2, <1>5 DEF lastRows
<1>7. (CHOOSE value \in candidates : TRUE) \in candidates
  <2> HIDE DEF candidates
  <2> QED
    BY <1>6
<1> QED
  BY <1>6, <1>7 DEF replay

(* When the creation is done, the contents are answers, before and after any *)
(* step.                                                                     *)
LEMMA ContentsType ==
    ASSUME TableInv, creation = Created
    PROVE  [n \in 1..currentVersion |-> rebuildState(n)] \in [1..currentVersion -> Answers]
<1> SUFFICES ASSUME NEW n \in 1..currentVersion PROVE rebuildState(n) \in Answers
  OBVIOUS
<1>1. currentVersion \in Nat /\ versions \subseteq VersionRow
  BY DEF TableInv, TypeOK
<1>2. PICK first \in versions : first.version = 1 /\ first.edits \in Answers
  BY <1>1 DEF TableInv, VersionTable, InitialVersion
<1> QED
  BY <1>1, <1>2, ReplayType DEF rebuildState

LEMMA ContentsTypeNext ==
    ASSUME TableInv', creation' = Created
    PROVE  [n \in 1..currentVersion' |-> rebuildState(n)'] \in [1..currentVersion' -> Answers]
<1> SUFFICES ASSUME NEW n \in 1..currentVersion' PROVE rebuildState(n)' \in Answers
  OBVIOUS
<1>1. currentVersion' \in Nat /\ versions' \subseteq VersionRow
  BY DEF TableInv, TypeOK
<1>2. PICK first \in versions' : first.version = 1 /\ first.edits \in Answers
  BY <1>1 DEF TableInv, VersionTable, InitialVersion
<1> QED
  BY <1>1, <1>2, ReplayType DEF rebuildState

(* A commit leaves the superseded version as it was, or gives it what the     *)
(* version below it has.                                                     *)
LEMMA CommitSuperseded ==
    ASSUME TableInv, NEW r \in Requests, Commit(r), NEW f \in Fields
    PROVE  /\ request[r].target = NoRow =>
                replay(versions', f, currentVersion) = replay(versions, f, currentVersion)
           /\ request[r].target # NoRow =>
                /\ currentVersion > 1
                /\ replay(versions', f, currentVersion)
                     = replay(versions, f, currentVersion - 1)
<1>1. currentVersion \in Versions /\ currentVersion = request[r].expected
  BY CommitFacts
<1>2. \A v \in versions : v.version \in Nat /\ v.version <= currentVersion
  BY DEF TableInv, TypeOK, VersionTable, VersionRow, Versions
<1>3. CASE request[r].target = NoRow
  <2> DEFINE row == NewRow(request[r])
  <2>1. versions' = versions \cup {row} /\ row.version = currentVersion + 1
    BY <1>1, <1>3 DEF Commit, NewRow
  <2> HIDE DEF row
  <2>2. rowsTouching(versions', f, currentVersion) = rowsTouching(versions, f, currentVersion)
    BY <1>1, <2>1 DEF rowsTouching, Versions
  <2> QED
    BY <1>3, <2>2, SameRowsSameReplay
<1>4. CASE request[r].target # NoRow
  <2> DEFINE new(t) == [t EXCEPT !.version = currentVersion + 1,
                            !.edits = Overlay(t.edits,
                                         diffStates(request[r].base, request[r].state))]
  <2>1. PICK t \in versions : /\ t.version = currentVersion
                              /\ t.version # 1
                              /\ versions' = (versions \ {t}) \cup {new(t)}
    BY <1>4, ConsolidationFacts
  <2>2. new(t).version = currentVersion + 1
    BY <2>1 DEF TableInv, TypeOK, VersionRow
  <2> HIDE DEF new
  <2>3. \A v \in versions : v # t => v.version # currentVersion
    BY <2>1 DEF TableInv, VersionTable
  <2>4. rowsTouching(versions', f, currentVersion)
          = rowsTouching(versions, f, currentVersion - 1)
    BY <1>1, <1>2, <2>1, <2>2, <2>3 DEF rowsTouching, Versions
  <2>5. currentVersion > 1
    BY <1>1, <2>1 DEF Versions
  <2> QED
    BY <1>4, <2>4, <2>5, SameRowsSameReplay
<1> QED
  BY <1>3, <1>4

-----------------------------------------------------------------------------
(* The steps of the document.                                                *)
contentsView == [n \in 1..completeVersion |-> rebuildState(n)]

LEMMA CommitRefines ==
    ASSUME TableInv, TableInv', creation = Created, NEW r \in Requests, Commit(r)
    PROVE  Document!Next
<1>1. /\ currentVersion \in Versions
      /\ currentVersion' = currentVersion + 1
      /\ creation' = Created
  BY CommitFacts DEF Commit
<1>2. completeVersion = currentVersion /\ completeVersion' = currentVersion + 1
  BY <1>1 DEF completeVersion
<1>3. currentVersion \in Nat /\ currentVersion # 0
  BY <1>1 DEF Versions
<1>4. contentsView' \in [1..(currentVersion + 1) -> Answers]
  BY <1>1, <1>2, ContentsTypeNext DEF contentsView
<1>5. \A n \in 1..currentVersion :
         /\ contentsView[n] = [f \in Fields |-> replay(versions, f, n)]
         /\ contentsView'[n] = [f \in Fields |-> replay(versions', f, n)]
  BY <1>2, <1>3 DEF contentsView, rebuildState
<1>6. ASSUME NEW n \in 1..(currentVersion - 1) PROVE contentsView'[n] = contentsView[n]
  <2>1. n \in Versions /\ n < currentVersion /\ n \in 1..currentVersion
    BY <1>1, <1>3, MaxVersionAssumption DEF Versions
  <2>2. rebuildState(n)' = rebuildState(n)
    BY <2>1, CommitKeepsPast
  <2>3. [f \in Fields |-> replay(versions', f, n)] = [f \in Fields |-> replay(versions, f, n)]
    BY <2>2 DEF rebuildState
  <2> QED
    BY <1>5, <2>1, <2>3
<1>7. Document!Save
  BY <1>2, <1>3, <1>4, <1>6 DEF Document!Save, contentsView
<1>8. CASE request[r].target = NoRow
  <2>0. currentVersion \in 1..currentVersion
    BY <1>3
  <2>1. [f \in Fields |-> replay(versions', f, currentVersion)]
          = [f \in Fields |-> replay(versions, f, currentVersion)]
    BY <1>8, CommitSuperseded
  <2>2. contentsView'[currentVersion] = contentsView[currentVersion]
    BY <1>5, <2>0, <2>1
  <2> QED
    BY <1>2, <1>7, <2>2 DEF Document!Next, Document!AddVersion, contentsView
<1>9. CASE request[r].target # NoRow
  <2>1. [f \in Fields |-> replay(versions', f, currentVersion)]
          = [f \in Fields |-> replay(versions, f, currentVersion - 1)]
    BY <1>9, CommitSuperseded
  <2>2. PICK t \in versions : t.version = currentVersion /\ t.version # 1
    BY <1>9, ConsolidationFacts
  <2>3. currentVersion > 1
    BY <1>3, <2>2
  <2>4. contentsView'[currentVersion] = contentsView[currentVersion - 1]
    <3>1. currentVersion \in 1..currentVersion /\ currentVersion - 1 \in 1..currentVersion
      BY <1>3, <2>3
    <3> QED
      BY <1>5, <2>1, <3>1
  <2> QED
    BY <1>2, <1>7, <2>3, <2>4 DEF Document!Next, Document!AmendNewest, contentsView
<1> QED
  BY <1>8, <1>9

LEMMA InsertInitialEditRefines ==
    ASSUME TableInv, TableInv', InsertInitialEdit
    PROVE  Document!Create
<1>1. completeVersion = 0 /\ creation' = Created
  BY DEF InsertInitialEdit, completeVersion, Created
<1>2. completeVersion' = currentVersion' /\ currentVersion' \in Nat \ {0}
  BY <1>1 DEF completeVersion, InsertInitialEdit, TableInv, TypeOK
<1>3. contentsView' \in [1..completeVersion' -> Answers]
  BY <1>1, <1>2, ContentsTypeNext DEF contentsView
<1> QED
  BY <1>1, <1>2, <1>3 DEF Document!Create, contentsView

LEMMA DeleteRefines ==
    ASSUME TableInv, creation = Created, NEW u \in Users, Delete(u)
    PROVE  Document!Delete
<1>1. completeVersion = currentVersion /\ currentVersion # 0 /\ completeVersion' = 0
  BY DEF Delete, completeVersion
<1>2. contentsView' = [n \in 1..0 |-> {}]
  BY <1>1 DEF contentsView
<1> QED
  BY <1>1, <1>2 DEF Document!Delete, Document!NoContents, contentsView

(* Steps that touch neither the rows nor the version are invisible.          *)
LEMMA StutterRefines ==
    ASSUME completeVersion' = completeVersion,
           \A n \in 1..completeVersion : rebuildState(n)' = rebuildState(n)
    PROVE  UNCHANGED Document!docVars
<1>1. contentsView' = contentsView
  <2>1. contentsView' = [n \in 1..completeVersion' |-> rebuildState(n)']
    BY DEF contentsView
  <2> QED
    BY <2>1 DEF contentsView
<1> QED
  BY <1>1 DEF Document!docVars, contentsView

LEMMA StepRefines ==
    ASSUME TableInv, TableInv', [Next]_vars
    PROVE  [Document!Next]_(Document!docVars)
<1>1. ASSUME NEW r \in Requests, Commit(r), creation = Created PROVE Document!Next
  BY <1>1, CommitRefines
<1>2. ASSUME NEW u \in Users, Delete(u), creation = Created PROVE Document!Next
  BY <1>2, DeleteRefines DEF Document!Next
<1>3. CASE InsertInitialEdit
  BY <1>3, InsertInitialEditRefines DEF Document!Next
<1>4. CASE creation # Created /\ creation' # Created
  <2>1. completeVersion = 0 /\ completeVersion' = 0
    BY <1>4 DEF completeVersion
  <2> QED
    BY <2>1, StutterRefines
<1>5. ASSUME NEW u \in Users, NEW m \in PatchVersions, NEW described \in BOOLEAN,
             UpdateDescription(u, m, described)
      PROVE  UNCHANGED Document!docVars
  <2>1. completeVersion' = completeVersion /\ completeVersion \in Nat
    BY <1>5 DEF UpdateDescription, completeVersion, TableInv, TypeOK
  <2>2. \A n \in 1..completeVersion : rebuildState(n)' = rebuildState(n)
    BY <1>5, <2>1, UpdateDescriptionKeepsReplay, SameReplaySameRebuild
  <2> QED
    BY <2>1, <2>2, StutterRefines
<1>6. CASE UNCHANGED <<versions, currentVersion, creation>>
  <2>1. completeVersion' = completeVersion
    BY <1>6 DEF completeVersion
  <2>2. \A n : rebuildState(n)' = rebuildState(n)
    BY <1>6 DEF rebuildState
  <2> QED
    BY <2>1, <2>2, StutterRefines
<1>7. \/ InsertInitialEdit
      \/ creation # Created /\ creation' # Created
      \/ creation = Created
  <2>1. \/ creation' = creation \/ InsertVersion \/ InsertInitialEdit \/ CreationFails
    BY DEF Next, vars, Access, WriteUiOnly, SelectLast, Commit, Conflict, Fail,
           UpdateDescription, Delete
  <2>2. InsertVersion => creation' # Created
    BY DEF InsertVersion, TableInv, TypeOK, CreateRequest, Created, Interrupted
  <2>3. CreationFails => creation' # Created
    BY DEF CreationFails, Created, Interrupted
  <2> QED
    BY <2>1, <2>2, <2>3
<1>8. CASE creation = Created
  <2>1. ~(InsertVersion \/ InsertInitialEdit \/ CreationFails)
    BY <1>8 DEF InsertVersion, InsertInitialEdit, CreationFails, Created
  <2> QED
    BY <1>1, <1>2, <1>5, <1>6, <1>8, <2>1
       DEF Next, vars, Access, WriteUiOnly, SelectLast, Conflict, Fail
<1> QED
  BY <1>3, <1>4, <1>7, <1>8

LEMMA InitRefines == Init => Document!Init
<1> SUFFICES ASSUME Init PROVE Document!Init
  OBVIOUS
<1>1. completeVersion = 0
  BY DEF Init, completeVersion, Created
<1>2. contentsView = [n \in 1..0 |-> {}]
  BY <1>1 DEF contentsView
<1> QED
  BY <1>1, <1>2 DEF Document!Init, Document!NoContents, contentsView

(* The tables, the lock in the UPDATE and the choice of the row to consolidate *)
(* into implement VersionedDocument: to a reader of the history every save is  *)
(* one new version, and what is below the newest version never changes.        *)
THEOREM StoreImplementsDocument == Spec => ImplementsDocument
<1>1. Init => Document!Init
  BY InitRefines
<1>2. TableInv /\ TableInv' /\ [Next]_vars => [Document!Next]_(Document!docVars)
  BY StepRefines
<1> QED
  BY <1>1, <1>2, TableInvHolds, PTL DEF Spec, ImplementsDocument, Document!Spec

-----------------------------------------------------------------------------
\* HistoryReads

(***************************************************************************)
(* What a replay gives.  Once the creation is done every field has a first *)
(* edit, so that the fallback is not taken and no field is missing.        *)
(***************************************************************************)
LEMMA TouchedHasValue ==
    ASSUME NEW rows, rows \subseteq VersionRow, NEW n \in Nat, NEW f \in Fields,
           rowsTouching(rows, f, n) # {}
    PROVE  replay(rows, f, n) \in Values
<1> DEFINE touching == rowsTouching(rows, f, n)
           candidates == {v.edits[f] : v \in lastRows(rows, f, n)}
<1>1. touching \subseteq VersionRow /\ \A v \in touching : v.edits[f] \in Values
  BY DEF rowsTouching, VersionRow, Edits
<1>2. PICK x \in {v.version : v \in touching} : \A y \in {v.version : v \in touching} : y <= x
  <2>1. {v.version : v \in touching} \subseteq Versions
    BY <1>1 DEF VersionRow
  <2>2. {v.version : v \in touching} # {}
    OBVIOUS
  <2> HIDE DEF touching
  <2> QED
    BY <2>1, <2>2, NewestExists
<1>3. PICK top \in touching : \A w \in touching : w.version <= top.version
  BY <1>2
<1>4. top \in lastRows(rows, f, n)
  BY <1>3 DEF lastRows
<1>5. candidates # {} /\ candidates \subseteq Values
  BY <1>1, <1>4 DEF lastRows
<1>6. (CHOOSE value \in candidates : TRUE) \in candidates
  <2> HIDE DEF candidates
  <2> QED
    BY <1>5
<1> QED
  BY <1>5, <1>6 DEF replay

LEMMA RebuiltType ==
    ASSUME TypeOK, NEW n \in Versions
    PROVE  rebuilt(n) \in Edits
<1>1. versions \subseteq VersionRow /\ cachedState \in Edits /\ n \in Nat
  BY AnswersAreEdits DEF TypeOK, Versions
<1>2. \A f \in Fields : rowsTouching(versions, f, n) # {} => replay(versions, f, n) \in Values
  BY <1>1, TouchedHasValue
<1>3. [f \in Fields |-> IF rowsTouching(versions, f, n) = {} THEN NoEdit
                        ELSE replay(versions, f, n)] \in Edits
  BY <1>2 DEF Edits
<1> QED
  BY <1>1, <1>3 DEF rebuilt

LEMMA RebuiltIsReplay ==
    ASSUME TableInv, creation = Created, currentVersion # 0, NEW n \in Versions
    PROVE  rebuilt(n) = rebuildState(n)
<1>1. PICK first \in versions : first.version = 1 /\ first.edits \in Answers
  BY DEF TableInv, VersionTable, InitialVersion
<1>2. 1 <= n /\ cachedState \in Answers
  BY DEF Versions, TableInv, TypeOK
<1>3. \A f \in Fields : first.edits[f] # NoEdit /\ first \in rowsTouching(versions, f, n)
  BY <1>1, <1>2, NoEditAssumption DEF Answers, rowsTouching
<1>4. CASE isFallback(n)
  <2>1. first.edits = NoEdits
    BY <1>1, <1>2, <1>4 DEF isFallback
  <2>2. \A f \in Fields : FALSE
    BY <1>3, <2>1 DEF NoEdits
  <2>3. cachedState = [f \in Fields |-> replay(versions, f, n)]
    BY <1>2, <2>2 DEF Answers
  <2> QED
    BY <1>4, <2>3 DEF rebuilt, rebuildState
<1>5. CASE ~isFallback(n)
  BY <1>3, <1>5 DEF rebuilt, rebuildState
<1> QED
  BY <1>4, <1>5

(***************************************************************************)
(* The steps of the writers, as readers see them: a version that was old   *)
(* stays old, and a restart is no step of the tables.                      *)
(***************************************************************************)
LEMMA WritersKeepOrder ==
    ASSUME TableInv, [Next]_vars
    PROVE  /\ currentVersion' # 0 => currentVersion # 0 /\ currentVersion <= currentVersion'
           /\ creation = Created => creation' = Created
<1>1. currentVersion \in Nat
  BY DEF TableInv, TypeOK
<1>2. ASSUME NEW r \in Requests, Commit(r)
      PROVE  /\ currentVersion # 0 /\ currentVersion <= currentVersion'
             /\ creation' = creation
  <2>1. currentVersion \in Versions /\ request[r].expected = currentVersion
    BY <1>2, CommitFacts
  <2> QED
    BY <1>2, <2>1 DEF Commit, LockAndUpdate, Versions
<1>3. CASE UNCHANGED <<currentVersion, creation>>
  BY <1>1, <1>3
<1>4. CASE InsertVersion \/ InsertInitialEdit \/ CreationFails
  BY <1>1, <1>4 DEF InsertVersion, InsertInitialEdit, CreationFails, Created
<1>5. ASSUME NEW u \in Users, Delete(u)
      PROVE  currentVersion' = 0 /\ creation' = creation
  BY <1>5 DEF Delete
<1> QED
  BY <1>2, <1>3, <1>4, <1>5
     DEF Next, vars, Access, WriteUiOnly, SelectLast, Conflict, Fail, UpdateDescription

LEMMA RestartTableInv ==
    ASSUME TableInv, Restart
    PROVE  TableInv' /\ (creation = Created => creation' = Created)
<1>1. /\ request' = [r \in Requests |-> Idle]
      /\ creation' = IF creation = Created THEN Created ELSE Interrupted
      /\ UNCHANGED <<currentVersion, cachedState, versions, overwritten, lastSaver>>
  BY DEF Restart
<1>2. TypeOK'
  BY <1>1 DEF TableInv, TypeOK
<1>3. VersionTable'
  BY <1>1 DEF TableInv, VersionTable, InitialVersion, Created, Interrupted
<1>4. InFlightSaves' /\ NewestRowIsLastSavers' /\ CreatorIsFirstSaver'
  BY <1>1 DEF TableInv, InFlightSaves, NewestRowIsLastSavers, CreatorIsFirstSaver, Created, Interrupted
<1> QED
  BY <1>1, <1>2, <1>3, <1>4 DEF TableInv

(***************************************************************************)
(* The cache as a sequence: deleting an entry, adding one and dropping the *)
(* oldest keep one entry per version, and every entry is an old one or the *)
(* one added.                                                              *)
(***************************************************************************)
Distinct(c) ==
    /\ c \in Seq(Entry)
    /\ \A i, j \in 1..Len(c) : c[i].version = c[j].version => i = j

LEMMA TailDistinct ==
    ASSUME NEW c, Distinct(c), c # <<>>
    PROVE  /\ Distinct(Tail(c)) /\ Len(Tail(c)) = Len(c) - 1
           /\ \A i \in 1..Len(Tail(c)) : \E m \in 1..Len(c) : Tail(c)[i] = c[m]
<1> DEFINE d == Tail(c)
<1>1. c \in Seq(Entry) /\ Len(c) \in Nat
  BY DEF Distinct
<1>2. /\ d \in Seq(Entry) /\ Len(d) = Len(c) - 1
      /\ \A i \in 1..Len(d) : d[i] = c[i + 1]
  BY <1>1, HeadTailProperties
<1> HIDE DEF d
<1>3. ASSUME NEW i \in 1..Len(d) PROVE i + 1 \in 1..Len(c) /\ d[i] = c[i + 1]
  BY <1>1, <1>2
<1>4. ASSUME NEW i \in 1..Len(d), NEW j \in 1..Len(d), d[i].version = d[j].version PROVE i = j
  <2>1. i + 1 = j + 1
    BY <1>3, <1>4 DEF Distinct
  <2> QED
    BY <2>1
<1>5. Distinct(d)
  BY <1>2, <1>4 DEF Distinct
<1> QED
  BY <1>2, <1>3, <1>5 DEF d

LEMMA AppendDistinct ==
    ASSUME NEW c, Distinct(c), NEW e \in Entry, \A i \in 1..Len(c) : c[i].version # e.version
    PROVE  /\ Distinct(Append(c, e)) /\ Len(Append(c, e)) = Len(c) + 1
           /\ \A i \in 1..Len(Append(c, e)) :
                Append(c, e)[i] = e \/ \E m \in 1..Len(c) : Append(c, e)[i] = c[m]
<1> DEFINE d == Append(c, e)
<1>1. c \in Seq(Entry) /\ Len(c) \in Nat
  BY DEF Distinct
<1>2. /\ d \in Seq(Entry) /\ Len(d) = Len(c) + 1
      /\ \A i \in 1..Len(c) : d[i] = c[i]
      /\ d[Len(c) + 1] = e
  BY <1>1, AppendProperties
<1> HIDE DEF d
<1>3. \A i \in 1..Len(d) : i \in 1..Len(c) \/ i = Len(c) + 1
  BY <1>1, <1>2
<1>4. \A i, j \in 1..Len(d) : d[i].version = d[j].version => i = j
  BY <1>2, <1>3 DEF Distinct
<1>5. \A i \in 1..Len(d) : d[i] = e \/ \E m \in 1..Len(c) : d[i] = c[m]
  BY <1>2, <1>3
<1> QED
  BY <1>2, <1>4, <1>5 DEF Distinct, d

LEMMA RemoveDistinct ==
    ASSUME NEW c, Distinct(c), NEW k \in 1..Len(c)
    PROVE  /\ Distinct(RemoveAt(c, k)) /\ Len(RemoveAt(c, k)) = Len(c) - 1
           /\ \A i \in 1..Len(RemoveAt(c, k)) :
                \E m \in 1..Len(c) : m # k /\ RemoveAt(c, k)[i] = c[m]
<1> DEFINE p == SubSeq(c, 1, k - 1)
           q == SubSeq(c, k + 1, Len(c))
           d == p \o q
<1>1. c \in Seq(Entry) /\ Len(c) \in Nat /\ \A i \in 1..Len(c) : c[i] \in Entry
  BY DEF Distinct
<1>2. p \in Seq(Entry) /\ Len(p) = k - 1 /\ \A i \in 1..(k - 1) : p[i] = c[i]
  <2>1. \A i \in 1..(k - 1) : c[i] \in Entry
    BY <1>1
  <2>2. /\ p \in Seq(Entry) /\ Len(p) = IF 1 <= k - 1 THEN (k - 1) - 1 + 1 ELSE 0
        /\ \A i \in 1..((k - 1) - 1 + 1) : p[i] = c[1 + i - 1]
    <3> k - 1 \in Int
      OBVIOUS
    <3> QED
      BY <2>1, SubSeqProperties
  <2> QED
    BY <1>1, <2>2
<1>3. q \in Seq(Entry) /\ Len(q) = Len(c) - k /\ \A i \in 1..(Len(c) - k) : q[i] = c[k + i]
  <2>1. \A i \in (k + 1)..Len(c) : c[i] \in Entry
    BY <1>1
  <2>2. /\ q \in Seq(Entry) /\ Len(q) = IF k + 1 <= Len(c) THEN Len(c) - (k + 1) + 1 ELSE 0
        /\ \A i \in 1..(Len(c) - (k + 1) + 1) : q[i] = c[(k + 1) + i - 1]
    <3> k + 1 \in Int /\ Len(c) \in Int
      BY <1>1
    <3> QED
      BY <2>1, SubSeqProperties
  <2> QED
    BY <1>1, <2>2
<1> HIDE DEF p, q
<1>4. /\ d \in Seq(Entry) /\ Len(d) = Len(c) - 1
      /\ \A i \in 1..Len(d) : d[i] = IF i < k THEN c[i] ELSE c[i + 1]
  <2>1. /\ d \in Seq(Entry) /\ Len(d) = Len(p) + Len(q)
        /\ \A i \in 1..(Len(p) + Len(q)) : d[i] = IF i <= Len(p) THEN p[i] ELSE q[i - Len(p)]
    BY <1>2, <1>3, ConcatProperties
  <2>2. ASSUME NEW i \in 1..Len(d), i < k PROVE d[i] = c[i]
    BY <1>1, <1>2, <1>3, <2>1, <2>2
  <2>3. ASSUME NEW i \in 1..Len(d), ~(i < k) PROVE d[i] = c[i + 1]
    <3>1. i - Len(p) \in 1..(Len(c) - k) /\ k + (i - Len(p)) = i + 1
      BY <1>1, <1>2, <1>3, <2>1, <2>3
    <3> QED
      BY <1>1, <1>2, <1>3, <2>1, <2>3, <3>1
  <2> QED
    BY <1>1, <1>2, <1>3, <2>1, <2>2, <2>3
<1> HIDE DEF d
<1> DEFINE old(i) == IF i < k THEN i ELSE i + 1
<1>5. \A i \in 1..Len(d) : old(i) \in 1..Len(c) /\ old(i) # k /\ d[i] = c[old(i)]
  BY <1>1, <1>4
<1>6. ASSUME NEW i \in 1..Len(d), NEW j \in 1..Len(d), d[i].version = d[j].version PROVE i = j
  <2>1. old(i) = old(j)
    <3> HIDE DEF old
    <3> QED
      BY <1>5, <1>6 DEF Distinct
  <2> QED
    BY <2>1
<1> HIDE DEF old
<1>7. d = RemoveAt(c, k)
  BY DEF d, p, q, RemoveAt
<1>8. Distinct(d)
  BY <1>4, <1>6 DEF Distinct
<1> QED
  BY <1>4, <1>5, <1>7, <1>8

(***************************************************************************)
(* The inductive invariant.  Unless a read met a half-created assessment,  *)
(* what was found old when a read started is old still, and a replay of it *)
(* gives what the cache holds and what the read is going to answer; a read *)
(* that found no edits has met the deletion of the assessment.             *)
(***************************************************************************)
Gone == currentVersion = 0 \/ Fields = {}

Answered(q) == q.content = q.seen \/ (currentVersion = 0 /\ q.content = NoEdits)

WithAnswer(q, content) == [q EXCEPT !.pc = "answered", !.content = content]

MayAnswer(q, content) ==
    ~premature /\ q.immutable => content = q.seen \/ (currentVersion = 0 /\ content = NoEdits)

Settled(n, content) ==
    /\ creation = Created
    /\ currentVersion # 0 => n < currentVersion /\ content = rebuildState(n)

ReadOK(q, p) ==
    \/ q = NotReading
    \/ /\ q \in Read
       /\ q.immutable => q.version < MaxVersion
       /\ ~p => /\ creation = Created
                /\ q.immutable => Settled(q.version, q.seen)
                /\ q.pc = "fallback" => Gone
                /\ q.immutable /\ q.pc = "answered" => Answered(q)

CacheOK(c, p) ==
    /\ Distinct(c)
    /\ Len(c) <= MaxEntries
    /\ ~p => \A i \in 1..Len(c) : Settled(c[i].version, c[i].content)

ReadInv ==
    /\ TableInv
    /\ read \in [Readers -> Read \cup {NotReading}]
    /\ \A d \in Readers : ReadOK(read[d], premature)
    /\ CacheOK(cache, premature)
    /\ premature \in BOOLEAN

LEMMA EmptyCache ==
    ASSUME NEW p \in BOOLEAN
    PROVE  CacheOK(<<>>, p)
<1>1. <<>> \in Seq(Entry) /\ Len(<<>>) = 0
  BY EmptySeq
<1>2. 1..0 = {}
  OBVIOUS
<1> QED
  BY <1>1, <1>2, MaxEntriesAssumption DEF CacheOK, Distinct

LEMMA CacheDropped ==
    ASSUME NEW c, NEW p \in BOOLEAN, Distinct(c), c # <<>>, Len(c) <= MaxEntries + 1,
           ~p => \A i \in 1..Len(c) : Settled(c[i].version, c[i].content)
    PROVE  CacheOK(Tail(c), p)
<1>1. Len(c) \in Nat
  BY DEF Distinct
<1>2. Len(Tail(c)) <= MaxEntries
  BY <1>1, TailDistinct, MaxEntriesAssumption
<1> QED
  BY <1>2, TailDistinct DEF CacheOK

(* Deleting the entry of a version, if there is one.                        *)
LEMMA WithoutFacts ==
    ASSUME CacheOK(cache, premature), premature \in BOOLEAN, NEW n
    PROVE  /\ CacheOK(Without(n), premature)
           /\ \A i \in 1..Len(Without(n)) : Without(n)[i].version # n
           /\ cached(n) # {} => Len(Without(n)) = Len(cache) - 1
<1>1. Len(cache) \in Nat /\ DOMAIN cache = 1..Len(cache) /\ Distinct(cache)
  BY DEF CacheOK, Distinct
<1>2. CASE \E k \in DOMAIN cache : cache[k].version = n
  <2> DEFINE choice == CHOOSE j \in DOMAIN cache : cache[j].version = n
  <2>0. choice \in 1..Len(cache) /\ cache[choice].version = n
    BY <1>1, <1>2
  <2> HIDE DEF choice
  <2>1. PICK k \in 1..Len(cache) : k = choice /\ cache[k].version = n
    BY <2>0
  <2> DEFINE d == RemoveAt(cache, k)
  <2>2. /\ Distinct(d) /\ Len(d) = Len(cache) - 1
        /\ \A i \in 1..Len(d) : \E m \in 1..Len(cache) : m # k /\ d[i] = cache[m]
    <3>1. PICK c : c = cache
      OBVIOUS
    <3>2. Distinct(c) /\ k \in 1..Len(c)
      BY <1>1, <3>1
    <3>3. Distinct(RemoveAt(c, k))
      BY <3>2, RemoveDistinct
    <3>4. Len(RemoveAt(c, k)) = Len(c) - 1
      BY <3>2, RemoveDistinct
    <3>5. \A i \in 1..Len(RemoveAt(c, k)) : \E m \in 1..Len(c) : m # k /\ RemoveAt(c, k)[i] = c[m]
      BY <3>2, RemoveDistinct
    <3> QED
      BY <3>1, <3>3, <3>4, <3>5
  <2>3. Without(n) = d
    BY <1>2, <2>1 DEF Without, choice
  <2> HIDE DEF d
  <2>4. \A i \in 1..Len(d) : d[i].version # n
    BY <1>1, <2>1, <2>2 DEF Distinct
  <2>5. Len(d) <= MaxEntries
    BY <1>1, <2>2, MaxEntriesAssumption DEF CacheOK
  <2>6. CacheOK(d, premature)
    BY <2>2, <2>5 DEF CacheOK
  <2> QED
    BY <2>2, <2>3, <2>4, <2>6
<1>3. CASE ~\E k \in DOMAIN cache : cache[k].version = n
  <2>1. Without(n) = cache
    BY <1>3 DEF Without
  <2>2. cached(n) = {}
    BY <1>3 DEF cached, ToSet
  <2> QED
    BY <1>1, <1>3, <2>1, <2>2
<1> QED
  BY <1>2, <1>3

LEMMA HitKeepsCache ==
    ASSUME CacheOK(cache, premature), premature \in BOOLEAN, NEW n, NEW e \in cached(n),
           getCachedRebuild(e)
    PROVE  /\ CacheOK(cache', premature)
           /\ e \in Entry /\ e.version = n
           /\ ~premature => Settled(n, e.content)
<1>1. Len(cache) \in Nat /\ DOMAIN cache = 1..Len(cache) /\ Distinct(cache)
  BY DEF CacheOK, Distinct
<1>2. PICK k \in 1..Len(cache) : e = cache[k] /\ e.version = n
  BY <1>1 DEF cached, ToSet
<1>3. e \in Entry /\ (~premature => Settled(n, e.content))
  BY <1>1, <1>2 DEF CacheOK, Distinct
<1> DEFINE c == Without(n)
<1>4. /\ CacheOK(c, premature) /\ Len(c) = Len(cache) - 1
      /\ \A i \in 1..Len(c) : c[i].version # n
  BY WithoutFacts
<1>5. cache' = Append(c, e)
  BY <1>2 DEF getCachedRebuild
<1> HIDE DEF c
<1>6. /\ Distinct(cache') /\ Len(cache') = Len(c) + 1
      /\ \A i \in 1..Len(cache') : cache'[i] = e \/ \E m \in 1..Len(c) : cache'[i] = c[m]
  BY <1>2, <1>3, <1>4, <1>5, AppendDistinct DEF CacheOK
<1>7. Len(cache') <= MaxEntries
  BY <1>1, <1>4, <1>6, MaxEntriesAssumption DEF CacheOK
<1>8. ~premature => \A i \in 1..Len(cache') : Settled(cache'[i].version, cache'[i].content)
  BY <1>2, <1>3, <1>4, <1>6 DEF CacheOK
<1> QED
  BY <1>2, <1>3, <1>6, <1>7, <1>8 DEF CacheOK

LEMMA InsertKeepsCache ==
    ASSUME CacheOK(cache, premature), premature \in BOOLEAN,
           NEW n \in 1..(MaxVersion - 1), NEW content \in Edits,
           ~premature => Settled(n, content), setCachedRebuild(n, content)
    PROVE  CacheOK(cache', premature)
<1> DEFINE e == [version |-> n, content |-> content]
           c == Without(n)
           kept == Append(c, e)
<1>1. e \in Entry /\ e.version = n /\ e.content = content
  BY DEF Entry
<1>2. CacheOK(c, premature) /\ \A i \in 1..Len(c) : c[i].version # n
  BY WithoutFacts
<1>3. cache' = IF Len(kept) > MaxEntries THEN Tail(kept) ELSE kept
  BY DEF setCachedRebuild
<1> HIDE DEF c, e
<1>4. /\ Distinct(kept) /\ Len(kept) = Len(c) + 1
      /\ \A i \in 1..Len(kept) : kept[i] = e \/ \E m \in 1..Len(c) : kept[i] = c[m]
  BY <1>1, <1>2, AppendDistinct DEF CacheOK
<1> HIDE DEF kept
<1>5. Len(c) \in Nat /\ Len(c) <= MaxEntries
  BY <1>2 DEF CacheOK, Distinct
<1>6. ~premature => \A i \in 1..Len(kept) : Settled(kept[i].version, kept[i].content)
  BY <1>1, <1>2, <1>4 DEF CacheOK
<1>7. CASE Len(kept) > MaxEntries
  <2>1. kept # <<>>
    BY <1>4, <1>5, EmptySeq
  <2>2. Len(kept) <= MaxEntries + 1
    BY <1>4, <1>5, MaxEntriesAssumption
  <2> QED
    BY <1>3, <1>4, <1>6, <1>7, <2>1, <2>2, CacheDropped
<1>8. CASE ~(Len(kept) > MaxEntries)
  <2>1. Len(kept) <= MaxEntries
    BY <1>4, <1>5, <1>8, MaxEntriesAssumption
  <2> QED
    BY <1>3, <1>4, <1>6, <1>8, <2>1 DEF CacheOK
<1> QED
  BY <1>7, <1>8

(***************************************************************************)
(* The steps.                                                              *)
(***************************************************************************)
LEMMA SettledStays ==
    ASSUME TableInv, [Next]_vars, NEW n \in Versions, NEW content, Settled(n, content)
    PROVE  Settled(n, content)'
<1>1. creation' = Created /\ (currentVersion' # 0 => currentVersion # 0 /\ currentVersion <= currentVersion')
  BY WritersKeepOrder DEF Settled
<1>2. currentVersion \in Nat
  BY DEF TableInv, TypeOK
<1>3. currentVersion' \in Nat
  BY NextTableInv DEF TableInv, TypeOK
<1>4. ASSUME currentVersion' # 0
      PROVE  n < currentVersion' /\ content = rebuildState(n)'
  <2>1. n < currentVersion /\ content = rebuildState(n)
    BY <1>1, <1>4 DEF Settled
  <2>2. rebuildState(n)' = rebuildState(n)
    BY <1>4, <2>1, StepKeepsPast DEF Settled
  <2> QED
    BY <1>1, <1>2, <1>3, <1>4, <2>1, <2>2 DEF Versions
<1> QED
  BY <1>1, <1>4 DEF Settled

(* The writers leave readers and cache alone, and what those hold settled.  *)
LEMMA WriterStep ==
    ASSUME ReadInv, [Next]_vars, UNCHANGED readVars
    PROVE  ReadInv'
<1>1. TableInv /\ TableInv'
  BY NextTableInv DEF ReadInv
<1>2. read' = read /\ cache' = cache /\ premature' = premature
  BY DEF readVars
<1>3. /\ creation = Created => creation' = Created
      /\ currentVersion = 0 => currentVersion' = 0
  BY <1>1, WritersKeepOrder
<1>4. ASSUME NEW d \in Readers PROVE ReadOK(read[d], premature)'
  <2>1. ReadOK(read[d], premature)
    BY DEF ReadInv
  <2>2. CASE read[d] = NotReading
    BY <1>2, <2>2 DEF ReadOK
  <2>3. CASE read[d] # NotReading
    <3>1. read[d] \in Read /\ read[d].version \in Versions
      BY <2>1, <2>3 DEF ReadOK, Read
    <3>2. ASSUME ~premature, read[d].immutable
          PROVE  Settled(read[d].version, read[d].seen)'
      <4>1. Settled(read[d].version, read[d].seen)
        BY <2>1, <2>3, <3>2 DEF ReadOK
      <4>2. \A n, s : n = read[d].version /\ s = read[d].seen => Settled(n, s)'
        BY <1>1, <3>1, <4>1, SettledStays
      <4> QED
        BY <1>2, <4>2 DEF Settled
    <3>3. ASSUME ~premature
          PROVE  /\ read[d].pc = "fallback" => Gone'
                 /\ read[d].immutable /\ read[d].pc = "answered" => Answered(read[d])'
      BY <1>2, <1>3, <2>1, <2>3, <3>3 DEF ReadOK, Gone, Answered
    <3> QED
      BY <1>2, <1>3, <2>1, <2>3, <3>1, <3>2, <3>3 DEF ReadOK
  <2> QED
    BY <2>2, <2>3
<1>5. CacheOK(cache, premature)'
  <2>1. CacheOK(cache, premature)
    BY DEF ReadInv
  <2>2. ASSUME ~premature, NEW i \in 1..Len(cache)
        PROVE  Settled(cache[i].version, cache[i].content)'
    <3>1. Settled(cache[i].version, cache[i].content)
      BY <2>1, <2>2 DEF CacheOK
    <3>2. cache[i].version \in Versions
      <4>1. cache[i] \in Entry
        BY <2>1 DEF CacheOK, Distinct
      <4> QED
        BY <4>1, MaxVersionAssumption DEF Entry, Versions
    <3>3. \A n, s : n = cache[i].version /\ s = cache[i].content => Settled(n, s)'
      BY <1>1, <3>1, <3>2, SettledStays
    <3> QED
      BY <1>2, <3>3 DEF Settled
  <2> QED
    BY <1>2, <2>1, <2>2 DEF CacheOK, Distinct
<1> QED
  BY <1>1, <1>2, <1>4, <1>5 DEF ReadInv

(* A reader's step changes its activation, and perhaps the cache.           *)
LEMMA ReaderStep ==
    ASSUME ReadInv, UNCHANGED vars, NEW d \in Readers, NEW q,
           read' = [read EXCEPT ![d] = q], ReadOK(q, premature'),
           CacheOK(cache', premature'), premature' \in BOOLEAN, premature => premature'
    PROVE  ReadInv'
<1>1. TableInv'
  BY NextTableInv DEF ReadInv
<1>2. q \in Read \cup {NotReading}
  BY DEF ReadOK
<1>3. read' \in [Readers -> Read \cup {NotReading}]
  BY <1>2 DEF ReadInv
<1>4. \A n, s : Settled(n, s)' <=> Settled(n, s)
  BY DEF vars, Settled, rebuildState
<1>5. ASSUME NEW e \in Readers PROVE ReadOK(read'[e], premature')
  <2>1. read'[e] = IF e = d THEN q ELSE read[e]
    BY DEF ReadInv
  <2>2. ReadOK(read[e], premature')
    BY DEF ReadInv, ReadOK
  <2> QED
    BY <2>1, <2>2
<1>6. creation' = creation /\ (Gone => Gone') /\ \A x : Answered(x) => Answered(x)'
  BY DEF vars, Gone, Answered
<1>7. \A x, p : (ReadOK(x, p) => ReadOK(x, p)') /\ (CacheOK(x, p) => CacheOK(x, p)')
  BY <1>4, <1>6 DEF ReadOK, CacheOK
<1> QED
  BY <1>1, <1>3, <1>5, <1>7 DEF ReadInv

LEMMA StartReadStep ==
    ASSUME ReadInv, NEW d \in Readers, NEW n \in Versions, StartRead(d, n), UNCHANGED vars
    PROVE  ReadInv'
<1> DEFINE q == [pc |-> "findRow", version |-> n, seen |-> rebuilt(n),
                 immutable |-> isImmutable(n), content |-> NoEdits]
<1>1. /\ currentVersion # 0 /\ read' = [read EXCEPT ![d] = q] /\ cache' = cache
      /\ premature' = (premature \/ creation # Created)
  BY DEF StartRead
<1>2. TableInv /\ TypeOK /\ premature \in BOOLEAN
  BY DEF ReadInv, TableInv
<1>3. rebuilt(n) \in Edits /\ NoEdits \in Edits
  BY <1>2, RebuiltType DEF NoEdits, Edits
<1>4. isImmutable(n) \in BOOLEAN /\ (isImmutable(n) => n < currentVersion)
  BY DEF isImmutable
<1>5. /\ q \in Read /\ q.version = n /\ q.seen = rebuilt(n)
      /\ q.immutable = isImmutable(n) /\ q.pc = "findRow"
  BY <1>3, <1>4 DEF Read
<1>6. isImmutable(n) => n < MaxVersion
  BY <1>2, <1>4, MaxVersionAssumption DEF TypeOK, Versions
<1>7. ~premature' => creation = Created /\ rebuilt(n) = rebuildState(n)
  BY <1>1, <1>2, RebuiltIsReplay
<1> HIDE DEF q
<1>8. ReadOK(q, premature')
  BY <1>4, <1>5, <1>6, <1>7 DEF ReadOK, Settled
<1>9. CacheOK(cache', premature')
  BY <1>1 DEF ReadInv, CacheOK
<1> QED
  BY <1>1, <1>2, <1>8, <1>9, ReaderStep

(* A read that is at one of its queries, with what is known of it.          *)
LEMMA ReadUnderWay ==
    ASSUME ReadInv, NEW d \in Readers, read[d].pc # "idle"
    PROVE  /\ read[d] \in Read
           /\ ReadOK(read[d], premature)
           /\ read[d].version \in Versions
           /\ read[d].immutable => read[d].version \in 1..(MaxVersion - 1)
<1>1. ReadOK(read[d], premature)
  BY DEF ReadInv
<1>2. read[d] # NotReading
  BY DEF NotReading
<1>3. read[d] \in Read /\ (read[d].immutable => read[d].version < MaxVersion)
  BY <1>1, <1>2 DEF ReadOK
<1>4. read[d].version \in Versions
  BY <1>3 DEF Read
<1> QED
  BY <1>1, <1>3, <1>4, MaxVersionAssumption DEF Versions

LEMMA EndReadStep ==
    ASSUME ReadInv, NEW d \in Readers, RowNotFound(d) \/ ReadFails(d), UNCHANGED vars
    PROVE  ReadInv'
<1>1. read' = [read EXCEPT ![d] = NotReading] /\ cache' = cache /\ premature' = premature
  BY DEF RowNotFound, ReadFails
<1>2. ReadOK(NotReading, premature')
  BY DEF ReadOK
<1> QED
  BY <1>1, <1>2, ReaderStep DEF ReadInv

(* Once the creation is done, edits are missing only where the assessment is. *)
LEMMA NoEditsMeansGone ==
    ASSUME TableInv, creation = Created, NEW n \in Versions, isFallback(n)
    PROVE  Gone
<1> SUFFICES ASSUME currentVersion # 0 PROVE Fields = {}
  BY DEF Gone
<1>1. PICK first \in versions : first.version = 1 /\ first.edits \in Answers
  BY DEF TableInv, VersionTable, InitialVersion
<1>2. first.edits = NoEdits
  BY <1>1 DEF isFallback, Versions
<1>3. \A f \in Fields : first.edits[f] \in Values /\ first.edits[f] = NoEdit
  BY <1>1, <1>2 DEF Answers, NoEdits
<1> QED
  BY <1>3, NoEditAssumption

LEMMA RowFoundStep ==
    ASSUME ReadInv, NEW d \in Readers, RowFound(d), UNCHANGED vars
    PROVE  ReadInv'
<1> DEFINE q == [read[d] EXCEPT !.pc = "replay"]
<1>1. /\ read[d].pc = "findRow" /\ read' = [read EXCEPT ![d] = q]
      /\ cache' = cache /\ premature' = premature
  BY DEF RowFound
<1>2. read[d] \in Read /\ ReadOK(read[d], premature)
  BY <1>1, ReadUnderWay
<1>3. /\ q \in Read /\ q.pc = "replay" /\ q.version = read[d].version
      /\ q.immutable = read[d].immutable /\ q.seen = read[d].seen
  BY <1>2 DEF Read
<1>4. read[d] # NotReading
  BY <1>1 DEF NotReading
<1> HIDE DEF q
<1>5. ReadOK(q, premature')
  BY <1>1, <1>2, <1>3, <1>4 DEF ReadOK
<1> QED
  BY <1>1, <1>5, ReaderStep DEF ReadInv

LEMMA NoEditsFoundStep ==
    ASSUME ReadInv, NEW d \in Readers, NoEditsFound(d), UNCHANGED vars
    PROVE  ReadInv'
<1> DEFINE q == [read[d] EXCEPT !.pc = "fallback"]
<1>1. /\ read[d].pc = "replay" /\ read' = [read EXCEPT ![d] = q]
      /\ cache' = cache /\ premature' = premature /\ isFallback(read[d].version)
  BY DEF NoEditsFound
<1>2. read[d] \in Read /\ ReadOK(read[d], premature) /\ read[d].version \in Versions
  BY <1>1, ReadUnderWay
<1>3. /\ q \in Read /\ q.pc = "fallback" /\ q.version = read[d].version
      /\ q.immutable = read[d].immutable /\ q.seen = read[d].seen
  BY <1>2 DEF Read
<1>4. read[d] # NotReading
  BY <1>1 DEF NotReading
<1>5. ~premature => creation = Created
  BY <1>2, <1>4 DEF ReadOK
<1>6. ~premature => Gone
  BY <1>1, <1>2, <1>5, NoEditsMeansGone DEF ReadInv
<1> HIDE DEF q
<1>7. ReadOK(q, premature')
  BY <1>1, <1>2, <1>3, <1>4, <1>6 DEF ReadOK
<1> QED
  BY <1>1, <1>7, ReaderStep DEF ReadInv

(* An answer is what the version held when the read started, or nothing.    *)
LEMMA AnswerOK ==
    ASSUME ReadInv, NEW d \in Readers, read[d].pc # "idle", read[d].pc # "answered",
           NEW content \in Edits, MayAnswer(read[d], content)
    PROVE  ReadOK(WithAnswer(read[d], content), premature)
<1> DEFINE q == WithAnswer(read[d], content)
<1>1. read[d] \in Read /\ ReadOK(read[d], premature)
  BY ReadUnderWay
<1>2. /\ q \in Read /\ q.pc = "answered" /\ q.content = content
      /\ q.version = read[d].version
      /\ q.immutable = read[d].immutable /\ q.seen = read[d].seen
  BY <1>1 DEF Read, WithAnswer
<1>3. read[d] # NotReading
  BY DEF NotReading
<1> HIDE DEF q
<1>4. ReadOK(q, premature)
  BY <1>1, <1>2, <1>3 DEF ReadOK, Answered, MayAnswer
<1> QED
  BY <1>4 DEF q

LEMMA RowFoundCachedStep ==
    ASSUME ReadInv, NEW d \in Readers, RowFoundCached(d), UNCHANGED vars
    PROVE  ReadInv'
<1> DEFINE n == read[d].version
<1>1. PICK e \in cached(n) :
        /\ getCachedRebuild(e)
        /\ read' = [read EXCEPT ![d].pc = "answered", ![d].content = e.content]
  BY DEF RowFoundCached
<1>2. /\ read[d].pc = "findRow" /\ read[d].immutable /\ premature' = premature
      /\ \E v \in versions : v.version = n
  BY DEF RowFoundCached
<1>3. ReadOK(read[d], premature) /\ n \in Versions /\ read[d] # NotReading
  BY <1>2, ReadUnderWay DEF NotReading
<1>4. currentVersion # 0
  BY <1>2, <1>3 DEF ReadInv, TableInv, TypeOK, VersionTable, Versions
<1>5. CacheOK(cache', premature) /\ e \in Entry /\ (~premature => Settled(n, e.content))
  <2> HIDE DEF n
  <2> QED
    BY <1>1, HitKeepsCache DEF ReadInv
<1>6. e.content \in Edits
  BY <1>5 DEF Entry
<1>7. MayAnswer(read[d], e.content)
  BY <1>2, <1>3, <1>4, <1>5 DEF ReadOK, Settled, MayAnswer
<1>8. ReadOK(WithAnswer(read[d], e.content), premature')
  BY <1>2, <1>6, <1>7, AnswerOK
<1>9. read' = [read EXCEPT ![d] = WithAnswer(read[d], e.content)]
  BY <1>1 DEF ReadInv, WithAnswer
<1> QED
  BY <1>2, <1>5, <1>8, <1>9, ReaderStep DEF ReadInv

LEMMA ReplayStep ==
    ASSUME ReadInv, NEW d \in Readers, Replay(d), UNCHANGED vars
    PROVE  ReadInv'
<1> DEFINE n == read[d].version
           content == rebuilt(n)
<1>1. /\ read[d].pc = "replay" /\ ~isFallback(n) /\ premature' = premature
      /\ read' = [read EXCEPT ![d].pc = "answered", ![d].content = content]
      /\ \/ cache' = cache
         \/ read[d].immutable /\ setCachedRebuild(n, content)
  BY DEF Replay
<1>2. /\ ReadOK(read[d], premature) /\ n \in Versions /\ read[d] # NotReading
      /\ read[d].immutable => n \in 1..(MaxVersion - 1)
  BY <1>1, ReadUnderWay DEF NotReading
<1>3. TableInv /\ TypeOK
  BY DEF ReadInv, TableInv
<1> HIDE DEF n
<1>4. content \in Edits
  BY <1>2, <1>3, RebuiltType
<1>0. currentVersion # 0
  <2>1. PICK v \in versions : TRUE
    BY <1>1 DEF isFallback
  <2>2. v.version \in Versions /\ v.version <= currentVersion
    BY <1>3 DEF TableInv, TypeOK, VersionTable, VersionRow
  <2> QED
    BY <2>2 DEF Versions
<1>5. ~premature => creation = Created /\ content = rebuildState(n)
  BY <1>2, <1>3, <1>0, RebuiltIsReplay DEF ReadOK
<1> HIDE DEF content
<1>6. ~premature /\ read[d].immutable => content = read[d].seen /\ Settled(n, content)
  BY <1>0, <1>2, <1>5 DEF ReadOK, Settled, n
<1>7. CacheOK(cache', premature)
  <2>1. CASE cache' = cache
    BY <2>1 DEF ReadInv
  <2>2. CASE read[d].immutable /\ setCachedRebuild(n, content)
    BY <1>2, <1>4, <1>6, <2>2, InsertKeepsCache DEF ReadInv
  <2> QED
    BY <1>1, <2>1, <2>2
<1>8. ReadOK(WithAnswer(read[d], content), premature')
  <2>1. MayAnswer(read[d], content)
    BY <1>6 DEF MayAnswer
  <2> QED
    BY <1>1, <1>4, <2>1, AnswerOK
<1>9. read' = [read EXCEPT ![d] = WithAnswer(read[d], content)]
  BY <1>1 DEF ReadInv, WithAnswer
<1> QED
  BY <1>1, <1>7, <1>8, <1>9, ReaderStep DEF ReadInv

LEMMA ReadCachedStateStep ==
    ASSUME ReadInv, NEW d \in Readers, ReadCachedState(d), UNCHANGED vars
    PROVE  ReadInv'
<1> DEFINE content == IF currentVersion = 0 THEN NoEdits ELSE cachedState
<1>1. /\ read[d].pc = "fallback" /\ cache' = cache /\ premature' = premature
      /\ read' = [read EXCEPT ![d].pc = "answered", ![d].content = content]
  BY DEF ReadCachedState
<1>2. ReadOK(read[d], premature) /\ read[d] \in Read /\ read[d] # NotReading
  BY <1>1, ReadUnderWay DEF NotReading
<1>3. content \in Edits
  BY AnswersAreEdits DEF ReadInv, TableInv, TypeOK, NoEdits, Edits
<1>4. ~premature => \/ currentVersion = 0 /\ content = NoEdits
                    \/ content = read[d].seen
  <2>1. ~premature => Gone
    BY <1>1, <1>2 DEF ReadOK
  <2>2. CASE Fields = {}
    <3>1. \A x, y \in Edits : x = y
      BY <2>2 DEF Edits
    <3>2. read[d].seen \in Edits
      BY <1>2 DEF Read
    <3> QED
      BY <1>3, <3>1, <3>2
  <2>3. CASE currentVersion = 0
    BY <2>3
  <2> QED
    BY <2>1, <2>2, <2>3 DEF Gone
<1> HIDE DEF content
<1>5. ReadOK(WithAnswer(read[d], content), premature')
  <2>1. MayAnswer(read[d], content)
    BY <1>4 DEF MayAnswer
  <2> QED
    BY <1>1, <1>3, <2>1, AnswerOK
<1>6. read' = [read EXCEPT ![d] = WithAnswer(read[d], content)]
  BY <1>1 DEF ReadInv, WithAnswer
<1> QED
  BY <1>1, <1>5, <1>6, ReaderStep DEF ReadInv

LEMMA EvictedStep ==
    ASSUME ReadInv, EvictedByOthers, UNCHANGED vars
    PROVE  ReadInv'
<1>1. cache # <<>> /\ cache' = Tail(cache) /\ read' = read /\ premature' = premature
  BY DEF EvictedByOthers
<1>2. CacheOK(cache, premature) /\ Len(cache) \in Nat /\ premature \in BOOLEAN
  BY DEF ReadInv, CacheOK, Distinct
<1>3. Len(cache) <= MaxEntries + 1
  BY <1>2, MaxEntriesAssumption DEF CacheOK
<1>4. CacheOK(cache', premature)
  BY <1>1, <1>2, <1>3, CacheDropped DEF CacheOK
<1>5. /\ \A m, s : Settled(m, s)' <=> Settled(m, s)
      /\ (Gone => Gone') /\ \A x : Answered(x) => Answered(x)'
  BY DEF vars, Settled, rebuildState, Gone, Answered
<1>6. \A x, p : (ReadOK(x, p) => ReadOK(x, p)') /\ (CacheOK(x, p) => CacheOK(x, p)')
  BY <1>5 DEF ReadOK, CacheOK, vars
<1>7. TableInv'
  BY NextTableInv DEF ReadInv
<1> QED
  BY <1>1, <1>4, <1>6, <1>7 DEF ReadInv

LEMMA RestartStep ==
    ASSUME ReadInv, Restart
    PROVE  ReadInv'
<1>1. /\ cache' = <<>> /\ read' = [d \in Readers |-> NotReading] /\ premature' = premature
  BY DEF Restart
<1>2. TableInv'
  BY RestartTableInv DEF ReadInv
<1>3. CacheOK(cache, premature)'
  <2>1. <<>> \in Seq(Entry) /\ Len(<<>>) = 0 /\ 1..0 = {}
    BY EmptySeq
  <2> QED
    BY <1>1, <2>1, MaxEntriesAssumption DEF CacheOK, Distinct
<1>4. \A d \in Readers : ReadOK(read[d], premature)'
  BY <1>1 DEF ReadOK
<1> QED
  BY <1>1, <1>2, <1>3, <1>4 DEF ReadInv

LEMMA InitReadInv == ReadInit => ReadInv
<1> SUFFICES ASSUME ReadInit PROVE ReadInv
  OBVIOUS
<1>1. TableInv
  BY InitTableInv DEF ReadInit
<1>2. CacheOK(cache, premature)
  BY EmptyCache DEF ReadInit
<1>3. \A d \in Readers : ReadOK(read[d], premature)
  BY DEF ReadInit, ReadOK
<1> QED
  BY <1>1, <1>2, <1>3 DEF ReadInit, ReadInv

LEMMA NextReadInv == ReadInv /\ [ReadNext]_allVars => ReadInv'
<1> SUFFICES ASSUME ReadInv, [ReadNext]_allVars PROVE ReadInv'
  OBVIOUS
<1>1. CASE [Next]_vars /\ UNCHANGED readVars
  BY <1>1, WriterStep
<1>2. ASSUME NEW d \in Readers, NEW n \in Versions, StartRead(d, n), UNCHANGED vars
      PROVE  ReadInv'
  BY <1>2, StartReadStep
<1>3. ASSUME NEW d \in Readers, UNCHANGED vars,
             \/ RowNotFound(d) \/ RowFoundCached(d) \/ RowFound(d)
             \/ Replay(d) \/ NoEditsFound(d) \/ ReadCachedState(d) \/ ReadFails(d)
      PROVE  ReadInv'
  BY <1>3, EndReadStep, RowFoundCachedStep, RowFoundStep, ReplayStep, NoEditsFoundStep,
     ReadCachedStateStep
<1>4. CASE EvictedByOthers /\ UNCHANGED vars
  BY <1>4, EvictedStep
<1>5. CASE Restart
  BY <1>5, RestartStep
<1>6. CASE UNCHANGED allVars
  BY <1>1, <1>6 DEF allVars
<1> QED
  BY <1>1, <1>2, <1>3, <1>4, <1>5, <1>6 DEF ReadNext

(* Readers, writers, evictions and restarts keep the invariant.              *)
THEOREM ReadInvHolds == ReadSpec => []ReadInv
BY InitReadInv, NextReadInv, PTL DEF ReadSpec

(* The cache keeps its bound and one entry per version, and holds only       *)
(* versions that had a successor, whatever order reads and evictions come in.*)
THEOREM ReadsTyped == ReadSpec => []ReadTypeOK
<1>1. ReadInv => ReadTypeOK
  <2> SUFFICES ASSUME ReadInv PROVE ReadTypeOK
    OBVIOUS
  <2>1. DOMAIN cache = 1..Len(cache) /\ \A i \in 1..Len(cache) : cache[i] \in Entry
    BY DEF ReadInv, CacheOK, Distinct
  <2>2. CacheIsBounded
    BY <2>1 DEF ReadInv, CacheOK, Distinct, CacheIsBounded
  <2>3. \A d \in Readers :
          read[d] # NotReading /\ read[d].immutable => read[d].version < MaxVersion
    BY DEF ReadInv, ReadOK
  <2> QED
    BY <2>1, <2>2, <2>3 DEF ReadInv, ReadTypeOK
<1> QED
  BY <1>1, ReadInvHolds, PTL

(* rebuildStateCache.ts needs no invalidation: any number of saves,          *)
(* consolidations and descriptions later, a cached state is still what a     *)
(* replay of its version gives.                                              *)
THEOREM CacheIsFreshHolds == ReadSpec => []CacheIsFresh
<1>1. ReadInv => CacheIsFresh
  <2> SUFFICES ASSUME ReadInv, currentVersion # 0, ~premature, NEW i \in DOMAIN cache
               PROVE  cache[i].content = rebuilt(cache[i].version)
    BY DEF CacheIsFresh
  <2>1. i \in 1..Len(cache) /\ cache[i] \in Entry
    BY DEF ReadInv, CacheOK, Distinct
  <2>2. Settled(cache[i].version, cache[i].content)
    BY <2>1 DEF ReadInv, CacheOK
  <2>3. cache[i].version \in Versions
    BY <2>1, MaxVersionAssumption DEF Entry, Versions
  <2>4. rebuilt(cache[i].version) = rebuildState(cache[i].version)
    BY <2>2, <2>3, RebuiltIsReplay DEF ReadInv, Settled
  <2> QED
    BY <2>2, <2>4 DEF Settled
<1> QED
  BY <1>1, ReadInvHolds, PTL

(* Four queries among any number of writers answer what an old version held  *)
(* when the first one ran, from the cache or not; only when the assessment   *)
(* was deleted among them can the answer be an empty state instead.          *)
THEOREM OldReadsHold == ReadSpec => []OldVersionsReadConsistently
<1>1. ReadInv => OldVersionsReadConsistently
  <2> SUFFICES ASSUME ReadInv, NEW d \in Readers,
                      read[d].pc = "answered", read[d].immutable, ~premature
               PROVE  Answered(read[d])
    BY DEF OldVersionsReadConsistently, Answered
  <2>1. read[d] # NotReading /\ ReadOK(read[d], premature)
    BY DEF ReadInv, NotReading
  <2> QED
    BY <2>1 DEF ReadOK
<1> QED
  BY <1>1, ReadInvHolds, PTL

=============================================================================
