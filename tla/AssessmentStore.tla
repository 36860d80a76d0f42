--------------------------- MODULE AssessmentStore ---------------------------
(***************************************************************************)
(* The server side of one assessment: the tables assessment_instances,     *)
(* assessment_versions and assessment_edits, and the handlers that write   *)
(* them (apps/boekhouding-backend/src/routes/assessments.ts and, for the   *)
(* creation, routes/projects.ts).  A save is an HTTP request that runs     *)
(* concurrently with the others: it reads the assessment, later reads the  *)
(* latest version row, later commits; a creation is three inserts without  *)
(* a transaction.  Every await of a handler is a point where other         *)
(* requests run, so every database round trip is an action of its own.     *)
(*                                                                         *)
(* An assessment state is abstracted to its answers, one value per field;  *)
(* the interface state the real document also carries is not tracked.  The *)
(* edits of a version row are a value, or NoEdit, per field: several edits *)
(* of one field inside one row leave the last one, as replay does.         *)
(***************************************************************************)
EXTENDS Integers, FiniteSets

CONSTANTS
    Users,          \* the users that send requests
    Owners,         \* the users whose project role is owner
    Editors,        \* the users whose project role is editor or higher
    Requests,       \* identifiers of the save requests in flight
    Fields,         \* the answer fields of the form
    Values,         \* the values of a field
    NoEdit,         \* "this version row holds no edit of the field"
    SaveFlags,      \* the pairs <<newVersion, description given>> that saves carry
    PatchVersions,  \* the version numbers that description updates name
    MaxVersion      \* bound on currentVersion, for model checking

ASSUME RolesAssumption == Owners \subseteq Editors /\ Editors \subseteq Users
ASSUME NoEditAssumption == NoEdit \notin Values
ASSUME InputsAssumption ==
    SaveFlags \subseteq BOOLEAN \X BOOLEAN /\ PatchVersions \subseteq Nat
ASSUME MaxVersionAssumption == MaxVersion \in Nat \ {0}

VARIABLES
    currentVersion,   \* assessment_instances.current_version; 0: no such row
    cachedState,      \* assessment_instances.cached_state
    versions,         \* assessment_versions, with the edits that refer to a row
    creation,         \* the handler activation that creates the assessment
    request,          \* the handler activation of each save
    overwritten,      \* history: a write without version check replaced a newer state
    lastSaver         \* history: the user whose save was committed last

vars == <<currentVersion, cachedState, versions, creation, request, overwritten, lastSaver>>

-----------------------------------------------------------------------------
(* Rows, requests and the diff and replay of states.                       *)

Answers == [Fields -> Values]
Edits == [Fields -> Values \cup {NoEdit}]
NoEdits == [f \in Fields |-> NoEdit]

Versions == 1..MaxVersion
NoRow == 0

\* A row's id is the version number it was created with: those are unique.
VersionRow == [id : Versions, version : Versions, createdBy : Users,
               described : BOOLEAN, edits : Edits]

CreateRequest == [pc : {"insertVersion", "insertEdit"}, user : Users, state : Answers]
Created == [pc |-> "created"]
Interrupted == [pc |-> "interrupted"]

Idle == [pc |-> "idle"]
SaveRequest == [pc : {"uiOnly", "selectLast", "commit"}, user : Users,
                state : Answers, newVersion : BOOLEAN, description : BOOLEAN,
                base : Answers, expected : Versions, target : {NoRow} \cup Versions]

\* diffStates: the fields whose value differs, with the new value.
diffStates(old, new) == [f \in Fields |-> IF old[f] = new[f] THEN NoEdit ELSE new[f]]

\* Mutant of Overlay: the first edit of a field inside a row wins.
OverlayEarlierWins(earlier, later) ==
    [f \in Fields |-> IF earlier[f] = NoEdit THEN later[f] ELSE earlier[f]]

\* Later edits of a field override earlier ones when a row is replayed.
Overlay(earlier, later) ==
    [f \in Fields |-> IF later[f] = NoEdit THEN earlier[f] ELSE later[f]]

\* rebuildState: replay the edits of the rows up to version n in version order;
\* for each field the last row that edits it decides.
rowsTouching(rows, f, n) == {v \in rows : v.version <= n /\ v.edits[f] # NoEdit}
lastRows(rows, f, n) == {v \in rowsTouching(rows, f, n) :
                           \A w \in rowsTouching(rows, f, n) : w.version <= v.version}
replay(rows, f, n) == CHOOSE value \in {v.edits[f] : v \in lastRows(rows, f, n)} : TRUE
rebuildState(n) == [f \in Fields |-> replay(versions, f, n)]

-----------------------------------------------------------------------------
(* POST /:projectId/assessments.  The model starts when the instance row   *)
(* has been inserted: from then on the project's members can find it.      *)

Init ==
    \E creator \in Editors, initial \in Answers :
        /\ currentVersion = 1
        /\ cachedState = initial
        /\ versions = {}
        /\ creation = [pc |-> "insertVersion", user |-> creator, state |-> initial]
        /\ request = [r \in Requests |-> Idle]
        /\ overwritten = FALSE
        /\ lastSaver = creator

InsertVersion ==
    /\ creation.pc = "insertVersion"
    /\ currentVersion # 0
    /\ versions' = versions \cup {[id |-> 1, version |-> 1, createdBy |-> creation.user,
                                   described |-> FALSE, edits |-> NoEdits]}
    /\ creation' = [creation EXCEPT !.pc = "insertEdit"]
    /\ UNCHANGED <<currentVersion, cachedState, request, overwritten, lastSaver>>

\* The initial_state edit holds every field.
InsertInitialEdit ==
    /\ creation.pc = "insertEdit"
    /\ currentVersion # 0
    /\ versions' = {IF v.id = 1 THEN [v EXCEPT !.edits = creation.state] ELSE v :
                      v \in versions}
    /\ creation' = Created
    /\ UNCHANGED <<currentVersion, cachedState, request, overwritten, lastSaver>>

\* A database error, a crash of the server, or a foreign key to a deleted
\* assessment ends the creation; what it has inserted stays.
CreationFails ==
    /\ creation.pc \in {"insertVersion", "insertEdit"}
    /\ creation' = Interrupted
    /\ UNCHANGED <<currentVersion, cachedState, versions, request, overwritten, lastSaver>>

-----------------------------------------------------------------------------
(* PUT /:assessmentId with a state.  The requests that the handler refuses *)
(* before its first write (400, 403, 404, and the 409 of a client that is  *)
(* already stale) change nothing; an accepted one carries the version it   *)
(* read as its expectedVersion, since the two were compared equal.         *)

Access(r, u, s, newVersion, description) ==
    /\ request[r] = Idle
    /\ currentVersion # 0
    /\ u \in IF newVersion /\ description THEN Owners ELSE Editors
    /\ LET uiOnly == diffStates(cachedState, s) = NoEdits /\ ~newVersion
       IN  /\ uiOnly \/ currentVersion < MaxVersion
           /\ request' = [request EXCEPT ![r] =
                [pc |-> IF uiOnly THEN "uiOnly" ELSE "selectLast", user |-> u,
                 state |-> s, newVersion |-> newVersion, description |-> description,
                 base |-> cachedState, expected |-> currentVersion, target |-> NoRow]]
    /\ UNCHANGED <<currentVersion, cachedState, versions, creation, overwritten, lastSaver>>

\* The save without content changes: UPDATE ... SET cachedState WHERE id, with no
\* condition on the version.
WriteUiOnly(r) ==
    /\ request[r].pc = "uiOnly"
    /\ cachedState' = IF currentVersion = 0 THEN cachedState ELSE request[r].state
    /\ overwritten' = (overwritten \/ currentVersion \notin {0, request[r].expected})
    /\ request' = [request EXCEPT ![r] = Idle]
    /\ UNCHANGED <<currentVersion, versions, creation, lastSaver>>

\* Mutant of isLast: the query takes any row of the assessment (no ORDER BY).
isLastUnordered(v) == v \in versions

isLast(v) == \A w \in versions : w.version <= v.version

\* Mutants of canConsolidate, each without one of its conditions.
canConsolidateInitial(v, q, young) ==
    v.createdBy = q.user /\ ~q.newVersion /\ ~q.description /\ ~v.described /\ young
canConsolidateAnyAuthor(v, q, young) ==
    v.version # 1 /\ ~q.newVersion /\ ~q.description /\ ~v.described /\ young
canConsolidateDescribed(v, q, young) ==
    v.version # 1 /\ v.createdBy = q.user /\ ~q.newVersion /\ ~q.description /\ young

\* createdAt is not tracked: whether the row is younger than
\* CONSOLIDATION_WINDOW_MS is left open at each decision.
canConsolidate(v, q, young) ==
    /\ v.version # 1
    /\ v.createdBy = q.user
    /\ ~q.newVersion
    /\ ~q.description
    /\ ~v.described
    /\ young

\* SELECT the latest version row, outside the transaction, and decide.
SelectLast(r) ==
    /\ request[r].pc = "selectLast"
    /\ \E young \in BOOLEAN :
       LET candidates == {v \in versions : isLast(v) /\ canConsolidate(v, request[r], young)}
           targets == IF candidates = {} THEN {NoRow} ELSE {v.id : v \in candidates}
       IN \E target \in targets :
            request' = [request EXCEPT ![r].pc = "commit", ![r].target = target]
    /\ UNCHANGED <<currentVersion, cachedState, versions, creation, overwritten, lastSaver>>

\* Mutant of LockAndUpdate: SET current_version = current_version + 1, no WHERE.
LockAndUpdateIncrement(r) ==
    /\ currentVersion # 0
    /\ currentVersion' = currentVersion + 1
    /\ cachedState' = request[r].state
    /\ lastSaver' = request[r].user

\* Mutant of LockAndUpdate: the version is not in the WHERE clause.
LockAndUpdateUnchecked(r) ==
    /\ currentVersion # 0
    /\ currentVersion' = request[r].expected + 1
    /\ cachedState' = request[r].state
    /\ lastSaver' = request[r].user

\* UPDATE assessment_instances ... WHERE currentVersion = expectedVersion.
LockAndUpdate(r) ==
    /\ currentVersion = request[r].expected
    /\ currentVersion' = request[r].expected + 1
    /\ cachedState' = request[r].state
    /\ lastSaver' = request[r].user

Consolidated(q) ==
    {IF v.id = q.target
     THEN [v EXCEPT !.version = q.expected + 1,
                    !.edits = Overlay(v.edits, diffStates(q.base, q.state))]
     ELSE v : v \in versions}

NewRow(q) ==
    [id |-> q.expected + 1, version |-> q.expected + 1, createdBy |-> q.user,
     described |-> q.description, edits |-> diffStates(q.base, q.state)]

\* The transaction: lock, then the version row and its edits.
Commit(r) ==
    /\ request[r].pc = "commit"
    /\ LockAndUpdate(r)
    /\ versions' = IF request[r].target # NoRow
                   THEN Consolidated(request[r])
                   ELSE versions \cup {NewRow(request[r])}
    /\ request' = [request EXCEPT ![r] = Idle]
    /\ UNCHANGED <<creation, overwritten>>

\* No row matched the WHERE clause: roll back and answer 409.
Conflict(r) ==
    /\ request[r].pc = "commit"
    /\ currentVersion # request[r].expected
    /\ request' = [request EXCEPT ![r] = Idle]
    /\ UNCHANGED <<currentVersion, cachedState, versions, creation, overwritten, lastSaver>>

\* A database error or a crash of the server at an await: the transaction rolls
\* back and the activation is gone.
Fail(r) ==
    /\ request[r] # Idle
    /\ request' = [request EXCEPT ![r] = Idle]
    /\ UNCHANGED <<currentVersion, cachedState, versions, creation, overwritten, lastSaver>>

-----------------------------------------------------------------------------
(* The other writers of these tables.                                      *)

\* PATCH /:assessmentId/versions/:version, an empty description clears it.
UpdateDescription(u, n, described) ==
    /\ currentVersion # 0
    /\ u \in Editors
    /\ \E v \in versions : v.version = n
    /\ versions' = {IF v.version = n THEN [v EXCEPT !.described = described] ELSE v :
                      v \in versions}
    /\ UNCHANGED <<currentVersion, cachedState, creation, request, overwritten, lastSaver>>

\* DELETE /:assessmentId; versions and edits go by ON DELETE CASCADE.
Delete(u) ==
    /\ currentVersion # 0
    /\ u \in Owners
    /\ currentVersion' = 0
    /\ versions' = {}
    /\ UNCHANGED <<cachedState, creation, request, overwritten, lastSaver>>

Next ==
    \/ InsertVersion \/ InsertInitialEdit \/ CreationFails
    \/ \E r \in Requests, u \in Users, s \in Answers, flags \in SaveFlags :
          Access(r, u, s, flags[1], flags[2])
    \/ \E r \in Requests :
          WriteUiOnly(r) \/ SelectLast(r) \/ Commit(r) \/ Conflict(r) \/ Fail(r)
    \/ \E u \in Users, n \in PatchVersions, described \in BOOLEAN :
          UpdateDescription(u, n, described)
    \/ \E u \in Users : Delete(u)

Spec == Init /\ [][Next]_vars

-----------------------------------------------------------------------------
(* Properties.                                                             *)

\* Every variable has its type; in particular no save drives currentVersion
\* beyond the version after the one it read.
TypeOK ==
    /\ currentVersion \in 0..MaxVersion
    /\ cachedState \in Answers
    /\ versions \subseteq VersionRow
    /\ creation \in CreateRequest \cup {Created, Interrupted}
    /\ request \in [Requests -> SaveRequest \cup {Idle}]
    /\ overwritten \in BOOLEAN
    /\ lastSaver \in Users

\* The version table agrees with the instance row after any interleaving of the
\* creation, saves, consolidations and deletions: version numbers and ids are
\* unique, the newest row carries currentVersion, version 1 is what the creation
\* has written so far, every field once it is done (replay starts from it), and
\* no row outlives its assessment.
InitialVersion ==
    /\ creation.pc = "insertVersion" => \A v \in versions : v.version # 1
    /\ creation.pc = "insertEdit" => \E v \in versions : v.version = 1 /\ v.edits = NoEdits
    /\ creation = Created => \E v \in versions : v.version = 1 /\ v.edits \in Answers
VersionTable ==
    /\ \A v, w \in versions : v.id = w.id \/ v.version = w.version => v = w
    /\ \A v \in versions : /\ v.id <= v.version /\ v.version <= currentVersion
                           /\ v.id = 1 => v.version = 1
    /\ currentVersion > 1 => \E v \in versions : v.version = currentVersion
    /\ currentVersion # 0 => InitialVersion

\* Requests share nothing but these tables, and yet a version older than the
\* current one never changes once the creation is done: what replaying up to it
\* gives is fixed, although the row to consolidate into is chosen before the
\* transaction.  This is what utils/rebuildStateCache.ts relies on to cache
\* without invalidation.  (The first conjunct saves TLC the other steps.)
PastIsFrozen ==
    [][versions' # versions /\ creation = Created /\ currentVersion' # 0 =>
          \A n \in Versions : n < currentVersion => rebuildState(n)' = rebuildState(n)]_vars

\* As long as no version-less write has replaced a newer state, the cached state
\* is what replaying the edit history gives: no save loses or invents an edit,
\* whichever state it was diffed against and whichever row it was written to.
CacheMatchesHistory ==
    creation = Created /\ currentVersion # 0 /\ ~overwritten
        => cachedState = rebuildState(currentVersion)

\* The row of the current version is attributed to the user whose save made it
\* current: routes/sync.ts derives lastModifiedBySelf from that row.
NewestRowIsLastSavers ==
    \A v \in versions : v.version = currentVersion => v.createdBy = lastSaver

\* What a save in flight remembers is still true as long as nobody has saved since
\* it looked: the state it was diffed against is the cached one (unless that was
\* overwritten without a version), and the row it will consolidate into is the
\* newest one, its own author's, and not the initial version.
SaveStillValid(q) ==
    /\ currentVersion # 0 => q.expected <= currentVersion
    /\ q.pc = "uiOnly" => q.state = q.base
    /\ q.pc # "uiOnly" => q.expected < MaxVersion
    /\ q.expected = currentVersion =>
         /\ ~overwritten => q.base = cachedState
         /\ q.pc = "commit" /\ q.target # NoRow =>
              \E v \in versions : /\ v.id = q.target
                                  /\ v.version = currentVersion
                                  /\ v.version # 1
                                  /\ v.createdBy = q.user
InFlightSaves ==
    \A r \in Requests : request[r] # Idle => SaveStillValid(request[r])

\* A described version that no save in flight has already chosen as its target
\* is sealed: it keeps its number and its edits until the description is cleared.
\* (Version 1 can be described before the creation has written its edits.)
Sealed(v, req) == v.described /\ \A r \in Requests :
                     req[r].pc = "commit" => req[r].target # v.id
SealedVersionsKept ==
    [][\A v \in versions, w \in versions' :
          creation = Created /\ Sealed(v, request) /\ w.id = v.id =>
             /\ w.version = v.version
             /\ w.edits = v.edits
             /\ w.described => Sealed(w, request')]_vars

-----------------------------------------------------------------------------
(* The abstract view: what replaying gives for each version.               *)

completeVersion == IF creation = Created THEN currentVersion ELSE 0

Document == INSTANCE VersionedDocument
    WITH Contents <- Answers,
         current <- completeVersion,
         contents <- [n \in 1..completeVersion |-> rebuildState(n)]

\* The tables, the lock in the UPDATE and the choice of the row to consolidate
\* together implement VersionedDocument: a reader of the history sees each save as
\* one new version, added or in place of the newest, whatever runs concurrently.
ImplementsDocument == Document!Spec

=============================================================================
