---------------------------- MODULE VersionHistory ----------------------------
(***************************************************************************)
(* The version history page of an assessment (boekhouding-frontend,        *)
(* views/VersionHistory.vue): the list of version rows, which is loaded    *)
(* page by page as usePaginatedList.ts does for every list, the edits of   *)
(* one row, and the restore of an answer, of an instance or of a version,  *)
(* while others save.  A save may consolidate into the newest row, which   *)
(* then carries the next number: numbers on screen go stale and have gaps. *)
(*                                                                         *)
(* AssessmentStore has the handlers of the server in detail, EditLog the   *)
(* edits; here a save is one step.  The content is a number of questions   *)
(* (an answer, or the completion of a section) and one instance of a group *)
(* with one answer in it, not the default instance 0.                      *)
(***************************************************************************)
EXTENDS FiniteSetsExt, SequencesExt

CONSTANTS
    Questions,     \* what has one value: answers and completed sections
    Values,        \* what an answer can hold
    Blank,         \* no answer
    NoElement,     \* the instance is not there
    Saves,         \* the states that others save
    PageSize,      \* VERSIONS_PAGE_SIZE
    MaxVersion,    \* bound on the versions
    MaxClicks      \* bound on what the user does in one visit of the page

ASSUME BlankAssumption == Blank \in Values /\ NoElement \notin Values
ASSUME QuestionsAssumption == Questions \cap {"group", "child"} = {}
ASSUME BoundsAssumption == {PageSize, MaxVersion} \subseteq Nat \ {0} /\ MaxClicks \in Nat

VARIABLES
    server,        \* currentVersion, the state, and the version rows, oldest first
    was,           \* history: the state at every version number
    open,          \* the page is on screen
    versions,      \* the rows on screen: id, and the number they had
    total,         \* totalVersions
    page,          \* versionsPage
    ended,         \* reachedEnd
    more,          \* the page that is being loaded; 0: none
    counted,       \* how many rows the server has counted for the load under way; 0: not yet
    expanded,      \* expandedVersion; 0: none
    diffFields,
    diffLoading,
    asking,        \* the versions whose edits are on their way
    restore,       \* the restore that the user confirms or that is under way
    clicks,        \* the number of clicks, for its bound
    outrun,        \* history: the rows that came after those of the last page were counted
                   \* and before they were read
    overtaken      \* history: a restore refreshed the list while a page was on its way,
                   \* or more rows had come than the page that arrived bridges

list == <<versions, total, page, ended, more, counted, outrun, overtaken>>
panel == <<expanded, diffFields, diffLoading, asking>>
stored == <<server, was>>
vars == <<stored, open, list, panel, restore, clicks>>

Numbers == 1..MaxVersion
Content == {c \in [Questions \cup {"group"} -> Values \cup {NoElement}] :
              \A q \in Questions : c[q] \in Values}
ASSUME SavesAssumption == Saves \subseteq Content

\* What an edit names: a question, the instance, or its answer.
Keys == Questions \cup {"group", "child"}

\* An edit has a key, a type, an old and a new value.  A row has an id, a version,
\* whether it is described, and the edits of every save that it consolidates, in order.
\* A field on screen is an edit with its originVersion and, as history, whether it is
\* bundled and before: the content of the row below when the edits were loaded.

Idle == [pc |-> "idle"]

-------------------------------------------------------------------------------
\* The server

\* diffStates: an instance that comes or goes takes its answer along.
diffStates(old, new) ==
    {[key |-> q, type |-> "answer_change", old |-> old[q], new |-> new[q]] :
        q \in {p \in Questions : old[p] # new[p]}}
    \cup (IF old["group"] = new["group"] THEN {}
          ELSE {[key |-> IF NoElement \in {old["group"], new["group"]} THEN "group" ELSE "child",
                 type |-> IF old["group"] = NoElement THEN "instance_added"
                          ELSE IF new["group"] = NoElement THEN "instance_removed"
                          ELSE "answer_change",
                 old |-> old["group"], new |-> new["group"]]})

apply(content, edits) ==
    [k \in DOMAIN content |->
        LET mine == {e \in edits : e.key = k \/ (e.key = "child" /\ k = "group")}
        IN  IF mine = {} THEN content[k] ELSE (CHOOSE e \in mine : TRUE).new]

\* Mutant of upTo: the version that is asked for is not replayed.
upToExclusive(row, n) == row.version < n
upTo(row, n) == row.version <= n

\* The content after the saves, one after the other.
replay(content, saves) ==
    LET after[i \in 0..Len(saves)] == IF i = 0 THEN content ELSE apply(after[i - 1], saves[i])
    IN  after[Len(saves)]

\* rebuildState: the first row has the initial state.
rebuildState(n) ==
    LET rows == server.rows
        after[i \in 0..Len(rows)] ==
            IF i = 0 THEN was[1]
            ELSE IF upTo(rows[i], n) THEN replay(after[i - 1], rows[i].saves)
            ELSE after[i - 1]
    IN  after[Len(rows)]

hasRow(n) == \E i \in DOMAIN server.rows : server.rows[i].version = n
rowOf(n) == CHOOSE i \in DOMAIN server.rows : server.rows[i].version = n

\* PUT: a row of its own, or into the newest one.
Stored(content, consolidate, description) ==
    LET edits == diffStates(server.content, content)
        n == server.version + 1
        newest == Last(server.rows)
    IN  /\ server' = [version |-> n, content |-> content,
                      rows |-> IF consolidate
                               THEN Front(server.rows) \o
                                    <<[newest EXCEPT !.version = n, !.saves = Append(@, edits)]>>
                               ELSE Append(server.rows, [id |-> n, version |-> n,
                                              described |-> description, saves |-> <<edits>>])]
        /\ was' = Append(was, content)

\* GET versions: the newest first.
rowsOfPage(p) ==
    LET newestFirst == Reverse(server.rows)
        upper == IF p * PageSize < Len(newestFirst) THEN p * PageSize ELSE Len(newestFirst)
    IN  [i \in 1..(upper - (p - 1) * PageSize) |->
            LET r == newestFirst[(p - 1) * PageSize + i] IN [id |-> r.id, version |-> r.version]]

\* Another user, or this one in another tab, saves something else.
OtherSaves(content, consolidate) ==
    /\ server.version < MaxVersion
    /\ content # server.content
    /\ consolidate => Last(server.rows).version # 1 /\ ~Last(server.rows).described
    /\ Stored(content, consolidate, FALSE)
    /\ UNCHANGED <<open, list, panel, restore, clicks>>

-------------------------------------------------------------------------------
\* The list.  For every page the server counts the rows, and then reads some of them.

\* The rows of a page are read, and with the count they arrive.
Answered(count) ==
    /\ total' = count
    /\ outrun' = Len(server.rows) - count

FirstPage(count) ==
    /\ count # 0
    /\ versions' = rowsOfPage(1)
    /\ Answered(count)
    /\ page' = 1
    /\ ended' = FALSE

Init ==
    /\ \E c \in Saves : server = [version |-> 1, content |-> c,
                                    rows |-> <<[id |-> 1, version |-> 1, described |-> FALSE, saves |-> <<>>]>>]
    /\ was = <<server.content>>
    /\ open = FALSE
    /\ versions = <<>> /\ total = 0 /\ page = 1 /\ ended = FALSE /\ more = 0 /\ overtaken = FALSE
    /\ counted = 0 /\ outrun = 0
    /\ expanded = 0 /\ diffFields = {} /\ diffLoading = FALSE /\ asking = {}
    /\ restore = Idle /\ clicks = 0

\* The first query of onMounted and of loadMoreVersions.
CountRows ==
    /\ ~open \/ more # 0
    /\ counted = 0
    /\ counted' = Len(server.rows)
    /\ UNCHANGED <<stored, open, versions, total, page, ended, more, outrun, overtaken, panel, restore,
                   clicks>>

\* onMounted
OpenPage ==
    /\ ~open
    /\ open' = TRUE
    /\ FirstPage(counted)
    /\ counted' = 0
    /\ UNCHANGED <<stored, more, overtaken, panel, restore, clicks>>

Closed ==
    /\ open' = FALSE
    /\ versions' = <<>> /\ total' = 0 /\ page' = 1 /\ ended' = FALSE /\ more' = 0 /\ overtaken' = FALSE
    /\ counted' = 0 /\ outrun' = 0
    /\ expanded' = 0 /\ diffFields' = {} /\ diffLoading' = FALSE /\ asking' = {}
    /\ clicks' = 0

Leave ==
    /\ open /\ restore = Idle
    /\ Closed
    /\ UNCHANGED <<stored, restore>>

\* A dialog covers the page.
dialog == restore # Idle
Click == /\ open /\ ~dialog
         /\ clicks < MaxClicks
         /\ clicks' = clicks + 1

hasMoreVersions == ~ended /\ Len(versions) < total

LoadMore ==
    /\ Click
    /\ hasMoreVersions /\ more = 0
    /\ more' = page + 1
    /\ UNCHANGED <<stored, open, versions, total, page, ended, counted, outrun, overtaken, panel, restore>>

idsShown == {versions[i].id : i \in DOMAIN versions}
\* The rows that are newer than all on screen.
newerRows == {i \in DOMAIN server.rows : \A id \in idsShown : server.rows[i].id > id}

\* Of a sequence what is at the given places, in its order.  (SelectSeq, without the
\* recursion that no prover expands.)
atPlaces(seq, places) ==
    [k \in 1..Cardinality(places) |->
        seq[CHOOSE i \in places : Cardinality({j \in places : j <= i}) = k]]

\* Rows that came since move the rest to later pages: some may be on screen already.
freshIn(rows) == atPlaces(rows, {i \in DOMAIN rows : rows[i].id \notin idsShown})

PageArrives ==
    /\ more # 0 /\ counted # 0
    /\ page' = page + 1
    /\ Answered(counted)
    /\ LET fresh == freshIn(rowsOfPage(more))
       IN  /\ ended' = (ended \/ fresh = <<>>)
           /\ versions' = versions \o fresh
    /\ overtaken' = (overtaken \/ Cardinality(newerRows) > more * PageSize)
    /\ more' = 0 /\ counted' = 0
    /\ UNCHANGED <<stored, open, panel, restore, clicks>>

\* Mutant of PageFails: the page counts although it did not arrive.
PageFailsCounted ==
    /\ more # 0
    /\ page' = page + 1
    /\ more' = 0 /\ counted' = 0
    /\ UNCHANGED <<stored, open, versions, total, ended, outrun, overtaken, panel, restore, clicks>>
PageFails ==
    /\ more # 0
    /\ more' = 0 /\ counted' = 0
    /\ UNCHANGED <<stored, open, versions, total, page, ended, outrun, overtaken, panel, restore, clicks>>

\* saveDescription; the number may no longer exist.
SaveDescription(n, described) ==
    /\ Click
    /\ \E i \in DOMAIN versions : versions[i].version = n
    /\ server' = IF hasRow(n) THEN [server EXCEPT !.rows[rowOf(n)].described = described] ELSE server
    /\ UNCHANGED <<was, open, list, panel, restore>>

-------------------------------------------------------------------------------
\* The edits of a version

ToggleDiff(n) ==
    /\ Click
    /\ n > 1 /\ \E i \in DOMAIN versions : versions[i].version = n
    /\ IF expanded = n
       THEN /\ expanded' = 0
            /\ UNCHANGED <<diffFields, diffLoading, asking>>
       ELSE /\ expanded' = n
            /\ diffFields' = {} /\ diffLoading' = TRUE
            /\ asking' = asking \cup {n}
    /\ UNCHANGED <<stored, open, list, restore>>

\* Where among the saves of a row the field has an edit.
placesOf(row, key) == {i \in DOMAIN row.saves : \E e \in row.saves[i] : e.key = key}
editAt(row, i, key) == CHOOSE e \in row.saves[i] : e.key = key
\* Mutant of firstEdit: the old value of the last edit.
firstEditLast(row, key) == editAt(row, Max(placesOf(row, key)), key)
firstEdit(row, key) == editAt(row, Min(placesOf(row, key)), key)
lastEdit(row, key) == editAt(row, Max(placesOf(row, key)), key)

\* Edits of one field in one row are collapsed; without a net change there is
\* nothing to show, but for an instance.
mapEditsToDiffFields(n) ==
    LET row == server.rows[rowOf(n)]
        touched == {k \in Keys : placesOf(row, k) # {}}
    IN  {[key |-> k, type |-> firstEdit(row, k).type, old |-> firstEdit(row, k).old,
          originVersion |-> n - 1,
          before |-> was[server.rows[rowOf(n) - 1].version],
          bundled |-> k = "child" /\ "group" \in touched] :
            k \in {j \in touched : j = "group" \/ firstEdit(row, j).old # lastEdit(row, j).new}}

\* Whatever version is expanded by then.
EditsArrive(n) ==
    /\ n \in asking
    /\ diffFields' = IF hasRow(n) THEN mapEditsToDiffFields(n) ELSE {}
    /\ diffLoading' = FALSE
    /\ asking' = asking \ {n}
    /\ UNCHANGED <<stored, open, list, expanded, restore, clicks>>

EditsFail(n) ==
    /\ n \in asking
    /\ diffFields' = {}
    /\ diffLoading' = FALSE
    /\ asking' = asking \ {n}
    /\ UNCHANGED <<stored, open, list, expanded, restore, clicks>>

-------------------------------------------------------------------------------
\* Restore

OpenFieldRestore(field) ==
    /\ Click
    /\ ~diffLoading
    /\ \E i \in DOMAIN versions : versions[i].version = expanded
    /\ field \in diffFields
    /\ restore' = [pc |-> "confirmField", field |-> field]
    /\ UNCHANGED <<stored, open, list, panel>>

OpenVersionRestore(n) ==
    /\ Click
    /\ \E i \in DOMAIN versions : versions[i].version = n
    /\ restore' = [pc |-> "confirmVersion", version |-> n]
    /\ UNCHANGED <<stored, open, list, panel>>

CancelRestore ==
    /\ restore.pc \in {"confirmField", "confirmVersion"}
    /\ restore' = Idle
    /\ UNCHANGED <<stored, open, list, panel, clicks>>

\* What a field is put back to in the state.  An instance that is there again is
\* left as it is; an answer brings its instance back.
withField(content, field) ==
    IF field.key \in Questions THEN [content EXCEPT ![field.key] = field.old]
    ELSE [content EXCEPT !["group"] =
             CASE field.type = "instance_added" -> NoElement
               [] field.type = "instance_removed" -> IF @ = NoElement THEN field.old ELSE @
               [] OTHER -> field.old]

\* handleFieldRestore reads the current state and changes one field of it.
ReadForField ==
    /\ restore.pc = "confirmField"
    /\ restore' = [pc |-> "putField", field |-> restore.field,
                   state |-> withField(server.content, restore.field), expected |-> server.version]
    /\ UNCHANGED <<stored, open, list, panel, clicks>>

\* handleRestore sends two requests at once: for the old version, whose row the server
\* looks up before it replays the edits, and for the current one, of which the number
\* matters here.
versionRestore(n, read, state, expected) ==
    [pc |-> "putVersion", version |-> n, read |-> read, state |-> state, expected |-> expected]

ConfirmVersion ==
    /\ restore.pc = "confirmVersion"
    /\ restore' = versionRestore(restore.version, "nothing", <<>>, 0)
    /\ UNCHANGED <<stored, open, list, panel, clicks>>

FindVersion ==
    /\ restore.pc = "putVersion" /\ restore.read = "nothing"
    /\ hasRow(restore.version)
    /\ restore' = versionRestore(restore.version, "row", <<>>, restore.expected)
    /\ UNCHANGED <<stored, open, list, panel, clicks>>

ReplayVersion ==
    /\ restore.pc = "putVersion" /\ restore.read = "row"
    /\ restore' = versionRestore(restore.version, "state", rebuildState(restore.version), restore.expected)
    /\ UNCHANGED <<stored, open, list, panel, clicks>>

ReadCurrent ==
    /\ restore.pc = "putVersion" /\ restore.expected = 0
    /\ restore' = versionRestore(restore.version, restore.read, restore.state, server.version)
    /\ UNCHANGED <<stored, open, list, panel, clicks>>

\* Mutant of isExpected: the version is not in the WHERE clause.
isExpectedUnchecked(expected) == expected <= server.version
isExpected(expected) == expected = server.version

RestoreField ==
    /\ restore.pc = "putField" /\ isExpected(restore.expected) /\ server.version < MaxVersion
    /\ Stored(restore.state, FALSE, TRUE)
    /\ restore' = [pc |-> "refresh", field |-> restore.field, count |-> 0]
    /\ UNCHANGED <<open, list, panel, clicks>>

\* Back to the first page; what is expanded stays.
CountForRefresh ==
    /\ restore.pc = "refresh" /\ restore.count = 0
    /\ restore' = [pc |-> "refresh", field |-> restore.field, count |-> Len(server.rows)]
    /\ UNCHANGED <<stored, open, list, panel, clicks>>

Refresh ==
    /\ restore.pc = "refresh"
    /\ FirstPage(restore.count)
    /\ overtaken' = (more # 0)
    /\ restore' = Idle
    /\ UNCHANGED <<stored, open, more, counted, panel, clicks>>

\* The editor opens.
RestoreVersion ==
    /\ restore.pc = "putVersion" /\ restore.read = "state" /\ restore.expected # 0
    /\ isExpected(restore.expected) /\ server.version < MaxVersion
    /\ Stored(restore.state, FALSE, TRUE)
    /\ restore' = Idle
    /\ Closed

\* A 409, a 404 or an error ("Herstel mislukt") leaves the dialog open, also when
\* the restore is stored and only the list does not come.
RestoreFails ==
    /\ restore.pc \in {"putField", "putVersion", "refresh"}
    /\ restore' = IF restore.pc = "putVersion"
                  THEN [pc |-> "confirmVersion", version |-> restore.version]
                  ELSE [pc |-> "confirmField", field |-> restore.field]
    /\ UNCHANGED <<stored, open, list, panel, clicks>>

Next ==
    \/ \E c \in Saves, consolidate \in BOOLEAN : OtherSaves(c, consolidate)
    \/ CountRows \/ OpenPage \/ Leave \/ LoadMore \/ PageArrives \/ PageFails
    \/ \E n \in Numbers : \/ ToggleDiff(n) \/ EditsArrive(n) \/ EditsFail(n)
                          \/ OpenVersionRestore(n)
                          \/ \E described \in BOOLEAN : SaveDescription(n, described)
    \/ \E field \in diffFields : OpenFieldRestore(field)
    \/ CancelRestore \/ ReadForField \/ ConfirmVersion \/ FindVersion \/ ReplayVersion \/ ReadCurrent
    \/ RestoreField \/ CountForRefresh \/ Refresh \/ RestoreVersion \/ RestoreFails

Spec == Init /\ [][Next]_vars

-------------------------------------------------------------------------------
\* Correctness

\* The list holds rows, at most as many as there are, of pages counted from one.
ListTypeOK ==
    /\ versions \in Seq([id : Nat, version : Nat])
    /\ {total, more, counted, outrun} \subseteq Nat /\ page \in Nat \ {0}
    /\ total + outrun <= Len(server.rows) /\ counted <= Len(server.rows)

\* The list on screen shows no row twice and skips none between two it shows,
\* although the rows move to later pages while it is loaded, unless a restore put
\* the list back to its first page while another page was on its way, or more rows
\* came while the page was open than all pages up to the one that arrived hold.
ListHasNoGaps ==
    /\ Cardinality(idsShown) = Len(versions)
    /\ overtaken \/ \A i \in DOMAIN server.rows :
          LET id == server.rows[i].id
          IN  (\E a, b \in idsShown : a < id /\ id < b) => id \in idsShown

\* The rows that are older than all on screen.
olderRows == {i \in DOMAIN server.rows : \A id \in idsShown : server.rows[i].id < id}

\* When the page offers no more rows, the oldest row is on screen, unless a page
\* full of rows came since (the next page then has nothing new) or the list was
\* overtaken.  Rows that came between the count of the last page and its rows may
\* keep as many old ones out of sight.
EndIsTheOldest ==
    open /\ ~hasMoreVersions /\ ~overtaken =>
        Cardinality(olderRows) <= outrun \/ Cardinality(newerRows) >= PageSize

\* The list on screen is a stretch of the server's list, down to where it says.
ListFollowsServer == ListTypeOK /\ ListHasNoGaps /\ EndIsTheOldest

contentKey(field) == IF field.key \in Questions THEN field.key ELSE "group"
fieldRestored == restore.pc = "putField" /\ restore'.pc = "refresh"

\* Restoring one field changes that field (of an instance, the instance) and keeps
\* all else that the server holds by then, whoever saved it, from a page that may
\* be out of date in every way.
RestoreTouchesOneField ==
    [][fieldRestored => \A k \in DOMAIN server.content \ {contentKey(restore.field)} :
                            server'.content[k] = server.content[k]]_vars

\* A field is put back to what it was before the row whose edits were loaded, also
\* when the row consolidates saves, its number has moved on, or another row has
\* been expanded since; of an instance, whether it is there.  The answer in an
\* instance that came or went within the row is the one exception.
RestoredFromRowBelow ==
    [][fieldRestored =>
         LET field == restore.field
         IN  /\ contentKey(field) \in Questions =>
                    server'.content[field.key] = field.before[field.key]
             /\ field.key = "group" =>
                    (server'.content["group"] = NoElement <=> field.before["group"] = NoElement)
             /\ field.key = "child" /\ ~field.bundled =>
                    server'.content["group"] = field.before["group"]]_vars

\* A number that no row has any more: row i is the one below, and the row above took
\* in the save that followed.
PassedOver(i, n) ==
    /\ {i, i + 1} \subseteq DOMAIN server.rows
    /\ server.rows[i].version < n /\ n < server.rows[i + 1].version

\* Restoring a version gives the state that was current under that number, however
\* its row was saved or consolidated before, unless the row takes in a save while
\* the version is read: then the state of the row below may come instead.
FullRestoreGivesVersion ==
    [][restore.pc = "putVersion" /\ restore'.pc = "idle" =>
         \/ server'.content = was[restore.version]
         \/ \E i \in DOMAIN server.rows : /\ PassedOver(i, restore.version)
                                         /\ server'.content = was[server.rows[i].version]]_vars

-------------------------------------------------------------------------------
\* What the code says of itself and does not do.

\* "Antwoord uit versie ${originVer} hersteld" (VersionHistory.vue:189): the value
\* that is put back is the one of the version that is named.
RestoredFromNamedVersion ==
    [][fieldRestored /\ contentKey(restore.field) \in Questions =>
         server'.content[restore.field.key] =
            was[restore.field.originVersion][restore.field.key]]_vars

===============================================================================
