--------------------------- MODULE ClientPersistence ---------------------------
(***************************************************************************)
(* The editor of one user: ApiPersistence.ts, with the watchers of         *)
(* AssessmentEditor.vue and the sync poll of stores/collaboration.ts.      *)
(* The browser runs one handler at a time, but a handler lets go at every  *)
(* await: edits, timers and other handlers run while a request is under    *)
(* way.  The server is taken at its interface, which VersionedDocument     *)
(* describes: a save is accepted when it expects the current version.      *)
(*                                                                         *)
(* A field is an answer or the completion of a section; it belongs to one  *)
(* section.  Left out: repeated groups coming and going (instancesDirty),  *)
(* updatedAt, namespaces, session storage and the wording of the messages. *)
(***************************************************************************)
EXTENDS Integers

CONSTANTS
    Fields,        \* the fields of the form
    Sections,      \* the root tasks
    sectionOf,     \* getRootTaskForField: the section of each field
    Values,        \* what a field can hold
    Blank,         \* the value of every field at first
    Slots,         \* bound: how many saves may be under way at once
    MaxVersion,    \* bound on the versions of the server
    MaxEdits       \* bound on the edits of the user

ASSUME SectionAssumption == sectionOf \in [Fields -> Sections]
ASSUME BlankAssumption == Blank \in Values
ASSUME BoundsAssumption == MaxVersion \in Nat \ {0} /\ MaxEdits \in Nat

VARIABLES
    server,        \* the current version, its content and whether this user wrote it
    store,         \* answerStore and taskStore: what the user sees
    baseline,      \* lastSavedState
    pending,       \* pendingChanges
    known,         \* knownVersion
    armed,         \* debounceTimer is set
    save,          \* the handler activations of saveAppState and of a resolved conflict
    remote,        \* the handler activation of handleRemoteChange
    deferred,      \* deferredChanges and deferredVersion
    dialog,        \* the conflict dialog with what it shows and its resolveCallback
    poll,          \* the version the sync poll has last seen, and an answer under way
    section,       \* currentRootTaskId
    edits,         \* how often the user has edited, for its bound
    unseen,        \* history: fields with a colleague's value, other than the client
                   \* last had from the server, that the user has not met
    unsent,        \* history: fields with a value of the user that no save has taken
    disturbed,     \* history: handlers ran into each other, or a save or its answer was lost
    renewed        \* history: a save renewed the pending edits while the dialog of an
                   \* earlier save was open

form == <<store, baseline, pending, known, armed, deferred>>
history == <<unseen, unsent, disturbed, renewed>>
vars == <<server, form, save, remote, dialog, poll, section, edits, history>>

Contents == [Fields -> Values]
Partial == UNION {[D -> Values] : D \in SUBSET Fields}
Nothing == [f \in {} |-> Blank]
Versions == 1..MaxVersion

With(content, changes) ==
    [f \in Fields |-> IF f \in DOMAIN changes THEN changes[f] ELSE content[f]]
Only(changes, D) == [f \in DOMAIN changes \cap D |-> changes[f]]

\* computeFieldDiff: the fields that differ, with their new values.
computeFieldDiff(old, new) == Only(new, {f \in Fields : old[f] # new[f]})

Idle == [pc |-> "idle"]
NoAnswer == [version |-> 0]
NoneDeferred(version) == [changes |-> Nothing, version |-> version]
Closed == [kind |-> "closed"]
dialogOpen == dialog # Closed

Init ==
    /\ server = [version |-> 1, content |-> [f \in Fields |-> Blank], bySelf |-> TRUE]
    /\ store = server.content /\ baseline = server.content
    /\ pending = Nothing /\ known = 1 /\ armed = FALSE
    /\ save = [s \in Slots |-> Idle] /\ remote = Idle
    /\ deferred = NoneDeferred(1)
    /\ dialog = Closed
    /\ poll = [seen |-> 1, answer |-> NoAnswer]
    /\ section \in Sections
    /\ edits = 0
    /\ unseen = {} /\ unsent = {} /\ disturbed = FALSE /\ renewed = FALSE

-----------------------------------------------------------------------------
(* Bookkeeping of the histories.                                           *)

\* A step brings values of the server for "fields" into the store; the user's own
\* values of the fields "kept" stay.
Meet(fields, kept) ==
    /\ unseen' = {f \in unseen : store'[f] # server.content[f]}
    /\ unsent' = {f \in unsent : f \in fields => f \in kept}

\* A step shows the values "theirs" in the dialog.
Show(theirs) == unseen' = {f \in unseen : f \in DOMAIN theirs => theirs[f] # server.content[f]}

savesUnderWay(slots) == \E s \in slots : save[s] # Idle
underWay(slots) == savesUnderWay(slots) \/ remote.pc = "fetched"

\* A handler starts or goes on while others are under way, or wait for the user.
Overlap(others) == disturbed' = (disturbed \/ others)

\* updatePendingChanges, in a save.
Renew == renewed' = (renewed \/ dialog.kind = "save")

-----------------------------------------------------------------------------
(* The server and the colleague.                                           *)

ColleagueSaves(f, v) ==
    /\ server.version < MaxVersion
    /\ server.content[f] # v
    /\ server' = [version |-> server.version + 1, bySelf |-> FALSE,
                  content |-> [server.content EXCEPT ![f] = v]]
    /\ unseen' = IF v \in {store[f], baseline[f]} THEN unseen \ {f} ELSE unseen \cup {f}
    /\ UNCHANGED <<form, save, remote, dialog, poll, section, edits, unsent, disturbed,
                   renewed>>

\* The server takes the PUT of a save: refused unless it expects the current
\* version; a state without changes makes no version.
ServerRefuses(s) ==
    /\ save[s].pc = "put"
    /\ save[s].expected # server.version
    /\ save' = [save EXCEPT ![s] = [pc |-> "refused", merge |-> save[s].merge]]
    /\ UNCHANGED <<server, form, remote, dialog, poll, section, edits, history>>

ServerAccepts(s) ==
    /\ save[s].pc = "put"
    /\ save[s].expected = server.version
    /\ IF save[s].sent = server.content
       THEN UNCHANGED server
       ELSE /\ server.version < MaxVersion
            /\ server' = [version |-> server.version + 1, content |-> save[s].sent,
                          bySelf |-> TRUE]
    /\ save' = [save EXCEPT ![s] = [pc |-> "accepted", version |-> server'.version,
                                    merge |-> save[s].merge]]
    /\ unsent' = {f \in unsent : store[f] # save[s].sent[f]}
    /\ UNCHANGED <<form, remote, dialog, poll, section, edits, unseen, disturbed, renewed>>

\* GET .../sync, answered later.
PollRead ==
    /\ poll.answer = NoAnswer
    /\ poll.seen # server.version
    /\ poll' = [poll EXCEPT !.answer = [version |-> server.version, bySelf |-> server.bySelf]]
    /\ UNCHANGED <<server, form, save, remote, dialog, section, edits, history>>

-----------------------------------------------------------------------------
(* The user.  A modal dialog keeps the form out of reach.                  *)

Edit(f, v) ==
    /\ ~dialogOpen
    /\ edits < MaxEdits
    /\ store[f] # v
    /\ store' = [store EXCEPT ![f] = v]
    /\ armed' = TRUE
    /\ edits' = edits + 1
    /\ unseen' = IF v = server.content[f] THEN unseen \ {f} ELSE unseen
    /\ unsent' = unsent \cup {f}
    /\ UNCHANGED <<server, baseline, pending, known, deferred, save, remote, dialog, poll,
                   section, disturbed, renewed>>

\* Navigation stops the timer (flushSave) and lets the deferred changes in
\* (applyDeferredOnNavigate), which sets it again.
Navigate(to) ==
    /\ ~dialogOpen
    /\ section # to
    /\ section' = to
    /\ IF deferred.changes = Nothing
       THEN /\ armed' = FALSE
            /\ UNCHANGED <<store, baseline, known, deferred, unseen, unsent>>
       ELSE /\ armed' = TRUE
            /\ store' = With(store, deferred.changes)
            /\ known' = deferred.version
            /\ baseline' = store'
            /\ deferred' = NoneDeferred(deferred.version)
            /\ Meet(DOMAIN deferred.changes, {})
    /\ UNCHANGED <<server, pending, save, remote, dialog, poll, edits, disturbed, renewed>>

-----------------------------------------------------------------------------
(* The deferred changes of the section on screen.                          *)

\* Mutant of conflictKeys: whatever the values are.
conflictKeysAny(mine, theirs) == DOMAIN mine \cap DOMAIN theirs

\* The fields that both sides changed to different values.
conflictKeys(mine, theirs) == {f \in DOMAIN mine \cap DOMAIN theirs : mine[f] # theirs[f]}

Ask(kind, mine, theirs, version, content) ==
    dialog' = [kind |-> kind, mine |-> Only(mine, conflictKeys(mine, theirs)),
               theirs |-> Only(theirs, conflictKeys(mine, theirs)),
               version |-> version, content |-> content]

\* applyDeferredChanges: merge, or ask.
ApplyDeferred(stillArmed) ==
    LET mine == computeFieldDiff(baseline, store)
        theirs == deferred.changes
    IN  /\ pending' = mine
        /\ \/ /\ conflictKeys(mine, theirs) = {}
              /\ store' = With(With(store, theirs), mine)
              /\ known' = deferred.version
              /\ baseline' = store'
              /\ deferred' = NoneDeferred(deferred.version)
              /\ armed' = TRUE
              /\ Meet(DOMAIN theirs, DOMAIN mine)
              /\ UNCHANGED dialog
           \/ /\ conflictKeys(mine, theirs) # {}
              /\ Ask("deferred", mine, theirs, deferred.version, baseline)
              /\ armed' = stillArmed
              /\ Show(dialog'.theirs)
              /\ UNCHANGED <<store, known, baseline, deferred, unsent>>
        /\ Overlap(underWay(Slots) \/ dialogOpen)
        /\ Renew

\* The [Bijwerken] button of the message about a change on screen.
Update ==
    /\ ~dialogOpen
    /\ deferred.changes # Nothing
    /\ ApplyDeferred(armed)
    /\ UNCHANGED <<server, save, remote, poll, section, edits>>

-----------------------------------------------------------------------------
(* saveAppState, when the timer fires or the tab is hidden.                *)

SaveDeferredFirst ==
    /\ armed
    /\ deferred.changes # Nothing
    /\ ApplyDeferred(FALSE)
    /\ UNCHANGED <<server, save, remote, poll, section, edits>>

SaveNothing ==
    /\ armed
    /\ deferred.changes = Nothing /\ store = baseline
    /\ armed' = FALSE /\ pending' = Nothing
    /\ Overlap(underWay(Slots) \/ dialogOpen)
    /\ UNCHANGED <<server, store, baseline, known, deferred, save, remote, dialog, poll,
                   section, edits, unseen, unsent, renewed>>

\* merge: the state to write has already taken in changes of the server.
Put(s, expected, content, merge) ==
    save' = [save EXCEPT ![s] = [pc |-> "put", expected |-> expected, sent |-> content,
                                 merge |-> merge]]

SaveStart(s) ==
    /\ armed
    /\ save[s] = Idle
    /\ deferred.changes = Nothing /\ store # baseline
    /\ armed' = FALSE
    /\ pending' = computeFieldDiff(baseline, store)
    /\ Put(s, known, store, FALSE)
    /\ Overlap(underWay(Slots) \/ dialogOpen)
    /\ Renew
    /\ UNCHANGED <<server, store, baseline, known, deferred, remote, dialog, poll, section,
                   edits, unseen, unsent>>

SaveAccepted(s) ==
    /\ save[s].pc = "accepted"
    /\ known' = save[s].version
    /\ baseline' = store
    /\ pending' = Nothing
    /\ save' = [save EXCEPT ![s] = Idle]
    /\ UNCHANGED <<server, store, armed, deferred, remote, dialog, poll, section, edits, history>>

\* A lost request or answer, an error of the server, an expired session.
SaveFails(s) ==
    /\ save[s] # Idle
    /\ save' = [save EXCEPT ![s] = Idle]
    /\ disturbed' = (disturbed \/ save[s].pc = "accepted" \/ save[s].merge)
    /\ UNCHANGED <<server, form, remote, dialog, poll, section, edits, unseen, unsent,
                   renewed>>

\* handleConflict: stop the timer and fetch the current version.
ConflictFetch(s) ==
    /\ save[s].pc = "refused"
    /\ armed' = FALSE
    /\ save' = [save EXCEPT ![s] = [pc |-> "fetched", version |-> server.version,
                                    content |-> server.content, merge |-> save[s].merge]]
    /\ UNCHANGED <<server, store, baseline, pending, known, deferred, remote, dialog, poll,
                   section, edits, history>>

\* Mutant of mergedWith: the state of the server is not applied first.
mergedWithOwn(content) == With(store, pending)

\* applyAppState, then replayPendingChanges.
mergedWith(content) == With(content, pending)

\* Its answer: merge and save again, or ask.
ConflictMerge(s) ==
    /\ save[s].pc = "fetched"
    /\ LET fresh == save[s]
       IN  /\ conflictKeys(pending, computeFieldDiff(baseline, fresh.content)) = {}
           /\ store' = mergedWith(fresh.content)
           /\ known' = fresh.version
           /\ Put(s, fresh.version, store', TRUE)
           /\ Meet(Fields, DOMAIN pending)
    /\ armed' = TRUE
    /\ Overlap(underWay(Slots \ {s}) \/ dialogOpen)
    /\ UNCHANGED <<server, baseline, pending, deferred, remote, dialog, poll, section, edits,
                   renewed>>

ConflictAsk(s) ==
    /\ save[s].pc = "fetched"
    /\ LET fresh == save[s]
           theirs == computeFieldDiff(baseline, fresh.content)
       IN  /\ conflictKeys(pending, theirs) # {}
           /\ Ask("save", pending, theirs, fresh.version, fresh.content)
           /\ Show(dialog'.theirs)
    /\ save' = [save EXCEPT ![s] = Idle]
    /\ UNCHANGED <<server, form, remote, poll, section, edits, unsent, disturbed, renewed>>

-----------------------------------------------------------------------------
(* The answer to the dialog: "chosen" are the fields to keep as they are.  *)

\* Mutant of kept: the fields in conflict are not excluded from the replay.
keptAll(chosen) == DOMAIN pending

\* replayPendingChanges(conflictKeys), and the choices for 'mine'.
kept(chosen) == (DOMAIN pending \ DOMAIN dialog.mine) \cup (DOMAIN pending \cap chosen)

\* The answer to a conflict of a save writes at once.
ResolveSave(s, chosen) ==
    /\ dialog.kind = "save" /\ save[s] = Idle
    /\ chosen \subseteq DOMAIN dialog.mine
    /\ store' = With(dialog.content, Only(pending, kept(chosen)))
    /\ Meet(Fields, kept(chosen))
    /\ known' = dialog.version
    /\ Put(s, dialog.version, store', TRUE)
    /\ dialog' = Closed
    /\ armed' = TRUE
    /\ Overlap(underWay(Slots))
    /\ UNCHANGED <<server, baseline, pending, deferred, remote, poll, section, edits, renewed>>

\* The answer to a conflict with deferred changes sets the timer.
ResolveDeferred(chosen) ==
    /\ dialog.kind = "deferred"
    /\ chosen \subseteq DOMAIN dialog.mine
    /\ store' = With(With(store, deferred.changes), Only(pending, kept(chosen)))
    /\ Meet(DOMAIN deferred.changes, kept(chosen))
    /\ known' = deferred.version
    /\ baseline' = store'
    /\ pending' = Nothing
    /\ deferred' = NoneDeferred(deferred.version)
    /\ dialog' = Closed
    /\ armed' = TRUE
    /\ UNCHANGED <<server, save, remote, poll, section, edits, disturbed, renewed>>

-----------------------------------------------------------------------------
(* The sync poll and handleRemoteChange.                                   *)

\* Mutant of isOwn: whoever made the version.
isOwnAlways(answer) == TRUE

\* lastModifiedBySelf
isOwn(answer) == answer.bySelf

\* The watcher of the polled version: an own change, a change to fetch (bound: one at a
\* time), or nothing to do, as a dialog is open or the client knows the version.  (It
\* fetches a version it knows when updatedAt differs, which is left open here.)
PollAnswer ==
    /\ poll.answer # NoAnswer
    /\ LET version == poll.answer.version
           own == isOwn(poll.answer)
       IN  \/ /\ own
              /\ known' = IF version > known THEN version ELSE known
              /\ UNCHANGED <<armed, remote>>
           \/ /\ ~own /\ ~dialogOpen /\ remote = Idle
              /\ remote' = [pc |-> "waiting", section |-> section]
              /\ armed' = FALSE
              /\ UNCHANGED known
           \/ /\ version = known \/ (~own /\ dialogOpen)
              /\ UNCHANGED <<known, armed, remote>>
    /\ poll' = [seen |-> poll.answer.version, answer |-> NoAnswer]
    /\ UNCHANGED <<server, store, baseline, pending, deferred, save, dialog, section, edits,
                   history>>

\* The wait for a save under way is over (it has ended, or two seconds have passed).
RemoteFetch ==
    /\ remote.pc = "waiting"
    /\ remote' = [pc |-> "fetched", section |-> remote.section,
                  version |-> server.version, content |-> server.content]
    /\ Overlap(underWay(Slots) \/ dialogOpen)
    /\ UNCHANGED <<server, form, save, dialog, poll, section, edits, unseen, unsent, renewed>>

RemoteNothing ==
    /\ remote.pc = "fetched"
    /\ remote.content = baseline
    /\ known' = remote.version
    /\ remote' = Idle
    /\ UNCHANGED <<server, store, baseline, pending, armed, deferred, save, dialog, poll,
                   section, edits, history>>

\* Changes elsewhere are applied, those on screen deferred.
RemoteApply ==
    /\ remote.pc = "fetched"
    /\ remote.content # baseline
    /\ LET theirs == computeFieldDiff(baseline, remote.content)
           onScreen == {f \in DOMAIN theirs : sectionOf[f] = remote.section}
           background == DOMAIN theirs \ onScreen
       IN  /\ store' = With(store, Only(theirs, background))
           /\ armed' = (armed \/ background # {})
           /\ deferred' = IF onScreen = {} THEN deferred
                          ELSE [changes |-> Only(theirs, onScreen), version |-> remote.version]
           /\ Meet(background, {})
    /\ known' = remote.version
    /\ baseline' = store'
    /\ pending' = Nothing
    /\ remote' = Idle
    /\ UNCHANGED <<server, save, dialog, poll, section, edits, disturbed, renewed>>

RemoteFails ==
    /\ remote.pc = "fetched"
    /\ remote' = Idle
    /\ UNCHANGED <<server, form, save, dialog, poll, section, edits, history>>

Next ==
    \/ \E f \in Fields, v \in Values : ColleagueSaves(f, v) \/ Edit(f, v)
    \/ \E s \in Slots :
          \/ ServerRefuses(s) \/ ServerAccepts(s)
          \/ SaveStart(s) \/ SaveAccepted(s) \/ SaveFails(s)
          \/ ConflictFetch(s) \/ ConflictMerge(s) \/ ConflictAsk(s)
          \/ \E chosen \in SUBSET Fields : ResolveSave(s, chosen)
    \/ \E chosen \in SUBSET Fields : ResolveDeferred(chosen)
    \/ \E to \in Sections : Navigate(to)
    \/ Update \/ SaveDeferredFirst \/ SaveNothing
    \/ PollRead \/ PollAnswer \/ RemoteFetch \/ RemoteNothing \/ RemoteApply \/ RemoteFails

Spec == Init /\ [][Next]_vars

-----------------------------------------------------------------------------
(* Properties.                                                             *)

Save == [pc : {"put"}, expected : Versions, sent : Contents, merge : BOOLEAN]
        \cup [pc : {"accepted"}, version : Versions, merge : BOOLEAN]
        \cup [pc : {"refused"}, merge : BOOLEAN]
        \cup [pc : {"fetched"}, version : Versions, content : Contents, merge : BOOLEAN]
Remote == [pc : {"waiting"}, section : Sections]
          \cup [pc : {"fetched"}, section : Sections, version : Versions, content : Contents]
Dialog == [kind : {"save", "deferred"}, mine : Partial, theirs : Partial,
           version : Versions, content : Contents]

\* Every variable has its type; the client never believes in a version the server
\* has not made, and a dialog shows two different values for each of its fields.
TypeOK ==
    /\ server \in [version : Versions, content : Contents, bySelf : BOOLEAN]
    /\ store \in Contents /\ baseline \in Contents
    /\ pending \in Partial
    /\ known \in 1..server.version
    /\ armed \in BOOLEAN
    /\ save \in [Slots -> Save \cup {Idle}]
    /\ remote \in Remote \cup {Idle}
    /\ deferred \in [changes : Partial, version : Versions]
    /\ dialog \in Dialog \cup {Closed}
    /\ dialogOpen => /\ DOMAIN dialog.mine = DOMAIN dialog.theirs
                     /\ \A f \in DOMAIN dialog.mine : dialog.mine[f] # dialog.theirs[f]
    /\ poll \in [seen : Versions, answer : {NoAnswer} \cup [version : Versions, bySelf : BOOLEAN]]
    /\ section \in Sections
    /\ edits \in 0..MaxEdits
    /\ unseen \subseteq Fields /\ unsent \subseteq Fields
    /\ disturbed \in BOOLEAN /\ renewed \in BOOLEAN

\* A save of this step puts another value in the place of a colleague's value that is
\* news to the client and that the user has not met, on screen or in a dialog.
silentOverwrite ==
    \E f \in unseen, s \in Slots : ServerAccepts(s) /\ server'.content[f] # server.content[f]

\* ApiPersistence.ts:144-147: a save never silently overwrites a value of a colleague,
\* however handlers overlap and whatever requests or answers are lost, but for the case
\* that "renewed" names: the answer to a dialog replays pending edits that a later save
\* has renewed, of fields the dialog did not show.
NoSilentOverwrite == [][renewed \/ ~silentOverwrite]_vars

\* As long as handlers do not run into each other and no merge or answer is lost: when
\* no request is under way and the client knows the current version, the screen differs
\* from the server only in edits that no save has taken and in changes the user is
\* offered.  (So the next save, which will be accepted, changes nothing else.)
ScreenIsServer ==
    /\ ~disturbed /\ remote = Idle /\ ~savesUnderWay(Slots) /\ known = server.version
    => \A f \in Fields \ (unsent \cup DOMAIN deferred.changes) : store[f] = server.content[f]

\* ConflictResolutionDialog.vue: each field of the dialog becomes what the user has
\* chosen for it, whatever went on while it was open, unless handlers overlap.
ChoicesHonoured ==
    [][\A chosen \in SUBSET Fields :
          (ResolveDeferred(chosen) \/ \E s \in Slots : ResolveSave(s, chosen)) /\ ~disturbed'
          => \A f \in DOMAIN dialog.mine :
                store'[f] = IF f \in chosen THEN dialog.mine[f] ELSE dialog.theirs[f]]_vars

=============================================================================
