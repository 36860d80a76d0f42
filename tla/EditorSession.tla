----------------------------- MODULE EditorSession -----------------------------
(***************************************************************************)
(* One browser tab whose login may end at any time (boekhouding-frontend): *)
(* composables/useAuth.ts, SessionExpiredDialog.vue, main.ts and router.ts *)
(* with the editor of one assessment, which AssessmentEditor.vue and       *)
(* Form.vue mount.  A save that meets the expired session keeps the edits  *)
(* in sessionStorage; the dialog leads to Keycloak and back, and the next  *)
(* load puts the edits back (ApiPersistence.ts:809-832).                   *)
(*                                                                         *)
(* What happens between overlapping saves, polls and deferred changes is   *)
(* in ClientPersistence; here at most one save is under way, nothing is    *)
(* polled, and the editor is left only when no save is under way.          *)
(***************************************************************************)
EXTENDS Integers

CONSTANTS
    Users,         \* who may log in in this tab
    NoUser,
    Fields,        \* the fields of the form
    Values,        \* what a field can hold
    Blank,         \* the value of every field at first
    MaxVersion,    \* bound on the versions of the server
    MaxEdits       \* bound on the edits

ASSUME NoUserAssumption == NoUser \notin Users
ASSUME BlankAssumption == Blank \in Values
ASSUME BoundsAssumption == MaxVersion \in Nat \ {0} /\ MaxEdits \in Nat

VARIABLES
    server,        \* the current version and its content
    page,          \* what the tab shows
    target,        \* where Keycloak sends the browser back to
    user,          \* useAuth's user, while the tab is logged in
    sso,           \* the session at Keycloak is alive
    expired,       \* sessionExpired: the dialog is open
    store,         \* answerStore and taskStore
    baseline,      \* lastSavedState
    known,         \* knownVersion; 0: undefined
    armed,         \* debounceTimer is set
    save,          \* the handler activation of saveAppState
    kept,          \* sessionStorage: the pending changes
    marker,        \* sessionStorage: who went to log in again
    edits,         \* the number of edits, for its bound
    unsent,        \* history: fields with an edit that no save has taken
    work,          \* history: the edits that no save had taken, of a form that could be
                   \* saved, when the user went to log in again
    attempt,       \* history: the edits of the last save that met the expired session
    author,        \* history: who made what is kept
    stray,         \* history: what is kept outlived a login without the dialog
    unmet,         \* history: fields with a value of a colleague that was never on screen
    restored       \* history: fields that were put back and have not been saved

session == <<page, target, user, sso, expired, marker>>
form == <<store, baseline, known, armed>>
history == <<unsent, work, attempt, author, stray, unmet, restored>>
vars == <<server, session, form, save, kept, edits, history>>

Contents == [Fields -> Values]
Partial == UNION {[D -> Values] : D \in SUBSET Fields}
Nothing == [f \in {} |-> Blank]
Blanks == [f \in Fields |-> Blank]
With(content, changes) ==
    [f \in Fields |-> IF f \in DOMAIN changes THEN changes[f] ELSE content[f]]
Only(changes, D) == [f \in DOMAIN changes \cap D |-> changes[f]]
computeFieldDiff(old, new) == Only(new, {f \in Fields : old[f] # new[f]})

Idle == [pc |-> "idle"]
Put == [pc : {"put"}, expected : 0..MaxVersion, sent : Contents, pending : Partial, merge : BOOLEAN]
Conflict == [pc : {"refused"}, pending : Partial]
            \cup [pc : {"ask"}, pending : Partial, version : 1..MaxVersion, content : Contents]

SessionTypeOK ==
    /\ server \in [version : 1..MaxVersion, content : Contents]
    /\ page \in {"keycloak", "projects", "loading", "editor"}
    /\ target \in {"projects", "editor"}
    /\ user \in Users \cup {NoUser} /\ marker \in Users \cup {NoUser}
    /\ {sso, expired, armed, stray} \subseteq BOOLEAN
    /\ store \in Contents /\ baseline \in Contents
    /\ known \in 0..server.version
    /\ save \in Put \cup Conflict \cup {Idle}
    /\ kept \in Partial /\ work \in Partial /\ attempt \in Partial
    /\ author \in Users \cup {NoUser}
    /\ unsent \subseteq Fields /\ unmet \subseteq Fields /\ restored \subseteq Fields
    /\ edits \in 0..MaxEdits
    /\ page = "keycloak" <=> user = NoUser

Init ==
    /\ server = [version |-> 1, content |-> Blanks]
    /\ page = "keycloak" /\ target = "projects"
    /\ user = NoUser /\ sso = FALSE /\ expired = FALSE /\ marker = NoUser
    /\ store = Blanks /\ baseline = Blanks /\ known = 0 /\ armed = FALSE
    /\ save = Idle /\ kept = Nothing /\ edits = 0
    /\ unsent = {} /\ work = Nothing /\ attempt = Nothing /\ author = NoUser
    /\ stray = FALSE /\ unmet = {} /\ restored = {}

-------------------------------------------------------------------------------
\* Logging in and out.

SsoEnds ==
    /\ sso
    /\ sso' = FALSE
    /\ UNCHANGED <<server, page, target, user, expired, marker, form, save, kept, edits, history>>

\* refreshOrExpire, on a timer or when the token expires.
RefreshFails ==
    /\ user # NoUser /\ ~sso /\ ~expired
    /\ expired' = TRUE
    /\ UNCHANGED <<server, page, target, user, sso, marker, form, save, kept, edits, history>>

\* Whatever leaves the page takes the stores along.
Unloaded ==
    /\ store' = Blanks /\ baseline' = Blanks /\ known' = 0 /\ armed' = FALSE
    /\ save' = Idle /\ expired' = FALSE
    /\ unsent' = {} /\ unmet' = {} /\ restored' = {}

pendingChanges == computeFieldDiff(baseline, store)

\* persistPendingToSession
KeepPending ==
    /\ kept' = IF pendingChanges = Nothing THEN kept ELSE pendingChanges
    /\ attempt' = Only(pendingChanges, unsent)
    /\ author' = IF store = baseline THEN author ELSE user
    /\ stray' = (stray /\ store = baseline)

\* A page that is left is hidden first (onVisibilityChange): a timer that is still set
\* saves at once.  With the dialog open that save gets no token, and keeps the edits.
\* (Without the dialog it is a save like any other, whose answer nobody gets.)
Hidden ==
    \/ armed /\ expired /\ store # baseline /\ known # 0 /\ KeepPending
    \/ ~(armed /\ expired /\ store # baseline /\ known # 0) /\ UNCHANGED <<kept, attempt, author, stray>>

\* The button of the dialog: relogin.
Relogin ==
    /\ expired
    /\ page' = "keycloak"
    /\ target' = IF page \in {"editor", "loading"} THEN "editor" ELSE "projects"
    /\ marker' = user /\ user' = NoUser
    /\ work' = IF save = Idle /\ known # 0 THEN Only(pendingChanges, unsent) ELSE Nothing
    /\ Hidden /\ Unloaded
    /\ UNCHANGED <<server, sso, edits>>

\* Mutants of survives: what is kept goes at every login, or stays for everyone.
survivesNothing(u) == {}
survivesForAll(u) == DOMAIN kept
\* main.ts: after the dialog, what is kept stays only for the same user.
survives(u) == IF marker \in {NoUser, u} THEN DOMAIN kept ELSE {}

Login(u) ==
    /\ page = "keycloak"
    /\ sso /\ marker # NoUser => u = marker
    /\ user' = u /\ sso' = TRUE
    /\ kept' = Only(kept, survives(u))
    /\ page' = IF marker \in {NoUser, u} /\ target = "editor" THEN "loading" ELSE "projects"
    /\ marker' = NoUser
    /\ work' = IF marker = u THEN work ELSE Nothing
    /\ attempt' = IF marker \in {NoUser, u} THEN attempt ELSE Nothing
    /\ stray' = (kept' # Nothing /\ (stray \/ marker = NoUser))
    /\ UNCHANGED <<server, target, expired, form, save, edits, unsent, author, unmet, restored>>

\* The page is loaded again: without a session the router sends the browser to
\* Keycloak, and from there to the projects.
PageReload ==
    /\ page # "keycloak" \/ (~sso /\ marker # NoUser)
    /\ page' = IF ~sso THEN "keycloak" ELSE IF page = "editor" THEN "loading" ELSE page
    /\ user' = IF sso THEN user ELSE NoUser
    /\ target' = "projects"
    /\ marker' = NoUser
    /\ work' = Nothing
    /\ Hidden /\ Unloaded
    /\ UNCHANGED <<server, sso, edits>>

\* logout clears what was kept.
Logout ==
    /\ page # "keycloak" /\ ~expired
    /\ page' = "keycloak" /\ target' = "projects"
    /\ user' = NoUser /\ sso' = FALSE /\ marker' = NoUser
    /\ kept' = Nothing /\ attempt' = Nothing /\ work' = Nothing /\ stray' = FALSE
    /\ Unloaded
    /\ UNCHANGED <<server, edits, author>>

-------------------------------------------------------------------------------
\* The editor comes and goes.

\* AssessmentEditor.vue empties the stores before it loads.
OpenAssessment ==
    /\ page = "projects" /\ ~expired
    /\ page' = "loading"
    /\ Unloaded
    /\ UNCHANGED <<server, target, user, sso, marker, kept, edits, work, attempt, author, stray>>

\* restorePendingFromSession, after the baseline has been taken.
restoredInto(content) == With(content, kept)

\* Form.vue onMounted.  The watchers come after the kept edits are put back, so
\* that nothing saves them until the next edit.
Mount(content, version) ==
    /\ page' = "editor"
    /\ baseline' = content
    /\ store' = restoredInto(content)
    /\ known' = version
    /\ armed' = FALSE
    /\ kept' = Nothing
    /\ restored' = DOMAIN kept
    /\ unsent' = {f \in Fields : store'[f] # content[f]}
    /\ work' = Nothing /\ attempt' = Nothing /\ stray' = FALSE
    /\ unmet' = {f \in DOMAIN kept : kept[f] # server.content[f]}
    /\ UNCHANGED <<server, target, user, sso, expired, marker, save, edits, author>>

Load ==
    /\ page = "loading" /\ ~expired
    /\ Mount(server.content, server.version)

\* loadAppState swallows an error: the form is empty, and saves nothing.
LoadFails ==
    /\ page = "loading"
    /\ Mount(Blanks, 0)

\* The Form unmounts and stops the timer (flushSave).
Leave ==
    /\ page = "editor" /\ ~expired /\ save = Idle
    /\ page' = "projects"
    /\ armed' = FALSE
    /\ UNCHANGED <<server, target, user, sso, expired, marker, store, baseline, known, save, kept,
                   edits, history>>

\* Going to another section stops the timer too.
Navigate ==
    /\ page = "editor" /\ ~expired /\ save.pc # "ask"
    /\ armed
    /\ armed' = FALSE
    /\ UNCHANGED <<server, session, store, baseline, known, save, kept, edits, history>>

Edit(f, v) ==
    /\ page = "editor" /\ ~expired /\ save.pc # "ask"
    /\ edits < MaxEdits
    /\ store[f] # v
    /\ store' = [store EXCEPT ![f] = v]
    /\ armed' = TRUE
    /\ edits' = edits + 1
    /\ unsent' = unsent \cup {f}
    /\ unmet' = IF v = server.content[f] THEN unmet \ {f} ELSE unmet
    /\ UNCHANGED <<server, session, baseline, known, save, kept, work, attempt, author, stray, restored>>

ColleagueSaves(f, v) ==
    /\ server.version < MaxVersion
    /\ server.content[f] # v
    /\ server' = [version |-> server.version + 1, content |-> [server.content EXCEPT ![f] = v]]
    /\ unmet' = IF v \in {store[f], baseline[f]} THEN unmet \ {f} ELSE unmet \cup {f}
    /\ UNCHANGED <<session, form, save, kept, edits, unsent, work, attempt, author, stray, restored>>

-------------------------------------------------------------------------------
\* saveAppState

SaveNothing ==
    /\ armed /\ save = Idle
    /\ store = baseline \/ known = 0
    /\ armed' = FALSE
    /\ UNCHANGED <<server, session, store, baseline, known, save, kept, edits, history>>

SaveStart ==
    /\ armed /\ save = Idle
    /\ store # baseline /\ known # 0 /\ ~expired
    /\ armed' = FALSE
    /\ save' = [pc |-> "put", expected |-> known, sent |-> store,
                pending |-> pendingChanges, merge |-> FALSE]
    /\ UNCHANGED <<server, session, store, baseline, known, kept, edits, history>>

\* getToken or the server finds the session expired.
SaveExpires ==
    /\ ~sso \/ expired
    /\ \/ armed /\ save = Idle /\ store # baseline /\ known # 0
       \/ save.pc = "put" /\ ~save.merge
    /\ armed' = IF save = Idle THEN FALSE ELSE armed
    /\ expired' = TRUE
    /\ KeepPending
    /\ save' = Idle
    /\ UNCHANGED <<server, page, target, user, sso, marker, store, baseline, known, edits,
                   unsent, work, unmet, restored>>

SaveAccepted ==
    /\ save.pc = "put" /\ save.expected = server.version /\ server.version < MaxVersion
    /\ server' = [version |-> server.version + 1, content |-> save.sent]
    /\ known' = server'.version
    /\ baseline' = store
    /\ save' = Idle
    /\ unsent' = {f \in unsent : store[f] # save.sent[f]}
    /\ restored' = {} /\ unmet' = {}
    /\ UNCHANGED <<session, store, armed, kept, edits, work, attempt, author, stray>>

SaveFails ==
    /\ save.pc # "idle" /\ save.pc # "ask"
    /\ save' = Idle
    /\ UNCHANGED <<server, session, form, kept, edits, history>>

SaveRefused ==
    /\ save.pc = "put" /\ save.expected # server.version
    /\ save' = [pc |-> "refused", pending |-> save.pending]
    /\ UNCHANGED <<server, session, form, kept, edits, history>>

\* handleConflict returns when its requests find the session expired.
ConflictExpires ==
    /\ ~sso \/ expired
    /\ save.pc = "refused" \/ (save.pc = "put" /\ save.merge)
    /\ expired' = TRUE
    /\ armed' = IF save.pc = "refused" THEN FALSE ELSE armed
    /\ save' = Idle
    /\ UNCHANGED <<server, page, target, user, sso, marker, store, baseline, known, kept, edits, history>>

\* Mutant of conflictKeys: nothing is a conflict.
conflictKeysNone(mine, theirs) == {}
conflictKeys(mine, theirs) == {f \in DOMAIN mine \cap DOMAIN theirs : mine[f] # theirs[f]}

WriteMerged(content, version, pending) ==
    /\ store' = With(content, pending)
    /\ known' = version
    /\ armed' = TRUE
    /\ save' = [pc |-> "put", expected |-> version, sent |-> store',
                pending |-> pending, merge |-> TRUE]
    /\ unmet' = {f \in unmet : store'[f] # server.content[f]}
    /\ unsent' = unsent \cap DOMAIN pending
    /\ UNCHANGED <<server, session, baseline, kept, edits, work, attempt, author, stray, restored>>

ConflictMerge ==
    /\ save.pc = "refused" /\ ~expired
    /\ conflictKeys(save.pending, computeFieldDiff(baseline, server.content)) = {}
    /\ WriteMerged(server.content, server.version, save.pending)

ConflictAsk ==
    /\ save.pc = "refused" /\ ~expired
    /\ conflictKeys(save.pending, computeFieldDiff(baseline, server.content)) # {}
    /\ armed' = FALSE
    /\ save' = [pc |-> "ask", pending |-> save.pending,
                version |-> server.version, content |-> server.content]
    /\ unmet' = unmet \ conflictKeys(save.pending, computeFieldDiff(baseline, server.content))
    /\ UNCHANGED <<server, session, store, baseline, known, kept, edits, unsent, work, attempt,
                   author, stray, restored>>

\* The answer to the dialog: the fields in conflict that stay as they are.
Resolve(chosen) ==
    /\ save.pc = "ask" /\ ~expired
    /\ LET conflicts == conflictKeys(save.pending, computeFieldDiff(baseline, save.content))
       IN  /\ chosen \subseteq conflicts
           /\ WriteMerged(save.content, save.version,
                          Only(save.pending, (DOMAIN save.pending \ conflicts) \cup chosen))

Next ==
    \/ SsoEnds \/ RefreshFails \/ Relogin \/ PageReload \/ Logout
    \/ \E u \in Users : Login(u)
    \/ OpenAssessment \/ Load \/ LoadFails \/ Leave \/ Navigate
    \/ \E f \in Fields, v \in Values : Edit(f, v) \/ ColleagueSaves(f, v)
    \/ SaveNothing \/ SaveStart \/ SaveExpires \/ SaveAccepted \/ SaveFails \/ SaveRefused
    \/ ConflictExpires \/ ConflictMerge \/ ConflictAsk
    \/ \E chosen \in SUBSET Fields : Resolve(chosen)

Spec == Init /\ [][Next]_vars

-------------------------------------------------------------------------------
\* Correctness

\* What a save was to send when it met the expired session is on screen again at
\* the next load, if the same user comes back and did not log out, whatever was
\* loaded, refused or saved by others in between.
KeptWorkReturns ==
    [][page = "loading" /\ page' = "editor" =>
         \A f \in DOMAIN attempt : store'[f] = attempt[f]]_vars

\* What is put back is the work of the user at the screen: another user who answers
\* the dialog finds nothing.  Only what outlived a login without the dialog (a page
\* loaded again with F5) is put back for whoever it was.
RestoredByAuthor ==
    [][page = "loading" /\ page' = "editor" /\ ~stray =>
         kept = Nothing \/ author = user]_vars

\* A save overwrites a colleague's value that was never on screen nor in a conflict
\* dialog only where edits were put back: those carry no version, and a load makes
\* the current version the known one.
OnlyRestoredOverwrites ==
    [][\A f \in unmet \ restored : SaveAccepted => server'.content[f] = server.content[f]]_vars

-------------------------------------------------------------------------------
\* What the code says of itself and does not do.

\* "Log opnieuw in om verder te gaan. Je werk wordt bewaard."
\* (SessionExpiredDialog.vue:20-22): the edits on screen that no save had taken when
\* the user followed the dialog are there again when the same user is back.
WorkIsKept ==
    [][page = "loading" /\ page' = "editor" =>
         \A f \in DOMAIN work : store'[f] = work[f]]_vars

===============================================================================
