# TLA+ models of par-dpia-form

par-dpia-form is a form application for assessments (pre-scan, DPIA, IAMA). People fill in a
form together: a Fastify backend keeps projects, members, assessments with their version
history, and comments in PostgreSQL; a Vue frontend saves with a debounce, polls for changes of
colleagues and resolves conflicts per field; a core package holds the form itself; a standalone
variant keeps its state in the browser. This directory models the parts of it where several
actors touch the same state, or where one state is converted back and forth between shapes.

Run a model with `tlc -config MCAssessmentStore.cfg MCAssessmentStore.tla`, check a proof with
`tlapm HistoryReadsProofs.tla`. `PROJECT.json` lists the components, the runs, the lines each
definition models, the hazards, the findings and the theorems.

## 1. The system

| Component | State | Operations | Hard behaviour |
|---|---|---|---|
| Assessments (backend) | `assessment_instances` (current version, cached state), `assessment_versions`, `assessment_edits` | create, save (PUT), describe a version, delete | a save is three round trips; it looks for the row to consolidate into before its transaction; creation is three inserts without one |
| Edit log | the edits of a version, as rows | `diffStates`, `rebuildState` | rows of one save have one timestamp and come back in any order; groups inside groups |
| Historical reads | LRU of rebuilt states, never invalidated | read version *n* with its state | three or four queries beside writers; a decision to cache that is older than the cached state |
| Projects and members | `projects`, `project_members` | found, delete, add, change role, remove | count owners, then write, without a lock |
| Accounts | `users` (unique email, unique `oidc_sub`), identity cache | `requireAuth` on every request, invitation of an address | logins, claims and invitations race on the unique constraints; addresses change |
| Comments and sync | `comments` | list, create, reply, edit, resolve, delete; sync signal | a reply whose parent goes; a stamp that is older than its write; a count that two changes leave equal |
| Collaboration store (frontend) | comment list, poll timer | poll, create, edit, delete | a poll in flight over local changes |
| Editor persistence (frontend) | stores, baseline, pending edits, known version, deferred changes, dialog, timer | debounced save, conflict handling, remote changes, navigation | every handler awaits; edits, timers and polls run in between |
| Session and restored edits (frontend) | login, session storage | log in, expire, log in again, log out, reload | a save meets an expired session; edits kept across logins and users |
| Version history page (frontend) | list of rows, edits of a row, a restore | page through, expand, describe, restore | numbers on screen go stale; a count and rows of two moments; late answers; read, then write |
| Form stores | task instances, answers, conditions, mapped groups, hidden answers | add and remove groups, edit, hide and restore, rebuild | instances, groups and their sources kept in step by watchers |
| Standalone form | localStorage | open, start afresh, upload, edit, reset, leave | a reload at any moment; watchers that outlive the form |
| Exports | none | JSON, PDF, Markdown | three walks over one form |
| Views, backend wiring, scripts, containers | none shared | | |

The frontend talks to the backend over HTTP: `PUT /assessments/:id` with `expectedVersion`
answers 409 unless it is the current version; `GET .../sync`, polled every ten seconds, tells the
version and whether the caller made it. Inside the backend the handlers share only the database
and two in-memory caches. Inside the frontend `ApiPersistence` and the polling store share the
Pinia stores with the form, through watchers.

What makes each of them correct: **assessments** — no save is lost or overwrites another, old
versions never change, the cached state is the replay of the history; **edit log** — replaying
the recorded edits gives what was saved; **reads** — an old version always reads the same;
**members** — a project keeps an owner, nobody enters but by invitation; **accounts** — one
account per person, which never changes hands; **editor** — a colleague's change is never
overwritten unseen, what is on the screen and what is on the server converge, and the user's
choices count; **session** — work that was kept comes back, to its author; **version page** — a
restore changes what it says and nothing else; **comments** — a thread goes with its replies, lists
converge; **form** — a reload gives the form on the screen, and the exports agree with it.

## 2. Modules

| Module | Models | Source |
|---|---|---|
| `VersionedDocument` | what a version history promises (abstract) | — |
| `AssessmentStore` | one assessment, its tables and writers | `routes/assessments.ts`, `routes/projects.ts` |
| `EditLog` (extends `GroupedAnswers`) | edits and replay of grouped answers | `utils/diffStates.ts`, `utils/rebuildState.ts` |
| `HistoryReads` | the reader and its LRU, composed with `AssessmentStore` | `routes/assessments.ts`, `utils/rebuildStateCache.ts` |
| `ProjectMembers` | one project | `routes/members.ts`, `routes/projects.ts`, `middleware/projectAccess.ts` |
| `Accounts` | the users table and the identity cache | `middleware/auth.ts`, `utils/userIdCache.ts`, `routes/members.ts` |
| `Comments` | the comments of one assessment | `routes/comments.ts` |
| `CommentSync` | the list of comments in one browser, composed with `Comments` | `stores/collaboration.ts`, `routes/sync.ts` |
| `ClientPersistence` | the editor of one user beside a colleague | `ApiPersistence.ts`, `AssessmentEditor.vue`, `fieldDiff.ts` |
| `EditorSession` | one tab, its logins, saves and kept edits | `useAuth.ts`, `main.ts`, `SessionExpiredDialog.vue`, `ApiPersistence.ts` |
| `VersionHistory` | the version page of one user beside others who save | `views/VersionHistory.vue`, `usePaginatedList.ts` |
| `GroupedAnswers` | the two shapes of the answers (operators) | `utils/groupedAnswers.ts` |
| `FormStores` (extends `GroupedAnswers`) | instances, conditions, mappings, hiding, rebuild (operators) | `stores/tasks.ts`, `useTaskDependencies.ts`, `impactedAnswers.ts`, `applyState.ts` |
| `FormExports` (extends `FormStores`) | what each export holds (operators) | `jsonExport.ts`, `pdfExport.ts`, `markdownExport.ts` |
| `StandaloneForm` (extends `FormExports`) | the form in one tab | `apps/standalone-form`, `Form.vue`, `TaskSection.vue`, `TaskGroup.vue` |
| `HistoryReadsProofs` (also of `AssessmentStore`), `EditLogProofs`, `ProjectMembersProofs`, `AccountsProofs`, `CommentsProofs`, `ClientPersistenceProofs`, `EditorSessionProofs`, `VersionHistoryProofs` | theorems | |
| `MC*` | model values, inputs, bounds and symmetry for TLC | |

In the modules of concurrent handlers **one action is the code between two awaits**. An activation
is a record whose `pc` says which query comes next and whose other fields are the local variables
it still needs. A failed query, a dropped connection and a crash end the activation (`Fail`,
`CreationFails`, `FoundingFails`, `LoginFails`, `SaveFails`, `RemoteFails`, `PollFails`,
`RestoreFails`, `Restart`). In the form an action is a handler together with the flush of Vue's
watchers that follows it. A definition whose name is that of another one plus a suffix, preceded
by "Mutant of", is a variant with a plausible slip; no specification uses it. It documents which
slip the properties notice. History variables are marked "history": no action's guard reads them.

### AssessmentStore

A state of the form is one value per field. A version row holds at most one edit per field: of
several edits in a row only the last counts in a replay. `Access` is the first query of a save with
its early returns (403 for a version without changes by a non-owner, 409), `SelectLast` the choice
of the row to consolidate into (same author, not described, not the initial version, young enough
— the age is left open), `LockAndUpdate` the conditional UPDATE, `Consolidated`/`NewRow` the rows
of the transaction, `Commit` and `Conflict` its two ends, `WriteUiOnly` the save that makes no
version. `InsertVersion` and `InsertInitialEdit` follow the insert of the instance. `rebuildState(n)`
is the replay. `overwritten` and `lastSaver` are history.

`ImplementsDocument` instantiates `VersionedDocument` with the replayed content of each version.
A consolidation renumbers the newest row from *n* to *n+1*, so for readers version *n* now shows
what *n-1* shows: that is what `AmendNewest` says.

### EditLog

The same two functions in detail: a state has flat answers, an array per repeated group (an array
for a group inside a group as well) and completion marks. `diffStates` gives a set of edits, since
all rows of a save have the time of its transaction and `rebuildState` sorts by version and time
only; `replays` is the set of states that the orders of that set lead to, and `Save` takes any of
them. `implicit` is history: groups whose instance 0 appeared without an edit, because of the
`skipDefault` rule.

`findGroupedParent` looks for the group of a change by cutting parts off a task's dotted id, while
`groupAnswers` goes by the tree of the form. The constant `Above` has the tasks that the cut ids name,
`Parent` the tree. They differ (the iama form has parents that are no prefix); `NestingAssumption` says what
the three forms (`dpia.yaml`, `iama.yaml`, `prescan.yaml`) all meet: a child of a repeated group has the group
for its longest prefix, any other task has no repeated group for a prefix. `isSaved` says what the shape of a
saved state is.

### HistoryReads

A read has three queries: the current version (`StartRead`), the row (`RowNotFound`,
`RowFoundCached`, `RowFound`) and the edits (`Replay`). If there are no edits (`NoEditsFound`: none are
inserted yet, or the assessment was deleted since the row was found) a fourth one asks for the cached
state, and without an instance the answer is an empty state (`ReadCachedState`); neither is cached.
`isImmutable` is decided in the first.
`EvictedByOthers` is the pressure of other assessments on the shared LRU, `Restart` a restart of
the server, which also ends the saves of `AssessmentStore`. `premature` is history: a read met an
assessment whose creation had not ended.

### ProjectMembers

`Authorise` is the `preHandler`; then `ReadMembership`, `CountOwners` and `Write` for a role change
or removal, `ReadExisting` and `Insert` for an addition, `DeleteProject`. `overtaken` in a request
and `raced` are history: since the check, an owner was lost or the target became one.

### Accounts

A row's id is its place in the sequence (rows are never deleted). An address is a value with a
spelling. `LookupFound`, `LookupNotFound`, `CheckClash`, `SyncEmail`, `Claim` and `Insert` are the
queries of `requireAuth`, each with what the unique constraints make of it. Expiry of a cache entry
may come at any time: the clock is not modelled.

### ClientPersistence and EditorSession

Both model the editor, from two sides. `ClientPersistence` has the overlap of handlers in one
session; `EditorSession` has logins, reloads and session storage, with at most one save at a time.

In `ClientPersistence` the server is its interface only: a PUT is accepted when it expects the current
version. `Fields` stands for answers and section completions, `sectionOf` for the section each belongs to.
`save` holds the activations of `saveAppState` (and of the resolve callback), `remote` the one of
`handleRemoteChange`, `poll` what the sync poll knows. `armed` is "the debounce timer is set"; when it fires
is open, which also covers the save when the tab is hidden. `unseen`, `unsent`, `disturbed` and `renewed` are
history: a colleague's value that is news to the client and that the user has not met; a field with an edit no
accepted save has carried; handlers ran into each other or a merge or an answer was lost; a save renewed
`pendingChanges` while the conflict dialog of an earlier one was open. Simplifications: the GET of a conflict
reads the server in the step that stops the timer; there is one `handleRemoteChange` at a time; [Bijwerken] is
available whenever something is deferred; the poll compares versions (`updatedAt` may make the code fetch a
version it knows: the model may do so at any time).

In `EditorSession` the session at Keycloak ends at any moment (`SsoEnds`); the tab notices it by its
timer (`RefreshFails`) or in a save (`SaveExpires`, `ConflictExpires`). A page that is left or loaded again is
hidden first: a save whose timer is still set runs, finds the session expired and keeps the edits (`Hidden`).
`Logout` is one step. `kept` is the session storage,
`marker` the user the dialog sent to log in again. `Login` decides what survives, `Mount` is the load
of the form: baseline first, kept edits after it, watchers last. `work`, `attempt`, `author`, `stray`,
`unmet` and `restored` are history, each named where it is declared. A stray edit is one that outlived
a login without the dialog (a page that was loaded again), which the user check does not cover.

### VersionHistory

A save of others is one step that writes a row or consolidates into the newest one; the save without content
changes, which makes no version, is not among them (`AssessmentStore` has it). The page has its
list (`OpenPage`, `LoadMore`, `PageArrives`, `PageFails`), for which the server counts the rows (`CountRows`,
`CountForRefresh`) before it reads those of the page, the edits of one expanded row (`ToggleDiff`, `EditsArrive`
for any version still asked for, `EditsFail`), descriptions and the restores: `OpenFieldRestore`,
`ReadForField`, `RestoreField` and `Refresh` for an answer or an instance, `OpenVersionRestore`,
`ConfirmVersion` and `RestoreVersion` for a version, with two requests between them: the row and its replay
(`FindVersion`, `ReplayVersion`) and, before, between or after these, the current number (`ReadCurrent`).
`was`, `before`, `bundled`, `outrun` and `overtaken` are history:
the state at each number, the content below a row when its edits were loaded, an instance that came or
went within the row; the rows that came between the count and the rows of the last page; a restore refreshed the list while a page was on its way, or more rows came
than the pages up to the one that arrives can hold. `atPlaces` is a filter of a sequence by its places; the
edits of a row are read by place (`editAt`), and `replay` is a recursive function of the number of rows.

### Comments and CommentSync

A comment's id is the time of its creation, its body the time at which it was written. `Start` and
`StartUpdate` are the first query of a handler with what it refuses (`mayName`); a new thread has nothing to
look up. Every write takes its stamp in a step of its own, before it shows: an update in the process, when
its first query is answered (`StartUpdate`), an insert in the database (`StampThread`, `StampReply`). `Insert`
and `Update` are the writes. There is one counter for both clocks; that the process' clock differs from the
database's acts like a longer or shorter wait between stamp and write. `DeleteReply` deletes a reply; a thread
goes in two statements, `DeleteReplies`, which locks what it deletes, and `DeleteThread`, with which the
transaction commits. Only the answers to one user, `Me`, are followed: an activation that is `done` waits until
the user hears of it (`Answered`) or never does (`End`). `raced` is history: a reply went into a thread that
had been deleted since it was looked up, or between the two statements that delete it.

A poll has five steps: the server counts (`CountComments`), the store compares (`CompareCounts`), the
server looks up the roots (`ReadRoots`) and the replies (`ReadReplies`), the store refreshes or merges
(`ShowComments`); `PollFails` ends it anywhere. `newer` keeps a detail of the database: inserts carry
microseconds, updates and `?since` milliseconds, so that the newest insert is reported again by every
poll. `passed` is history: threads whose last stamp is not newer than `lastModifiedAt`, or than an answer under
way, although what they say came later. Loading is the poll of an empty list without `lastModifiedAt`; the stop of the timer and `reset` are left out.

### The form: GroupedAnswers, FormStores, FormExports, StandaloneForm

An instance id is a task and an index. `groupAnswers` and `flattenGroupedAnswers` convert between
answers per instance and arrays per group. `FormStores` has one operator per function of the stores and
composables: they take the instances and the answers and return new ones. Loops over tasks and indices
are folds in the order of the schema. The reports look for the groups below an instance by their source if
they are mapped and by their parent if not (`childGroups`, `markdownGroups`), which is where the walks differ
from the page's. `PdfSections` are the sections that the Markdown report does not have. `StandaloneForm` keeps them as state and adds the page: what is
rendered (`rendered`, `offers`, `canAdd`) decides what a user can do, so that only reachable forms are checked. `MountForm`
is `onMounted` of `Form.vue`; `Settle` is the flush (the hide watcher `reconcile`, then
`syncInstances`); `SaveAppState` the save of the watchers, which exist from the first mount on
(`watching`). `PageReload` may come at any moment and leaves only `stored`.

## 3. Runs

| Run | Shows | Bounds |
|---|---|---|
| `store` | version tables consistent, past frozen, cached state = replay, sealed versions kept, refinement of `VersionedDocument` | 2 saves in flight, 2 users (one owner), 2 fields × 2 values, versions ≤ 3, `EarlySaves` |
| `history_reads` | LRU never stale and bounded, old versions read consistently, also beside a deletion | 1 save, 2 readers, 1 field × 2 values, versions ≤ 4, 2 entries, `Bounds` |
| `members` | owner unless overtaken, no strays, members only by addition | 3 users, 2 requests, 2 roles |
| `accounts` | one account each, never relinked, answers match the token, cache bounded | 3 subjects, 3 addresses in two spellings, 2 logins, 1 invitation, 2 entries |
| `client` | no silent overwrite, screen is server, choices honoured | 2 sections of one field, 3 values, 2 edits, versions ≤ 3, 1 save slot |
| `comment_sync` | threads one level deep, the list converges to the server, in its threads and its count | 1 user, 2 requests, `Overlaps`, 3 inserts or updates, any number of deletions and polls |
| `form` | tree of instances, own conditions, mapped groups follow, reload gives the form, exports agree and can be uploaded, no answer lost unannounced | 16 tasks in 4 sections, 2 instances per group, 1 file, `FewFilledIn` |
| `edit_log` | replay gives what was saved, in every order of a save's edits | a group in a group, a field outside, 2 instances each, ≤ 3 answers at a time |
| `session` | kept work returns, to its author, and only it overwrites unseen | 2 users, 2 fields × 3 values, versions ≤ 4, 2 edits |
| `version_screen` | list without gaps, a restore changes one field, full restore gives the version | 1 question and 1 instance, pages of 2, versions ≤ 4, 3 clicks, `Apart` |
| `session_work` | violation: work that the dialog says is kept is lost | as `session` |
| `restored_version` | violation: a restore names a version it is not from | as `version_screen` |

Why the bounds suffice. Races in the backend's handlers are between two activations; the third party that
makes a check stale is a step of either, of the creation or of a delete. Three versions hold an initial row, a
row to consolidate into and its successor; four are needed for a cached old version to see two later ones. Two
fields tell "this field" from "another field"; two values tell "changed" from "changed back", and three are
needed for two sides to change one field differently. Two sections separate background from deferred changes;
three subjects, two logins and an invitation cover the claim race with a bystander. Three comments hold a
thread, another one and a reply, or a thread, its edit and a reply, which is what the count and the merge can
confuse; two requests hold a write and what overtakes it. The form of `form` has the features of the DPIA form
that interact — a repeated group with a question that shows a field, a group mapped from it with a repeated group
of the user inside (6.1.1, 8.1.1 and 9.1.1 of `dpia.yaml`), a repeated group that is conditional itself (12.1.2), a
section that only the PDF has (20) — and one that only a test of the reports has
(`utils-pdfExport.cov.test.ts:702`): a group in a mapped group, mapped from the group it is in. Two instances
tell "its own" from "another one's"; the file has a second group only. In
`edit_log` the states are all that the form can save with at most three answers, and every pair of them is a save; three answers are one in the outer group, one in the inner group and one that
moves. In `session`, four versions are the load, a colleague's save, the refused save merged, and one more;
two edits are one before and one after a login. In `version_screen`, pages of two make three rows a list with
a next page; four versions are an initial one, a row that consolidates and a restore on top; `overtaken` and
`PageSize` in the antecedents name the cases in which the list really has gaps or ends early. One of them,
more new rows than the loaded pages hold, needs a fifth version or pages of one: the theorem about the list
(section 5) covers it, for any bounds. In `client`, the exception `renewed` takes a fourth version to matter.

Conditions in the properties: `overwritten`, `raced`, `disturbed`, `renewed`, `premature`, `stray`,
`bundled`, `implicit`, `overtaken`, `outrun`, `passed`, `displaced` and `PassedOver` exclude cases in which the code
really does otherwise; section 4 says which. All other cases are covered, overlapping handlers included: those are excluded only where `disturbed` or
`raced` stands, and not in `NoSilentOverwrite`, `PastIsFrozen`, `NeverRelinked`, `RestoreTouchesOneField`.

Constraints: `EarlySaves` (at most one save commits before the creation ends), `Bounds` (the same, and a
read that met a half-created assessment ends the behaviour), `Overlaps` (of two requests about comments the second
is an edit beside any other request, or the deletion of a thread, the only comment, beside a reply to it),
`FewFilledIn` (what the user fills in stays at three answers, hidden answers and marks; loaded or uploaded may be
more), `Apart` (a description is saved, and a version restored, only while no edits are shown or asked for, of
which neither reads or changes anything). `MaxVersion`, `MaxEdits`, `MaxClicks`,
`MaxClock`, `MaxIndex` guard the actions. Deadlock checking is off in `store`, `history_reads`, `members`,
`accounts` and `client`, which may stop at their bounds or when nothing more exists to do (a deleted project or
assessment), and on in the others, which never do.

Fairness is assumed in `CommentSync` alone: `schedulePoll` sets its timer again after every poll, whether it
failed or not (weak fairness of `CountComments`), and the network is not down for ever (strong fairness of the
later steps, which a failure disables). Users owe nothing: the liveness properties are about a list
once writes stop, which `MaxClock` makes them do except for deletions, and those end with the rows; requests that
change nothing may go on.
No liveness is claimed of saves: they happen only when a user edits and a network delivers.

## 4. Where the code does less than it says

Two statements are refuted by a run.

1. `SessionExpiredDialog.vue:20-22` says "Je werk wordt bewaard". Only a save that meets the expired session
   keeps edits (`ApiPersistence.ts:177-181`). An edit whose timer is still set is safe: leaving the page hides it,
   and the save of a hidden page (791-797) is such a save. But `flushSave` (700-705) stops the timer on navigation
   without saving, and nothing sets it again before the next edit: in the trace of `session_work` the user edits,
   goes to another section, the session expires, and after the login the edit is gone. A save that has failed
   otherwise and a conflict whose requests meet the expired session (207-212, 250) keep nothing either.
2. A restore is recorded as "Antwoord uit versie *n* hersteld" (`VersionHistory.vue:189`) with *n* the row's number
   minus one (184). A consolidated row moves to the next number and keeps its first old value: the value
   is that of the row below, the named version another, or none (`restored_version`).

The following were met while modelling; the named condition or module takes the code as it is.

*Backend.* The save without content changes writes the whole posted state unconditionally
(`routes/assessments.ts:130-141`): a save that commits in between disappears from the current state while its
version stays (`overwritten`). Two owners who remove or demote each other at once leave a project without one
(`routes/members.ts:184-205`, `251-272`; `raced`). A read that meets a creation interrupted between its inserts
caches a partial replay (`premature`), and such an assessment can be saved but not rebuilt
(`routes/projects.ts:257-277`). An assessment that is deleted while an old version is read is answered with 200 and
an empty state (`rebuildState.ts:45-52`), which the version never held. An editor who sends `newVersion` without a description mints a version without
edits (133-137). An address taken between check and update makes one login fail (`middleware/auth.ts:133-147`).
The first save of a group's instance 0 is not recorded (`diffStates.ts:59-62`; `implicit`); a change below such
an unrecorded inner group is replayed into the outer group's instance 0, because the nearest array is taken.

*Editor.* The baseline is rebuilt from a store with unsent edits, so that the scheduled save finds nothing
(`ApiPersistence.ts:151-161`, 561, 624, 665; `unsent`, `disturbed`). A conflict dialog that opens while
`handleRemoteChange` waits loses the user's choices (281, 503, 573; `disturbed`). Edits put back after a login
come after the baseline and before the watchers (823-832): they are not saved until the next edit, and then
without a conflict check (818; `restored`). An edit made while `handleConflict` fetches (207) sets the timer again;
its save renews the shared `pendingChanges` (154) while the dialog, made from the older ones, is open; an answer to it
replays all but the fields of the dialog (276), and so puts the edit over a value of a colleague that the dialog did not
show. With `MaxVersion = 4` and without `renewed` in `NoSilentOverwrite` TLC shows it; the attempt to prove the property
for any number of versions found it. A page that is loaded again instead of the dialog skips the user
check (`main.ts:31-44`; `stray`). A load that fails leaves an empty form and consumes the kept edits (727-731).
`clearSavedState` (737-750) sends no `expectedVersion`, which the backend refuses; no button leads to it.

*Comments.* Threads are deleted by two statements without a foreign key (`routes/comments.ts:387-392`): a reply that
is inserted between them, or after the parent was looked up and deleted, keeps its row, which no list shows and the
count includes (`raced`). An update is stamped before it is written (316, 336): when a poll has listed a newer change
in between, when a refresh reads roots and replies of different moments, or when the answer to an own request comes
after a newer poll, the list may keep the older text or state of that thread (`passed`). It does so only as long as the
newest change is a new thread, which every poll reports again: any other poll comes back without roots and makes the
next one ask for everything (75). Deletions are noticed by a count, which a reply that the poll does not take in makes equal again
(`collaboration.ts:89-91`, `routes/sync.ts:81-83`); a colleague's edited reply stays as it was in a list of equal
length (107); without newer roots no replies are looked up (`routes/comments.ts:75`). Hence the list's promise is
stated of threads, but for those passed by, and of the count where no reply is orphaned.

*Form.* `findImpactedByConditionalChange` compares the new value with the answer in the store, which the watcher
runs after: for an edit in the form nothing is found and a hidden answer stays saved
(`impactedAnswers.ts:212-213`). After an added group nothing syncs: mapped groups follow at the next answer.
Deleting a source leaves answers of its targets in the store. A repeated group that the user adds inside a
repeated group (`TaskGroup.vue:227-233`) gets the next index of the whole form, not the one of the group it is in
(`displaced`). A rebuild leaves such groups to their parents (`applyState.ts:51-57`), although it "scans answers for
additional indices and creates matching instances" (38-39): after a reload or an upload its answers are stored, and
neither shown nor printed (`ReloadGivesForm`, `keptAnswers`). A group of that index that is made later takes it over,
while the first parent keeps a link, with which it is deleted unannounced (`AnswersStayOrMove`). A conditional
repeated group that was added or rebuilt has a `groupId` of its own and is shown whatever its condition's answer is
(`OwnCondition`). The reports find a mapped group inside another only if it is mapped from the instance it is in; no
form of `sources/` has one inside a group. The dpia form maps a task that is not repeated below a repeated one
(`dpia.yaml:571`), which the sync removes; the model has mapped groups that are repeated. Starting afresh clears localStorage only (`App.vue:75-78`): answers
still in memory, and the watchers of earlier forms, save them again; a reset leaves the hidden answers cached.

*Version page.* The edits of a version that come late overwrite those of the row expanded since (613-636);
an instance that came and went within a consolidated row is shown as added; its answer's old value is then not
the row below's (`bundled`). A refresh after a restore while a page is on its way skips a page, and a page that
arrives after more new rows than the pages up to it hold skips rows (both `overtaken`); a page full of new rows
ends the list early. Count and rows of a page are two queries (`routes/assessments.ts:272-293`): with rows saved
in between, as many old ones are left out and not offered any more (`outrun`). A version is restored with two requests
beside each other, the one for its state in three queries (300-341): when the newest row, the one restored, takes in a
save after it was looked up and before its replay, the state is that of the row below, and a number read after that
save is accepted. A number that a consolidation has moved on gives 404,
shown as "Geen inhoudelijke wijzigingen".

## 5. Proofs

All theorems hold for any constants that meet the named assumptions (roles nested, `NoEdit` and `Gone` not
values, positive bounds, distinguishable defaults, finitely many tasks nested as the forms nest them, saves in the
shape that `groupAnswers` makes).

**`HistoryReadsProofs`, first part: `AssessmentStore`.** `VersionTable` is not inductive: a `Commit` is safe only because
of what its request remembers. `TableInv` adds `InFlightSaves` — as long as nobody has saved since, the
base is the cached state and the target row is the newest, the author's own and not the first —
and attribution. Each action has a lemma; `Commit` splits into the new row and the consolidated row, which share
`CommitFacts`. From `TableInv` follow `TypeCorrect`, `VersionTableHolds`, `InFlightHolds`,
`AttributionHolds`; `PastFrozen` and `SealedKept` use it as step invariant. `CacheTracksHistory` adds that a commit's replay
is the old replay overlaid with the diff against the base, which `InFlightSaves` equates with the cached state.

It ends with the refinement, `StoreImplementsDocument`: the initial state maps to "no document",
`InsertInitialEdit` to `Create`, `Delete` to `Delete`, a `Commit` to `AddVersion` or `AmendNewest`, all else
to a stutter. `PastFrozen`'s lemmas give the older versions; `CommitSuperseded` what the superseded
number shows.

**`HistoryReadsProofs`, second part: `HistoryReads`.** Composes those results with the reader. `ReadInv` says
of every cached entry and every immutable read that it is `Settled`: its version is still older than the
current one, and a replay of it gives the entry's content, or what the read saw at its start. `SettledStays`
carries that through any step of the writers (`StepKeepsPast`, and versions only grow); a complete version 1
makes `rebuilt` and `rebuildState` agree (`RebuiltIsReplay`). Lemmas on sequences (`TailDistinct`,
`AppendDistinct`, `RemoveDistinct`) keep the LRU's bound and one entry per version. Hence `ReadsTyped`,
`CacheIsFreshHolds`, `OldReadsHold`.

**`ProjectMembersProofs`.** `OwnerUnlessRaced` needs `ChecksHold`: what a request found before its write is
still true unless it was overtaken. With `StepsMatchKinds` (which steps a request of each kind takes) it is
inductive as `MembersInv`. `StrayMembersNever` and `MembersOnlyAdded` come from the same invariant.

**`AccountsProofs`.** `AccountsInv` says of the rows that addresses and subjects are unique, of each activation what
its answer is linked to (`ActivationOK`), of the cache that each entry is linked (`EntriesOK`). Each step changes
the rows by one of three updates, and `ActivationStays` and `EntriesStay` show that all of them keep links in
place (`Grown`). From it follow all four properties of the run.

**`CommentsProofs`.** `ThreadsWellFormed` needs `LookupsHold`: what a request learnt of the comment it names —
that it is a root, or is not — is still true of that comment if it is there, because no step changes a parent and ids
are not used twice: a stamp that waits for its insert is nobody else's (`IdsKnown`, `IdsUnique`, `StampsFresh`). Between
the two statements of a deletion every reply to the thread is among those that the first one has locked, or has
`raced` it (`KnowsReplies`). `ThreadsStayWellFormed` holds for any number of requests.

**`ClientPersistenceProofs`.** Three inductive invariants, each resting on the one before. `TypeInv` adds to the types
that no part of the client knows a version which the server has not made (`VersionsExist`) and that what a part holds of
the current version is what the server has (`CopiesAreCurrent`): without them the types themselves do not survive, since
`known` is taken over from six places. `NewsInv` follows a colleague's value that the user has not met through the client:
it differs from both screen and baseline, so that the next comparison finds it (`NewsIsVisible`); whoever expects or
knows the current version has left at most deferred news (`NewsIsExpected`); and no open dialog replays an edit over it
(`NewsIsNotReplayed`, which `renewed` breaks). A PUT that is accepted expects the current version, hence
`NothingOverwrittenSilently`, for any number of overlapping saves. `QuietInv`, under `~disturbed`, says that one
handler or dialog is under way at a time, what each of them carries compared to screen, baseline and server, and that a
version it does not have is a colleague's; `ScreenShowsServer` and `ChoicesAreHonoured` follow. The effect of every
merge on screen, baseline and news is a lemma of its own (`NavigateMerges` to `RemoteMerges`).

**`EditorSessionProofs`.** `SessionInv` joins types with what relates the tab, the session storage and the histories:
what is kept has an owner, the edits of the last save that met the expired session are among what is kept, and
a field whose news the user has not met is a restored one wherever the known version is the current one. The three
properties of `session` are consequences of one step from it.

**`VersionHistoryProofs`.** `RestoreInv`: the state that is about to be put back equals, but for one field, the state of
the version it expects, for as long as that version is current (`RestoreIsOfVersionHolds`). A restore that is
accepted therefore keeps all else (`RestoreTouchesOneFieldHolds`). The version check of the PUT is what the proof needs.
`ListFollowsServerHolds` is about the list: rows get ids that only grow and keep their place when they are consolidated
(`RowsInv`), and unless it was overtaken the list shows the rows from some place `lo` to some place `hi` of the server
(`Stretch`). An invariant that says only "no gaps" is not inductive: that the next page touches the list needs
the stretch to hold as many rows as the pages loaded, counted from the top of the server, and not to lie beyond the
rows that came since; and its lowest row lies within the rows counted and those that outran the count. `PageArrivesStretch` is that step; `AtPlacesIsBijection` and `FreshAdded` say what the filter of
rows already shown keeps. The first formulation of the property, without the second cause of `overtaken`, failed here.

`EditsInv` is about the edits. `was`, the state at each number, ends in the server's content (`WasInv`); each
row holds the differences between the states at consecutive numbers, beginning where the row below ends
(`RowsChain`): a consolidation appends one and moves the number on. A field on the page, or in a restore under
way, has as its old value what the content below its row held (`FieldsRight`), since the first difference of
the row that touches a key starts from there; and the state about to be put back as a version is the state at
that number (`VersionRight`). `RestoredFromRowBelowHolds` and `FullRestoreHolds` follow; the latter needs that
a replay of the rows gives `was`, by induction over rows and over the saves in a row, and, up to a number that has
passed to the row above since it was looked up (`PassedOver`), the state of the row below.

**`EditLogProofs`.** The invariant, `LogInv`, is that the replay reads like what was saved (`Follows`), but it
says too little in the middle of a save, where edits are applied one at a time in any order. So `Follows` is
stated with the edits that are left: a place about which none of them speaks reads as saved, an instance that
is still to be added is not there, and an answer is never in another group's instance where the index is
`certain`. `DiffKinds` and `DiffCovers` say what `diffStates` guarantees: each place is named by at most one
edit, with the saved value, and every difference by one; that is why the order does not matter. `FollowsStep`
has a lemma per kind of edit. The hard one is a change to an answer in a group (`FollowsInner`):
`findGroupedParent` takes the nearest array that is there at that point, and it must be the answer's own
group. It is, since the diff has such a change only for an instance that both states have, which no other edit
of the save removes — unless the instance is an index 0 that was never recorded. There the change goes into an
outer group's index 0, which is why `certain` looks at the groups below as well. `GroupedIsSaved` shows that
what is assumed of saved states holds of all that `groupAnswers` makes.

*Induction.* The provers cannot use the library's induction theorems. Where a recursion is over a number, its
set of good numbers is formed and its complement has a least element, by `WFMin` (`Least`, `NatSetInduction`);
a recursive function is unfolded once a function that meets its equation is built (`ReplaysDefined`).

Only model-checked: the liveness of `CommentSync` (`ThreadsConverge`, `CountsConverge`), which is out of the
prover's reach, and the properties of `StandaloneForm` (`FormWellFormed`, `ReloadGivesForm`, `ExportsAgree`,
`ExportCanBeUploaded`, `MappedFollowSource`, `AnswersStayOrMove`), whose form is what folds over the schema
compute: for every instance of a task they walk its children, its conditions and its mappings, and the provers
cannot instantiate the operators that the folds take. What they except of repeated groups inside repeated ones is told in
section 4.

## 6. Not modelled

Of the backend: the name-only update and `updatedAt`; the interface state inside a saved state; deletion of an
assessment through its project (the same step as `Delete`); display names; the token; renaming of a project; lists
that only read; `app.ts`, validation and parsing of requests. In `AssessmentStore` an edit is a value of a field; what
that abstracts is `EditLog`.

Of the client: `instancesDirty`, `updatedAt`, namespaces, the microtask guard `applyingDeferred`, loading that skips
empty answers, a second tab of the same user (`AssessmentEditor.vue:150`: it raises the known version without fetching);
polls and overlapping saves together with logins; load, reset and timers of the collaboration store, and the cap of 1000
comments; on the version page labels, the formatting of values and the deep link to a field.

Of the form: the calculations of the pre-scan (`calculations.ts:195`: overlapping runs may push an assessment twice),
references between forms and the prefilling of fields (`FormField.vue:66-106`), migration of old formats, headings, order and
layout of the exports, images, the JSON inside a PDF, the three standalone forms beside each other, a full localStorage.

Views that only show and edit a list (`ProjectList`, `ProjectDetail`, `ProjectMembers`) read again after what they write;
scripts and containers have no state of their own.

## 7. What a next step would be

The plan of this project — store, reads, members, accounts, comments, editor, edit log, form, session and version page, with
proofs — is carried out. Worth adding: a second tab in `ClientPersistence`; an abstract list that `CommentSync` implements;
invariants of `StandaloneForm` as theorems,
once its folds over the schema are written as recursive functions; the calculations of the pre-scan.
