-------------------------- MODULE EditorSessionProofs --------------------------
(***************************************************************************)
(* Proofs about EditorSession for any users, fields and values, and any    *)
(* number of versions and edits.                                           *)
(***************************************************************************)
EXTENDS EditorSession, TLAPS

(***************************************************************************)
(* The inductive invariant.                                                *)
(***************************************************************************)
\* A timer and a save are of an editor that is on screen, and the mark of who went
\* to log in again is there only until that.
EditorIsOpen ==
    /\ armed \/ save # Idle => page = "editor"
    /\ marker # NoUser => user = NoUser

\* What is kept is of the user who is logged in, or who went to log in again.
KeptByOwner ==
    kept # Nothing /\ ~stray =>
        /\ user # NoUser => author = user
        /\ marker # NoUser => author = marker

\* Of the last save that met the expired session, every edit is kept.
AttemptIsKept == \A f \in DOMAIN attempt : f \in DOMAIN kept /\ kept[f] = attempt[f]

\* Whoever knows the current version has seen all of it, but where edits were put
\* back; what was not seen differs from what the page started from.
Seen ==
    /\ known = server.version => unmet \subseteq restored
    /\ \A f \in unmet \ restored : server.content[f] # baseline[f]
    /\ save.pc = "put" => save.expected = known
    /\ save.pc = "ask" =>
          /\ save.version <= server.version
          /\ save.version = server.version =>
                /\ save.content = server.content
                /\ unmet \cap conflictKeys(save.pending, computeFieldDiff(baseline, save.content))
                      \subseteq restored

SessionInv == SessionTypeOK /\ EditorIsOpen /\ KeptByOwner /\ AttemptIsKept /\ Seen

(***************************************************************************)
(* The changes of a form.                                                  *)
(***************************************************************************)
LEMMA PartialDef == \A p : p \in Partial <=> DOMAIN p \subseteq Fields /\ p \in [DOMAIN p -> Values]
BY DEF Partial

LEMMA NothingIsPartial == Nothing \in Partial /\ DOMAIN Nothing = {}
BY DEF Partial, Nothing

LEMMA BlanksAreContents == Blanks \in Contents
BY BlankAssumption DEF Blanks, Contents

LEMMA OnlyProperties ==
    ASSUME NEW p \in Partial, NEW D
    PROVE  /\ Only(p, D) \in Partial
           /\ DOMAIN Only(p, D) = DOMAIN p \cap D
           /\ \A f \in DOMAIN p \cap D : Only(p, D)[f] = p[f]
<1>1. DOMAIN p \subseteq Fields /\ p \in [DOMAIN p -> Values]
  BY PartialDef
<1>2. Only(p, D) \in [DOMAIN p \cap D -> Values]
  BY <1>1 DEF Only
<1>3. Only(p, D) \in Partial
  BY <1>1, <1>2 DEF Partial
<1> QED
  BY <1>3 DEF Only

LEMMA WithProperties ==
    ASSUME NEW c \in Contents, NEW p \in Partial
    PROVE  /\ With(c, p) \in Contents
           /\ \A f \in Fields : With(c, p)[f] = IF f \in DOMAIN p THEN p[f] ELSE c[f]
<1>1. \A f \in DOMAIN p : p[f] \in Values
  BY PartialDef
<1>2. \A f \in Fields : c[f] \in Values
  BY DEF Contents
<1>3. \A f \in Fields : With(c, p)[f] = IF f \in DOMAIN p THEN p[f] ELSE c[f]
  BY DEF With
<1>4. \A f \in Fields : With(c, p)[f] \in Values
  BY <1>1, <1>2, <1>3
<1>5. With(c, p) \in Contents
  BY <1>4 DEF With, Contents
<1> QED
  BY <1>3, <1>5

LEMMA DiffProperties ==
    ASSUME NEW old \in Contents, NEW new \in Contents
    PROVE  /\ computeFieldDiff(old, new) \in Partial
           /\ DOMAIN computeFieldDiff(old, new) = {f \in Fields : old[f] # new[f]}
           /\ \A f \in DOMAIN computeFieldDiff(old, new) : computeFieldDiff(old, new)[f] = new[f]
           /\ computeFieldDiff(old, new) = Nothing <=> old = new
<1> DEFINE D == {f \in Fields : old[f] # new[f]}
<1>1. new \in Partial /\ DOMAIN new = Fields
  BY DEF Contents, Partial
<1>2. /\ Only(new, D) \in Partial /\ DOMAIN Only(new, D) = D
      /\ \A f \in D : Only(new, D)[f] = new[f]
  <2>1. DOMAIN new \cap D = D
    BY <1>1
  <2> HIDE DEF D
  <2> QED
    BY <1>1, <2>1, OnlyProperties
<1>3. Only(new, D) = Nothing => old = new
  <2> SUFFICES ASSUME Only(new, D) = Nothing PROVE old = new
    OBVIOUS
  <2>1. D = {}
    BY <1>2, NothingIsPartial
  <2> QED
    BY <2>1 DEF Contents
<1>4. old = new => Only(new, D) = Nothing
  BY <1>1, <1>2 DEF Only, Nothing
<1> QED
  BY <1>2, <1>3, <1>4 DEF computeFieldDiff

(* What a handler activation holds by its step.                             *)
LEMMA SaveTypes ==
    ASSUME save \in Put \cup Conflict \cup {Idle}
    PROVE  /\ save.pc = "put" =>
                /\ save \in Put /\ save.expected \in 0..MaxVersion /\ save.sent \in Contents
                /\ save.pending \in Partial /\ save.merge \in BOOLEAN
           /\ save.pc \in {"refused", "ask"} => save.pending \in Partial
           /\ save.pc = "ask" => save.version \in 1..MaxVersion /\ save.content \in Contents
           /\ save.pc \in {"put", "refused", "ask"} <=> save # Idle
           /\ save.pc \in {"put", "refused", "ask", "idle"}
BY DEF Put, Conflict, Idle

(***************************************************************************)
(* Type correctness.                                                       *)
(***************************************************************************)
LEMMA UnloadedTypes ==
    ASSUME Unloaded, server.version \in Nat
    PROVE  /\ store' \in Contents /\ baseline' \in Contents /\ known' \in 0..server.version
           /\ armed' \in BOOLEAN /\ expired' \in BOOLEAN /\ save' = Idle
           /\ unsent' \subseteq Fields /\ unmet' \subseteq Fields /\ restored' \subseteq Fields
<1>1. store' = Blanks /\ baseline' = Blanks /\ known' = 0
  BY DEF Unloaded
<1>2. 0 \in 0..server.version
  OBVIOUS
<1>3. /\ armed' \in BOOLEAN /\ expired' \in BOOLEAN /\ save' = Idle
      /\ unsent' \subseteq Fields /\ unmet' \subseteq Fields /\ restored' \subseteq Fields
  BY DEF Unloaded
<1> QED
  BY <1>1, <1>2, <1>3, BlanksAreContents

(* What a save that gets no token keeps.                                    *)
LEMMA KeepPendingTypes ==
    ASSUME SessionTypeOK, KeepPending
    PROVE  /\ kept' \in Partial /\ attempt' \in Partial
           /\ author' \in Users \cup {NoUser} /\ stray' \in BOOLEAN
<1>1. pendingChanges \in Partial
  BY DiffProperties DEF SessionTypeOK, pendingChanges
<1>2. kept' \in Partial /\ attempt' \in Partial
  BY <1>1, OnlyProperties DEF KeepPending, SessionTypeOK
<1>3. author' \in Users \cup {NoUser} /\ stray' \in BOOLEAN
  BY DEF KeepPending, SessionTypeOK
<1> QED
  BY <1>2, <1>3

LEMMA HiddenTypes ==
    ASSUME SessionTypeOK, Hidden
    PROVE  /\ kept' \in Partial /\ attempt' \in Partial
           /\ author' \in Users \cup {NoUser} /\ stray' \in BOOLEAN
BY KeepPendingTypes DEF Hidden, SessionTypeOK

LEMMA LeaveTypes ==
    ASSUME SessionTypeOK, Relogin \/ PageReload \/ Logout \/ OpenAssessment
    PROVE  SessionTypeOK'
<1>1. server.version \in Nat
  BY BoundsAssumption DEF SessionTypeOK
<1>2. Unloaded /\ server' = server
  BY DEF Relogin, PageReload, Logout, OpenAssessment
<1>3. /\ store' \in Contents /\ baseline' \in Contents /\ known' \in 0..server.version
      /\ armed' \in BOOLEAN /\ expired' \in BOOLEAN /\ save' = Idle
      /\ unsent' \subseteq Fields /\ unmet' \subseteq Fields /\ restored' \subseteq Fields
  BY <1>1, <1>2, UnloadedTypes
<1>5. CASE Relogin
  <2>1. pendingChanges \in Partial
    BY DiffProperties DEF SessionTypeOK, pendingChanges
  <2>2. work' \in Partial
    BY <1>5, <2>1, OnlyProperties, NothingIsPartial DEF Relogin
  <2> QED
    BY <1>2, <1>3, <1>5, <2>2, HiddenTypes DEF Relogin, SessionTypeOK
<1>6. CASE PageReload
  BY <1>2, <1>3, <1>6, NothingIsPartial, HiddenTypes DEF PageReload, SessionTypeOK
<1>7. CASE Logout
  BY <1>2, <1>3, <1>7, NothingIsPartial DEF Logout, SessionTypeOK
<1>8. CASE OpenAssessment
  BY <1>2, <1>3, <1>8 DEF OpenAssessment, SessionTypeOK
<1> QED
  BY <1>5, <1>6, <1>7, <1>8

LEMMA LoginTypes ==
    ASSUME SessionTypeOK, NEW u \in Users, Login(u)
    PROVE  SessionTypeOK'
<1>1. kept' \in Partial /\ work' \in Partial /\ attempt' \in Partial
  BY OnlyProperties, NothingIsPartial DEF Login, SessionTypeOK
<1> QED
  BY <1>1, NoUserAssumption DEF Login, form, SessionTypeOK

LEMMA MountTypes ==
    ASSUME SessionTypeOK, NEW c \in Contents, NEW n \in 0..server.version, Mount(c, n),
           page = "loading"
    PROVE  SessionTypeOK'
<1>1. store' \in Contents
  BY WithProperties DEF Mount, restoredInto, SessionTypeOK
<1>2. DOMAIN kept \subseteq Fields
  BY PartialDef DEF SessionTypeOK
<1> QED
  BY <1>1, <1>2, NothingIsPartial DEF Mount, SessionTypeOK

LEMMA EditorTypes ==
    ASSUME SessionTypeOK,
           \/ SsoEnds \/ RefreshFails \/ Leave \/ Navigate \/ SaveNothing \/ SaveFails
           \/ ConflictExpires
    PROVE  SessionTypeOK'
BY DEF SsoEnds, RefreshFails, Leave, Navigate, SaveNothing, SaveFails, ConflictExpires,
   SessionTypeOK, session, form, history

LEMMA EditTypes ==
    ASSUME SessionTypeOK, NEW f \in Fields, NEW v \in Values, Edit(f, v)
    PROVE  SessionTypeOK'
<1>1. store' \in Contents
  BY DEF Edit, SessionTypeOK, Contents
<1>2. edits' \in 0..MaxEdits
  BY BoundsAssumption DEF Edit, SessionTypeOK
<1> QED
  BY <1>1, <1>2 DEF Edit, SessionTypeOK, session

LEMMA ColleagueTypes ==
    ASSUME SessionTypeOK, NEW f \in Fields, NEW v \in Values, ColleagueSaves(f, v)
    PROVE  SessionTypeOK'
<1>1. server' \in [version : 1..MaxVersion, content : Contents]
      /\ server'.version = server.version + 1
  BY BoundsAssumption DEF ColleagueSaves, SessionTypeOK, Contents
<1>2. known' \in 0..server'.version
  BY <1>1, BoundsAssumption DEF ColleagueSaves, SessionTypeOK, form
<1> QED
  BY <1>1, <1>2 DEF ColleagueSaves, SessionTypeOK, session, form

LEMMA SaveStepTypes ==
    ASSUME SessionTypeOK, SaveStart \/ SaveExpires \/ SaveAccepted \/ SaveRefused
    PROVE  SessionTypeOK'
<1>1. /\ computeFieldDiff(baseline, store) \in Partial
      /\ save.pc = "put" => save.sent \in Contents /\ save.pending \in Partial
  BY DiffProperties, SaveTypes DEF SessionTypeOK
<1>2. CASE SaveStart
  <2>1. save' \in Put
    BY <1>1, <1>2, BoundsAssumption DEF SaveStart, Put, SessionTypeOK, pendingChanges
  <2> QED
    BY <1>2, <2>1 DEF SaveStart, SessionTypeOK, session, history
<1>3. CASE SaveExpires
  <2>1. /\ attempt' \in Partial /\ kept' \in Partial
        /\ author' \in Users \cup {NoUser} /\ stray' \in BOOLEAN
    BY <1>3, KeepPendingTypes DEF SaveExpires
  <2>2. armed' \in BOOLEAN /\ expired' \in BOOLEAN /\ save' = Idle
    BY <1>3 DEF SaveExpires, SessionTypeOK
  <2> QED
    BY <1>3, <2>1, <2>2 DEF SaveExpires, SessionTypeOK
<1>4. CASE SaveAccepted
  <2>1. server' \in [version : 1..MaxVersion, content : Contents]
        /\ known' = server'.version
    BY <1>1, <1>4, BoundsAssumption DEF SaveAccepted, SessionTypeOK
  <2>2. known' \in 0..server'.version
    BY <2>1, BoundsAssumption
  <2> QED
    BY <1>4, <2>1, <2>2 DEF SaveAccepted, SessionTypeOK, session
<1>5. CASE SaveRefused
  <2>1. save' \in Conflict
    BY <1>1, <1>5 DEF SaveRefused, Conflict
  <2> QED
    BY <1>5, <2>1 DEF SaveRefused, SessionTypeOK, session, form, history
<1> QED
  BY <1>2, <1>3, <1>4, <1>5

LEMMA MergeTypes ==
    ASSUME SessionTypeOK, NEW c \in Contents, NEW n \in 1..server.version, NEW p \in Partial,
           WriteMerged(c, n, p)
    PROVE  SessionTypeOK'
<1>1. store' \in Contents
  BY WithProperties DEF WriteMerged
<1>2. n \in 0..MaxVersion /\ n \in 0..server.version
  BY BoundsAssumption DEF SessionTypeOK
<1>3. save' \in Put
  BY <1>1, <1>2 DEF WriteMerged, Put
<1> QED
  BY <1>1, <1>2, <1>3 DEF WriteMerged, SessionTypeOK, session

LEMMA AskTypes ==
    ASSUME SessionTypeOK, ConflictAsk
    PROVE  SessionTypeOK'
<1>1. save.pending \in Partial
  BY SaveTypes DEF ConflictAsk, SessionTypeOK
<1>2. save' \in Conflict
  BY <1>1 DEF ConflictAsk, Conflict, SessionTypeOK
<1> QED
  BY <1>2 DEF ConflictAsk, SessionTypeOK, session

(* The answer to the dialog: what is merged.                                *)
LEMMA ResolvedFields ==
    ASSUME SessionTypeOK, NEW chosen, Resolve(chosen)
    PROVE  /\ save.pc = "ask" /\ save.pending \in Partial
           /\ \E D : WriteMerged(save.content, save.version, Only(save.pending, D))
<1>1. save.pc = "ask" /\ save.pending \in Partial
  BY SaveTypes DEF Resolve, SessionTypeOK
<1> DEFINE conflicts == conflictKeys(save.pending, computeFieldDiff(baseline, save.content))
           D == (DOMAIN save.pending \ conflicts) \cup chosen
<1>2. WriteMerged(save.content, save.version, Only(save.pending, D))
  BY DEF Resolve
<1> HIDE DEF D
<1> QED
  BY <1>1, <1>2

LEMMA InitTypes == Init => SessionTypeOK
<1> SUFFICES ASSUME Init PROVE SessionTypeOK
  OBVIOUS
<1>1. server \in [version : 1..MaxVersion, content : Contents]
  <2>1. 1 \in 1..MaxVersion
    BY BoundsAssumption
  <2> QED
    BY <2>1, BlanksAreContents DEF Init
<1>2. known \in 0..server.version /\ edits \in 0..MaxEdits
  <2>1. known = 0 /\ server.version = 1 /\ edits = 0
    BY DEF Init
  <2> QED
    BY <2>1, BoundsAssumption
<1>3. /\ page \in {"keycloak", "projects", "loading", "editor"} /\ target \in {"projects", "editor"}
      /\ user \in Users \cup {NoUser} /\ marker \in Users \cup {NoUser}
      /\ author \in Users \cup {NoUser}
      /\ {sso, expired, armed, stray} \subseteq BOOLEAN
      /\ unsent \subseteq Fields /\ unmet \subseteq Fields /\ restored \subseteq Fields
      /\ page = "keycloak" <=> user = NoUser
  BY DEF Init
<1>4. /\ store \in Contents /\ baseline \in Contents
      /\ kept \in Partial /\ work \in Partial /\ attempt \in Partial
      /\ save \in Put \cup Conflict \cup {Idle}
  BY BlanksAreContents, NothingIsPartial DEF Init
<1> QED
  BY <1>1, <1>2, <1>3, <1>4 DEF SessionTypeOK

(***************************************************************************)
(* The steps, by what they do to the form.                                 *)
(***************************************************************************)
Mounts(c, n) == page = "loading" /\ c \in Contents /\ n \in 0..server.version /\ Mount(c, n)
QuietStep == SsoEnds \/ RefreshFails \/ Leave \/ Navigate \/ SaveNothing \/ SaveFails \/ ConflictExpires
LeavingStep == Relogin \/ PageReload \/ Logout \/ OpenAssessment

LEMMA StepCases ==
    ASSUME SessionTypeOK, Next
    PROVE  \/ QuietStep \/ LeavingStep
           \/ \E u \in Users : Login(u)
           \/ \E c, n : Mounts(c, n)
           \/ \E f \in Fields, v \in Values : Edit(f, v) \/ ColleagueSaves(f, v)
           \/ SaveStart \/ SaveExpires \/ SaveAccepted \/ SaveRefused
           \/ ConflictMerge \/ ConflictAsk
           \/ \E chosen \in SUBSET Fields : Resolve(chosen)
<1>1. Load => Mounts(server.content, server.version)
  <2>1. server.content \in Contents /\ server.version \in 0..server.version
    BY BoundsAssumption DEF SessionTypeOK
  <2> QED
    BY <2>1 DEF Load, Mounts
<1>2. LoadFails => Mounts(Blanks, 0)
  <2>1. 0 \in 0..server.version
    BY BoundsAssumption DEF SessionTypeOK
  <2> QED
    BY <2>1, BlanksAreContents DEF LoadFails, Mounts
<1> QED
  BY <1>1, <1>2 DEF Next, QuietStep, LeavingStep

LEMMA TypesStep ==
    ASSUME SessionTypeOK, Seen, [Next]_vars
    PROVE  SessionTypeOK'
<1>1. CASE UNCHANGED vars
  BY <1>1 DEF vars, session, form, history, SessionTypeOK
<1>2. CASE QuietStep
  BY <1>2, EditorTypes DEF QuietStep
<1>3. CASE LeavingStep
  BY <1>3, LeaveTypes DEF LeavingStep
<1>4. CASE \E u \in Users : Login(u)
  BY <1>4, LoginTypes
<1>5. CASE \E c, n : Mounts(c, n)
  BY <1>5, MountTypes DEF Mounts
<1>6. CASE \E f \in Fields, v \in Values : Edit(f, v) \/ ColleagueSaves(f, v)
  BY <1>6, EditTypes, ColleagueTypes
<1>7. CASE SaveStart \/ SaveExpires \/ SaveAccepted \/ SaveRefused
  BY <1>7, SaveStepTypes
<1>8. CASE ConflictMerge
  <2>1. server.content \in Contents /\ server.version \in 1..server.version /\ save.pending \in Partial
    BY <1>8, SaveTypes, BoundsAssumption DEF ConflictMerge, SessionTypeOK
  <2>2. WriteMerged(server.content, server.version, save.pending)
    BY <1>8 DEF ConflictMerge
  <2> QED
    BY <2>1, <2>2, MergeTypes
<1>9. CASE ConflictAsk
  BY <1>9, AskTypes
<1>10. CASE \E chosen \in SUBSET Fields : Resolve(chosen)
  <2>1. PICK chosen \in SUBSET Fields : Resolve(chosen)
    BY <1>10
  <2>2. save.content \in Contents /\ save.version \in 1..server.version
    <3>1. save.pc = "ask"
      BY <2>1 DEF Resolve
    <3>2. save.version \in 1..MaxVersion /\ save.content \in Contents /\ save.version <= server.version
      BY <3>1, SaveTypes DEF SessionTypeOK, Seen
    <3> QED
      BY <3>2, BoundsAssumption DEF SessionTypeOK
  <2>3. PICK D : WriteMerged(save.content, save.version, Only(save.pending, D))
    BY <2>1, ResolvedFields
  <2>4. Only(save.pending, D) \in Partial
    BY <2>1, ResolvedFields, OnlyProperties
  <2> QED
    BY <2>2, <2>3, <2>4, MergeTypes
<1> QED
  BY <1>1, <1>2, <1>3, <1>4, <1>5, <1>6, <1>7, <1>8, <1>9, <1>10, StepCases

(***************************************************************************)
(* Saves are of an open editor; what is kept belongs to somebody.          *)
(***************************************************************************)
LEMMA OpenStep ==
    ASSUME SessionTypeOK, EditorIsOpen, [Next]_vars
    PROVE  EditorIsOpen'
<1>1. CASE UNCHANGED vars
  BY <1>1 DEF vars, session, form, EditorIsOpen
<1>2. CASE QuietStep
  BY <1>2 DEF QuietStep, SsoEnds, RefreshFails, Leave, Navigate, SaveNothing, SaveFails,
     ConflictExpires, session, form, EditorIsOpen
<1>3. CASE LeavingStep
  BY <1>3 DEF LeavingStep, Relogin, PageReload, Logout, OpenAssessment, Unloaded, EditorIsOpen,
     SessionTypeOK
<1>4. CASE \E u \in Users : Login(u)
  BY <1>4 DEF Login, form, EditorIsOpen, SessionTypeOK
<1>5. CASE \E c, n : Mounts(c, n)
  BY <1>5 DEF Mounts, Mount, EditorIsOpen
<1>6. CASE \E f \in Fields, v \in Values : Edit(f, v) \/ ColleagueSaves(f, v)
  BY <1>6 DEF Edit, ColleagueSaves, session, form, EditorIsOpen
<1>7. CASE SaveStart \/ SaveExpires \/ SaveAccepted \/ SaveRefused
  <2>1. save.pc = "put" => save # Idle
    BY DEF Idle
  <2> QED
    BY <1>7, <2>1 DEF SaveStart, SaveExpires, SaveAccepted, SaveRefused, session, form, EditorIsOpen
<1>8. CASE ConflictMerge \/ ConflictAsk
  <2>1. save.pc = "refused" => save # Idle
    BY DEF Idle
  <2> QED
    BY <1>8, <2>1 DEF ConflictMerge, ConflictAsk, WriteMerged, session, EditorIsOpen
<1>9. CASE \E chosen \in SUBSET Fields : Resolve(chosen)
  <2>1. save.pc = "ask" => save # Idle
    BY DEF Idle
  <2>2. save.pc = "ask" /\ UNCHANGED session
    BY <1>9 DEF Resolve, WriteMerged
  <2> QED
    BY <2>1, <2>2 DEF session, EditorIsOpen
<1> QED
  BY <1>1, <1>2, <1>3, <1>4, <1>5, <1>6, <1>7, <1>8, <1>9, StepCases

LEMMA OnlyAll ==
    ASSUME NEW p \in Partial
    PROVE  Only(p, DOMAIN p) = p /\ Only(p, {}) = Nothing
<1>1. p \in [DOMAIN p -> Values]
  BY PartialDef
<1> QED
  BY <1>1 DEF Only, Nothing

(* What an open editor keeps is of the user who is logged in.               *)
LEMMA KeepPendingOwner ==
    ASSUME SessionTypeOK, EditorIsOpen, KeptByOwner, KeepPending, page = "editor"
    PROVE  user # NoUser /\ marker = NoUser /\ (kept' # Nothing /\ ~stray' => author' = user)
<1>1. user # NoUser /\ marker = NoUser
  BY DEF SessionTypeOK, EditorIsOpen
<1>2. pendingChanges = Nothing <=> baseline = store
  BY DiffProperties DEF SessionTypeOK, pendingChanges
<1>3. CASE baseline = store
  BY <1>1, <1>2, <1>3 DEF KeepPending, KeptByOwner
<1>4. CASE baseline # store
  BY <1>1, <1>4 DEF KeepPending
<1> QED
  BY <1>1, <1>3, <1>4

LEMMA HiddenOwner ==
    ASSUME SessionTypeOK, EditorIsOpen, KeptByOwner, Hidden
    PROVE  kept' # Nothing /\ ~stray' =>
              /\ user # NoUser => author' = user
              /\ marker # NoUser => author' = marker
<1>1. CASE armed /\ KeepPending
  BY <1>1, KeepPendingOwner DEF EditorIsOpen
<1>2. CASE UNCHANGED <<kept, attempt, author, stray>>
  BY <1>2 DEF KeptByOwner
<1> QED
  BY <1>1, <1>2 DEF Hidden

LEMMA OwnerStep ==
    ASSUME SessionTypeOK, EditorIsOpen, KeptByOwner, [Next]_vars
    PROVE  KeptByOwner'
<1>1. CASE UNCHANGED vars \/ QuietStep
  BY <1>1 DEF vars, session, history, QuietStep, SsoEnds, RefreshFails, Leave, Navigate,
     SaveNothing, SaveFails, ConflictExpires, KeptByOwner
<1>2. CASE LeavingStep
  <2>1. CASE Relogin \/ PageReload
    <3>1. user' = user \/ user' = NoUser
      BY <2>1 DEF Relogin, PageReload
    <3>2. marker' = NoUser \/ (marker' = user /\ user # NoUser)
      BY <2>1, NoUserAssumption DEF Relogin, PageReload
    <3> QED
      BY <2>1, <3>1, <3>2, HiddenOwner DEF Relogin, PageReload, KeptByOwner
  <2>2. CASE Logout \/ OpenAssessment
    BY <2>2 DEF Logout, OpenAssessment, KeptByOwner
  <2> QED
    BY <1>2, <2>1, <2>2 DEF LeavingStep
<1>3. CASE \E u \in Users : Login(u)
  <2>1. PICK u \in Users : Login(u)
    BY <1>3
  <2>2. CASE marker \in {NoUser, u}
    <3>1. kept' = kept /\ author' = author /\ user' = u /\ marker' = NoUser
      BY <2>1, <2>2, OnlyAll DEF Login, survives, SessionTypeOK, history
    <3>2. kept' # Nothing /\ ~stray' => ~stray /\ marker = u
      BY <2>1, <2>2, <3>1 DEF Login
    <3> QED
      BY <3>1, <3>2, NoUserAssumption DEF KeptByOwner
  <2>3. CASE marker \notin {NoUser, u}
    <3>1. kept' = Nothing
      BY <2>1, <2>3, OnlyAll DEF Login, survives, SessionTypeOK
    <3> QED
      BY <3>1 DEF KeptByOwner
  <2> QED
    BY <2>2, <2>3
<1>4. CASE \E c, n : Mounts(c, n)
  BY <1>4 DEF Mounts, Mount, KeptByOwner
<1>5. CASE \E f \in Fields, v \in Values : Edit(f, v) \/ ColleagueSaves(f, v)
  BY <1>5 DEF Edit, ColleagueSaves, session, KeptByOwner
<1>6. CASE SaveStart \/ SaveAccepted \/ SaveRefused
  BY <1>6 DEF SaveStart, SaveAccepted, SaveRefused, session, history, KeptByOwner
<1>7. CASE SaveExpires
  <2>1. save.pc = "put" => save # Idle
    BY DEF Idle
  <2>2. page = "editor" /\ KeepPending /\ user' = user /\ marker' = marker
    BY <1>7, <2>1 DEF SaveExpires, EditorIsOpen
  <2> QED
    BY <2>2, KeepPendingOwner DEF KeptByOwner
<1>8. CASE ConflictMerge \/ ConflictAsk
  BY <1>8 DEF ConflictMerge, ConflictAsk, WriteMerged, session, KeptByOwner
<1>9. CASE \E chosen \in SUBSET Fields : Resolve(chosen)
  <2>1. UNCHANGED <<session, kept, author, stray>>
    BY <1>9 DEF Resolve, WriteMerged
  <2> QED
    BY <2>1 DEF session, KeptByOwner
<1> QED
  BY <1>1, <1>2, <1>3, <1>4, <1>5, <1>6, <1>7, <1>8, <1>9, StepCases

LEMMA KeepPendingAttempt ==
    ASSUME SessionTypeOK, AttemptIsKept, KeepPending
    PROVE  AttemptIsKept'
<1>1. pendingChanges \in Partial
  BY DiffProperties DEF SessionTypeOK, pendingChanges
<1>2. attempt' = Only(pendingChanges, unsent)
      /\ kept' = IF pendingChanges = Nothing THEN kept ELSE pendingChanges
  BY DEF KeepPending
<1>3. /\ DOMAIN attempt' = DOMAIN pendingChanges \cap unsent
      /\ \A f \in DOMAIN attempt' : attempt'[f] = pendingChanges[f]
  BY <1>1, <1>2, OnlyProperties
<1> QED
  BY <1>2, <1>3, NothingIsPartial DEF AttemptIsKept

LEMMA AttemptStep ==
    ASSUME SessionTypeOK, AttemptIsKept, [Next]_vars
    PROVE  AttemptIsKept'
<1>1. CASE UNCHANGED vars \/ QuietStep
  BY <1>1 DEF vars, history, QuietStep, SsoEnds, RefreshFails, Leave, Navigate,
     SaveNothing, SaveFails, ConflictExpires, AttemptIsKept
<1>2. CASE LeavingStep
  <2>1. Hidden => AttemptIsKept'
    BY KeepPendingAttempt DEF Hidden, AttemptIsKept
  <2>2. Logout \/ OpenAssessment => AttemptIsKept'
    BY NothingIsPartial DEF Logout, OpenAssessment, AttemptIsKept
  <2> QED
    BY <1>2, <2>1, <2>2 DEF LeavingStep, Relogin, PageReload
<1>3. CASE \E u \in Users : Login(u)
  <2>1. PICK u \in Users : Login(u)
    BY <1>3
  <2>2. CASE marker \in {NoUser, u}
    BY <2>1, <2>2, OnlyAll DEF Login, survives, SessionTypeOK, AttemptIsKept
  <2>3. CASE marker \notin {NoUser, u}
    BY <2>1, <2>3, NothingIsPartial DEF Login, AttemptIsKept
  <2> QED
    BY <2>2, <2>3
<1>4. CASE \E c, n : Mounts(c, n)
  BY <1>4, NothingIsPartial DEF Mounts, Mount, AttemptIsKept
<1>5. CASE \E f \in Fields, v \in Values : Edit(f, v) \/ ColleagueSaves(f, v)
  BY <1>5 DEF Edit, ColleagueSaves, AttemptIsKept
<1>6. CASE SaveStart \/ SaveAccepted \/ SaveRefused
  BY <1>6 DEF SaveStart, SaveAccepted, SaveRefused, history, AttemptIsKept
<1>7. CASE SaveExpires
  BY <1>7, KeepPendingAttempt DEF SaveExpires
<1>8. CASE ConflictMerge \/ ConflictAsk
  BY <1>8 DEF ConflictMerge, ConflictAsk, WriteMerged, AttemptIsKept
<1>9. CASE \E chosen \in SUBSET Fields : Resolve(chosen)
  <2>1. UNCHANGED <<kept, attempt>>
    BY <1>9 DEF Resolve, WriteMerged
  <2> QED
    BY <2>1 DEF AttemptIsKept
<1> QED
  BY <1>1, <1>2, <1>3, <1>4, <1>5, <1>6, <1>7, <1>8, <1>9, StepCases

LEMMA ChangedIsInDiff ==
    ASSUME NEW old \in Contents, NEW new \in Contents, NEW k \in Fields, old[k] # new[k]
    PROVE  k \in DOMAIN computeFieldDiff(old, new) /\ computeFieldDiff(old, new)[k] = new[k]
<1>1. /\ DOMAIN computeFieldDiff(old, new) = {f \in Fields : old[f] # new[f]}
      /\ \A f \in DOMAIN computeFieldDiff(old, new) : computeFieldDiff(old, new)[f] = new[f]
  BY DiffProperties
<1>2. PICK diff : diff = computeFieldDiff(old, new)
  OBVIOUS
<1>3. DOMAIN diff = {f \in Fields : old[f] # new[f]} /\ \A f \in DOMAIN diff : diff[f] = new[f]
  BY <1>1, <1>2, Zenon
<1>4. k \in DOMAIN diff
  BY <1>3
<1> QED
  BY <1>2, <1>3, <1>4

(***************************************************************************)
(* What a merge leaves unseen was put back: what was not seen changed on   *)
(* the server, so an edit of it is a conflict.                             *)
(***************************************************************************)
LEMMA MergedIsSeen ==
    ASSUME SessionTypeOK, Seen, NEW p \in Partial, NEW f \in unmet \ restored,
           With(server.content, p)[f] # server.content[f]
    PROVE  f \in DOMAIN p /\ p[f] # server.content[f]
           /\ f \in DOMAIN computeFieldDiff(baseline, server.content)
           /\ computeFieldDiff(baseline, server.content)[f] = server.content[f]
<1>1. server.content \in Contents /\ f \in Fields /\ baseline \in Contents
  BY DEF SessionTypeOK
<1>2. f \in DOMAIN p /\ p[f] # server.content[f]
  BY <1>1, WithProperties
<1>3. baseline[f] # server.content[f]
  BY DEF Seen
<1>4. PICK old \in Contents, new \in Contents : old = baseline /\ new = server.content
  BY <1>1
<1>5. f \in DOMAIN computeFieldDiff(old, new) /\ computeFieldDiff(old, new)[f] = new[f]
  BY <1>1, <1>3, <1>4, ChangedIsInDiff
<1> QED
  BY <1>2, <1>4, <1>5

LEMMA SeenMerge ==
    ASSUME SessionTypeOK, Seen, ConflictMerge
    PROVE  Seen'
<1>1. save.pending \in Partial /\ save.pc = "refused"
  BY SaveTypes DEF ConflictMerge, SessionTypeOK
<1>2. WriteMerged(server.content, server.version, save.pending)
  BY DEF ConflictMerge
<1>3. unmet' \subseteq restored
  <2> SUFFICES ASSUME NEW f \in unmet', f \notin restored PROVE FALSE
    OBVIOUS
  <2>1. f \in unmet /\ With(server.content, save.pending)[f] # server.content[f]
    BY <1>2 DEF WriteMerged
  <2>2. f \in conflictKeys(save.pending, computeFieldDiff(baseline, server.content))
    BY <1>1, <2>1, MergedIsSeen DEF conflictKeys
  <2> QED
    BY <2>2 DEF ConflictMerge
<1>4. /\ restored' = restored /\ server' = server /\ baseline' = baseline
      /\ save'.pc = "put" /\ save'.expected = known' /\ unmet' \subseteq unmet
  BY <1>2 DEF WriteMerged
<1> QED
  BY <1>3, <1>4 DEF Seen

LEMMA SeenResolve ==
    ASSUME SessionTypeOK, Seen, NEW chosen, Resolve(chosen)
    PROVE  Seen'
<1>1. save.pending \in Partial /\ save.pc = "ask"
  BY ResolvedFields
<1>2. PICK D : WriteMerged(save.content, save.version, Only(save.pending, D))
  BY ResolvedFields
<1> DEFINE p == Only(save.pending, D)
<1>3. p \in Partial /\ \A f \in DOMAIN p : f \in DOMAIN save.pending /\ p[f] = save.pending[f]
  <2>1. p \in Partial /\ DOMAIN p = DOMAIN save.pending \cap D
        /\ \A f \in DOMAIN save.pending \cap D : p[f] = save.pending[f]
    BY <1>1, OnlyProperties
  <2> QED
    BY <2>1
<1>4. known' = save.version
  BY <1>2 DEF WriteMerged
<1>5. known' = server.version => unmet' \subseteq restored
  <2> SUFFICES ASSUME save.version = server.version, NEW f \in unmet', f \notin restored PROVE FALSE
    BY <1>4
  <2>1. save.content = server.content
    BY <1>1 DEF Seen
  <2>2. f \in unmet /\ With(server.content, p)[f] # server.content[f]
    BY <1>2, <2>1 DEF WriteMerged
  <2> HIDE DEF p
  <2>3. f \in conflictKeys(save.pending, computeFieldDiff(baseline, server.content))
    BY <1>1, <1>3, <2>2, MergedIsSeen DEF conflictKeys
  <2> QED
    BY <1>1, <2>1, <2>2, <2>3 DEF Seen
<1>6. /\ restored' = restored /\ server' = server /\ baseline' = baseline
      /\ save'.pc = "put" /\ save'.expected = known' /\ unmet' \subseteq unmet
  BY <1>2 DEF WriteMerged
<1> QED
  BY <1>5, <1>6 DEF Seen

LEMMA SeenAsk ==
    ASSUME SessionTypeOK, Seen, ConflictAsk
    PROVE  Seen'
<1>1. /\ save'.pc = "ask" /\ save'.version = server.version /\ save'.content = server.content
      /\ save'.pending = save.pending
      /\ unmet' = unmet \ conflictKeys(save.pending, computeFieldDiff(baseline, server.content))
      /\ UNCHANGED <<server, baseline, known, restored>>
  BY DEF ConflictAsk
<1>2. unmet' \cap conflictKeys(save'.pending, computeFieldDiff(baseline', save'.content)) = {}
  BY <1>1
<1>3. server.version \in Nat
  BY BoundsAssumption DEF SessionTypeOK
<1> QED
  BY <1>1, <1>2, <1>3 DEF Seen

LEMMA SeenColleague ==
    ASSUME SessionTypeOK, Seen, NEW f \in Fields, NEW v \in Values, ColleagueSaves(f, v)
    PROVE  Seen'
<1>1. server.version \in Nat /\ known \in 0..server.version /\ server.content \in Contents
  BY BoundsAssumption DEF SessionTypeOK
<1>2. /\ server'.version = server.version + 1
      /\ server'.content = [server.content EXCEPT ![f] = v]
      /\ unmet' = IF v \in {store[f], baseline[f]} THEN unmet \ {f} ELSE unmet \cup {f}
      /\ UNCHANGED <<known, baseline, save, restored>>
  BY DEF ColleagueSaves, form
<1>3. \A g \in unmet' \ restored' : server'.content[g] # baseline'[g]
  <2> SUFFICES ASSUME NEW g \in unmet', g \notin restored PROVE server'.content[g] # baseline[g]
    BY <1>2
  <2>1. g \in Fields /\ server.content \in [Fields -> Values]
    BY <1>1, <1>2 DEF SessionTypeOK, Contents
  <2>2. CASE g = f
    BY <1>2, <2>1, <2>2
  <2>3. CASE g # f
    BY <1>2, <2>1, <2>3 DEF Seen
  <2> QED
    BY <2>2, <2>3
<1>4. known' # server'.version
  BY <1>1, <1>2
<1>5. save'.pc = "ask" => save'.version < server'.version
  <2> SUFFICES ASSUME save.pc = "ask" PROVE save.version < server.version + 1
    BY <1>2
  <2>1. save.version \in 1..MaxVersion /\ save.version <= server.version
    BY SaveTypes DEF SessionTypeOK, Seen
  <2> QED
    BY <1>1, <2>1, BoundsAssumption
<1>6. save'.pc = "put" => save'.expected = known'
  BY <1>2 DEF Seen
<1>7. save'.pc = "ask" => save'.version <= server'.version /\ save'.version # server'.version
  <2> SUFFICES ASSUME save'.pc = "ask" PROVE save'.version <= server'.version /\ save'.version # server'.version
    OBVIOUS
  <2>1. save'.version \in Int /\ server'.version \in Int
    BY <1>1, <1>2, SaveTypes, BoundsAssumption DEF SessionTypeOK
  <2> QED
    BY <1>5, <2>1
<1> QED
  BY <1>3, <1>4, <1>6, <1>7 DEF Seen

LEMMA SeenStep ==
    ASSUME SessionTypeOK, EditorIsOpen, Seen, [Next]_vars
    PROVE  Seen'
<1>1. CASE UNCHANGED vars
  BY <1>1 DEF vars, form, history, Seen
<1>2. CASE QuietStep
  <2>1. UNCHANGED <<server, known, baseline, unmet, restored>> /\ (save' = save \/ save' = Idle)
    BY <1>2 DEF QuietStep, SsoEnds, RefreshFails, Leave, Navigate, SaveNothing, SaveFails,
       ConflictExpires, form, history
  <2>2. CASE save' = save
    BY <2>1, <2>2 DEF Seen
  <2>3. CASE save' = Idle
    BY <2>1, <2>3 DEF Seen, Idle
  <2> QED
    BY <2>1, <2>2, <2>3
<1>3. CASE LeavingStep
  BY <1>3 DEF LeavingStep, Relogin, PageReload, Logout, OpenAssessment, Unloaded, Idle, Seen
<1>4. CASE \E u \in Users : Login(u)
  BY <1>4 DEF Login, form, Seen
<1>5. CASE \E c, n : Mounts(c, n)
  <2>1. save' = Idle /\ unmet' \subseteq restored'
    BY <1>5 DEF Mounts, Mount, EditorIsOpen
  <2> QED
    BY <2>1 DEF Idle, Seen
<1>6. CASE \E f \in Fields, v \in Values : Edit(f, v)
  BY <1>6 DEF Edit, Seen
<1>7. CASE \E f \in Fields, v \in Values : ColleagueSaves(f, v)
  BY <1>7, SeenColleague
<1>8. CASE SaveStart \/ SaveRefused
  <2>1. UNCHANGED <<server, known, baseline, unmet, restored>>
    BY <1>8 DEF SaveStart, SaveRefused, form, history
  <2>2. /\ save'.pc = "put" => save'.expected = known
        /\ save'.pc # "ask"
    BY <1>8 DEF SaveStart, SaveRefused
  <2> QED
    BY <2>1, <2>2 DEF Seen
<1>9. CASE SaveExpires \/ SaveAccepted
  <2>1. save' = Idle
    BY <1>9 DEF SaveExpires, SaveAccepted
  <2>2. \/ UNCHANGED <<server, known, baseline, unmet, restored>>
        \/ unmet' = {}
    BY <1>9 DEF SaveExpires, SaveAccepted
  <2> QED
    BY <2>1, <2>2 DEF Seen, Idle
<1>10. CASE ConflictMerge \/ ConflictAsk
  BY <1>10, SeenMerge, SeenAsk
<1>11. CASE \E chosen \in SUBSET Fields : Resolve(chosen)
  BY <1>11, SeenResolve
<1> QED
  BY <1>1, <1>2, <1>3, <1>4, <1>5, <1>6, <1>7, <1>8, <1>9, <1>10, <1>11, StepCases

(***************************************************************************)
(* The theorems.                                                           *)
(***************************************************************************)
LEMMA InitInv == Init => SessionInv
<1> SUFFICES ASSUME Init PROVE SessionInv
  OBVIOUS
<1>1. save = Idle /\ kept = Nothing /\ attempt = Nothing /\ marker = NoUser /\ unmet = {}
      /\ armed = FALSE
  BY DEF Init
<1>2. EditorIsOpen /\ KeptByOwner /\ AttemptIsKept /\ Seen
  BY <1>1, NothingIsPartial DEF EditorIsOpen, KeptByOwner, AttemptIsKept, Seen, Idle
<1> QED
  BY <1>2, InitTypes DEF SessionInv

(* ApiPersistence.ts, useAuth.ts, main.ts: what a tab holds is well typed,  *)
(* saves are of an open editor, what is kept has an owner and holds the     *)
(* last save that met the expired session, and only what was put back can   *)
(* be unseen where the current version is known.                            *)
THEOREM SessionInvariant == Spec => []SessionInv
<1>1. Init => SessionInv
  BY InitInv
<1>2. SessionInv /\ [Next]_vars => SessionInv'
  BY TypesStep, OpenStep, OwnerStep, AttemptStep, SeenStep DEF SessionInv
<1> QED
  BY <1>1, <1>2, PTL DEF Spec

LEMMA LoadingEnds ==
    ASSUME SessionTypeOK, [Next]_vars, page = "loading", page' = "editor"
    PROVE  \E c, n : Mounts(c, n)
<1>1. CASE UNCHANGED vars \/ QuietStep
  BY <1>1 DEF vars, session, QuietStep, SsoEnds, RefreshFails, Leave, Navigate,
     SaveNothing, SaveFails, ConflictExpires
<1>2. CASE LeavingStep
  BY <1>2 DEF LeavingStep, Relogin, PageReload, Logout, OpenAssessment
<1>3. CASE \E u \in Users : Login(u)
  BY <1>3 DEF Login
<1>4. CASE \E f \in Fields, v \in Values : Edit(f, v) \/ ColleagueSaves(f, v)
  BY <1>4 DEF Edit, ColleagueSaves, session
<1>5. CASE SaveStart \/ SaveExpires \/ SaveAccepted \/ SaveRefused \/ ConflictMerge \/ ConflictAsk
  BY <1>5 DEF SaveStart, SaveExpires, SaveAccepted, SaveRefused, ConflictMerge, ConflictAsk,
     WriteMerged, session
<1>6. CASE \E chosen \in SUBSET Fields : Resolve(chosen)
  BY <1>6 DEF Resolve, WriteMerged, session
<1> QED
  BY <1>1, <1>2, <1>3, <1>4, <1>5, <1>6, StepCases

(* ApiPersistence.ts:177-181,809-832: for any number of users, fields and   *)
(* saves of others, what a save was to send when it met the expired session *)
(* is on screen again at the next load in the same tab.                     *)
THEOREM KeptWorkReturnsHolds == Spec => KeptWorkReturns
<1> DEFINE Returns == page = "loading" /\ page' = "editor" =>
                        \A f \in DOMAIN attempt : store'[f] = attempt[f]
<1>1. SessionInv /\ [Next]_vars => Returns
  <2> SUFFICES ASSUME SessionInv, [Next]_vars, page = "loading", page' = "editor",
                      NEW f \in DOMAIN attempt
               PROVE  store'[f] = attempt[f]
    OBVIOUS
  <2>1. PICK c, n : Mounts(c, n)
    BY LoadingEnds DEF SessionInv
  <2>2. store' = With(c, kept) /\ c \in Contents /\ kept \in Partial /\ f \in DOMAIN kept
        /\ kept[f] = attempt[f]
    BY <2>1 DEF Mounts, Mount, restoredInto, SessionInv, SessionTypeOK, AttemptIsKept
  <2>3. f \in Fields
    BY <2>2, PartialDef
  <2> QED
    BY <2>2, <2>3, WithProperties
<1> QED
  BY <1>1, SessionInvariant, PTL DEF Spec, KeptWorkReturns

(* main.ts:31-44: what is put back is the work of the user at the screen,   *)
(* unless a page loaded again without the dialog let it outlive a login.    *)
THEOREM RestoredByAuthorHolds == Spec => RestoredByAuthor
<1> DEFINE ByAuthor == page = "loading" /\ page' = "editor" /\ ~stray => kept = Nothing \/ author = user
<1>1. SessionInv /\ [Next]_vars => ByAuthor
  BY DEF SessionInv, SessionTypeOK, KeptByOwner
<1> QED
  BY <1>1, SessionInvariant, PTL DEF Spec, RestoredByAuthor

(* ApiPersistence.ts, assessments.ts:170-189: a colleague's value that the   *)
(* user has not seen is overwritten only where kept edits were put back.    *)
THEOREM OnlyRestoredOverwritesHolds == Spec => OnlyRestoredOverwrites
<1> DEFINE NothingUnseen == \A f \in unmet \ restored : SaveAccepted => server'.content[f] = server.content[f]
<1>1. SessionInv /\ [Next]_vars => NothingUnseen
  <2> SUFFICES ASSUME SessionInv, SaveAccepted PROVE unmet \subseteq restored
    OBVIOUS
  <2> QED
    BY DEF SessionInv, Seen, SaveAccepted
<1> QED
  BY <1>1, SessionInvariant, PTL DEF Spec, OnlyRestoredOverwrites

===============================================================================
