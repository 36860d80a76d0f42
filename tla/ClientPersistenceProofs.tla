------------------------ MODULE ClientPersistenceProofs ------------------------
(***************************************************************************)
(* Theorems of ClientPersistence, for every form, every set of values and  *)
(* any number of overlapping saves: type correctness, that no save         *)
(* silently overwrites a colleague, that the screen shows what the server  *)
(* has, and that the answers to a conflict are honoured.                   *)
(***************************************************************************)
EXTENDS ClientPersistence, TLAPS

(***************************************************************************)
(* The inductive invariants.                                               *)
(***************************************************************************)

active(s) == save[s] # Idle
mergeSave(s) == active(s) /\ save[s].merge
deferredFields == DOMAIN deferred.changes

\* No part of the client knows a version that the server has not made.
VersionsExist ==
    /\ \A s \in Slots :
          /\ save[s].pc = "put" => save[s].expected <= server.version
          /\ save[s].pc \in {"accepted", "fetched"} => save[s].version <= server.version
    /\ remote.pc = "fetched" => deferred.version <= remote.version
                                /\ remote.version <= server.version
    /\ deferred.version <= server.version
    /\ dialogOpen => dialog.version <= server.version
    /\ poll.answer.version <= server.version

\* What the client holds of the current version is what the server has.
CopiesAreCurrent ==
    /\ \A s \in Slots : save[s].pc = "fetched" /\ save[s].version = server.version
                           => save[s].content = server.content
    /\ remote.pc = "fetched" /\ remote.version = server.version
          => remote.content = server.content
    /\ deferred.version = server.version
          => \A f \in deferredFields : deferred.changes[f] = server.content[f]
    /\ dialog.kind = "save" /\ dialog.version = server.version
          => dialog.content = server.content
    /\ poll.answer.version = server.version => poll.answer.bySelf = server.bySelf

TypeInv == TypeOK /\ VersionsExist /\ CopiesAreCurrent

\* A value that the user has not met is neither on the screen nor in the baseline, so
\* that the next comparison finds it.
NewsIsVisible ==
    \A f \in unseen : store[f] # server.content[f] /\ baseline[f] # server.content[f]

\* Whoever expects or knows the current version leaves only deferred news.
NewsIsExpected ==
    /\ \A s \in Slots :
          /\ save[s].pc = "put" /\ save[s].expected = server.version => unseen = {}
          /\ save[s].pc = "accepted" /\ save[s].version = server.version => unseen = {}
    /\ server.bySelf => unseen = {}
    /\ known = server.version => unseen \subseteq deferredFields
    /\ deferred.version = server.version => unseen \subseteq deferredFields

\* The pending edits that the answer to a dialog replays are not of fields with news.
NewsIsNotReplayed ==
    /\ dialog.kind = "save" /\ dialog.version = server.version
          => \A f \in unseen \cap DOMAIN pending : pending[f] = server.content[f]
    /\ dialog.kind = "deferred" /\ deferred.version = server.version
          => \A f \in unseen \cap deferredFields \cap DOMAIN pending :
                pending[f] = server.content[f]

NewsInv == ~renewed => NewsIsVisible /\ NewsIsExpected /\ NewsIsNotReplayed

\* One save, one remote change or one dialog at a time.
OneAtATime ==
    /\ \A s, t \in Slots : active(s) /\ active(t) => s = t
    /\ savesUnderWay(Slots) => remote.pc # "fetched" /\ ~dialogOpen
    /\ remote.pc = "fetched" => ~dialogOpen
    /\ savesUnderWay(Slots) \/ dialog.kind = "save" => deferred.changes = Nothing
    /\ dialog.kind = "deferred" => deferred.changes # Nothing

\* What a save writes is on the screen, but for later edits; a version made since is
\* a colleague's.
SavesCarryScreen ==
    \A s \in Slots :
       /\ save[s].pc = "put" => \A f \in Fields \ unsent : store[f] = save[s].sent[f]
       /\ save[s].pc = "accepted" /\ save[s].version = server.version
             => \A f \in Fields \ unsent : store[f] = server.content[f]
       /\ save[s].pc \in {"accepted", "fetched"} /\ save[s].version # server.version
             => ~server.bySelf
       /\ mergeSave(s) /\ \/ save[s].pc = "put" /\ save[s].expected # server.version
                          \/ save[s].pc \in {"refused", "fetched"}
             => ~server.bySelf /\ known # server.version

OthersMadeNewer ==
    /\ dialog.kind = "save" /\ dialog.version # server.version => ~server.bySelf
    /\ remote.pc = "fetched" /\ remote.version # server.version => ~server.bySelf
    /\ deferred.changes # Nothing /\ deferred.version # server.version => ~server.bySelf

\* The dialog shows the pending edits and what they conflict with.
DialogShowsConflict ==
    dialogOpen =>
       /\ \A f \in DOMAIN dialog.mine : f \in DOMAIN pending /\ pending[f] = dialog.mine[f]
       /\ dialog.kind = "save" => \A f \in DOMAIN dialog.mine : dialog.content[f] = dialog.theirs[f]
       /\ dialog.kind = "deferred" =>
             /\ DOMAIN pending \subseteq unsent
             /\ \A f \in DOMAIN dialog.mine :
                   f \in deferredFields /\ deferred.changes[f] = dialog.theirs[f]

\* Between saves, screen and baseline differ in the unsent edits only.
BaselineIsScreen ==
    (\A s \in Slots : save[s].pc # "accepted" /\ ~mergeSave(s)) /\ dialog.kind # "save"
    => \A f \in Fields \ unsent : store[f] = baseline[f]

\* Whenever the client knows, made or has deferred the current version.
ScreenAgrees ==
    /\ \A s \in Slots : ~mergeSave(s)
    /\ \/ known = server.version
       \/ server.bySelf
       \/ deferred.changes # Nothing /\ deferred.version = server.version
    => \A f \in Fields \ (unsent \cup deferredFields) : store[f] = server.content[f]

QuietInv ==
    ~disturbed => /\ OneAtATime /\ SavesCarryScreen /\ OthersMadeNewer
                  /\ DialogShowsConflict /\ BaselineIsScreen /\ ScreenAgrees

(***************************************************************************)
(* The changes of a form.                                                  *)
(***************************************************************************)
LEMMA PartialDef == \A p : p \in Partial <=> DOMAIN p \subseteq Fields /\ p \in [DOMAIN p -> Values]
BY DEF Partial

LEMMA NothingIsPartial == Nothing \in Partial /\ DOMAIN Nothing = {}
BY DEF Partial, Nothing

LEMMA OnlyProperties ==
    ASSUME NEW p \in Partial, NEW D
    PROVE  /\ Only(p, D) \in Partial
           /\ DOMAIN Only(p, D) = DOMAIN p \cap D
           /\ \A f \in DOMAIN p \cap D : Only(p, D)[f] = p[f]
<1>1. DOMAIN p \subseteq Fields /\ p \in [DOMAIN p -> Values]
  BY PartialDef
<1>2. Only(p, D) \in [DOMAIN p \cap D -> Values]
  BY <1>1 DEF Only
<1>3. Only(p, D) \in Partial
  BY <1>1, <1>2 DEF Partial
<1> QED
  BY <1>3 DEF Only

LEMMA WithProperties ==
    ASSUME NEW c \in Contents, NEW p \in Partial
    PROVE  /\ With(c, p) \in Contents
           /\ \A f \in Fields : With(c, p)[f] = IF f \in DOMAIN p THEN p[f] ELSE c[f]
<1>1. \A f \in DOMAIN p : p[f] \in Values
  BY PartialDef
<1>2. \A f \in Fields : c[f] \in Values
  BY DEF Contents
<1>3. \A f \in Fields : With(c, p)[f] = IF f \in DOMAIN p THEN p[f] ELSE c[f]
  BY DEF With
<1>4. \A f \in Fields : With(c, p)[f] \in Values
  BY <1>1, <1>2, <1>3
<1>5. With(c, p) \in Contents
  BY <1>4 DEF With, Contents
<1> QED
  BY <1>3, <1>5

LEMMA DiffProperties ==
    ASSUME NEW old \in Contents, NEW new \in Contents
    PROVE  /\ computeFieldDiff(old, new) \in Partial
           /\ DOMAIN computeFieldDiff(old, new) = {f \in Fields : old[f] # new[f]}
           /\ \A f \in DOMAIN computeFieldDiff(old, new) : computeFieldDiff(old, new)[f] = new[f]
           /\ computeFieldDiff(old, new) = Nothing <=> old = new
<1> DEFINE D == {f \in Fields : old[f] # new[f]}
<1>1. new \in Partial /\ DOMAIN new = Fields
  BY DEF Contents, Partial
<1>2. /\ Only(new, D) \in Partial /\ DOMAIN Only(new, D) = D
      /\ \A f \in D : Only(new, D)[f] = new[f]
  <2>1. DOMAIN new \cap D = D
    BY <1>1
  <2> HIDE DEF D
  <2> QED
    BY <1>1, <2>1, OnlyProperties
<1>3. Only(new, D) = Nothing => old = new
  <2> SUFFICES ASSUME Only(new, D) = Nothing PROVE old = new
    OBVIOUS
  <2>1. D = {}
    BY <1>2, NothingIsPartial
  <2> QED
    BY <2>1 DEF Contents
<1>4. old = new => Only(new, D) = Nothing
  BY <1>1, <1>2 DEF Only, Nothing
<1> QED
  BY <1>2, <1>3, <1>4 DEF computeFieldDiff

LEMMA NothingIsEmpty == \A p \in Partial : p = Nothing <=> DOMAIN p = {}
<1> SUFFICES ASSUME NEW p \in Partial PROVE p = Nothing <=> DOMAIN p = {}
  OBVIOUS
<1>1. p = [f \in DOMAIN p |-> p[f]]
  BY PartialDef
<1> QED
  BY <1>1 DEF Nothing

(* What the parts of the client hold, by the step they are at.              *)
LEMMA SaveTypes ==
    ASSUME TypeOK, NEW s \in Slots
    PROVE  /\ save[s].pc \in {"idle", "put", "accepted", "refused", "fetched"}
           /\ active(s) <=> save[s].pc # "idle"
           /\ active(s) => save[s].merge \in BOOLEAN
           /\ save[s].pc = "put" => save[s].expected \in Versions /\ save[s].sent \in Contents
           /\ save[s].pc \in {"accepted", "fetched"} => save[s].version \in Versions
           /\ save[s].pc = "fetched" => save[s].content \in Contents
<1>1. save[s] \in Save \cup {Idle}
  BY DEF TypeOK
<1> QED
  BY <1>1 DEF Save, Idle, active

LEMMA RemoteTypes ==
    ASSUME TypeOK
    PROVE  /\ remote.pc \in {"idle", "waiting", "fetched"}
           /\ remote # Idle <=> remote.pc # "idle"
           /\ remote # Idle => remote.section \in Sections
           /\ remote.pc = "fetched" => remote.version \in Versions /\ remote.content \in Contents
<1>1. remote \in Remote \cup {Idle}
  BY DEF TypeOK
<1> QED
  BY <1>1 DEF Remote, Idle

LEMMA DialogTypes ==
    ASSUME TypeOK
    PROVE  /\ dialog.kind \in {"closed", "save", "deferred"}
           /\ dialogOpen <=> dialog.kind # "closed"
           /\ dialogOpen => /\ dialog.mine \in Partial /\ dialog.theirs \in Partial
                            /\ dialog.version \in Versions /\ dialog.content \in Contents
<1>1. dialog \in Dialog \cup {Closed}
  BY DEF TypeOK
<1> QED
  BY <1>1 DEF Dialog, Closed, dialogOpen

LEMMA AskShows ==
    ASSUME NEW kind \in {"save", "deferred"}, NEW mine \in Partial, NEW theirs \in Partial,
           NEW version \in Versions, NEW content \in Contents,
           Ask(kind, mine, theirs, version, content)
    PROVE  /\ dialog' \in Dialog
           /\ dialog'.kind = kind /\ dialog'.version = version /\ dialog'.content = content
           /\ DOMAIN dialog'.mine = conflictKeys(mine, theirs)
           /\ DOMAIN dialog'.theirs = conflictKeys(mine, theirs)
           /\ \A f \in conflictKeys(mine, theirs) :
                 /\ f \in DOMAIN mine /\ f \in DOMAIN theirs /\ mine[f] # theirs[f]
                 /\ dialog'.mine[f] = mine[f] /\ dialog'.theirs[f] = theirs[f]
<1> DEFINE K == conflictKeys(mine, theirs)
<1>1. \A f \in K : f \in DOMAIN mine /\ f \in DOMAIN theirs /\ mine[f] # theirs[f]
  BY DEF conflictKeys
<1>2. DOMAIN mine \cap K = K /\ DOMAIN theirs \cap K = K
  BY <1>1
<1>3. dialog' = [kind |-> kind, mine |-> Only(mine, K), theirs |-> Only(theirs, K),
                 version |-> version, content |-> content]
  BY DEF Ask
<1> HIDE DEF K
<1>4. /\ Only(mine, K) \in Partial /\ DOMAIN Only(mine, K) = K
      /\ \A f \in K : Only(mine, K)[f] = mine[f]
  BY <1>2, OnlyProperties
<1>5. /\ Only(theirs, K) \in Partial /\ DOMAIN Only(theirs, K) = K
      /\ \A f \in K : Only(theirs, K)[f] = theirs[f]
  BY <1>2, OnlyProperties
<1>6. dialog' \in Dialog
  BY <1>3, <1>4, <1>5 DEF Dialog
<1> QED
  BY <1>1, <1>3, <1>4, <1>5, <1>6 DEF K

(***************************************************************************)
(* Type correctness.                                                       *)
(***************************************************************************)
LEMMA InitTypes == Init => TypeInv
<1> SUFFICES ASSUME Init PROVE TypeInv
  OBVIOUS
<1>1. [f \in Fields |-> Blank] \in Contents
  BY BlankAssumption DEF Contents
<1>2. 1 \in Versions /\ 0 \in 0..MaxEdits /\ 1 \in 1..1
  BY BoundsAssumption DEF Versions
<1>3. \A s \in Slots : save[s] = Idle
  BY DEF Init
<1>4. TypeOK
  <2>1. /\ server \in [version : Versions, content : Contents, bySelf : BOOLEAN]
        /\ store \in Contents /\ baseline \in Contents
        /\ known \in 1..server.version
    BY <1>1, <1>2 DEF Init
  <2>2. save \in [Slots -> Save \cup {Idle}] /\ remote \in Remote \cup {Idle}
    BY DEF Init
  <2>3. pending \in Partial /\ deferred \in [changes : Partial, version : Versions]
    BY <1>2, NothingIsPartial DEF Init, NoneDeferred
  <2>4. poll \in [seen : Versions, answer : {NoAnswer} \cup [version : Versions, bySelf : BOOLEAN]]
    BY <1>2 DEF Init
  <2>5. /\ dialog \in Dialog \cup {Closed} /\ ~dialogOpen
        /\ section \in Sections /\ edits \in 0..MaxEdits
        /\ unseen \subseteq Fields /\ unsent \subseteq Fields
    BY <1>2 DEF Init, dialogOpen
  <2>6. armed \in BOOLEAN /\ disturbed \in BOOLEAN /\ renewed \in BOOLEAN
    BY DEF Init
  <2> QED
    BY <2>1, <2>2, <2>3, <2>4, <2>5, <2>6 DEF TypeOK
<1>5. /\ \A s \in Slots : save[s].pc = "idle"
      /\ remote.pc = "idle" /\ dialog.kind = "closed" /\ ~dialogOpen
      /\ server.version = 1 /\ deferred.version = 1 /\ poll.answer.version = 0
      /\ deferredFields = {}
  BY <1>3, NothingIsPartial
     DEF Init, NoneDeferred, Idle, Closed, NoAnswer, dialogOpen, deferredFields
<1>6. VersionsExist /\ CopiesAreCurrent
  BY <1>5 DEF VersionsExist, CopiesAreCurrent
<1> QED
  BY <1>4, <1>6 DEF TypeInv

(* A step that changes one save leaves the others.                          *)
LEMMA SaveUpdate ==
    ASSUME TypeOK, NEW s \in Slots, NEW r \in Save \cup {Idle}, save' = [save EXCEPT ![s] = r]
    PROVE  /\ save' \in [Slots -> Save \cup {Idle}]
           /\ save'[s] = r
           /\ \A t \in Slots \ {s} : save'[t] = save[t]
BY DEF TypeOK

(* The histories stay sets of fields.                                       *)
LEMMA HistoryTypes ==
    ASSUME TypeOK, NEW fields, NEW keep, Meet(fields, keep)
    PROVE  unseen' \subseteq Fields /\ unsent' \subseteq Fields
BY DEF TypeOK, Meet

(* Each group of actions keeps the types.                                   *)
LEMMA ServerTypes ==
    ASSUME TypeInv,
           \/ \E f \in Fields, v \in Values : ColleagueSaves(f, v)
           \/ \E s \in Slots : ServerRefuses(s) \/ ServerAccepts(s)
           \/ PollRead
    PROVE  TypeOK'
<1>1. MaxVersion \in Nat /\ server.version \in 1..MaxVersion /\ server.content \in Contents
  BY BoundsAssumption DEF TypeInv, TypeOK, Versions
<1>2. ASSUME NEW f \in Fields, NEW v \in Values, ColleagueSaves(f, v) PROVE TypeOK'
  <2>1. server' \in [version : Versions, content : Contents, bySelf : BOOLEAN]
        /\ server'.version = server.version + 1
    BY <1>1, <1>2 DEF ColleagueSaves, Versions, Contents
  <2>2. known' \in 1..server'.version
    BY <1>1, <1>2, <2>1 DEF ColleagueSaves, form, TypeInv, TypeOK
  <2> QED
    BY <1>2, <2>1, <2>2 DEF ColleagueSaves, form, TypeInv, TypeOK, dialogOpen
<1>3. ASSUME NEW s \in Slots, ServerRefuses(s) PROVE TypeOK'
  <2>1. save[s].merge \in BOOLEAN
    BY <1>3, SaveTypes DEF ServerRefuses, TypeInv
  <2>2. [pc |-> "refused", merge |-> save[s].merge] \in Save \cup {Idle}
    BY <2>1 DEF Save
  <2>3. save' \in [Slots -> Save \cup {Idle}]
    BY <1>3, <2>2, SaveUpdate DEF ServerRefuses, TypeInv
  <2> QED
    BY <1>3, <2>3 DEF ServerRefuses, form, history, TypeInv, TypeOK, dialogOpen
<1>4. ASSUME NEW s \in Slots, ServerAccepts(s) PROVE TypeOK'
  <2>1. save[s].merge \in BOOLEAN /\ save[s].sent \in Contents
    BY <1>4, SaveTypes DEF ServerAccepts, TypeInv
  <2>2. /\ server' \in [version : Versions, content : Contents, bySelf : BOOLEAN]
        /\ server'.version \in Versions /\ server'.version >= server.version
    <3>1. CASE UNCHANGED server
      BY <1>1, <3>1 DEF Versions, TypeInv, TypeOK
    <3>2. CASE /\ server.version < MaxVersion
               /\ server' = [version |-> server.version + 1, content |-> save[s].sent,
                             bySelf |-> TRUE]
      BY <1>1, <2>1, <3>2 DEF Versions
    <3> QED
      BY <1>4, <3>1, <3>2 DEF ServerAccepts
  <2>3. [pc |-> "accepted", version |-> server'.version, merge |-> save[s].merge]
           \in Save \cup {Idle}
    BY <2>1, <2>2 DEF Save
  <2>4. save' \in [Slots -> Save \cup {Idle}]
    BY <1>4, <2>3, SaveUpdate DEF ServerAccepts, TypeInv
  <2>5. known' \in 1..server'.version
    BY <1>1, <1>4, <2>2 DEF ServerAccepts, form, Versions, TypeInv, TypeOK
  <2> QED
    BY <1>4, <2>2, <2>4, <2>5 DEF ServerAccepts, form, TypeInv, TypeOK, dialogOpen
<1>5. CASE PollRead
  <2>1. poll' \in [seen : Versions,
                   answer : {NoAnswer} \cup [version : Versions, bySelf : BOOLEAN]]
    BY <1>1, <1>5 DEF PollRead, Versions, TypeInv, TypeOK
  <2> QED
    BY <1>5, <2>1 DEF PollRead, form, history, TypeInv, TypeOK, dialogOpen
<1> QED
  BY <1>2, <1>3, <1>4, <1>5

LEMMA UserTypes ==
    ASSUME TypeInv,
           \/ \E f \in Fields, v \in Values : Edit(f, v)
           \/ \E to \in Sections : Navigate(to)
    PROVE  TypeOK'
<1>1. ASSUME NEW f \in Fields, NEW v \in Values, Edit(f, v) PROVE TypeOK'
  <2>1. store' \in Contents /\ edits' \in 0..MaxEdits
    BY <1>1, BoundsAssumption DEF Edit, Contents, TypeInv, TypeOK
  <2> QED
    BY <1>1, <2>1 DEF Edit, TypeInv, TypeOK, dialogOpen
<1>2. ASSUME NEW to \in Sections, Navigate(to) PROVE TypeOK'
  <2>1. CASE deferred.changes = Nothing
    BY <1>2, <2>1 DEF Navigate, TypeInv, TypeOK, dialogOpen
  <2>2. CASE deferred.changes # Nothing
    <3>1. store' \in Contents /\ baseline' \in Contents
      BY <1>2, <2>2, WithProperties DEF Navigate, TypeInv, TypeOK
    <3>2. known' \in 1..server.version
      BY <1>2, <2>2, BoundsAssumption DEF Navigate, Versions, VersionsExist, TypeInv, TypeOK
    <3>3. deferred' \in [changes : Partial, version : Versions]
      BY <1>2, <2>2, NothingIsPartial DEF Navigate, NoneDeferred, TypeInv, TypeOK
    <3>4. unseen' \subseteq Fields /\ unsent' \subseteq Fields
      BY <1>2, <2>2, HistoryTypes DEF Navigate, TypeInv
    <3> QED
      BY <1>2, <2>2, <3>1, <3>2, <3>3, <3>4 DEF Navigate, TypeInv, TypeOK, dialogOpen
  <2> QED
    BY <2>1, <2>2
<1> QED
  BY <1>1, <1>2

LEMMA DeferredTypes ==
    ASSUME TypeInv, NEW b \in BOOLEAN, ApplyDeferred(b),
           UNCHANGED <<server, save, remote, poll, section, edits>>
    PROVE  TypeOK'
<1> DEFINE mine == computeFieldDiff(baseline, store)
           theirs == deferred.changes
<1>1. /\ mine \in Partial /\ theirs \in Partial /\ deferred.version \in Versions
      /\ store \in Contents /\ baseline \in Contents
  BY DiffProperties DEF TypeInv, TypeOK
<1>2. pending' = mine /\ disturbed' \in BOOLEAN /\ renewed' \in BOOLEAN
  BY DEF ApplyDeferred, Overlap, Renew, TypeInv, TypeOK
<1>3. CASE /\ store' = With(With(store, theirs), mine)
           /\ known' = deferred.version
           /\ baseline' = store'
           /\ deferred' = NoneDeferred(deferred.version)
           /\ armed' = TRUE
           /\ Meet(DOMAIN theirs, DOMAIN mine)
           /\ UNCHANGED dialog
  <2>1. store' \in Contents
    BY <1>1, <1>3, WithProperties
  <2>2. known' \in 1..server.version
    BY <1>1, <1>3, BoundsAssumption DEF Versions, VersionsExist, TypeInv, TypeOK
  <2>3. deferred' \in [changes : Partial, version : Versions]
    BY <1>1, <1>3, NothingIsPartial DEF NoneDeferred
  <2>4. unseen' \subseteq Fields /\ unsent' \subseteq Fields
    BY <1>3, HistoryTypes DEF TypeInv
  <2> QED
    BY <1>1, <1>2, <1>3, <2>1, <2>2, <2>3, <2>4 DEF TypeInv, TypeOK, dialogOpen
<1>4. CASE /\ Ask("deferred", mine, theirs, deferred.version, baseline)
           /\ armed' = b
           /\ Show(dialog'.theirs)
           /\ UNCHANGED <<store, known, baseline, deferred, unsent>>
  <2> HIDE DEF mine, theirs
  <2>1. /\ dialog' \in Dialog /\ DOMAIN dialog'.mine = DOMAIN dialog'.theirs
        /\ \A f \in DOMAIN dialog'.mine : dialog'.mine[f] # dialog'.theirs[f]
    BY <1>1, <1>4, AskShows
  <2>2. unseen' \subseteq Fields
    BY <1>4 DEF Show, TypeInv, TypeOK
  <2> QED
    BY <1>1, <1>2, <1>4, <2>1, <2>2 DEF TypeInv, TypeOK, dialogOpen
<1> QED
  BY <1>3, <1>4 DEF ApplyDeferred

LEMMA SaveStepTypes ==
    ASSUME TypeInv, NEW s \in Slots,
           \/ SaveStart(s) \/ SaveAccepted(s) \/ SaveFails(s)
           \/ ConflictFetch(s) \/ ConflictMerge(s) \/ ConflictAsk(s)
    PROVE  TypeOK'
<1>1. /\ store \in Contents /\ baseline \in Contents /\ pending \in Partial
      /\ known \in Versions /\ server.version \in Versions /\ server.content \in Contents
  BY BoundsAssumption DEF Versions, TypeInv, TypeOK
<1>2. CASE SaveStart(s)
  <2>1. [pc |-> "put", expected |-> known, sent |-> store, merge |-> FALSE] \in Save \cup {Idle}
    BY <1>1 DEF Save
  <2>2. save' \in [Slots -> Save \cup {Idle}]
    BY <1>2, <2>1, SaveUpdate DEF SaveStart, Put, TypeInv
  <2>3. pending' \in Partial
    BY <1>1, <1>2, DiffProperties DEF SaveStart
  <2>4. disturbed' \in BOOLEAN /\ renewed' \in BOOLEAN /\ armed' \in BOOLEAN
    BY <1>2 DEF SaveStart, Overlap, Renew, TypeInv, TypeOK
  <2> QED
    BY <1>2, <2>2, <2>3, <2>4 DEF SaveStart, TypeInv, TypeOK, dialogOpen
<1>3. CASE SaveAccepted(s)
  <2>1. save' \in [Slots -> Save \cup {Idle}]
    BY <1>3, SaveUpdate DEF SaveAccepted, TypeInv
  <2>2. known' \in 1..server.version
    BY <1>1, <1>3, SaveTypes, BoundsAssumption DEF SaveAccepted, Versions, VersionsExist, TypeInv
  <2> QED
    BY <1>3, <2>1, <2>2, NothingIsPartial DEF SaveAccepted, history, TypeInv, TypeOK, dialogOpen
<1>4. CASE SaveFails(s)
  <2>1. save' \in [Slots -> Save \cup {Idle}]
    BY <1>4, SaveUpdate DEF SaveFails, TypeInv
  <2>2. disturbed' \in BOOLEAN
    BY <1>4 DEF SaveFails
  <2> QED
    BY <1>4, <2>1, <2>2 DEF SaveFails, form, TypeInv, TypeOK, dialogOpen
<1>5. CASE ConflictFetch(s)
  <2>1. save[s].merge \in BOOLEAN
    BY <1>5, SaveTypes DEF ConflictFetch, TypeInv
  <2>2. [pc |-> "fetched", version |-> server.version, content |-> server.content,
         merge |-> save[s].merge] \in Save \cup {Idle}
    BY <1>1, <2>1 DEF Save
  <2>3. save' \in [Slots -> Save \cup {Idle}]
    BY <1>5, <2>2, SaveUpdate DEF ConflictFetch, TypeInv
  <2> QED
    BY <1>5, <2>3 DEF ConflictFetch, history, TypeInv, TypeOK, dialogOpen
<1>6. CASE ConflictMerge(s)
  <2>1. save[s].version \in Versions /\ save[s].content \in Contents
    BY <1>6, SaveTypes DEF ConflictMerge, TypeInv
  <2>2. store' \in Contents
    BY <1>1, <1>6, <2>1, WithProperties DEF ConflictMerge, mergedWith
  <2>3. known' \in 1..server.version
    BY <1>6, <2>1, BoundsAssumption
       DEF ConflictMerge, Versions, VersionsExist, TypeInv, TypeOK
  <2>4. [pc |-> "put", expected |-> save[s].version, sent |-> store', merge |-> TRUE]
           \in Save \cup {Idle}
    BY <2>1, <2>2 DEF Save
  <2>5. save' \in [Slots -> Save \cup {Idle}]
    BY <1>6, <2>4, SaveUpdate DEF ConflictMerge, Put, TypeInv
  <2>6. disturbed' \in BOOLEAN /\ armed' \in BOOLEAN
    BY <1>6 DEF ConflictMerge, Overlap, TypeInv, TypeOK
  <2>7. unseen' \subseteq Fields /\ unsent' \subseteq Fields
    BY <1>6, HistoryTypes DEF ConflictMerge, TypeInv
  <2> QED
    BY <1>6, <2>2, <2>3, <2>5, <2>6, <2>7 DEF ConflictMerge, TypeInv, TypeOK, dialogOpen
<1>7. CASE ConflictAsk(s)
  <2> DEFINE theirs == computeFieldDiff(baseline, save[s].content)
  <2>1. save[s].version \in Versions /\ save[s].content \in Contents
    BY <1>7, SaveTypes DEF ConflictAsk, TypeInv
  <2>2. theirs \in Partial
    BY <1>1, <2>1, DiffProperties
  <2>3. Ask("save", pending, theirs, save[s].version, save[s].content)
    BY <1>7 DEF ConflictAsk
  <2> HIDE DEF theirs
  <2>4. /\ dialog' \in Dialog /\ DOMAIN dialog'.mine = DOMAIN dialog'.theirs
        /\ \A f \in DOMAIN dialog'.mine : dialog'.mine[f] # dialog'.theirs[f]
    BY <1>1, <2>1, <2>2, <2>3, AskShows
  <2>5. unseen' \subseteq Fields
    BY <1>7 DEF ConflictAsk, Show, TypeInv, TypeOK
  <2>6. save' \in [Slots -> Save \cup {Idle}]
    BY <1>7, SaveUpdate DEF ConflictAsk, TypeInv
  <2> QED
    BY <1>7, <2>4, <2>5, <2>6 DEF ConflictAsk, form, TypeInv, TypeOK, dialogOpen
<1> QED
  BY <1>2, <1>3, <1>4, <1>5, <1>6, <1>7

LEMMA ResolveTypes ==
    ASSUME TypeInv, NEW chosen \in SUBSET Fields,
           ResolveDeferred(chosen) \/ \E s \in Slots : ResolveSave(s, chosen)
    PROVE  TypeOK'
<1>1. pending \in Partial /\ store \in Contents /\ deferred \in [changes : Partial, version : Versions]
  BY DEF TypeInv, TypeOK
<1>2. Only(pending, kept(chosen)) \in Partial
  BY <1>1, OnlyProperties
<1>3. ASSUME NEW s \in Slots, ResolveSave(s, chosen) PROVE TypeOK'
  <2>1. dialog.version \in Versions /\ dialog.content \in Contents /\ dialogOpen
    BY <1>3, DialogTypes DEF ResolveSave, TypeInv
  <2>2. store' \in Contents
    BY <1>2, <1>3, <2>1, WithProperties DEF ResolveSave
  <2>3. known' \in 1..server.version
    BY <1>3, <2>1, BoundsAssumption DEF ResolveSave, Versions, VersionsExist, TypeInv, TypeOK
  <2>4. [pc |-> "put", expected |-> dialog.version, sent |-> store', merge |-> TRUE]
           \in Save \cup {Idle}
    BY <2>1, <2>2 DEF Save
  <2>5. save' \in [Slots -> Save \cup {Idle}]
    BY <1>3, <2>4, SaveUpdate DEF ResolveSave, Put, TypeInv
  <2>6. disturbed' \in BOOLEAN /\ armed' \in BOOLEAN
    BY <1>3 DEF ResolveSave, Overlap, TypeInv, TypeOK
  <2>7. unseen' \subseteq Fields /\ unsent' \subseteq Fields
    BY <1>3, HistoryTypes DEF ResolveSave, TypeInv
  <2> QED
    BY <1>3, <2>2, <2>3, <2>5, <2>6, <2>7 DEF ResolveSave, TypeInv, TypeOK, dialogOpen
<1>4. CASE ResolveDeferred(chosen)
  <2>1. store' \in Contents
    BY <1>1, <1>2, <1>4, WithProperties DEF ResolveDeferred
  <2>2. known' \in 1..server.version
    BY <1>1, <1>4, BoundsAssumption DEF ResolveDeferred, Versions, VersionsExist, TypeInv, TypeOK
  <2>3. deferred' \in [changes : Partial, version : Versions]
    BY <1>1, <1>4, NothingIsPartial DEF ResolveDeferred, NoneDeferred
  <2>4. unseen' \subseteq Fields /\ unsent' \subseteq Fields
    BY <1>4, HistoryTypes DEF ResolveDeferred, TypeInv
  <2> QED
    BY <1>4, <2>1, <2>2, <2>3, <2>4, NothingIsPartial
       DEF ResolveDeferred, TypeInv, TypeOK, dialogOpen
<1> QED
  BY <1>3, <1>4

LEMMA RemoteStepTypes ==
    ASSUME TypeInv,
           \/ PollAnswer \/ RemoteFetch \/ RemoteNothing \/ RemoteApply \/ RemoteFails
    PROVE  TypeOK'
<1>1. /\ store \in Contents /\ baseline \in Contents /\ server.content \in Contents
      /\ server.version \in Versions /\ section \in Sections
  BY DEF TypeInv, TypeOK
<1>2. CASE PollAnswer
  <2>1. poll.answer \in [version : Versions, bySelf : BOOLEAN]
    BY <1>2 DEF PollAnswer, TypeInv, TypeOK
  <2>2. poll' \in [seen : Versions,
                   answer : {NoAnswer} \cup [version : Versions, bySelf : BOOLEAN]]
    BY <1>2, <2>1 DEF PollAnswer
  <2>3. known' \in 1..server.version
    BY <1>2, <2>1, BoundsAssumption DEF PollAnswer, Versions, VersionsExist, TypeInv, TypeOK
  <2>4. remote' \in Remote \cup {Idle} /\ armed' \in BOOLEAN
    <3>1. remote' = remote \/ remote' = [pc |-> "waiting", section |-> section]
      BY <1>2 DEF PollAnswer
    <3>2. [pc |-> "waiting", section |-> section] \in Remote
      BY <1>1 DEF Remote
    <3>3. armed' = armed \/ armed' = FALSE
      BY <1>2 DEF PollAnswer
    <3> QED
      BY <3>1, <3>2, <3>3 DEF TypeInv, TypeOK
  <2> QED
    BY <1>2, <2>2, <2>3, <2>4 DEF PollAnswer, history, TypeInv, TypeOK, dialogOpen
<1>3. CASE RemoteFetch
  <2>1. remote' \in Remote
    BY <1>1, <1>3, RemoteTypes DEF RemoteFetch, Remote, Idle, TypeInv
  <2>2. disturbed' \in BOOLEAN
    BY <1>3 DEF RemoteFetch, Overlap
  <2> QED
    BY <1>3, <2>1, <2>2 DEF RemoteFetch, form, TypeInv, TypeOK, dialogOpen
<1>4. CASE RemoteNothing
  <2>1. known' \in 1..server.version
    BY <1>4, RemoteTypes, BoundsAssumption DEF RemoteNothing, Versions, VersionsExist, TypeInv, TypeOK
  <2> QED
    BY <1>4, <2>1 DEF RemoteNothing, history, TypeInv, TypeOK, dialogOpen
<1>5. CASE RemoteApply
  <2> DEFINE theirs == computeFieldDiff(baseline, remote.content)
             onScreen == {f \in DOMAIN theirs : sectionOf[f] = remote.section}
             background == DOMAIN theirs \ onScreen
  <2>1. remote.version \in Versions /\ remote.content \in Contents
    BY <1>5, RemoteTypes DEF RemoteApply, TypeInv
  <2>2. theirs \in Partial
    BY <1>1, <2>1, DiffProperties
  <2>3. /\ store' = With(store, Only(theirs, background))
        /\ armed' = (armed \/ background # {})
        /\ deferred' = IF onScreen = {} THEN deferred
                       ELSE [changes |-> Only(theirs, onScreen), version |-> remote.version]
        /\ Meet(background, {})
    BY <1>5 DEF RemoteApply
  <2> HIDE DEF theirs, onScreen, background
  <2>4. Only(theirs, background) \in Partial /\ Only(theirs, onScreen) \in Partial
    BY <2>2, OnlyProperties
  <2>5. store' \in Contents /\ baseline' \in Contents
    BY <1>1, <1>5, <2>3, <2>4, WithProperties DEF RemoteApply
  <2>6. deferred' \in [changes : Partial, version : Versions]
    BY <2>1, <2>3, <2>4 DEF TypeInv, TypeOK
  <2>7. known' \in 1..server.version
    BY <1>5, <2>1, BoundsAssumption DEF RemoteApply, Versions, VersionsExist, TypeInv, TypeOK
  <2>8. unseen' \subseteq Fields /\ unsent' \subseteq Fields
    BY <2>3, HistoryTypes DEF TypeInv
  <2>9. armed' \in BOOLEAN /\ pending' \in Partial /\ remote' = Idle
    BY <1>5, <2>3, NothingIsPartial DEF RemoteApply
  <2> QED
    BY <1>5, <2>5, <2>6, <2>7, <2>8, <2>9 DEF RemoteApply, TypeInv, TypeOK, dialogOpen
<1>6. CASE RemoteFails
  BY <1>6 DEF RemoteFails, form, history, TypeInv, TypeOK, dialogOpen
<1> QED
  BY <1>2, <1>3, <1>4, <1>5, <1>6

LEMMA TypesStep == TypeInv /\ [Next]_vars => TypeOK'
<1> SUFFICES ASSUME TypeInv, [Next]_vars PROVE TypeOK'
  OBVIOUS
<1>1. CASE Update
  <2>1. armed \in BOOLEAN
    BY DEF TypeInv, TypeOK
  <2> QED
    BY <1>1, <2>1, DeferredTypes DEF Update
<1>2. CASE SaveDeferredFirst
  BY <1>2, DeferredTypes DEF SaveDeferredFirst
<1>3. CASE SaveNothing
  <2>1. disturbed' \in BOOLEAN
    BY <1>3 DEF SaveNothing, Overlap
  <2> QED
    BY <1>3, <2>1, NothingIsPartial DEF SaveNothing, TypeInv, TypeOK, dialogOpen
<1>4. CASE UNCHANGED vars
  BY <1>4 DEF vars, form, history, TypeInv, TypeOK, dialogOpen
<1> QED
  BY <1>1, <1>2, <1>3, <1>4, ServerTypes, UserTypes, SaveStepTypes, ResolveTypes,
     RemoteStepTypes DEF Next

(* The version of the server only grows, and a changed content is a new one. *)
LEMMA ServerGrows ==
    ASSUME TypeInv, [Next]_vars
    PROVE  /\ server.version \in Nat /\ server'.version \in Nat
           /\ server'.version >= server.version
           /\ server'.version = server.version => server' = server
<1>1. server.version \in Nat /\ server \in [version : Versions, content : Contents, bySelf : BOOLEAN]
  BY BoundsAssumption DEF Versions, TypeInv, TypeOK
<1>2. ASSUME NEW f \in Fields, NEW v \in Values, ColleagueSaves(f, v)
      PROVE  server'.version = server.version + 1
  BY <1>2 DEF ColleagueSaves
<1>3. ASSUME NEW s \in Slots, ServerAccepts(s)
      PROVE  server' = server \/ server'.version = server.version + 1
  BY <1>3 DEF ServerAccepts
<1>4. \/ server' = server
      \/ \E f \in Fields, v \in Values : ColleagueSaves(f, v)
      \/ \E s \in Slots : ServerAccepts(s)
  BY DEF Next, vars, Edit, ServerRefuses, SaveStart, SaveAccepted, SaveFails, ConflictFetch,
         ConflictMerge, ConflictAsk, ResolveSave, ResolveDeferred, Navigate, Update,
         SaveDeferredFirst, SaveNothing, PollRead, PollAnswer, RemoteFetch, RemoteNothing,
         RemoteApply, RemoteFails
<1> QED
  BY <1>1, <1>2, <1>3, <1>4

(* What a save becomes in one step.                                         *)
LEMMA SaveChanges ==
    ASSUME TypeInv, [Next]_vars, NEW s \in Slots
    PROVE  \/ save'[s] = save[s]
           \/ save'[s] = Idle
           \/ ServerRefuses(s) \/ ServerAccepts(s) \/ SaveStart(s)
           \/ ConflictFetch(s) \/ ConflictMerge(s)
           \/ \E chosen \in SUBSET Fields : ResolveSave(s, chosen)
<1>1. ASSUME NEW t \in Slots, NEW r, save' = [save EXCEPT ![t] = r]
      PROVE  t = s \/ save'[s] = save[s]
  BY <1>1 DEF TypeInv, TypeOK
<1>2. ASSUME NEW t \in Slots, save' = [save EXCEPT ![t] = Idle]
      PROVE  save'[s] = save[s] \/ save'[s] = Idle
  BY <1>2 DEF TypeInv, TypeOK
<1>3. \/ save' = save
      \/ \E t \in Slots : SaveAccepted(t) \/ SaveFails(t) \/ ConflictAsk(t)
      \/ \E t \in Slots : ServerRefuses(t) \/ ServerAccepts(t) \/ SaveStart(t)
                        \/ ConflictFetch(t) \/ ConflictMerge(t)
      \/ \E t \in Slots, chosen \in SUBSET Fields : ResolveSave(t, chosen)
  BY DEF Next, vars, Edit, ColleagueSaves, ResolveDeferred, Navigate, Update,
         SaveDeferredFirst, SaveNothing, PollRead, PollAnswer, RemoteFetch, RemoteNothing,
         RemoteApply, RemoteFails
<1>4. ASSUME NEW t \in Slots, SaveAccepted(t) \/ SaveFails(t) \/ ConflictAsk(t)
      PROVE  save'[s] = save[s] \/ save'[s] = Idle
  BY <1>2, <1>4 DEF SaveAccepted, SaveFails, ConflictAsk
<1>5. ASSUME NEW t \in Slots, \/ ServerRefuses(t) \/ ServerAccepts(t) \/ SaveStart(t)
                              \/ ConflictFetch(t) \/ ConflictMerge(t)
      PROVE  t = s \/ save'[s] = save[s]
  BY <1>1, <1>5 DEF ServerRefuses, ServerAccepts, SaveStart, ConflictFetch, ConflictMerge, Put
<1>6. ASSUME NEW t \in Slots, NEW chosen \in SUBSET Fields, ResolveSave(t, chosen)
      PROVE  t = s \/ save'[s] = save[s]
  BY <1>1, <1>6 DEF ResolveSave, Put
<1> QED
  BY <1>3, <1>4, <1>5, <1>6

(* What a save holds after the step that changed it.                        *)
LEMMA SaveChanged ==
    ASSUME TypeInv, NEW s \in Slots
    PROVE  /\ ServerRefuses(s) => save'[s].pc = "refused" /\ save'[s].merge = save[s].merge
           /\ ServerAccepts(s) => /\ save'[s].pc = "accepted" /\ save'[s].merge = save[s].merge
                                 /\ save'[s].version = server'.version
           /\ SaveStart(s) => /\ save'[s].pc = "put" /\ save'[s].merge = FALSE
                             /\ save'[s].expected = known /\ save'[s].sent = store
           /\ ConflictFetch(s) => /\ save'[s].pc = "fetched" /\ save'[s].merge = save[s].merge
                                 /\ save'[s].version = server.version
                                 /\ save'[s].content = server.content
           /\ ConflictMerge(s) => /\ save'[s].pc = "put" /\ save'[s].merge = TRUE
                                 /\ save'[s].expected = save[s].version
                                 /\ save'[s].sent = store'
<1>1. ASSUME NEW r, save' = [save EXCEPT ![s] = r] PROVE save'[s] = r
  BY <1>1 DEF TypeInv, TypeOK
<1> QED
  BY <1>1 DEF ServerRefuses, ServerAccepts, SaveStart, ConflictFetch, ConflictMerge, Put

LEMMA SaveResolved ==
    ASSUME TypeInv, NEW s \in Slots, NEW chosen, ResolveSave(s, chosen)
    PROVE  /\ save'[s].pc = "put" /\ save'[s].merge = TRUE
           /\ save'[s].expected = dialog.version /\ save'[s].sent = store'
<1>1. ASSUME NEW r, save' = [save EXCEPT ![s] = r] PROVE save'[s] = r
  BY <1>1 DEF TypeInv, TypeOK
<1> QED
  BY <1>1 DEF ResolveSave, Put

(* What the other parts of the client become in one step.                   *)
LEMMA RemoteChanges ==
    ASSUME [Next]_vars
    PROVE  \/ remote' = remote
           \/ remote'.pc \in {"idle", "waiting"}
           \/ RemoteFetch
<1>1. PollAnswer => remote' = remote \/ remote'.pc = "waiting"
  BY DEF PollAnswer
<1>2. RemoteNothing \/ RemoteApply \/ RemoteFails => remote'.pc = "idle"
  BY DEF RemoteNothing, RemoteApply, RemoteFails, Idle
<1> QED
  BY <1>1, <1>2
     DEF Next, vars, Edit, ColleagueSaves, ServerRefuses, ServerAccepts, SaveStart,
         SaveAccepted, SaveFails, ConflictFetch, ConflictMerge, ConflictAsk, ResolveSave,
         ResolveDeferred, Navigate, Update, SaveDeferredFirst, SaveNothing, PollRead

LEMMA PollChanges ==
    ASSUME [Next]_vars
    PROVE  \/ poll' = poll
           \/ poll'.answer = NoAnswer
           \/ poll'.answer = [version |-> server.version, bySelf |-> server.bySelf]
              /\ UNCHANGED server
<1>1. PollRead => poll'.answer = [version |-> server.version, bySelf |-> server.bySelf]
                  /\ UNCHANGED server
  BY DEF PollRead
<1>2. PollAnswer => poll'.answer = NoAnswer
  BY DEF PollAnswer
<1> QED
  BY <1>1, <1>2
     DEF Next, vars, Edit, ColleagueSaves, ServerRefuses, ServerAccepts, SaveStart,
         SaveAccepted, SaveFails, ConflictFetch, ConflictMerge, ConflictAsk, ResolveSave,
         ResolveDeferred, Navigate, Update, SaveDeferredFirst, SaveNothing, RemoteFetch,
         RemoteNothing, RemoteApply, RemoteFails

AskedBySave(s) ==
    ConflictAsk(s) /\ dialog'.kind = "save" /\ dialog'.version = save[s].version
                   /\ dialog'.content = save[s].content

AskedByDeferred == dialog'.kind = "deferred" /\ dialog'.version = deferred.version

LEMMA DialogChanges ==
    ASSUME [Next]_vars
    PROVE  \/ dialog' = dialog
           \/ dialog' = Closed
           \/ \E s \in Slots : AskedBySave(s)
           \/ AskedByDeferred
<1>1. ASSUME NEW s \in Slots, ConflictAsk(s) PROVE AskedBySave(s)
  BY <1>1 DEF ConflictAsk, Ask, AskedBySave
<1>2. ASSUME NEW b, ApplyDeferred(b) PROVE dialog' = dialog \/ AskedByDeferred
  BY <1>2 DEF ApplyDeferred, Ask, AskedByDeferred
<1>3. ASSUME NEW chosen, ResolveDeferred(chosen) \/ \E s \in Slots : ResolveSave(s, chosen)
      PROVE  dialog' = Closed
  BY <1>3 DEF ResolveDeferred, ResolveSave
<1>4. Update \/ SaveDeferredFirst => dialog' = dialog \/ AskedByDeferred
  BY <1>2 DEF Update, SaveDeferredFirst
<1> QED
  BY <1>1, <1>3, <1>4
     DEF Next, vars, Edit, ColleagueSaves, ServerRefuses, ServerAccepts, SaveStart,
         SaveAccepted, SaveFails, ConflictFetch, ConflictMerge, Navigate, SaveNothing,
         PollRead, PollAnswer, RemoteFetch, RemoteNothing, RemoteApply, RemoteFails

DeferredByRemote ==
    /\ RemoteApply
    /\ deferred'.version = remote.version
    /\ \A f \in DOMAIN deferred'.changes :
          /\ f \in Fields /\ baseline[f] # remote.content[f]
          /\ deferred'.changes[f] = remote.content[f]

LEMMA DeferredChanges ==
    ASSUME TypeInv, [Next]_vars
    PROVE  \/ deferred' = deferred
           \/ deferred'.changes = Nothing /\ deferred'.version = deferred.version
           \/ DeferredByRemote
<1>1. ASSUME NEW b, ApplyDeferred(b)
      PROVE  deferred' = deferred \/ deferred' = NoneDeferred(deferred.version)
  BY <1>1 DEF ApplyDeferred
<1>2. ASSUME NEW to, Navigate(to)
      PROVE  deferred' = deferred \/ deferred' = NoneDeferred(deferred.version)
  BY <1>2 DEF Navigate
<1>3. ASSUME NEW chosen, ResolveDeferred(chosen)
      PROVE  deferred' = NoneDeferred(deferred.version)
  BY <1>3 DEF ResolveDeferred
<1>4. Update \/ SaveDeferredFirst
         => deferred' = deferred \/ deferred' = NoneDeferred(deferred.version)
  BY <1>1 DEF Update, SaveDeferredFirst
<1>5. ASSUME RemoteApply PROVE deferred' = deferred \/ DeferredByRemote
  <2> DEFINE theirs == computeFieldDiff(baseline, remote.content)
             onScreen == {f \in DOMAIN theirs : sectionOf[f] = remote.section}
  <2>1. baseline \in Contents /\ remote.content \in Contents
    BY <1>5, RemoteTypes DEF RemoteApply, TypeInv, TypeOK
  <2>2. /\ theirs \in Partial
        /\ DOMAIN theirs = {f \in Fields : baseline[f] # remote.content[f]}
        /\ \A f \in DOMAIN theirs : theirs[f] = remote.content[f]
    BY <2>1, DiffProperties
  <2>3. \/ deferred' = deferred
        \/ deferred' = [changes |-> Only(theirs, onScreen), version |-> remote.version]
    BY <1>5 DEF RemoteApply
  <2> HIDE DEF theirs, onScreen
  <2>4. /\ DOMAIN Only(theirs, onScreen) \subseteq DOMAIN theirs
        /\ \A f \in DOMAIN Only(theirs, onScreen) : Only(theirs, onScreen)[f] = theirs[f]
    <3>1. /\ DOMAIN Only(theirs, onScreen) = DOMAIN theirs \cap onScreen
          /\ \A f \in DOMAIN theirs \cap onScreen : Only(theirs, onScreen)[f] = theirs[f]
      BY <2>2, OnlyProperties
    <3> QED
      BY <3>1
  <2> QED
    BY <1>5, <2>2, <2>3, <2>4 DEF DeferredByRemote
<1>6. deferred' = NoneDeferred(deferred.version)
         => deferred'.changes = Nothing /\ deferred'.version = deferred.version
  BY DEF NoneDeferred
<1> QED
  BY <1>2, <1>3, <1>4, <1>5, <1>6
     DEF Next, vars, form, Edit, ColleagueSaves, ServerRefuses, ServerAccepts, SaveStart,
         SaveAccepted, SaveFails, ConflictFetch, ConflictMerge, ConflictAsk, ResolveSave,
         SaveNothing, PollRead, PollAnswer, RemoteFetch, RemoteNothing, RemoteFails

LEMMA VersionsStep == TypeInv /\ [Next]_vars => VersionsExist'
<1> SUFFICES ASSUME TypeInv, [Next]_vars PROVE VersionsExist'
  OBVIOUS
<1>1. /\ server.version \in Nat /\ server'.version \in Nat
      /\ server'.version >= server.version
      /\ known \in Nat /\ known <= server.version
      /\ deferred.version \in Nat
  BY ServerGrows DEF TypeInv, TypeOK, Versions
<1>2. ASSUME NEW s \in Slots
      PROVE  /\ save'[s].pc = "put" => save'[s].expected <= server'.version
             /\ save'[s].pc \in {"accepted", "fetched"} => save'[s].version <= server'.version
  <2>1. /\ save[s].pc = "put" => save[s].expected \in Nat /\ save[s].expected <= server.version
        /\ save[s].pc \in {"accepted", "fetched"}
              => save[s].version \in Nat /\ save[s].version <= server.version
    BY SaveTypes DEF Versions, TypeInv, VersionsExist
  <2>2. dialog.kind = "save" => dialog.version \in Nat /\ dialog.version <= server.version
    BY DialogTypes DEF Versions, TypeInv, VersionsExist
  <2>3. CASE save'[s] = save[s]
    BY <1>1, <2>1, <2>3
  <2>4. CASE save'[s] = Idle
    BY <2>4 DEF Idle
  <2>5. CASE ServerRefuses(s)
    BY <2>5, SaveChanged
  <2>6. CASE ServerAccepts(s)
    <3>1. save'[s].pc = "accepted" /\ save'[s].version = server'.version
      BY <2>6, SaveChanged
    <3> QED
      BY <1>1, <3>1
  <2>7. CASE SaveStart(s)
    <3>1. save'[s].pc = "put" /\ save'[s].expected = known
      BY <2>7, SaveChanged
    <3> QED
      BY <1>1, <3>1
  <2>8. CASE ConflictFetch(s)
    BY <1>1, <2>8, SaveChanged
  <2>9. CASE ConflictMerge(s)
    <3>1. save[s].pc = "fetched"
      BY <2>9 DEF ConflictMerge
    <3>2. save'[s].pc = "put" /\ save'[s].expected = save[s].version
      BY <2>9, SaveChanged
    <3> QED
      BY <1>1, <2>1, <3>1, <3>2
  <2>10. ASSUME NEW chosen \in SUBSET Fields, ResolveSave(s, chosen)
         PROVE  save'[s].pc = "put" /\ save'[s].expected <= server'.version
    <3>1. dialog.kind = "save"
      BY <2>10 DEF ResolveSave
    <3>2. save'[s].pc = "put" /\ save'[s].expected = dialog.version
      BY <2>10, SaveResolved
    <3> QED
      BY <1>1, <2>2, <3>1, <3>2
  <2> QED
    BY <2>3, <2>4, <2>5, <2>6, <2>7, <2>8, <2>9, <2>10, SaveChanges
<1>3. remote.pc = "fetched" => remote.version \in Nat
  BY RemoteTypes DEF Versions, TypeInv
<1>4. deferred'.version <= server'.version
  <2>1. CASE DeferredByRemote
    BY <1>1, <1>3, <2>1 DEF DeferredByRemote, RemoteApply, TypeInv, VersionsExist
  <2> QED
    BY <1>1, <2>1, DeferredChanges DEF TypeInv, VersionsExist
<1>5. remote'.pc = "fetched" => /\ deferred'.version <= remote'.version
                               /\ remote'.version <= server'.version
  <2>1. CASE remote' = remote
    <3>1. CASE DeferredByRemote
      <4>1. remote'.pc = "idle"
        BY <3>1 DEF DeferredByRemote, RemoteApply, Idle
      <4> QED
        BY <4>1
    <3> QED
      BY <1>1, <1>3, <2>1, <3>1, DeferredChanges DEF TypeInv, VersionsExist
  <2>2. CASE RemoteFetch
    <3>1. deferred' = deferred /\ remote'.version = server.version
      BY <2>2 DEF RemoteFetch, form
    <3> QED
      BY <1>1, <3>1 DEF TypeInv, VersionsExist
  <2> QED
    BY <2>1, <2>2, RemoteChanges
<1>6. dialogOpen' => dialog'.version <= server'.version
  <2>1. CASE dialog' = dialog
    <3>1. dialogOpen' => dialogOpen /\ dialog.version \in Nat
      BY <2>1, DialogTypes DEF dialogOpen, Versions, TypeInv
    <3> QED
      BY <1>1, <2>1, <3>1 DEF TypeInv, VersionsExist
  <2>2. CASE dialog' = Closed
    BY <2>2 DEF dialogOpen
  <2>3. ASSUME NEW s \in Slots, AskedBySave(s) PROVE dialog'.version <= server'.version
    <3>1. save[s].version \in Nat /\ save[s].version <= server.version
      BY <2>3, SaveTypes DEF AskedBySave, ConflictAsk, Versions, TypeInv, VersionsExist
    <3> QED
      BY <1>1, <2>3, <3>1 DEF AskedBySave
  <2>4. CASE AskedByDeferred
    BY <1>1, <2>4 DEF AskedByDeferred, TypeInv, VersionsExist
  <2> QED
    BY <2>1, <2>2, <2>3, <2>4, DialogChanges
<1>7. poll'.answer.version <= server'.version
  <2>1. poll.answer.version \in Nat
    BY DEF TypeInv, TypeOK, NoAnswer, Versions
  <2> QED
    BY <1>1, <2>1, PollChanges DEF TypeInv, VersionsExist, NoAnswer
<1> QED
  BY <1>2, <1>4, <1>5, <1>6, <1>7 DEF VersionsExist

LEMMA CopiesStep == TypeInv /\ [Next]_vars => CopiesAreCurrent'
<1> SUFFICES ASSUME TypeInv, [Next]_vars PROVE CopiesAreCurrent'
  OBVIOUS
<1>1. /\ server.version \in Nat /\ server'.version \in Nat
      /\ server'.version >= server.version
      /\ server'.version = server.version => server' = server
  BY ServerGrows
<1>2. ASSUME NEW n \in Nat, n <= server.version, n = server'.version
      PROVE  n = server.version /\ server' = server
  BY <1>1, <1>2
<1>3. ASSUME NEW s \in Slots, save'[s].pc = "fetched", save'[s].version = server'.version
      PROVE  save'[s].content = server'.content
  <2>1. CASE save'[s] = save[s]
    <3>1. save[s].version \in Nat /\ save[s].version <= server.version
      BY <1>3, <2>1, SaveTypes DEF Versions, TypeInv, VersionsExist
    <3> QED
      BY <1>2, <1>3, <2>1, <3>1 DEF TypeInv, CopiesAreCurrent
  <2>2. CASE ConflictFetch(s)
    <3>1. server' = server
      BY <2>2 DEF ConflictFetch
    <3> QED
      BY <2>2, <3>1, SaveChanged
  <2>3. save'[s] # Idle /\ save'[s].pc \notin {"put", "accepted", "refused"}
    BY <1>3 DEF Idle
  <2>4. ~ServerRefuses(s) /\ ~ServerAccepts(s) /\ ~SaveStart(s) /\ ~ConflictMerge(s)
    BY <2>3, SaveChanged
  <2>5. ~\E chosen \in SUBSET Fields : ResolveSave(s, chosen)
    BY <2>3, SaveResolved
  <2> QED
    BY <2>1, <2>2, <2>3, <2>4, <2>5, SaveChanges
<1>4. ASSUME remote'.pc = "fetched", remote'.version = server'.version
      PROVE  remote'.content = server'.content
  <2>1. CASE remote' = remote
    <3>1. remote.version \in Nat /\ remote.version <= server.version
      BY <1>4, <2>1, RemoteTypes DEF Versions, TypeInv, VersionsExist
    <3> QED
      BY <1>2, <1>4, <2>1, <3>1 DEF TypeInv, CopiesAreCurrent
  <2>2. CASE RemoteFetch
    BY <2>2 DEF RemoteFetch
  <2> QED
    BY <1>4, <2>1, <2>2, RemoteChanges
<1>5. ASSUME deferred'.version = server'.version, NEW f \in DOMAIN deferred'.changes
      PROVE  deferred'.changes[f] = server'.content[f]
  <2>1. deferred.version \in Nat /\ deferred.version <= server.version
    BY DEF TypeInv, TypeOK, VersionsExist, Versions
  <2>2. CASE deferred' = deferred
    BY <1>2, <1>5, <2>1, <2>2 DEF TypeInv, CopiesAreCurrent, deferredFields
  <2>3. CASE deferred'.changes = Nothing
    BY <1>5, <2>3, NothingIsPartial
  <2>4. CASE DeferredByRemote
    <3>1. remote.version \in Nat /\ remote.version <= server.version /\ remote.pc = "fetched"
          /\ server' = server
      BY <2>4, RemoteTypes DEF DeferredByRemote, RemoteApply, Versions, TypeInv, VersionsExist
    <3> QED
      BY <1>5, <2>4, <3>1 DEF DeferredByRemote, TypeInv, CopiesAreCurrent
  <2> QED
    BY <2>2, <2>3, <2>4, DeferredChanges
<1>6. ASSUME dialog'.kind = "save", dialog'.version = server'.version
      PROVE  dialog'.content = server'.content
  <2>1. CASE dialog' = dialog
    <3>1. dialog.version \in Nat /\ dialog.version <= server.version
      BY <1>6, <2>1, DialogTypes DEF Versions, TypeInv, VersionsExist
    <3> QED
      BY <1>2, <1>6, <2>1, <3>1 DEF TypeInv, CopiesAreCurrent
  <2>2. ASSUME NEW s \in Slots, AskedBySave(s) PROVE dialog'.content = server'.content
    <3>1. save[s].pc = "fetched" /\ server' = server
      BY <2>2 DEF AskedBySave, ConflictAsk
    <3> QED
      BY <1>6, <2>2, <3>1 DEF AskedBySave, TypeInv, CopiesAreCurrent
  <2> QED
    BY <1>6, <2>1, <2>2, DialogChanges DEF Closed, AskedByDeferred
<1>7. ASSUME poll'.answer.version = server'.version
      PROVE  poll'.answer.bySelf = server'.bySelf
  <2>1. poll.answer.version \in Nat /\ poll.answer.version <= server.version
    BY DEF TypeInv, TypeOK, NoAnswer, Versions, VersionsExist
  <2>2. server'.version # 0
    BY <1>1, BoundsAssumption DEF TypeInv, TypeOK, Versions
  <2>3. CASE poll' = poll
    BY <1>2, <1>7, <2>1, <2>3 DEF TypeInv, CopiesAreCurrent
  <2>4. CASE poll'.answer = NoAnswer
    BY <1>7, <2>2, <2>4 DEF NoAnswer
  <2> QED
    BY <2>3, <2>4, PollChanges
<1> QED
  BY <1>3, <1>4, <1>5, <1>6, <1>7 DEF CopiesAreCurrent, deferredFields

LEMMA TypeInvariant == Spec => []TypeInv
<1>1. TypeInv /\ [Next]_vars => TypeInv'
  BY TypesStep, VersionsStep, CopiesStep DEF TypeInv
<1> QED
  BY <1>1, InitTypes, PTL DEF Spec

(* TypeOK: every variable keeps its type, the known version exists, and a   *)
(* dialog shows two different values for each of its fields.                *)
THEOREM ClientTyped == Spec => []TypeOK
<1>1. TypeInv => TypeOK
  BY DEF TypeInv
<1> QED
  BY <1>1, TypeInvariant, PTL

(***************************************************************************)
(* No silent overwrite.  News is a value of a colleague that the user has  *)
(* not met ("unseen").  Every step that raises the known version to the    *)
(* current one has taken the news in or leaves it deferred.                *)
(***************************************************************************)
LEMMA UnseenShrinks ==
    ASSUME TypeInv, [Next]_vars, server'.version = server.version
    PROVE  unseen' \subseteq unseen
<1>1. server' = server
  BY ServerGrows
<1>2. ASSUME NEW f \in Fields, NEW v \in Values, ColleagueSaves(f, v) PROVE FALSE
  <2>1. server'.version = server.version + 1
    BY <1>2 DEF ColleagueSaves
  <2> QED
    BY <2>1, ServerGrows
<1>3. ASSUME NEW fields, NEW keep, Meet(fields, keep) PROVE unseen' \subseteq unseen
  BY <1>3 DEF Meet
<1>4. ASSUME NEW shown, Show(shown) PROVE unseen' \subseteq unseen
  BY <1>4 DEF Show
<1>5. ASSUME NEW b, ApplyDeferred(b) PROVE unseen' \subseteq unseen
  BY <1>3, <1>4, <1>5 DEF ApplyDeferred
<1>6. ASSUME NEW s, ConflictMerge(s) \/ ConflictAsk(s) PROVE unseen' \subseteq unseen
  BY <1>3, <1>4, <1>6 DEF ConflictMerge, ConflictAsk
<1>7. ASSUME NEW chosen, ResolveDeferred(chosen) \/ \E s \in Slots : ResolveSave(s, chosen)
      PROVE  unseen' \subseteq unseen
  BY <1>3, <1>7 DEF ResolveDeferred, ResolveSave
<1>8. RemoteApply => unseen' \subseteq unseen
  BY <1>3 DEF RemoteApply
<1>9. ASSUME NEW to, Navigate(to) PROVE unseen' \subseteq unseen
  BY <1>3, <1>9 DEF Navigate
<1>10. ASSUME NEW f, NEW v, Edit(f, v) PROVE unseen' \subseteq unseen
  BY <1>10 DEF Edit
<1> QED
  BY <1>2, <1>5, <1>6, <1>7, <1>8, <1>9, <1>10
     DEF Next, vars, history, ServerRefuses, ServerAccepts, SaveStart, SaveAccepted, SaveFails,
         ConflictFetch, Update, SaveDeferredFirst, SaveNothing, PollRead, PollAnswer,
         RemoteFetch, RemoteNothing, RemoteFails

LEMMA RenewedStays == [Next]_vars /\ ~renewed' => ~renewed
<1>1. ASSUME NEW b, ApplyDeferred(b), ~renewed' PROVE ~renewed
  BY <1>1 DEF ApplyDeferred, Renew
<1> QED
  BY <1>1 DEF Next, vars, history, Edit, ColleagueSaves, ServerRefuses, ServerAccepts,
     SaveStart, Renew, SaveAccepted, SaveFails, ConflictFetch, ConflictMerge, ConflictAsk,
     ResolveSave, ResolveDeferred, Navigate, Update, SaveDeferredFirst, SaveNothing, PollRead,
     PollAnswer, RemoteFetch, RemoteNothing, RemoteApply, RemoteFails

News == NewsIsVisible /\ NewsIsExpected /\ NewsIsNotReplayed

\* A step takes the deferred changes in; none of their news is left.
DeferredMerged ==
    /\ known' = deferred.version
    /\ deferred' = NoneDeferred(deferred.version)
    /\ baseline' = store'
    /\ UNCHANGED <<server, save>>
    /\ unseen' = {f \in unseen : store'[f] # server.content[f]}
    /\ deferred.version = server.version => unseen' = {}

LEMMA NavigateMerges ==
    ASSUME TypeInv, News, NEW to, Navigate(to), deferred.changes # Nothing
    PROVE  DeferredMerged
<1>1. store \in Contents /\ deferred.changes \in Partial
  BY DEF TypeInv, TypeOK
<1>2. /\ store' = With(store, deferred.changes)
      /\ unseen' = {f \in unseen : store'[f] # server.content[f]}
      /\ known' = deferred.version /\ baseline' = store'
      /\ deferred' = NoneDeferred(deferred.version) /\ UNCHANGED <<server, save>>
  BY DEF Navigate, Meet
<1>3. ASSUME deferred.version = server.version, NEW f \in unseen
      PROVE  store'[f] = server.content[f]
  <2>1. f \in deferredFields /\ f \in Fields
    BY <1>3 DEF News, NewsIsExpected, TypeInv, TypeOK
  <2>2. store'[f] = deferred.changes[f]
    BY <1>1, <1>2, <2>1, WithProperties DEF deferredFields
  <2> QED
    BY <1>3, <2>1, <2>2 DEF TypeInv, CopiesAreCurrent
<1> QED
  BY <1>2, <1>3 DEF DeferredMerged

LEMMA ApplyMerges ==
    ASSUME TypeInv, News, NEW b, ApplyDeferred(b),
           UNCHANGED <<server, save, remote, poll, section, edits>>
    PROVE  \/ DeferredMerged
           \/ AskedByDeferred /\ UNCHANGED <<store, known, baseline, deferred>>
<1> DEFINE mine == computeFieldDiff(baseline, store)
           theirs == deferred.changes
<1>1. /\ mine \in Partial /\ theirs \in Partial /\ store \in Contents
  BY DiffProperties DEF TypeInv, TypeOK
<1>2. CASE /\ conflictKeys(mine, theirs) = {}
           /\ store' = With(With(store, theirs), mine)
           /\ known' = deferred.version
           /\ baseline' = store'
           /\ deferred' = NoneDeferred(deferred.version)
           /\ Meet(DOMAIN theirs, DOMAIN mine)
  <2> HIDE DEF mine
  <2>1. ASSUME deferred.version = server.version, NEW f \in unseen
        PROVE  store'[f] = server.content[f]
    <3>1. f \in DOMAIN theirs /\ f \in Fields
      BY <2>1 DEF News, NewsIsExpected, TypeInv, TypeOK, deferredFields
    <3>2. With(store, theirs) \in Contents /\ With(store, theirs)[f] = theirs[f]
      BY <1>1, <3>1, WithProperties
    <3>3. f \in DOMAIN mine => mine[f] = theirs[f]
      BY <1>2, <3>1 DEF conflictKeys
    <3>4. store'[f] = theirs[f]
      BY <1>1, <1>2, <3>1, <3>2, <3>3, WithProperties
    <3> QED
      BY <2>1, <3>1, <3>4 DEF TypeInv, CopiesAreCurrent, deferredFields
  <2> QED
    BY <1>2, <2>1 DEF DeferredMerged, Meet
<1>3. CASE /\ Ask("deferred", mine, theirs, deferred.version, baseline)
           /\ UNCHANGED <<store, known, baseline, deferred, unsent>>
  BY <1>3 DEF Ask, AskedByDeferred
<1> QED
  BY <1>2, <1>3 DEF ApplyDeferred

\* The answer to a dialog keeps no field with news.
LEMMA ResolveMerges ==
    ASSUME TypeInv, News, NEW chosen, ResolveDeferred(chosen)
    PROVE  DeferredMerged
<1>1. store \in Contents /\ deferred.changes \in Partial /\ pending \in Partial
  BY DEF TypeInv, TypeOK
<1>2. /\ store' = With(With(store, deferred.changes), Only(pending, kept(chosen)))
      /\ unseen' = {f \in unseen : store'[f] # server.content[f]}
      /\ known' = deferred.version /\ baseline' = store' /\ dialog.kind = "deferred"
      /\ deferred' = NoneDeferred(deferred.version) /\ UNCHANGED <<server, save>>
  BY DEF ResolveDeferred, Meet
<1>3. ASSUME deferred.version = server.version, NEW f \in unseen
      PROVE  store'[f] = server.content[f]
  <2>1. f \in deferredFields /\ f \in Fields
    BY <1>3 DEF News, NewsIsExpected, TypeInv, TypeOK
  <2>2. deferred.changes[f] = server.content[f]
    BY <1>3, <2>1 DEF TypeInv, CopiesAreCurrent
  <2>3. f \in DOMAIN pending => pending[f] = server.content[f]
    BY <1>2, <1>3, <2>1 DEF News, NewsIsNotReplayed
  <2>4. /\ With(store, deferred.changes) \in Contents
        /\ With(store, deferred.changes)[f] = deferred.changes[f]
    BY <1>1, <2>1, WithProperties DEF deferredFields
  <2>5. /\ Only(pending, kept(chosen)) \in Partial
        /\ f \in DOMAIN Only(pending, kept(chosen))
              => f \in DOMAIN pending /\ Only(pending, kept(chosen))[f] = pending[f]
    BY <1>1, OnlyProperties
  <2> QED
    BY <1>2, <2>1, <2>2, <2>3, <2>4, <2>5, WithProperties
<1> QED
  BY <1>2, <1>3 DEF DeferredMerged

\* A step takes the content of the server in, and a save of it follows.
ContentMerged(s, version) ==
    /\ known' = version
    /\ UNCHANGED <<server, baseline, deferred>>
    /\ save'[s].pc = "put" /\ save'[s].expected = version
    /\ unseen' = {f \in unseen : store'[f] # server.content[f]}
    /\ version = server.version => unseen' = {}

LEMMA ConflictMerges ==
    ASSUME TypeInv, News, NEW s \in Slots, ConflictMerge(s)
    PROVE  ContentMerged(s, save[s].version)
<1> DEFINE fresh == save[s].content
           theirs == computeFieldDiff(baseline, fresh)
<1>1. /\ fresh \in Contents /\ baseline \in Contents /\ pending \in Partial
      /\ save[s].pc = "fetched"
  BY SaveTypes DEF ConflictMerge, TypeInv, TypeOK
<1>2. /\ conflictKeys(pending, theirs) = {}
      /\ store' = With(fresh, pending) /\ known' = save[s].version
      /\ unseen' = {f \in unseen : store'[f] # server.content[f]}
      /\ UNCHANGED <<server, baseline, deferred>>
  BY DEF ConflictMerge, mergedWith, Meet
<1>3. ASSUME save[s].version = server.version, NEW f \in unseen
      PROVE  store'[f] = server.content[f]
  <2>1. fresh[f] = server.content[f] /\ f \in Fields
    BY <1>1, <1>3 DEF TypeInv, TypeOK, CopiesAreCurrent
  <2>2. baseline[f] # fresh[f]
    BY <1>3, <2>1 DEF News, NewsIsVisible
  <2>3. /\ DOMAIN theirs = {g \in Fields : baseline[g] # fresh[g]}
        /\ \A g \in DOMAIN theirs : theirs[g] = fresh[g]
    BY <1>1, DiffProperties
  <2>4. f \in DOMAIN theirs /\ theirs[f] = fresh[f]
    BY <2>1, <2>2, <2>3
  <2> HIDE DEF theirs
  <2>5. f \in DOMAIN pending => pending[f] = fresh[f]
    BY <1>2, <2>4 DEF conflictKeys
  <2> QED
    BY <1>1, <1>2, <2>1, <2>5, WithProperties
<1>4. save'[s].pc = "put" /\ save'[s].expected = save[s].version
  BY SaveChanged
<1> QED
  BY <1>2, <1>3, <1>4 DEF ContentMerged

LEMMA ResolvedMerges ==
    ASSUME TypeInv, News, NEW s \in Slots, NEW chosen, ResolveSave(s, chosen)
    PROVE  ContentMerged(s, dialog.version)
<1>1. /\ dialog.content \in Contents /\ pending \in Partial /\ dialog.kind = "save"
  BY DialogTypes DEF ResolveSave, TypeInv, TypeOK
<1>2. /\ store' = With(dialog.content, Only(pending, kept(chosen))) /\ known' = dialog.version
      /\ unseen' = {f \in unseen : store'[f] # server.content[f]}
      /\ UNCHANGED <<server, baseline, deferred>>
  BY DEF ResolveSave, Meet
<1>3. ASSUME dialog.version = server.version, NEW f \in unseen
      PROVE  store'[f] = server.content[f]
  <2>1. dialog.content[f] = server.content[f] /\ f \in Fields
    BY <1>1, <1>3 DEF TypeInv, TypeOK, CopiesAreCurrent
  <2>2. f \in DOMAIN pending => pending[f] = server.content[f]
    BY <1>1, <1>3 DEF News, NewsIsNotReplayed
  <2>3. /\ Only(pending, kept(chosen)) \in Partial
        /\ f \in DOMAIN Only(pending, kept(chosen))
              => f \in DOMAIN pending /\ Only(pending, kept(chosen))[f] = pending[f]
    BY <1>1, OnlyProperties
  <2> QED
    BY <1>1, <1>2, <2>1, <2>2, <2>3, WithProperties
<1>4. save'[s].pc = "put" /\ save'[s].expected = dialog.version
  BY SaveResolved
<1> QED
  BY <1>2, <1>3, <1>4 DEF ContentMerged

\* What a remote change brings is on the screen or deferred.
LEMMA RemoteMerges ==
    ASSUME TypeInv, News, RemoteApply
    PROVE  /\ known' = remote.version /\ baseline' = store' /\ UNCHANGED <<server, save>>
           /\ unseen' = {f \in unseen : store'[f] # server.content[f]}
           /\ remote.version = server.version => unseen' \subseteq DOMAIN deferred'.changes
           /\ deferred' = deferred \/ deferred'.version = remote.version
<1> DEFINE theirs == computeFieldDiff(baseline, remote.content)
           onScreen == {f \in DOMAIN theirs : sectionOf[f] = remote.section}
           background == DOMAIN theirs \ onScreen
<1>1. /\ store \in Contents /\ baseline \in Contents /\ remote.content \in Contents
      /\ remote.pc = "fetched"
  BY RemoteTypes DEF RemoteApply, TypeInv, TypeOK
<1>2. /\ theirs \in Partial
      /\ DOMAIN theirs = {f \in Fields : baseline[f] # remote.content[f]}
      /\ \A f \in DOMAIN theirs : theirs[f] = remote.content[f]
  BY <1>1, DiffProperties
<1>3. /\ store' = With(store, Only(theirs, background))
      /\ deferred' = IF onScreen = {} THEN deferred
                     ELSE [changes |-> Only(theirs, onScreen), version |-> remote.version]
      /\ unseen' = {f \in unseen : store'[f] # server.content[f]}
      /\ known' = remote.version /\ baseline' = store' /\ UNCHANGED <<server, save>>
  BY DEF RemoteApply, Meet
<1>4. DOMAIN theirs \cap onScreen = onScreen /\ background = DOMAIN theirs \ onScreen
  OBVIOUS
<1>5. DOMAIN theirs \cap background = background
  OBVIOUS
<1> HIDE DEF theirs, onScreen, background
<1>6. /\ Only(theirs, background) \in Partial
      /\ DOMAIN Only(theirs, background) = background
      /\ \A f \in background : Only(theirs, background)[f] = theirs[f]
  BY <1>2, <1>5, OnlyProperties
<1>7. DOMAIN Only(theirs, onScreen) = onScreen
  BY <1>2, <1>4, OnlyProperties
<1>8. ASSUME remote.version = server.version, NEW f \in unseen'
      PROVE  f \in onScreen
  <2>1. /\ remote.content = server.content /\ f \in unseen /\ f \in Fields
        /\ store'[f] # server.content[f]
    BY <1>1, <1>3, <1>8 DEF TypeInv, TypeOK, CopiesAreCurrent
  <2>2. f \in DOMAIN theirs
    BY <1>2, <2>1 DEF News, NewsIsVisible
  <2>3. f \in background => store'[f] = remote.content[f]
    BY <1>1, <1>2, <1>3, <1>6, <2>1, <2>2, WithProperties
  <2> QED
    BY <1>4, <2>1, <2>2, <2>3
<1>9. CASE onScreen = {}
  BY <1>3, <1>8, <1>9
<1>10. CASE onScreen # {}
  <2>1. DOMAIN deferred'.changes = onScreen
    BY <1>3, <1>7, <1>10
  <2> QED
    BY <1>3, <1>8, <1>10, <2>1
<1> QED
  BY <1>9, <1>10

\* Nothing that the news depends on changes.
Calm == UNCHANGED <<server, store, baseline, known, deferred>>

LEMMA NewsSteps ==
    ASSUME TypeInv, News, [Next]_vars
    PROVE  \/ \E f \in Fields, v \in Values : ColleagueSaves(f, v) \/ Edit(f, v)
           \/ \E s \in Slots : ServerAccepts(s) \/ SaveAccepted(s)
           \/ \E s \in Slots, n \in Nat : ContentMerged(s, n)
           \/ DeferredMerged
           \/ PollAnswer \/ RemoteNothing \/ RemoteApply
           \/ Calm
<1>1. Update => DeferredMerged \/ Calm
  BY ApplyMerges DEF Update, Calm
<1>2. SaveDeferredFirst => DeferredMerged \/ Calm
  BY ApplyMerges DEF SaveDeferredFirst, Calm
<1>3. ASSUME NEW to \in Sections, Navigate(to) PROVE DeferredMerged \/ Calm
  <2>1. CASE deferred.changes = Nothing
    BY <1>3, <2>1 DEF Navigate, Calm
  <2> QED
    BY <1>3, <2>1, NavigateMerges
<1>4. ASSUME NEW s \in Slots, ConflictMerge(s) PROVE \E n \in Nat : ContentMerged(s, n)
  <2>1. save[s].version \in Nat
    BY <1>4, SaveTypes DEF ConflictMerge, Versions, TypeInv
  <2> QED
    BY <1>4, <2>1, ConflictMerges
<1>5. ASSUME NEW s \in Slots, NEW chosen, ResolveSave(s, chosen)
      PROVE  \E n \in Nat : ContentMerged(s, n)
  <2>1. dialog.version \in Nat
    BY <1>5, DialogTypes DEF ResolveSave, Versions, TypeInv
  <2> QED
    BY <1>5, <2>1, ResolvedMerges
<1>6. ASSUME NEW chosen, ResolveDeferred(chosen) PROVE DeferredMerged
  BY <1>6, ResolveMerges
<1>7. ASSUME NEW s \in Slots,
             \/ ServerRefuses(s) \/ SaveStart(s) \/ SaveFails(s)
             \/ ConflictFetch(s) \/ ConflictAsk(s)
      PROVE  Calm
  BY <1>7 DEF ServerRefuses, SaveStart, SaveFails, ConflictFetch, ConflictAsk, form, Calm
<1>8. SaveNothing \/ PollRead \/ RemoteFetch \/ RemoteFails \/ UNCHANGED vars => Calm
  BY DEF SaveNothing, PollRead, RemoteFetch, RemoteFails, vars, form, Calm
<1> QED
  BY <1>1, <1>2, <1>3, <1>4, <1>5, <1>6, <1>7, <1>8 DEF Next

\* The poll raises the known version for own changes only.
LEMMA PollRaises ==
    ASSUME TypeInv, PollAnswer
    PROVE  /\ UNCHANGED <<server, store, baseline, pending, deferred, save, dialog, unseen, unsent>>
           /\ known' = known \/ (known' = server.version => server.bySelf)
<1>1. UNCHANGED <<server, store, baseline, pending, deferred, save, dialog, unseen, unsent>>
  BY DEF PollAnswer, history
<1>2. poll.answer.bySelf \/ known' = known
  BY DEF PollAnswer, isOwn
<1>3. known' \in {known, poll.answer.version}
  BY DEF PollAnswer
<1>4. poll.answer.version = server.version => (poll.answer.bySelf <=> server.bySelf)
  BY DEF TypeInv, CopiesAreCurrent
<1> QED
  BY <1>1, <1>2, <1>3, <1>4

LEMMA AcceptedHasNoNews ==
    ASSUME TypeInv, News, NEW s \in Slots, ServerAccepts(s)
    PROVE  unseen = {} /\ unseen' = {}
BY DEF ServerAccepts, News, NewsIsExpected

LEMMA VisibleStep ==
    ASSUME TypeInv, News, [Next]_vars
    PROVE  NewsIsVisible'
<1>1. ASSUME server' = server, UNCHANGED <<store, baseline>> PROVE NewsIsVisible'
  BY <1>1, UnseenShrinks DEF News, NewsIsVisible
<1>2. ASSUME NEW g \in Fields, NEW v \in Values, ColleagueSaves(g, v) PROVE NewsIsVisible'
  <2>1. /\ unseen' = IF v \in {store[g], baseline[g]} THEN unseen \ {g} ELSE unseen \cup {g}
        /\ server'.content = [server.content EXCEPT ![g] = v]
        /\ UNCHANGED <<store, baseline>>
    BY <1>2 DEF ColleagueSaves, form
  <2>2. \A f \in Fields : server'.content[f] = IF f = g THEN v ELSE server.content[f]
    BY <2>1 DEF TypeInv, TypeOK, Contents
  <2>3. unseen \subseteq Fields
    BY DEF TypeInv, TypeOK
  <2> QED
    BY <2>1, <2>2, <2>3 DEF News, NewsIsVisible
<1>3. ASSUME NEW g \in Fields, NEW v \in Values, Edit(g, v) PROVE NewsIsVisible'
  <2>1. \A f \in Fields : store'[f] = IF f = g THEN v ELSE store[f]
    BY <1>3 DEF Edit, TypeInv, TypeOK, Contents
  <2>2. /\ unseen' = IF v = server.content[g] THEN unseen \ {g} ELSE unseen
        /\ UNCHANGED <<server, baseline>>
    BY <1>3 DEF Edit
  <2>3. unseen \subseteq Fields
    BY DEF TypeInv, TypeOK
  <2> QED
    BY <2>1, <2>2, <2>3 DEF News, NewsIsVisible
<1>4. ASSUME NEW s \in Slots, ServerAccepts(s) PROVE NewsIsVisible'
  BY <1>4, AcceptedHasNoNews DEF NewsIsVisible
<1>5. ASSUME NEW s \in Slots, SaveAccepted(s) PROVE NewsIsVisible'
  BY <1>5 DEF SaveAccepted, history, News, NewsIsVisible
<1>6. ASSUME NEW s \in Slots, NEW n \in Nat, ContentMerged(s, n) PROVE NewsIsVisible'
  BY <1>6 DEF ContentMerged, News, NewsIsVisible
<1>7. CASE DeferredMerged
  BY <1>7 DEF DeferredMerged, NewsIsVisible
<1>8. CASE RemoteApply
  BY <1>8, RemoteMerges DEF NewsIsVisible
<1>9. PollAnswer \/ RemoteNothing \/ Calm => server' = server /\ UNCHANGED <<store, baseline>>
  BY DEF PollAnswer, RemoteNothing, Calm
<1> QED
  BY <1>1, <1>2, <1>3, <1>4, <1>5, <1>6, <1>7, <1>8, <1>9, NewsSteps

LEMMA ExpectedStep ==
    ASSUME TypeInv, TypeInv', News, [Next]_vars
    PROVE  NewsIsExpected'
<1>1. /\ server.version \in Nat /\ server'.version \in Nat
      /\ server'.version >= server.version
      /\ server'.version = server.version => server' = server /\ unseen' \subseteq unseen
      /\ known \in Nat /\ known <= server.version
      /\ deferred.version \in Nat /\ deferred.version <= server.version
  BY ServerGrows, UnseenShrinks DEF TypeInv, TypeOK, VersionsExist, Versions
<1>2. ASSUME NEW s \in Slots
      PROVE  /\ save'[s].pc = "put" /\ save'[s].expected = server'.version => unseen' = {}
             /\ save'[s].pc = "accepted" /\ save'[s].version = server'.version => unseen' = {}
  <2>1. /\ save[s].pc = "put" => save[s].expected \in Nat /\ save[s].expected <= server.version
        /\ save[s].pc \in {"accepted", "fetched"}
              => save[s].version \in Nat /\ save[s].version <= server.version
    BY SaveTypes DEF Versions, TypeInv, VersionsExist
  <2>2. CASE save'[s] = save[s]
    BY <1>1, <2>1, <2>2 DEF News, NewsIsExpected
  <2>3. CASE save'[s] = Idle
    BY <2>3 DEF Idle
  <2>4. CASE ServerRefuses(s) \/ ConflictFetch(s)
    BY <2>4, SaveChanged
  <2>5. CASE ServerAccepts(s)
    BY <2>5, AcceptedHasNoNews
  <2>6. CASE SaveStart(s)
    <3>1. save'[s].pc = "put" /\ save'[s].expected = known
      BY <2>6, SaveChanged
    <3>2. server' = server /\ unseen' = unseen /\ deferredFields = {}
      BY <2>6, NothingIsPartial DEF SaveStart, deferredFields
    <3> QED
      BY <3>1, <3>2 DEF News, NewsIsExpected
  <2>7. CASE ConflictMerge(s)
    BY <2>7, ConflictMerges DEF ContentMerged
  <2>8. ASSUME NEW chosen \in SUBSET Fields, ResolveSave(s, chosen)
        PROVE  /\ save'[s].pc = "put"
               /\ save'[s].expected = server'.version => unseen' = {}
    BY <2>8, ResolvedMerges DEF ContentMerged
  <2> QED
    BY <2>2, <2>3, <2>4, <2>5, <2>6, <2>7, <2>8, SaveChanges
<1>3. server'.bySelf => unseen' = {}
  <2>1. ASSUME NEW f \in Fields, NEW v \in Values, ColleagueSaves(f, v) PROVE ~server'.bySelf
    BY <2>1 DEF ColleagueSaves
  <2>2. ASSUME NEW s \in Slots, ServerAccepts(s) PROVE unseen' = {}
    BY <2>2, AcceptedHasNoNews
  <2>3. ASSUME server' = server PROVE server'.bySelf => unseen' = {}
    BY <1>1, <2>3 DEF News, NewsIsExpected
  <2>4. /\ PollAnswer \/ RemoteNothing \/ RemoteApply \/ Calm \/ DeferredMerged
              => server' = server
        /\ \A s \in Slots : SaveAccepted(s) => server' = server
        /\ \A s \in Slots, n \in Nat : ContentMerged(s, n) => server' = server
        /\ \A f \in Fields, v \in Values : Edit(f, v) => server' = server
    BY DEF PollAnswer, RemoteNothing, RemoteApply, Calm, DeferredMerged, SaveAccepted,
           ContentMerged, Edit
  <2> QED
    BY <2>1, <2>2, <2>3, <2>4, NewsSteps
<1>4. /\ known' = server'.version => unseen' \subseteq DOMAIN deferred'.changes
      /\ deferred'.version = server'.version => unseen' \subseteq DOMAIN deferred'.changes
  <2>1. ASSUME UNCHANGED <<server, known, deferred>>
        PROVE  /\ known' = server'.version => unseen' \subseteq DOMAIN deferred'.changes
               /\ deferred'.version = server'.version => unseen' \subseteq DOMAIN deferred'.changes
    BY <1>1, <2>1 DEF News, NewsIsExpected, deferredFields
  <2>2. ASSUME NEW f \in Fields, NEW v \in Values, ColleagueSaves(f, v)
        PROVE  known' # server'.version /\ deferred'.version # server'.version
    <3>1. server'.version = server.version + 1 /\ known' = known /\ deferred' = deferred
      BY <2>2 DEF ColleagueSaves, form
    <3> QED
      BY <1>1, <3>1
  <2>3. ASSUME NEW s \in Slots, ServerAccepts(s) PROVE unseen' = {}
    BY <2>3, AcceptedHasNoNews
  <2>4. ASSUME NEW s \in Slots, SaveAccepted(s)
        PROVE  /\ known' = server'.version => unseen' \subseteq DOMAIN deferred'.changes
               /\ deferred'.version = server'.version => unseen' \subseteq DOMAIN deferred'.changes
    <3>1. /\ save[s].pc = "accepted" /\ known' = save[s].version
          /\ UNCHANGED <<server, unseen, deferred>>
      BY <2>4 DEF SaveAccepted, history
    <3> QED
      BY <3>1 DEF News, NewsIsExpected, deferredFields
  <2>5. ASSUME NEW s \in Slots, NEW n \in Nat, ContentMerged(s, n)
        PROVE  /\ known' = server'.version => unseen' \subseteq DOMAIN deferred'.changes
               /\ deferred'.version = server'.version => unseen' \subseteq DOMAIN deferred'.changes
    <3>1. /\ known' = server'.version => unseen' = {}
          /\ UNCHANGED <<server, deferred>> /\ unseen' \subseteq unseen
      BY <2>5 DEF ContentMerged
    <3> QED
      BY <3>1 DEF News, NewsIsExpected, deferredFields
  <2>6. CASE DeferredMerged
    BY <2>6 DEF DeferredMerged, NoneDeferred
  <2>7. CASE PollAnswer
    <3>1. /\ UNCHANGED <<server, deferred, unseen>>
          /\ known' = known \/ (known' = server.version => server.bySelf)
      BY <2>7, PollRaises
    <3>2. CASE known' = known
      BY <2>1, <3>1, <3>2
    <3>3. CASE known' = server.version => server.bySelf
      <4>1. known' = server.version => unseen = {}
        BY <3>3 DEF News, NewsIsExpected
      <4> QED
        BY <3>1, <4>1 DEF News, NewsIsExpected, deferredFields
    <3> QED
      BY <3>1, <3>2, <3>3
  <2>8. CASE RemoteNothing
    <3>1. /\ UNCHANGED <<server, deferred, unseen>> /\ remote.pc = "fetched"
          /\ known' = remote.version /\ remote.content = baseline
      BY <2>8 DEF RemoteNothing, history
    <3>2. ASSUME known' = server'.version, NEW f \in unseen PROVE FALSE
      <4>1. remote.content = server.content
        BY <3>1, <3>2 DEF TypeInv, CopiesAreCurrent
      <4>2. baseline[f] # server.content[f]
        BY <3>2 DEF News, NewsIsVisible
      <4> QED
        BY <3>1, <4>1, <4>2
    <3> QED
      BY <3>1, <3>2 DEF News, NewsIsExpected, deferredFields
  <2>9. CASE RemoteApply
    <3>1. /\ known' = remote.version /\ UNCHANGED server /\ unseen' \subseteq unseen
          /\ remote.version = server.version => unseen' \subseteq DOMAIN deferred'.changes
          /\ deferred' = deferred \/ deferred'.version = remote.version
      BY <2>9, RemoteMerges
    <3> QED
      BY <3>1 DEF News, NewsIsExpected, deferredFields
  <2>10. /\ Calm => UNCHANGED <<server, known, deferred>>
         /\ \A f \in Fields, v \in Values : Edit(f, v) => UNCHANGED <<server, known, deferred>>
    BY DEF Calm, Edit
  <2> QED
    BY <2>1, <2>2, <2>3, <2>4, <2>5, <2>6, <2>7, <2>8, <2>9, <2>10, NewsSteps
<1> QED
  BY <1>2, <1>3, <1>4 DEF NewsIsExpected, deferredFields

\* The pending edits are renewed by a save and by the choice between the two sides of
\* deferred changes; whatever else happens leaves them or makes an end to them.
LEMMA PendingChanges ==
    ASSUME [Next]_vars
    PROVE  \/ pending' = pending /\ dialog' \in {dialog, Closed}
           \/ pending' = Nothing /\ dialog' \in {dialog, Closed}
           \/ \E s \in Slots : SaveStart(s)
           \/ \E s \in Slots : AskedBySave(s) /\ pending' = pending
           \/ \E b : /\ ApplyDeferred(b) /\ deferred.changes # Nothing
                      /\ UNCHANGED <<server, save, remote, poll, section, edits>>
<1>1. ASSUME NEW s \in Slots, ConflictAsk(s) PROVE AskedBySave(s) /\ pending' = pending
  BY <1>1 DEF ConflictAsk, Ask, AskedBySave, form
<1>2. Update \/ SaveDeferredFirst
         => \E b : /\ ApplyDeferred(b) /\ deferred.changes # Nothing
                    /\ UNCHANGED <<server, save, remote, poll, section, edits>>
  BY DEF Update, SaveDeferredFirst
<1>3. ASSUME NEW chosen, ResolveDeferred(chosen) \/ \E s \in Slots : ResolveSave(s, chosen)
      PROVE  pending' \in {pending, Nothing} /\ dialog' = Closed
  BY <1>3 DEF ResolveDeferred, ResolveSave
<1> QED
  BY <1>1, <1>2, <1>3
     DEF Next, vars, form, Edit, ColleagueSaves, ServerRefuses, ServerAccepts, SaveAccepted,
         SaveFails, ConflictFetch, ConflictMerge, Navigate, SaveNothing, PollRead, PollAnswer,
         RemoteFetch, RemoteNothing, RemoteApply, RemoteFails

\* What conflicts is shown, so that it is no news any more; what does not conflict is
\* the value of the colleague.
LEMMA AskedSaveShows ==
    ASSUME TypeInv, News, NEW s \in Slots, AskedBySave(s), dialog'.version = server.version,
           NEW f \in unseen', f \in DOMAIN pending
    PROVE  pending[f] = server.content[f]
<1> DEFINE fresh == save[s].content
           theirs == computeFieldDiff(baseline, fresh)
<1>1. /\ fresh \in Contents /\ baseline \in Contents /\ pending \in Partial
      /\ save[s].pc = "fetched" /\ save[s].version \in Versions
  BY SaveTypes DEF AskedBySave, ConflictAsk, TypeInv, TypeOK
<1>2. /\ Ask("save", pending, theirs, save[s].version, fresh)
      /\ unseen' = {g \in unseen : g \in DOMAIN dialog'.theirs
                                      => dialog'.theirs[g] # server.content[g]}
  BY DEF AskedBySave, ConflictAsk, Show
<1>3. /\ theirs \in Partial
      /\ DOMAIN theirs = {g \in Fields : baseline[g] # fresh[g]}
      /\ \A g \in DOMAIN theirs : theirs[g] = fresh[g]
  BY <1>1, DiffProperties
<1>4. fresh = server.content /\ f \in unseen /\ f \in Fields
  BY <1>1, <1>2 DEF AskedBySave, TypeInv, TypeOK, CopiesAreCurrent
<1>5. baseline[f] # server.content[f]
  BY <1>4 DEF News, NewsIsVisible
<1>6. f \in DOMAIN theirs /\ theirs[f] = server.content[f]
  BY <1>3, <1>4, <1>5
<1> HIDE DEF theirs
<1>7. f \in conflictKeys(pending, theirs)
         => f \in DOMAIN dialog'.theirs /\ dialog'.theirs[f] = theirs[f]
  BY <1>1, <1>2, <1>3, AskShows
<1>8. f \notin conflictKeys(pending, theirs)
  BY <1>2, <1>6, <1>7
<1> QED
  BY <1>6, <1>8 DEF conflictKeys

LEMMA AppliedShows ==
    ASSUME TypeInv, News, NEW b, ApplyDeferred(b), deferred'.changes # Nothing,
           deferred.version = server.version, UNCHANGED server
    PROVE  /\ deferred' = deferred
           /\ \A f \in unseen' \cap deferredFields \cap DOMAIN pending' :
                 pending'[f] = server.content[f]
<1> DEFINE mine == computeFieldDiff(baseline, store)
           theirs == deferred.changes
<1>1. /\ mine \in Partial /\ theirs \in Partial /\ baseline \in Contents
      /\ deferred.version \in Versions
  BY DiffProperties DEF TypeInv, TypeOK
<1>2. /\ pending' = mine
      /\ Ask("deferred", mine, theirs, deferred.version, baseline)
      /\ unseen' = {g \in unseen : g \in DOMAIN dialog'.theirs
                                      => dialog'.theirs[g] # server.content[g]}
      /\ deferred' = deferred
  BY DEF ApplyDeferred, Show, NoneDeferred
<1> HIDE DEF mine
<1>3. ASSUME NEW f \in unseen' \cap deferredFields \cap DOMAIN pending'
      PROVE  pending'[f] = server.content[f]
  <2>1. theirs[f] = server.content[f]
    BY <1>3 DEF TypeInv, CopiesAreCurrent
  <2>2. f \in conflictKeys(mine, theirs)
           => f \in DOMAIN dialog'.theirs /\ dialog'.theirs[f] = theirs[f]
    BY <1>1, <1>2, AskShows
  <2>3. f \notin conflictKeys(mine, theirs)
    BY <1>2, <1>3, <2>1, <2>2
  <2> QED
    BY <1>2, <1>3, <2>1, <2>3 DEF conflictKeys, deferredFields
<1> QED
  BY <1>2, <1>3

LEMMA NotReplayedStep ==
    ASSUME TypeInv, News, [Next]_vars, ~renewed'
    PROVE  NewsIsNotReplayed'
<1>1. /\ server.version \in Nat /\ server'.version \in Nat
      /\ server'.version >= server.version
      /\ server'.version = server.version => server' = server /\ unseen' \subseteq unseen
      /\ deferred.version \in Nat /\ deferred.version <= server.version
      /\ dialog.kind = "save" => dialog.version \in Nat /\ dialog.version <= server.version
  BY ServerGrows, UnseenShrinks, DialogTypes DEF TypeInv, TypeOK, VersionsExist, Versions
<1>2. ASSUME NEW s, SaveStart(s) PROVE dialog' = dialog /\ dialog.kind # "save"
  BY <1>2 DEF SaveStart, Renew
<1>3. ASSUME NEW b, ApplyDeferred(b)
      PROVE  dialog.kind # "save" /\ (dialog' = dialog \/ dialog'.kind = "deferred")
  <2>1. Renew /\ (dialog' = dialog \/ dialog'.kind = "deferred")
    BY <1>3 DEF ApplyDeferred, Ask
  <2> QED
    BY <2>1 DEF Renew
<1>4. ASSUME dialog'.kind = "save", dialog'.version = server'.version,
             NEW f \in unseen' \cap DOMAIN pending'
      PROVE  pending'[f] = server'.content[f]
  <2>1. dialog' # Closed /\ DOMAIN pending' # {}
    BY <1>4 DEF Closed
  <2>2. CASE pending' = pending /\ dialog' = dialog
    <3>1. dialog.version = server.version /\ server' = server /\ unseen' \subseteq unseen
      BY <1>1, <1>4, <2>2
    <3> QED
      BY <1>4, <2>2, <3>1 DEF News, NewsIsNotReplayed
  <2>3. ASSUME NEW s \in Slots, AskedBySave(s), pending' = pending
        PROVE  pending'[f] = server'.content[f]
    <3>1. server' = server
      BY <2>3 DEF AskedBySave, ConflictAsk
    <3> QED
      BY <1>4, <2>3, <3>1, AskedSaveShows
  <2> QED
    BY <1>2, <1>3, <1>4, <2>1, <2>2, <2>3, PendingChanges, NothingIsPartial
<1>5. ASSUME dialog'.kind = "deferred", deferred'.version = server'.version,
             NEW f \in unseen' \cap DOMAIN deferred'.changes \cap DOMAIN pending'
      PROVE  pending'[f] = server'.content[f]
  <2>1. dialog' # Closed /\ pending' # Nothing /\ deferred'.changes # Nothing
    BY <1>5, NothingIsPartial DEF Closed
  <2>2. deferred' = deferred
    <3>1. DeferredByRemote => pending' = Nothing
      BY DEF DeferredByRemote, RemoteApply
    <3> QED
      BY <2>1, <3>1, DeferredChanges
  <2>3. deferred.version = server.version /\ server' = server /\ unseen' \subseteq unseen
    BY <1>1, <1>5, <2>2
  <2>4. CASE pending' = pending /\ dialog' = dialog
    BY <1>5, <2>2, <2>3, <2>4 DEF News, NewsIsNotReplayed, deferredFields
  <2>5. ASSUME NEW s, SaveStart(s) PROVE FALSE
    BY <2>1, <2>2, <2>5 DEF SaveStart
  <2>6. ASSUME NEW b, ApplyDeferred(b) PROVE pending'[f] = server'.content[f]
    BY <1>5, <2>1, <2>2, <2>3, <2>6, AppliedShows DEF deferredFields
  <2>7. ASSUME NEW s \in Slots, AskedBySave(s) PROVE FALSE
    BY <1>5, <2>7 DEF AskedBySave
  <2> QED
    BY <2>1, <2>4, <2>5, <2>6, <2>7, PendingChanges
<1> QED
  BY <1>4, <1>5 DEF NewsIsNotReplayed, deferredFields

LEMMA NewsInvariant == Spec => [](TypeInv /\ NewsInv)
<1>1. Init => NewsInv
  <2> SUFFICES ASSUME Init PROVE NewsIsVisible /\ NewsIsExpected /\ NewsIsNotReplayed
    BY DEF NewsInv
  <2> QED
    BY DEF Init, NewsIsVisible, NewsIsExpected, NewsIsNotReplayed
<1>2. TypeInv /\ TypeInv' /\ NewsInv /\ [Next]_vars => NewsInv'
  <2> SUFFICES ASSUME TypeInv, TypeInv', NewsInv, [Next]_vars, ~renewed'
               PROVE  NewsIsVisible' /\ NewsIsExpected' /\ NewsIsNotReplayed'
    BY DEF NewsInv
  <2>1. News
    BY RenewedStays DEF NewsInv, News
  <2> QED
    BY <2>1, VisibleStep, ExpectedStep, NotReplayedStep
<1> QED
  BY <1>1, <1>2, TypeInvariant, PTL DEF Spec

(* NoSilentOverwrite: a save that puts another value in the place of a      *)
(* colleague's value the user has not met is impossible, but for the edits  *)
(* that "renewed" names.                                                    *)
THEOREM NothingOverwrittenSilently == Spec => NoSilentOverwrite
<1>1. TypeInv /\ NewsInv /\ [Next]_vars => [renewed \/ ~silentOverwrite]_vars
  <2> SUFFICES ASSUME TypeInv, NewsInv, ~renewed, silentOverwrite PROVE FALSE
    OBVIOUS
  <2>1. PICK f \in unseen, s \in Slots : ServerAccepts(s)
    BY DEF silentOverwrite
  <2>2. News
    BY DEF NewsInv, News
  <2> QED
    BY <2>1, <2>2, AcceptedHasNoNews
<1> QED
  BY <1>1, NewsInvariant, PTL DEF Spec, NoSilentOverwrite

(***************************************************************************)
(* The quiet client: handlers have not run into each other, and no answer  *)
(* or merge was lost.                                                      *)
(***************************************************************************)
Quiet == /\ OneAtATime /\ SavesCarryScreen /\ OthersMadeNewer
         /\ DialogShowsConflict /\ BaselineIsScreen /\ ScreenAgrees

LEMMA DisturbedStays == [Next]_vars /\ ~disturbed' => ~disturbed
<1>1. ASSUME NEW b, ApplyDeferred(b), ~disturbed' PROVE ~disturbed
  BY <1>1 DEF ApplyDeferred, Overlap
<1>2. ASSUME NEW s, ConflictMerge(s), ~disturbed' PROVE ~disturbed
  BY <1>2 DEF ConflictMerge, Overlap
<1>3. ASSUME NEW s, NEW chosen, ResolveSave(s, chosen), ~disturbed' PROVE ~disturbed
  BY <1>3 DEF ResolveSave, Overlap
<1>4. ASSUME NEW s, SaveStart(s), ~disturbed' PROVE ~disturbed
  BY <1>4 DEF SaveStart, Overlap
<1>5. SaveNothing \/ RemoteFetch => (~disturbed' => ~disturbed)
  BY DEF SaveNothing, RemoteFetch, Overlap
<1>6. ASSUME NEW s, SaveFails(s), ~disturbed' PROVE ~disturbed
  BY <1>6 DEF SaveFails
<1> QED
  BY <1>1, <1>2, <1>3, <1>4, <1>5, <1>6 DEF Next, vars, history, Edit, ColleagueSaves,
     ServerRefuses, ServerAccepts, SaveAccepted, ConflictFetch, ConflictAsk, ResolveDeferred,
     Navigate, Update, SaveDeferredFirst, PollRead, PollAnswer, RemoteNothing, RemoteApply,
     RemoteFails

\* What starts in a quiet client starts alone.
LEMMA StartsAlone ==
    ASSUME ~disturbed'
    PROVE  /\ \A s \in Slots : SaveStart(s) => ~underWay(Slots) /\ ~dialogOpen
           /\ \A b : ApplyDeferred(b) => ~underWay(Slots) /\ ~dialogOpen
           /\ SaveNothing \/ RemoteFetch => ~underWay(Slots) /\ ~dialogOpen
           /\ \A s \in Slots, chosen \in SUBSET Fields :
                 ResolveSave(s, chosen) => ~underWay(Slots)
           /\ \A s \in Slots : SaveFails(s) => save[s].pc # "accepted" /\ ~save[s].merge
<1>1. ASSUME NEW others, Overlap(others) PROVE ~others
  BY <1>1 DEF Overlap
<1>2. ASSUME NEW s \in Slots, SaveStart(s) PROVE ~underWay(Slots) /\ ~dialogOpen
  BY <1>1, <1>2 DEF SaveStart
<1>3. ASSUME NEW b, ApplyDeferred(b) PROVE ~underWay(Slots) /\ ~dialogOpen
  BY <1>1, <1>3 DEF ApplyDeferred
<1>4. ASSUME SaveNothing \/ RemoteFetch PROVE ~underWay(Slots) /\ ~dialogOpen
  BY <1>1, <1>4 DEF SaveNothing, RemoteFetch
<1>5. ASSUME NEW s \in Slots, NEW chosen \in SUBSET Fields, ResolveSave(s, chosen)
      PROVE  ~underWay(Slots)
  BY <1>1, <1>5 DEF ResolveSave
<1>6. ASSUME NEW s \in Slots, SaveFails(s) PROVE save[s].pc # "accepted" /\ ~save[s].merge
  BY <1>6 DEF SaveFails
<1> QED
  BY <1>2, <1>3, <1>4, <1>5, <1>6

LEMMA ActiveGrows ==
    ASSUME TypeInv, [Next]_vars, NEW s \in Slots, active(s)'
    PROVE  \/ active(s)
           \/ SaveStart(s)
           \/ \E chosen \in SUBSET Fields : ResolveSave(s, chosen)
<1>1. save'[s] # Idle
  BY DEF active
<1>2. ServerRefuses(s) \/ ServerAccepts(s) \/ ConflictFetch(s) \/ ConflictMerge(s) => active(s)
  BY SaveTypes DEF ServerRefuses, ServerAccepts, ConflictFetch, ConflictMerge, TypeInv
<1> QED
  BY <1>1, <1>2, SaveChanges DEF active

LEMMA DeferredCleared ==
    ASSUME [Next]_vars
    PROVE  \/ deferred' = deferred
           \/ RemoteApply
           \/ ~dialogOpen
           \/ \E b : ApplyDeferred(b)
           \/ dialog' = Closed
BY DEF Next, vars, form, Edit, ColleagueSaves, ServerRefuses, ServerAccepts, SaveStart,
       SaveAccepted, SaveFails, ConflictFetch, ConflictMerge, ConflictAsk, ResolveSave,
       ResolveDeferred, Navigate, Update, SaveDeferredFirst, SaveNothing, PollRead, PollAnswer,
       RemoteFetch, RemoteNothing, RemoteFails

LEMMA OneStep ==
    ASSUME TypeInv, Quiet, [Next]_vars, ~disturbed'
    PROVE  OneAtATime'
<1>1. /\ \A s, t \in Slots : active(s) /\ active(t) => s = t
      /\ savesUnderWay(Slots) => remote.pc # "fetched" /\ ~dialogOpen
      /\ remote.pc = "fetched" => ~dialogOpen
      /\ savesUnderWay(Slots) \/ dialog.kind = "save" => deferred.changes = Nothing
      /\ dialog.kind = "deferred" => deferred.changes # Nothing
      /\ \A s \in Slots : active(s) => savesUnderWay(Slots)
  BY DEF Quiet, OneAtATime, savesUnderWay, active
<1>2. underWay(Slots) <=> savesUnderWay(Slots) \/ remote.pc = "fetched"
  BY DEF underWay
<1>3. dialogOpen <=> dialog.kind # "closed"
  BY DialogTypes DEF TypeInv
<1>4. dialog' = dialog => (dialogOpen' <=> dialogOpen)
  BY DEF dialogOpen
<1>5. dialog' = Closed => ~dialogOpen' /\ dialog'.kind = "closed"
  BY DEF dialogOpen, Closed
<1>6. RemoteApply => remote.pc = "fetched"
  BY DEF RemoteApply
<1>7. ASSUME NEW s \in Slots, AskedBySave(s)
      PROVE  /\ active(s) /\ ~active(s)' /\ savesUnderWay(Slots)
             /\ UNCHANGED <<deferred, remote>> /\ dialog'.kind = "save"
  <2>1. save'[s] = Idle /\ save[s].pc = "fetched" /\ UNCHANGED <<deferred, remote>>
    BY <1>7 DEF AskedBySave, ConflictAsk, form, TypeInv, TypeOK
  <2>2. save[s] # Idle
    BY <2>1 DEF Idle
  <2> QED
    BY <1>1, <1>7, <2>1, <2>2 DEF AskedBySave, active
<1>8. ASSUME NEW s \in Slots, NEW chosen \in SUBSET Fields, ResolveSave(s, chosen)
      PROVE  /\ dialog.kind = "save" /\ dialog' = Closed
             /\ UNCHANGED <<deferred, remote>>
  BY <1>8 DEF ResolveSave
<1>9. ASSUME NEW s \in Slots, SaveStart(s)
      PROVE  deferred.changes = Nothing /\ UNCHANGED <<deferred, remote, dialog>>
  BY <1>9 DEF SaveStart
<1>10. ASSUME NEW b, ApplyDeferred(b)
       PROVE  ~savesUnderWay(Slots) /\ remote.pc # "fetched" /\ ~dialogOpen
  BY <1>2, <1>10, StartsAlone
<1>11. ASSUME NEW s \in Slots, NEW t \in Slots, active(s)', active(t)' PROVE s = t
  <2>1. ASSUME NEW u \in Slots, NEW w \in Slots, u # w,
               SaveStart(u) \/ \E chosen \in SUBSET Fields : ResolveSave(u, chosen)
        PROVE  ~active(w)'
    <3>1. save'[w] = save[w]
      BY <2>1 DEF SaveStart, ResolveSave, Put, TypeInv, TypeOK
    <3>2. ~active(w)
      BY <1>1, <1>2, <2>1, StartsAlone
    <3> QED
      BY <3>1, <3>2 DEF active
  <2> QED
    BY <1>1, <1>11, <2>1, ActiveGrows
<1>12. ASSUME NEW s \in Slots, active(s)'
       PROVE  remote'.pc # "fetched" /\ ~dialogOpen' /\ deferred'.changes = Nothing
  <2>1. CASE active(s)
    <3>1. remote'.pc # "fetched"
      BY <1>1, <1>2, <2>1, RemoteChanges, StartsAlone
    <3>2. ASSUME NEW t \in Slots, AskedBySave(t) PROVE FALSE
      BY <1>1, <1>7, <1>12, <2>1, <3>2
    <3>3. ~dialogOpen'
      BY <1>1, <1>4, <1>5, <1>9, <1>10, <2>1, <3>2, PendingChanges
    <3>4. deferred'.changes = Nothing
      BY <1>1, <1>6, <2>1, DeferredChanges DEF DeferredByRemote
    <3> QED
      BY <3>1, <3>3, <3>4
  <2>2. CASE SaveStart(s)
    BY <1>2, <1>4, <1>9, <2>2, StartsAlone
  <2>3. ASSUME NEW chosen \in SUBSET Fields, ResolveSave(s, chosen)
        PROVE  remote'.pc # "fetched" /\ ~dialogOpen' /\ deferred'.changes = Nothing
    BY <1>1, <1>2, <1>5, <1>8, <2>3, StartsAlone
  <2> QED
    BY <1>12, <2>1, <2>2, <2>3, ActiveGrows
<1>13. remote'.pc = "fetched" => ~dialogOpen'
  <2>1. CASE remote' = remote /\ remote.pc = "fetched"
    BY <1>1, <1>4, <1>5, <1>7, <1>9, <1>10, <2>1, PendingChanges
  <2>2. CASE RemoteFetch
    <3>1. dialog' = dialog
      BY <2>2 DEF RemoteFetch
    <3> QED
      BY <1>4, <2>2, <3>1, StartsAlone
  <2> QED
    BY <2>1, <2>2, RemoteChanges
<1>14. ASSUME dialog'.kind = "save" PROVE deferred'.changes = Nothing
  <2>1. CASE dialog' = dialog
    BY <1>1, <1>3, <1>6, <1>14, <2>1, DeferredChanges DEF DeferredByRemote
  <2>2. ASSUME NEW s \in Slots, AskedBySave(s) PROVE deferred'.changes = Nothing
    BY <1>1, <1>7, <2>2
  <2> QED
    BY <1>5, <1>14, <2>1, <2>2, DialogChanges DEF AskedByDeferred
<1>15. ASSUME dialog'.kind = "deferred" PROVE deferred'.changes # Nothing
  <2>1. CASE dialog' = dialog
    BY <1>1, <1>3, <1>5, <1>6, <1>10, <1>15, <2>1, DeferredCleared
  <2>2. ASSUME NEW b, ApplyDeferred(b), dialog' # dialog, deferred.changes # Nothing
        PROVE deferred'.changes # Nothing
    BY <2>2 DEF ApplyDeferred
  <2> QED
    BY <1>5, <1>7, <1>9, <1>15, <2>1, <2>2, PendingChanges
<1> QED
  BY <1>11, <1>12, <1>13, <1>14, <1>15 DEF OneAtATime, savesUnderWay, active

QuietFacts ==
    /\ \A s, t \in Slots : active(s) /\ active(t) => s = t
    /\ \A s \in Slots : active(s) => /\ remote.pc # "fetched" /\ ~dialogOpen
                                     /\ deferred.changes = Nothing
    /\ remote.pc = "fetched" => ~dialogOpen
    /\ dialog.kind = "save" => deferred.changes = Nothing
    /\ dialog.kind = "deferred" => deferred.changes # Nothing

LEMMA OneAtATimeFacts == OneAtATime => QuietFacts
BY DEF OneAtATime, QuietFacts, savesUnderWay, active

\* While a save is under way, nothing comes in.
LEMMA DuringSave ==
    ASSUME TypeInv, Quiet, [Next]_vars, ~disturbed', NEW s \in Slots, active(s)
    PROVE  \/ \E f \in Fields, v \in Values : ColleagueSaves(f, v) \/ Edit(f, v)
           \/ ServerRefuses(s) \/ ServerAccepts(s) \/ SaveAccepted(s) \/ SaveFails(s)
           \/ ConflictFetch(s) \/ ConflictMerge(s) \/ ConflictAsk(s)
           \/ PollAnswer
           \/ UNCHANGED <<server, store, baseline, known, save, unsent>>
<1>1. QuietFacts
  BY OneAtATimeFacts DEF Quiet
<1>2. underWay(Slots) /\ remote.pc # "fetched" /\ ~dialogOpen /\ deferred.changes = Nothing
  BY <1>1 DEF QuietFacts, underWay, savesUnderWay, active
<1>3. ASSUME NEW t \in Slots,
             \/ ServerRefuses(t) \/ ServerAccepts(t) \/ SaveAccepted(t) \/ SaveFails(t)
             \/ ConflictFetch(t) \/ ConflictMerge(t) \/ ConflictAsk(t)
      PROVE  t = s
  <2>1. active(t)
    BY <1>3, SaveTypes DEF ServerRefuses, ServerAccepts, SaveAccepted, SaveFails, ConflictFetch,
       ConflictMerge, ConflictAsk, TypeInv, active
  <2> QED
    BY <1>1, <2>1 DEF QuietFacts
<1>4. ASSUME NEW t \in Slots, SaveStart(t) \/ \E chosen \in SUBSET Fields : ResolveSave(t, chosen)
      PROVE  FALSE
  BY <1>2, <1>4, StartsAlone
<1>5. ASSUME NEW chosen, ResolveDeferred(chosen) PROVE FALSE
  <2>1. dialog.kind = "deferred"
    BY <1>5 DEF ResolveDeferred
  <2> QED
    BY <1>2, <2>1, DialogTypes DEF TypeInv
<1>6. ~SaveNothing /\ ~RemoteNothing /\ ~RemoteApply /\ ~Update /\ ~SaveDeferredFirst
  BY <1>2, StartsAlone DEF RemoteNothing, RemoteApply, Update, SaveDeferredFirst
<1>7. ASSUME NEW to, Navigate(to) PROVE UNCHANGED <<server, store, baseline, known, save, unsent>>
  BY <1>2, <1>7 DEF Navigate
<1>8. PollRead \/ RemoteFetch \/ RemoteFails \/ UNCHANGED vars
         => UNCHANGED <<server, store, baseline, known, save, unsent>>
  BY DEF PollRead, RemoteFetch, RemoteFails, vars, form, history
<1> QED
  BY <1>3, <1>4, <1>5, <1>6, <1>7, <1>8 DEF Next

\* While a dialog is open, only its answer changes the form.
LEMMA DuringDialog ==
    ASSUME TypeInv, Quiet, [Next]_vars, ~disturbed', dialogOpen
    PROVE  \/ \E s \in Slots, chosen \in SUBSET Fields : ResolveSave(s, chosen)
           \/ \E chosen \in SUBSET Fields : ResolveDeferred(chosen)
           \/ UNCHANGED <<dialog, store, baseline, pending, deferred, save, unsent>>
<1>1. QuietFacts
  BY OneAtATimeFacts DEF Quiet
<1>2. remote.pc # "fetched" /\ \A s \in Slots : save[s].pc = "idle"
  BY <1>1, SaveTypes DEF QuietFacts, TypeInv
<1>3. ASSUME NEW t \in Slots,
             \/ ServerRefuses(t) \/ ServerAccepts(t) \/ SaveAccepted(t) \/ SaveFails(t)
             \/ ConflictFetch(t) \/ ConflictMerge(t) \/ ConflictAsk(t)
      PROVE  FALSE
  <2>1. save[t].pc # "idle"
    BY <1>3, SaveTypes DEF ServerRefuses, ServerAccepts, SaveAccepted, SaveFails, ConflictFetch,
       ConflictMerge, ConflictAsk, TypeInv, active
  <2> QED
    BY <1>2, <2>1
<1>4. ASSUME NEW t \in Slots, SaveStart(t) PROVE FALSE
  BY <1>4, StartsAlone
<1>5. ~SaveNothing /\ ~RemoteNothing /\ ~RemoteApply /\ ~Update /\ ~SaveDeferredFirst
  BY <1>2, StartsAlone DEF RemoteNothing, RemoteApply, Update, SaveDeferredFirst
<1>6. ASSUME NEW f, NEW v, Edit(f, v) PROVE FALSE
  BY <1>6 DEF Edit
<1>7. ASSUME NEW to, Navigate(to) PROVE FALSE
  BY <1>7 DEF Navigate
<1>8. ASSUME NEW f \in Fields, NEW v \in Values, ColleagueSaves(f, v)
      PROVE  UNCHANGED <<dialog, store, baseline, pending, deferred, save, unsent>>
  BY <1>8 DEF ColleagueSaves, form
<1>9. PollRead \/ PollAnswer \/ RemoteFetch \/ RemoteFails \/ UNCHANGED vars
         => UNCHANGED <<dialog, store, baseline, pending, deferred, save, unsent>>
  BY DEF PollRead, PollAnswer, RemoteFetch, RemoteFails, vars, form, history
<1> QED
  BY <1>3, <1>4, <1>5, <1>6, <1>7, <1>8, <1>9 DEF Next

\* Another save, the poll and the colleague leave a save and what it carries.
LEMMA SaveStays ==
    ASSUME TypeInv, Quiet, [Next]_vars, ~disturbed', NEW s \in Slots, active(s),
           save'[s] = save[s]
    PROVE  /\ \A f \in Fields \ unsent' : f \notin unsent /\ store'[f] = store[f]
           /\ \/ UNCHANGED server
              \/ ~server'.bySelf /\ server'.version = server.version + 1
           /\ known' = known \/ (known' = server.version => server.bySelf)
<1>1. ASSUME NEW f \in Fields, NEW v \in Values, ColleagueSaves(f, v)
      PROVE  /\ UNCHANGED <<store, known, unsent>>
             /\ ~server'.bySelf /\ server'.version = server.version + 1
  BY <1>1 DEF ColleagueSaves, form
<1>2. ASSUME NEW g \in Fields, NEW v \in Values, Edit(g, v)
      PROVE  /\ UNCHANGED <<server, known>>
             /\ \A f \in Fields \ unsent' : f \notin unsent /\ store'[f] = store[f]
  BY <1>2 DEF Edit, TypeInv, TypeOK, Contents
<1>3. save[s].pc # "idle"
  BY SaveTypes DEF TypeInv
<1>4. ~ServerRefuses(s) /\ ~ServerAccepts(s) /\ ~ConflictFetch(s) /\ ~ConflictMerge(s)
  BY SaveChanged DEF ServerRefuses, ServerAccepts, ConflictFetch, ConflictMerge
<1>5. ~SaveAccepted(s) /\ ~SaveFails(s) /\ ~ConflictAsk(s)
  <2>1. SaveAccepted(s) \/ SaveFails(s) \/ ConflictAsk(s) => save'[s] = Idle
    BY DEF SaveAccepted, SaveFails, ConflictAsk, TypeInv, TypeOK
  <2> QED
    BY <1>3, <2>1 DEF Idle
<1>6. CASE PollAnswer
  BY <1>6, PollRaises
<1> QED
  BY <1>1, <1>2, <1>4, <1>5, <1>6, DuringSave

LEMMA CarryStep ==
    ASSUME TypeInv, TypeInv', Quiet, [Next]_vars, ~disturbed'
    PROVE  SavesCarryScreen'
<1> SUFFICES ASSUME NEW s \in Slots, active(s)'
    PROVE  /\ save'[s].pc = "put" => \A f \in Fields \ unsent' : store'[f] = save'[s].sent[f]
           /\ save'[s].pc = "accepted" /\ save'[s].version = server'.version
                 => \A f \in Fields \ unsent' : store'[f] = server'.content[f]
           /\ save'[s].pc \in {"accepted", "fetched"} /\ save'[s].version # server'.version
                 => ~server'.bySelf
           /\ save'[s].merge /\ \/ save'[s].pc = "put" /\ save'[s].expected # server'.version
                                \/ save'[s].pc \in {"refused", "fetched"}
                 => ~server'.bySelf /\ known' # server'.version
  BY DEF SavesCarryScreen, mergeSave, active, Idle
<1>1. /\ server.version \in Nat /\ known \in Nat /\ known <= server.version
      /\ save[s].pc = "put" => save[s].expected \in Nat /\ save[s].expected <= server.version
      /\ save[s].pc \in {"accepted", "fetched"}
            => save[s].version \in Nat /\ save[s].version <= server.version
      /\ save[s].pc \in {"put", "accepted", "refused", "fetched"} => active(s)
  BY SaveTypes, ServerGrows DEF TypeInv, TypeOK, VersionsExist, Versions
<1>2. CASE save'[s] = save[s]
  <2>1. active(s)
    BY <1>2 DEF active
  <2>2. /\ \A f \in Fields \ unsent' : f \notin unsent /\ store'[f] = store[f]
        /\ \/ UNCHANGED server
           \/ ~server'.bySelf /\ server'.version = server.version + 1
        /\ known' = known \/ (known' = server.version => server.bySelf)
    BY <1>2, <2>1, SaveStays
  <2>3. save'[s].pc = "put" => \A f \in Fields \ unsent' : store'[f] = save'[s].sent[f]
    BY <1>2, <2>2 DEF Quiet, SavesCarryScreen
  <2>4. save'[s].pc = "accepted" /\ save'[s].version = server'.version
           => \A f \in Fields \ unsent' : store'[f] = server'.content[f]
    BY <1>1, <1>2, <2>2 DEF Quiet, SavesCarryScreen
  <2>5. save'[s].pc \in {"accepted", "fetched"} /\ save'[s].version # server'.version
           => ~server'.bySelf
    BY <1>2, <2>2 DEF Quiet, SavesCarryScreen
  <2>6. ASSUME save'[s].merge, \/ save'[s].pc = "put" /\ save'[s].expected # server'.version
                               \/ save'[s].pc \in {"refused", "fetched"}
        PROVE  ~server'.bySelf /\ known' # server'.version
    <3>1. CASE UNCHANGED server
      <4>1. ~server.bySelf /\ known # server.version
        BY <1>2, <2>1, <2>6, <3>1 DEF Quiet, SavesCarryScreen, mergeSave
      <4> QED
        BY <2>2, <3>1, <4>1
    <3>2. CASE ~server'.bySelf /\ server'.version = server.version + 1
      <4>1. known' <= server.version
        <5>1. ASSUME NEW f \in Fields, NEW v \in Values, ColleagueSaves(f, v)
              PROVE  known' = known
          BY <5>1 DEF ColleagueSaves, form
        <5>2. \E f \in Fields, v \in Values : ColleagueSaves(f, v)
          <6>1. server' # server /\ ~ServerAccepts(s)
            BY <1>1, <1>2, <3>2, SaveChanged DEF ServerAccepts
          <6> QED
            BY <2>1, <6>1, DuringSave DEF Edit, ServerRefuses, SaveAccepted, SaveFails,
               ConflictFetch, ConflictMerge, ConflictAsk, PollAnswer
        <5> QED
          BY <1>1, <5>1, <5>2
      <4> QED
        BY <1>1, <3>2, <4>1 DEF TypeInv, TypeOK
    <3> QED
      BY <2>2, <3>1, <3>2
  <2> QED
    BY <2>3, <2>4, <2>5, <2>6
<1>3. CASE ServerRefuses(s)
  <2>1. /\ save'[s].pc = "refused" /\ save'[s].merge = save[s].merge
        /\ save[s].pc = "put" /\ save[s].expected # server.version
        /\ UNCHANGED <<server, known>>
    BY <1>3, SaveChanged DEF ServerRefuses, form
  <2> QED
    BY <1>1, <2>1 DEF Quiet, SavesCarryScreen, mergeSave
<1>4. CASE ServerAccepts(s)
  <2>1. /\ save'[s].pc = "accepted" /\ save'[s].version = server'.version
        /\ save[s].pc = "put"
        /\ server'.content = save[s].sent /\ store' = store
        /\ unsent' = {f \in unsent : store[f] # save[s].sent[f]}
    <3>1. save'[s].pc = "accepted" /\ save'[s].version = server'.version
      BY <1>4, SaveChanged
    <3>2. server'.content = save[s].sent
      BY <1>4 DEF ServerAccepts
    <3> QED
      BY <1>4, <3>1, <3>2 DEF ServerAccepts, form
  <2>2. ASSUME NEW f \in Fields \ unsent' PROVE store'[f] = server'.content[f]
    <3>1. f \notin unsent => store[f] = save[s].sent[f]
      BY <2>1 DEF Quiet, SavesCarryScreen
    <3> QED
      BY <2>1, <2>2, <3>1
  <2> QED
    BY <2>1, <2>2
<1>5. CASE SaveStart(s)
  <2>1. /\ save'[s].pc = "put" /\ save'[s].merge = FALSE /\ save'[s].sent = store
        /\ store' = store
    BY <1>5, SaveChanged DEF SaveStart
  <2> QED
    BY <2>1
<1>6. CASE ConflictFetch(s)
  <2>1. /\ save'[s].pc = "fetched" /\ save'[s].merge = save[s].merge
        /\ save'[s].version = server.version /\ save[s].pc = "refused"
        /\ UNCHANGED <<server, known>>
    BY <1>6, SaveChanged DEF ConflictFetch
  <2> QED
    BY <1>1, <2>1 DEF Quiet, SavesCarryScreen, mergeSave
<1>7. CASE ConflictMerge(s)
  <2>1. /\ save'[s].pc = "put" /\ save'[s].expected = save[s].version
        /\ save'[s].sent = store' /\ save[s].pc = "fetched"
        /\ known' = save[s].version /\ UNCHANGED server
    BY <1>7, SaveChanged DEF ConflictMerge
  <2> QED
    BY <2>1 DEF Quiet, SavesCarryScreen
<1>8. ASSUME NEW chosen \in SUBSET Fields, ResolveSave(s, chosen)
      PROVE  /\ save'[s].pc = "put" /\ save'[s].sent = store'
             /\ save'[s].expected # server'.version => ~server'.bySelf /\ known' # server'.version
  <2>1. /\ save'[s].pc = "put" /\ save'[s].expected = dialog.version
        /\ save'[s].sent = store' /\ dialog.kind = "save"
        /\ known' = dialog.version /\ UNCHANGED server
    BY <1>8, SaveResolved DEF ResolveSave
  <2> QED
    BY <2>1 DEF Quiet, OthersMadeNewer
<1> QED
  BY <1>2, <1>3, <1>4, <1>5, <1>6, <1>7, <1>8, SaveChanges DEF active

LEMMA ServerSteps ==
    ASSUME TypeInv, [Next]_vars
    PROVE  \/ server' = server
           \/ ~server'.bySelf
           \/ \E s \in Slots : active(s) /\ ServerAccepts(s)
<1>1. ASSUME NEW f \in Fields, NEW v \in Values, ColleagueSaves(f, v) PROVE ~server'.bySelf
  BY <1>1 DEF ColleagueSaves
<1>2. ASSUME NEW s \in Slots, ServerAccepts(s) PROVE active(s)
  BY <1>2, SaveTypes DEF ServerAccepts, TypeInv
<1> QED
  BY <1>1, <1>2
     DEF Next, vars, Edit, ServerRefuses, SaveStart, SaveAccepted, SaveFails, ConflictFetch,
         ConflictMerge, ConflictAsk, ResolveSave, ResolveDeferred, Navigate, Update,
         SaveDeferredFirst, SaveNothing, PollRead, PollAnswer, RemoteFetch, RemoteNothing,
         RemoteApply, RemoteFails

LEMMA OthersStep ==
    ASSUME TypeInv, Quiet, [Next]_vars, ~disturbed'
    PROVE  OthersMadeNewer'
<1>1. QuietFacts
  BY OneAtATimeFacts DEF Quiet
<1>2. ASSUME dialog'.kind = "save", dialog'.version # server'.version PROVE ~server'.bySelf
  <2>1. CASE dialog' = dialog
    <3>1. dialogOpen
      BY <1>2, <2>1, DialogTypes DEF TypeInv
    <3> QED
      BY <1>1, <1>2, <2>1, <3>1, ServerSteps DEF QuietFacts, Quiet, OthersMadeNewer
  <2>2. ASSUME NEW s \in Slots, AskedBySave(s) PROVE ~server'.bySelf
    <3>1. save[s].pc = "fetched" /\ save[s].version # server.version /\ server' = server
      BY <1>2, <2>2 DEF AskedBySave, ConflictAsk
    <3> QED
      BY <3>1 DEF Quiet, SavesCarryScreen
  <2> QED
    BY <1>2, <2>1, <2>2, DialogChanges DEF Closed, AskedByDeferred
<1>3. ASSUME remote'.pc = "fetched", remote'.version # server'.version PROVE ~server'.bySelf
  <2>1. CASE remote' = remote
    BY <1>1, <1>3, <2>1, ServerSteps DEF QuietFacts, Quiet, OthersMadeNewer
  <2>2. CASE RemoteFetch
    BY <1>3, <2>2 DEF RemoteFetch
  <2> QED
    BY <1>3, <2>1, <2>2, RemoteChanges
<1>4. ASSUME deferred'.changes # Nothing, deferred'.version # server'.version
      PROVE  ~server'.bySelf
  <2>1. CASE deferred' = deferred
    BY <1>1, <1>4, <2>1, ServerSteps DEF QuietFacts, Quiet, OthersMadeNewer
  <2>2. CASE DeferredByRemote
    <3>1. remote.pc = "fetched" /\ remote.version # server.version /\ server' = server
      BY <1>4, <2>2 DEF DeferredByRemote, RemoteApply
    <3> QED
      BY <3>1 DEF Quiet, OthersMadeNewer
  <2> QED
    BY <1>4, <2>1, <2>2, DeferredChanges
<1> QED
  BY <1>2, <1>3, <1>4 DEF OthersMadeNewer

\* Between saves, the fields that differ from the baseline are unsent edits.
LEMMA EditsAreUnsent ==
    ASSUME TypeInv, Quiet, ~savesUnderWay(Slots), dialog.kind # "save",
           NEW f \in Fields, f \notin unsent
    PROVE  store[f] = baseline[f]
<1>1. \A s \in Slots : save[s].pc # "accepted" /\ ~mergeSave(s)
  BY SaveTypes DEF TypeInv, savesUnderWay, active, mergeSave, Idle
<1> QED
  BY <1>1 DEF Quiet, BaselineIsScreen

LEMMA ShowsStep ==
    ASSUME TypeInv, Quiet, [Next]_vars, ~disturbed'
    PROVE  DialogShowsConflict'
<1>1. ASSUME NEW s \in Slots, NEW chosen, ResolveSave(s, chosen) \/ ResolveDeferred(chosen)
      PROVE  dialog' = Closed
  BY <1>1 DEF ResolveSave, ResolveDeferred
<1>2. CASE dialogOpen /\ UNCHANGED <<dialog, pending, deferred, unsent>>
  BY <1>2 DEF Quiet, DialogShowsConflict, dialogOpen, deferredFields
<1>3. CASE dialog' = Closed
  BY <1>3 DEF DialogShowsConflict, dialogOpen
<1>4. ASSUME NEW s \in Slots, ConflictAsk(s) PROVE DialogShowsConflict'
  <2> DEFINE theirs == computeFieldDiff(baseline, save[s].content)
  <2>1. /\ save[s].pc = "fetched" /\ save[s].content \in Contents
        /\ save[s].version \in Versions /\ baseline \in Contents /\ pending \in Partial
    BY <1>4, SaveTypes DEF ConflictAsk, TypeInv, TypeOK
  <2>2. /\ Ask("save", pending, theirs, save[s].version, save[s].content)
        /\ pending' = pending
    BY <1>4 DEF ConflictAsk, form
  <2>3. /\ theirs \in Partial
        /\ \A f \in DOMAIN theirs : theirs[f] = save[s].content[f]
    BY <2>1, DiffProperties
  <2> HIDE DEF theirs
  <2>4. /\ dialog'.kind = "save" /\ dialog'.content = save[s].content
        /\ \A f \in DOMAIN dialog'.mine :
              /\ f \in DOMAIN pending /\ f \in DOMAIN theirs
              /\ dialog'.mine[f] = pending[f] /\ dialog'.theirs[f] = theirs[f]
    BY <2>1, <2>2, <2>3, AskShows
  <2> QED
    BY <2>2, <2>3, <2>4 DEF DialogShowsConflict
<1>5. ASSUME NEW b, ApplyDeferred(b), dialog' # dialog PROVE DialogShowsConflict'
  <2> DEFINE mine == computeFieldDiff(baseline, store)
             theirs == deferred.changes
  <2>1. /\ mine \in Partial /\ theirs \in Partial /\ baseline \in Contents
        /\ store \in Contents /\ deferred.version \in Versions
        /\ DOMAIN mine = {f \in Fields : baseline[f] # store[f]}
    BY DiffProperties DEF TypeInv, TypeOK
  <2>2. /\ pending' = mine /\ UNCHANGED <<unsent, deferred>>
        /\ Ask("deferred", mine, theirs, deferred.version, baseline)
    BY <1>5 DEF ApplyDeferred
  <2>3. ~savesUnderWay(Slots) /\ dialog.kind # "save"
    BY <1>5, StartsAlone, DialogTypes DEF underWay, TypeInv
  <2>4. DOMAIN mine \subseteq unsent
    BY <2>1, <2>3, EditsAreUnsent
  <2> HIDE DEF mine
  <2>5. /\ dialog'.kind = "deferred"
        /\ \A f \in DOMAIN dialog'.mine :
              /\ f \in DOMAIN mine /\ f \in DOMAIN theirs
              /\ dialog'.mine[f] = mine[f] /\ dialog'.theirs[f] = theirs[f]
    BY <2>1, <2>2, AskShows
  <2> QED
    BY <2>2, <2>4, <2>5 DEF DialogShowsConflict, deferredFields
<1>6. CASE dialog' = dialog /\ ~dialogOpen
  BY <1>6 DEF DialogShowsConflict, dialogOpen
<1>7. ASSUME NEW s \in Slots, SaveStart(s) PROVE dialog' = dialog
  BY <1>7 DEF SaveStart
<1>8. ~dialogOpen \/ dialog' = Closed \/ UNCHANGED <<dialog, pending, deferred, unsent>>
  <2>1. SUFFICES ASSUME dialogOpen
                 PROVE  dialog' = Closed \/ UNCHANGED <<dialog, pending, deferred, unsent>>
    OBVIOUS
  <2>2. CASE \E s \in Slots, chosen \in SUBSET Fields : ResolveSave(s, chosen)
    BY <1>1, <2>2
  <2>3. CASE \E chosen \in SUBSET Fields : ResolveDeferred(chosen)
    BY <2>3 DEF ResolveDeferred
  <2> QED
    BY <2>1, <2>2, <2>3, DuringDialog
<1> QED
  BY <1>2, <1>3, <1>4, <1>5, <1>6, <1>7, <1>8, PendingChanges DEF AskedBySave

\* A save that has been taken, or writes a merge, ends with the baseline or a dialog.
LEMMA WrittenStays ==
    ASSUME TypeInv, Quiet, [Next]_vars, ~disturbed', NEW s \in Slots,
           ~SaveAccepted(s), ~ConflictAsk(s)
    PROVE  /\ mergeSave(s) => mergeSave(s)'
           /\ save[s].pc = "accepted" => save'[s].pc = "accepted"
<1>1. save[s].pc = "accepted" => active(s)
  BY SaveTypes DEF TypeInv
<1>2. SUFFICES ASSUME active(s), save[s].pc = "accepted" \/ mergeSave(s)
               PROVE  /\ mergeSave(s) => mergeSave(s)'
                      /\ save[s].pc = "accepted" => save'[s].pc = "accepted"
  BY <1>1 DEF mergeSave
<1>3. CASE save'[s] = save[s]
  BY <1>3 DEF mergeSave, active
<1>4. ASSUME save'[s].pc # "idle" PROVE active(s)'
  BY <1>4 DEF active, Idle
<1>5. CASE ServerRefuses(s) \/ ServerAccepts(s) \/ ConflictFetch(s) \/ ConflictMerge(s)
  <2>1. /\ save'[s].pc # "idle" /\ save[s].pc # "accepted"
        /\ mergeSave(s) => save'[s].merge
    BY <1>5, SaveChanged DEF ServerRefuses, ServerAccepts, ConflictFetch, ConflictMerge, mergeSave
  <2> QED
    BY <1>4, <2>1 DEF mergeSave
<1>6. CASE SaveFails(s)
  BY <1>2, <1>6, StartsAlone DEF mergeSave
<1>7. ASSUME NEW f \in Fields, NEW v \in Values, ColleagueSaves(f, v) \/ Edit(f, v)
      PROVE  save'[s] = save[s]
  BY <1>7 DEF ColleagueSaves, Edit
<1>8. PollAnswer => save'[s] = save[s]
  BY DEF PollAnswer
<1> QED
  BY <1>2, <1>3, <1>5, <1>6, <1>7, <1>8, DuringSave

LEMMA BaselineSteps ==
    ASSUME [Next]_vars
    PROVE  \/ baseline' = store'
           \/ \E s \in Slots : \/ ServerAccepts(s) \/ ConflictMerge(s) \/ ConflictAsk(s)
                               \/ \E chosen \in SUBSET Fields : ResolveSave(s, chosen)
           \/ \E f \in Fields, v \in Values : Edit(f, v)
           \/ /\ UNCHANGED <<store, baseline, unsent>>
              /\ dialog' = dialog \/ \E b : ApplyDeferred(b)
<1>1. ASSUME NEW b, ApplyDeferred(b)
      PROVE  baseline' = store' \/ UNCHANGED <<store, baseline, unsent>>
  BY <1>1 DEF ApplyDeferred
<1>2. Update \/ SaveDeferredFirst => \E b : ApplyDeferred(b)
  BY DEF Update, SaveDeferredFirst
<1>3. ASSUME NEW to, Navigate(to)
      PROVE  baseline' = store' \/ UNCHANGED <<store, baseline, unsent, dialog>>
  BY <1>3 DEF Navigate
<1>4. ASSUME NEW s \in Slots, SaveAccepted(s) PROVE baseline' = store'
  BY <1>4 DEF SaveAccepted
<1>5. ASSUME NEW chosen, ResolveDeferred(chosen) PROVE baseline' = store'
  BY <1>5 DEF ResolveDeferred
<1>6. RemoteApply => baseline' = store'
  BY DEF RemoteApply
<1>7. ASSUME NEW s \in Slots, ServerRefuses(s) \/ SaveStart(s) \/ SaveFails(s) \/ ConflictFetch(s)
      PROVE  UNCHANGED <<store, baseline, unsent, dialog>>
  BY <1>7 DEF ServerRefuses, SaveStart, SaveFails, ConflictFetch, form, history
<1>8. ASSUME NEW f \in Fields, NEW v \in Values, ColleagueSaves(f, v)
      PROVE  UNCHANGED <<store, baseline, unsent, dialog>>
  BY <1>8 DEF ColleagueSaves, form
<1>9. SaveNothing \/ PollRead \/ PollAnswer \/ RemoteFetch \/ RemoteNothing \/ RemoteFails
      \/ UNCHANGED vars => UNCHANGED <<store, baseline, unsent, dialog>>
  BY DEF SaveNothing, PollRead, PollAnswer, RemoteFetch, RemoteNothing, RemoteFails, vars,
         form, history
<1> QED
  BY <1>1, <1>2, <1>3, <1>4, <1>5, <1>6, <1>7, <1>8, <1>9 DEF Next

LEMMA BaselineStep ==
    ASSUME TypeInv, Quiet, [Next]_vars, ~disturbed'
    PROVE  BaselineIsScreen'
<1> SUFFICES ASSUME \A s \in Slots : save'[s].pc # "accepted" /\ ~mergeSave(s)',
                    dialog'.kind # "save", NEW f \in Fields, f \notin unsent'
             PROVE  store'[f] = baseline'[f]
  BY DEF BaselineIsScreen
<1>1. ASSUME NEW s \in Slots, ServerAccepts(s) PROVE FALSE
  BY <1>1, SaveChanged
<1>2. ASSUME NEW s \in Slots,
             ConflictMerge(s) \/ \E chosen \in SUBSET Fields : ResolveSave(s, chosen)
      PROVE  FALSE
  <2>1. save'[s].pc = "put" /\ save'[s].merge = TRUE
    BY <1>2, SaveChanged, SaveResolved
  <2> QED
    BY <2>1 DEF mergeSave, active, Idle
<1>3. ASSUME NEW s \in Slots, ConflictAsk(s) PROVE FALSE
  BY <1>3 DEF ConflictAsk, Ask
<1>4. ASSUME \A s \in Slots : ~SaveAccepted(s), dialog.kind # "save", f \notin unsent
      PROVE  store[f] = baseline[f]
  <2>1. \A s \in Slots : save[s].pc # "accepted" /\ ~mergeSave(s)
    BY <1>3, <1>4, WrittenStays
  <2> QED
    BY <1>4, <2>1 DEF Quiet, BaselineIsScreen
<1>5. ASSUME NEW s \in Slots, SaveAccepted(s) PROVE baseline' = store'
  BY <1>5 DEF SaveAccepted
<1>6. ASSUME NEW b, ApplyDeferred(b) PROVE dialog.kind # "save"
  BY <1>6, StartsAlone, DialogTypes DEF TypeInv
<1>7. ASSUME NEW g \in Fields, NEW v \in Values, Edit(g, v)
      PROVE  /\ dialog.kind # "save" /\ f \notin unsent
             /\ store'[f] = store[f] /\ baseline' = baseline
  <2>1. /\ unsent' = unsent \cup {g} /\ store' = [store EXCEPT ![g] = v]
        /\ baseline' = baseline /\ dialog' = dialog
    BY <1>7 DEF Edit
  <2> QED
    BY <2>1 DEF TypeInv, TypeOK, Contents
<1> QED
  BY <1>1, <1>2, <1>3, <1>4, <1>5, <1>6, <1>7, BaselineSteps

\* The deferred changes are the values of the server, and the rest of the screen agrees.
LEMMA DeferredAgree ==
    ASSUME TypeInv, Quiet, deferred.changes # Nothing,
           deferred.version = server.version \/ server.bySelf
    PROVE  /\ ~savesUnderWay(Slots)
           /\ \A f \in deferredFields : deferred.changes[f] = server.content[f]
           /\ \A f \in Fields \ (unsent \cup deferredFields) : store[f] = server.content[f]
<1>1. deferred.version = server.version
  BY DEF Quiet, OthersMadeNewer
<1>2. ~savesUnderWay(Slots)
  BY DEF Quiet, OneAtATime
<1>3. \A s \in Slots : ~mergeSave(s)
  BY <1>2 DEF savesUnderWay, mergeSave, active
<1> QED
  BY <1>1, <1>2, <1>3 DEF Quiet, ScreenAgrees, TypeInv, CopiesAreCurrent

LEMMA NavigateAgrees ==
    ASSUME TypeInv, Quiet, NEW to, Navigate(to), deferred.changes # Nothing,
           deferred.version = server.version \/ server.bySelf,
           NEW f \in Fields, f \notin unsent'
    PROVE  store'[f] = server.content[f]
<1>1. store \in Contents /\ deferred.changes \in Partial
  BY DEF TypeInv, TypeOK
<1>2. /\ store' = With(store, deferred.changes)
      /\ unsent' = {g \in unsent : g \in DOMAIN deferred.changes => g \in {}}
  BY DEF Navigate, Meet
<1>3. store'[f] = IF f \in deferredFields THEN deferred.changes[f] ELSE store[f]
  BY <1>1, <1>2, WithProperties DEF deferredFields
<1>4. f \notin deferredFields => f \notin unsent
  BY <1>2 DEF deferredFields
<1> QED
  BY <1>3, <1>4, DeferredAgree

LEMMA ApplyAgrees ==
    ASSUME TypeInv, Quiet, ~disturbed', NEW b, ApplyDeferred(b), deferred' # deferred,
           deferred.changes # Nothing, deferred.version = server.version \/ server.bySelf,
           NEW f \in Fields, f \notin unsent'
    PROVE  store'[f] = server.content[f]
<1> DEFINE mine == computeFieldDiff(baseline, store)
           theirs == deferred.changes
<1>1. /\ mine \in Partial /\ theirs \in Partial /\ store \in Contents
      /\ DOMAIN mine = {g \in Fields : baseline[g] # store[g]}
  <2>1. baseline \in Contents /\ store \in Contents /\ theirs \in Partial
    BY DEF TypeInv, TypeOK
  <2> QED
    BY <2>1, DiffProperties
<1>2. ~savesUnderWay(Slots) /\ dialog.kind # "save"
  BY StartsAlone, DialogTypes DEF underWay, TypeInv
<1>3. f \in DOMAIN mine => f \in unsent
  BY <1>1, <1>2, EditsAreUnsent
<1>4. /\ store' = With(With(store, theirs), mine)
      /\ unsent' = {g \in unsent : g \in DOMAIN theirs => g \in DOMAIN mine}
  <2>1. store' = With(With(store, theirs), mine) /\ Meet(DOMAIN theirs, DOMAIN mine)
    BY DEF ApplyDeferred
  <2> QED
    BY <2>1 DEF Meet
<1> HIDE DEF mine
<1>5. /\ With(store, theirs) \in Contents
      /\ With(store, theirs)[f] = IF f \in DOMAIN theirs THEN theirs[f] ELSE store[f]
  BY <1>1, WithProperties
<1>6. f \notin DOMAIN mine
  BY <1>3, <1>4
<1>7. store'[f] = IF f \in DOMAIN theirs THEN theirs[f] ELSE store[f]
  BY <1>1, <1>4, <1>5, <1>6, WithProperties
<1>8. f \notin DOMAIN theirs => f \notin unsent
  BY <1>4
<1> QED
  BY <1>7, <1>8, DeferredAgree DEF deferredFields

LEMMA ResolveAgrees ==
    ASSUME TypeInv, Quiet, NEW chosen, ResolveDeferred(chosen),
           deferred.version = server.version \/ server.bySelf,
           NEW f \in Fields, f \notin unsent'
    PROVE  store'[f] = server.content[f]
<1> DEFINE own == Only(pending, kept(chosen))
<1>1. /\ store \in Contents /\ deferred.changes \in Partial /\ pending \in Partial
      /\ dialog.kind = "deferred" /\ dialogOpen
  BY DialogTypes DEF ResolveDeferred, TypeInv, TypeOK
<1>2. /\ store' = With(With(store, deferred.changes), own)
      /\ unsent' = {g \in unsent : g \in DOMAIN deferred.changes => g \in kept(chosen)}
  BY DEF ResolveDeferred, Meet
<1>3. own \in Partial /\ DOMAIN own = DOMAIN pending \cap kept(chosen)
  BY <1>1, OnlyProperties
<1> HIDE DEF own
<1>4. deferred.changes # Nothing /\ DOMAIN pending \subseteq unsent
  BY <1>1 DEF Quiet, OneAtATime, DialogShowsConflict
<1>5. f \notin DOMAIN own
  BY <1>2, <1>3, <1>4
<1>6. /\ With(store, deferred.changes) \in Contents
      /\ With(store, deferred.changes)[f]
            = IF f \in deferredFields THEN deferred.changes[f] ELSE store[f]
  BY <1>1, WithProperties DEF deferredFields
<1>7. store'[f] = IF f \in deferredFields THEN deferred.changes[f] ELSE store[f]
  BY <1>2, <1>3, <1>5, <1>6, WithProperties
<1>8. f \notin deferredFields => f \notin unsent
  BY <1>2 DEF deferredFields
<1> QED
  BY <1>4, <1>7, <1>8, DeferredAgree

\* When a remote change brings the current version, screen, baseline and server agree.
LEMMA RemoteAgrees ==
    ASSUME TypeInv, Quiet, remote.pc = "fetched", remote.version = server.version
    PROVE  /\ remote.content = server.content
           /\ \A f \in Fields \ unsent : store[f] = baseline[f]
<1>1. ~savesUnderWay(Slots) /\ dialog.kind # "save"
  BY DialogTypes DEF Quiet, OneAtATime, TypeInv
<1> QED
  BY <1>1, EditsAreUnsent DEF TypeInv, CopiesAreCurrent

LEMMA RemoteApplyAgrees ==
    ASSUME TypeInv, Quiet, RemoteApply, remote.version = server.version,
           NEW f \in Fields, f \notin unsent', f \notin DOMAIN deferred'.changes
    PROVE  store'[f] = server.content[f]
<1> DEFINE theirs == computeFieldDiff(baseline, remote.content)
           onScreen == {g \in DOMAIN theirs : sectionOf[g] = remote.section}
           background == DOMAIN theirs \ onScreen
<1>1. /\ store \in Contents /\ baseline \in Contents /\ remote.content \in Contents
      /\ remote.pc = "fetched"
  BY RemoteTypes DEF RemoteApply, TypeInv, TypeOK
<1>2. /\ theirs \in Partial
      /\ DOMAIN theirs = {g \in Fields : baseline[g] # remote.content[g]}
      /\ \A g \in DOMAIN theirs : theirs[g] = remote.content[g]
  BY <1>1, DiffProperties
<1>3. /\ store' = With(store, Only(theirs, background))
      /\ deferred' = IF onScreen = {} THEN deferred
                     ELSE [changes |-> Only(theirs, onScreen), version |-> remote.version]
      /\ unsent' = {g \in unsent : g \in background => g \in {}}
  BY DEF RemoteApply, Meet
<1>4. /\ background \subseteq DOMAIN theirs
      /\ f \in DOMAIN theirs => f \in onScreen \/ f \in background
  OBVIOUS
<1>5. DOMAIN theirs \cap onScreen = onScreen
  OBVIOUS
<1>6. DOMAIN theirs \cap background = background
  OBVIOUS
<1> HIDE DEF theirs, onScreen, background
<1>7. /\ Only(theirs, background) \in Partial
      /\ DOMAIN Only(theirs, background) = background
      /\ \A g \in background : Only(theirs, background)[g] = theirs[g]
  <2>1. theirs \in Partial
    BY <1>2
  <2> QED
    BY <1>6, <2>1, OnlyProperties
<1>8. f \notin onScreen
  <2>1. DOMAIN Only(theirs, onScreen) = onScreen
    BY <1>2, <1>5, OnlyProperties
  <2> QED
    BY <1>3, <2>1
<1>9. remote.content = server.content /\ (f \notin unsent => store[f] = baseline[f])
  BY <1>1, RemoteAgrees
<1>10. CASE f \in background
  <2>1. store'[f] = theirs[f] /\ f \in DOMAIN theirs
    <3>1. store'[f] = Only(theirs, background)[f]
      BY <1>1, <1>3, <1>7, <1>10, WithProperties
    <3> QED
      BY <1>4, <1>7, <1>10, <3>1
  <2> QED
    BY <1>2, <1>9, <2>1
<1>11. CASE f \notin background
  <2>1. store'[f] = store[f] /\ f \notin unsent
    <3>1. store'[f] = store[f]
      BY <1>1, <1>3, <1>7, <1>11, WithProperties
    <3> QED
      BY <1>3, <1>11, <3>1
  <2>2. baseline[f] = remote.content[f]
    BY <1>2, <1>4, <1>8, <1>11
  <2> QED
    BY <1>9, <2>1, <2>2
<1> QED
  BY <1>10, <1>11

LEMMA AgreesStep ==
    ASSUME TypeInv, TypeInv', Quiet, [Next]_vars, ~disturbed'
    PROVE  ScreenAgrees'
<1> DEFINE current == \/ known = server.version
                      \/ server.bySelf
                      \/ deferred.changes # Nothing /\ deferred.version = server.version
           current2 == \/ known' = server'.version
                       \/ server'.bySelf
                       \/ deferred'.changes # Nothing /\ deferred'.version = server'.version
<1> SUFFICES ASSUME \A s \in Slots : ~mergeSave(s)', current2,
                    NEW f \in Fields, f \notin unsent', f \notin DOMAIN deferred'.changes
             PROVE  store'[f] = server'.content[f]
  BY DEF ScreenAgrees, deferredFields
<1>1. /\ server.version \in Nat /\ known \in Nat /\ known <= server.version
      /\ deferred.version \in Nat /\ deferred.version <= server.version
      /\ remote.pc = "fetched" => /\ remote.version \in Nat
                                  /\ deferred.version <= remote.version
                                  /\ remote.version <= server.version
  BY RemoteTypes, ServerGrows DEF TypeInv, TypeOK, VersionsExist, Versions
<1>2. QuietFacts
  BY OneAtATimeFacts DEF Quiet
<1>3. ASSUME NEW s \in Slots, SaveAccepted(s) PROVE store'[f] = server'.content[f]
  <2>1. /\ save[s].pc = "accepted" /\ known' = save[s].version
        /\ UNCHANGED <<server, store, deferred, unsent>>
    BY <1>3 DEF SaveAccepted, history
  <2>2. deferred.changes = Nothing
    BY <1>2, <2>1, SaveTypes DEF QuietFacts, TypeInv
  <2>3. save[s].version = server.version
    BY <2>1, <2>2 DEF Quiet, SavesCarryScreen
  <2> QED
    BY <2>1, <2>3 DEF Quiet, SavesCarryScreen
<1>4. ASSUME \A s \in Slots : ~mergeSave(s), current, f \notin unsent, f \notin deferredFields
      PROVE  store[f] = server.content[f]
  BY <1>4 DEF Quiet, ScreenAgrees
<1>5. ASSUME NEW s \in Slots, ConflictAsk(s) PROVE store'[f] = server'.content[f]
  <2>1. /\ save[s].pc = "fetched"
        /\ UNCHANGED <<server, store, known, deferred, unsent>>
    BY <1>5 DEF ConflictAsk, form
  <2>2. active(s) /\ deferred.changes = Nothing
    BY <1>2, <2>1, SaveTypes DEF QuietFacts, TypeInv
  <2>3. current
    BY <2>1
  <2>4. ~mergeSave(s)
    BY <2>1, <2>2, <2>3 DEF Quiet, SavesCarryScreen
  <2>5. \A t \in Slots : ~mergeSave(t)
    BY <1>2, <2>2, <2>4 DEF QuietFacts, mergeSave
  <2> QED
    BY <1>4, <2>1, <2>3, <2>5 DEF deferredFields
<1>6. ASSUME \A s \in Slots : ~SaveAccepted(s) /\ ~ConflictAsk(s)
      PROVE  \A s \in Slots : ~mergeSave(s)
  BY <1>6, WrittenStays
<1>7. ASSUME UNCHANGED <<server, store, known, deferred, unsent>>
      PROVE  store'[f] = server'.content[f]
  <2>1. current
    BY <1>7
  <2> QED
    BY <1>3, <1>4, <1>5, <1>6, <1>7, <2>1 DEF deferredFields
<1>8. ASSUME NEW g \in Fields, NEW v \in Values, ColleagueSaves(g, v) PROVE FALSE
  <2>1. /\ server'.version = server.version + 1 /\ ~server'.bySelf
        /\ UNCHANGED <<known, deferred>>
    BY <1>8 DEF ColleagueSaves, form
  <2> QED
    BY <1>1, <2>1
<1>9. ASSUME NEW s \in Slots, ServerAccepts(s) PROVE store'[f] = server'.content[f]
  <2>1. save'[s].pc = "accepted" /\ save'[s].version = server'.version
    BY <1>9, SaveChanged
  <2> QED
    BY <2>1, CarryStep DEF SavesCarryScreen
<1>10. ASSUME NEW g \in Fields, NEW v \in Values, Edit(g, v)
       PROVE  store'[f] = server'.content[f]
  <2>1. /\ unsent' = unsent \cup {g} /\ store' = [store EXCEPT ![g] = v]
        /\ UNCHANGED <<server, known, deferred>>
    BY <1>10 DEF Edit
  <2>2. f \notin unsent /\ store'[f] = store[f]
    BY <2>1 DEF TypeInv, TypeOK, Contents
  <2>3. current
    BY <2>1
  <2> QED
    BY <1>3, <1>4, <1>5, <1>6, <2>1, <2>2, <2>3 DEF deferredFields
<1>11. ASSUME known' = deferred.version, deferred' = NoneDeferred(deferred.version),
              server' = server
       PROVE  deferred.version = server.version \/ server.bySelf
  BY <1>11 DEF NoneDeferred
<1>12. ASSUME NEW to, Navigate(to) PROVE store'[f] = server'.content[f]
  <2>1. CASE deferred.changes = Nothing
    BY <1>7, <1>12, <2>1 DEF Navigate
  <2>2. CASE deferred.changes # Nothing
    <3>1. /\ known' = deferred.version /\ deferred' = NoneDeferred(deferred.version)
          /\ server' = server
      BY <1>12, <2>2 DEF Navigate
    <3> QED
      BY <1>11, <1>12, <2>2, <3>1, NavigateAgrees
  <2> QED
    BY <2>1, <2>2
<1>13. ASSUME NEW b, ApplyDeferred(b), deferred.changes # Nothing, server' = server
       PROVE  store'[f] = server'.content[f]
  <2>1. CASE UNCHANGED <<store, known, baseline, deferred, unsent>>
    BY <1>7, <1>13, <2>1
  <2>2. CASE known' = deferred.version /\ deferred' = NoneDeferred(deferred.version)
    <3>1. deferred' # deferred
      BY <1>13, <2>2 DEF NoneDeferred
    <3> QED
      BY <1>11, <1>13, <2>2, <3>1, ApplyAgrees
  <2> QED
    BY <1>13, <2>1, <2>2 DEF ApplyDeferred
<1>14. Update \/ SaveDeferredFirst => store'[f] = server'.content[f]
  BY <1>13 DEF Update, SaveDeferredFirst
<1>15. ASSUME NEW s \in Slots,
              ConflictMerge(s) \/ \E chosen \in SUBSET Fields : ResolveSave(s, chosen)
       PROVE  FALSE
  <2>1. save'[s].pc = "put" /\ save'[s].merge = TRUE
    BY <1>15, SaveChanged, SaveResolved
  <2> QED
    BY <2>1 DEF mergeSave, active, Idle
<1>16. ASSUME NEW chosen \in SUBSET Fields, ResolveDeferred(chosen)
       PROVE  store'[f] = server'.content[f]
  <2>1. /\ known' = deferred.version /\ deferred' = NoneDeferred(deferred.version)
        /\ server' = server
    BY <1>16 DEF ResolveDeferred
  <2> QED
    BY <1>11, <1>16, <2>1, ResolveAgrees
<1>17. CASE PollAnswer
  <2>1. /\ UNCHANGED <<server, store, deferred, unsent>>
        /\ known' = known \/ (known' = server.version => server.bySelf)
    BY <1>17, PollRaises
  <2>2. current
    BY <2>1
  <2> QED
    BY <1>3, <1>4, <1>5, <1>6, <2>1, <2>2 DEF deferredFields
<1>18. CASE RemoteNothing
  <2>1. /\ remote.pc = "fetched" /\ remote.content = baseline /\ known' = remote.version
        /\ UNCHANGED <<server, store, deferred, unsent>>
    BY <1>18 DEF RemoteNothing, history
  <2>2. CASE remote.version = server.version
    BY <2>1, <2>2, RemoteAgrees
  <2>3. CASE remote.version # server.version
    <3>1. deferred.changes # Nothing /\ deferred.version = server.version
      BY <2>1, <2>3 DEF Quiet, OthersMadeNewer
    <3> QED
      BY <1>1, <2>1, <2>3, <3>1
  <2> QED
    BY <2>2, <2>3
<1>19. CASE RemoteApply
  <2>1. /\ remote.pc = "fetched" /\ known' = remote.version /\ UNCHANGED server
        /\ deferred' = deferred \/ deferred'.version = remote.version
    BY <1>19 DEF RemoteApply
  <2>2. remote.version = server.version
    <3>1. server.bySelf => remote.version = server.version
      BY <2>1 DEF Quiet, OthersMadeNewer
    <3> QED
      BY <1>1, <2>1, <3>1
  <2> QED
    BY <1>19, <2>1, <2>2, RemoteApplyAgrees
<1>20. ASSUME NEW s \in Slots, ServerRefuses(s) \/ SaveStart(s) \/ SaveFails(s) \/ ConflictFetch(s)
       PROVE  UNCHANGED <<server, store, known, deferred, unsent>>
  BY <1>20 DEF ServerRefuses, SaveStart, SaveFails, ConflictFetch, form, history
<1>21. SaveNothing \/ PollRead \/ RemoteFetch \/ RemoteFails \/ UNCHANGED vars
          => UNCHANGED <<server, store, known, deferred, unsent>>
  BY DEF SaveNothing, PollRead, RemoteFetch, RemoteFails, vars, form, history
<1> HIDE DEF current, current2
<1> QED
  BY <1>3, <1>5, <1>7, <1>8, <1>9, <1>10, <1>12, <1>14, <1>15, <1>16, <1>17, <1>18, <1>19,
     <1>20, <1>21 DEF Next

LEMMA QuietInvariant == Spec => [](TypeInv /\ QuietInv)
<1>1. Init => QuietInv
  <2> SUFFICES ASSUME Init PROVE Quiet
    BY DEF QuietInv, Quiet
  <2>1. /\ \A s \in Slots : save[s] = Idle /\ save[s].pc = "idle"
        /\ dialog = Closed /\ dialog.kind = "closed" /\ remote.pc = "idle"
        /\ deferred.changes = Nothing
        /\ store = server.content /\ baseline = store
    BY DEF Init, Idle, Closed, NoneDeferred
  <2> QED
    BY <2>1 DEF Quiet, OneAtATime, SavesCarryScreen, OthersMadeNewer, DialogShowsConflict,
       BaselineIsScreen, ScreenAgrees, active, mergeSave, savesUnderWay, dialogOpen
<1>2. TypeInv /\ TypeInv' /\ QuietInv /\ [Next]_vars => QuietInv'
  <2> SUFFICES ASSUME TypeInv, TypeInv', QuietInv, [Next]_vars, ~disturbed'
               PROVE  /\ OneAtATime' /\ SavesCarryScreen' /\ OthersMadeNewer'
                      /\ DialogShowsConflict' /\ BaselineIsScreen' /\ ScreenAgrees'
    BY DEF QuietInv
  <2>1. Quiet
    BY DisturbedStays DEF QuietInv, Quiet
  <2> QED
    BY <2>1, OneStep, CarryStep, OthersStep, ShowsStep, BaselineStep, AgreesStep
<1> QED
  BY <1>1, <1>2, TypeInvariant, PTL DEF Spec

(* ScreenIsServer: a quiet client that knows the current version shows what *)
(* the server has, but for the edits no save has taken and the changes the  *)
(* user is offered.                                                         *)
THEOREM ScreenShowsServer == Spec => []ScreenIsServer
<1>1. ASSUME QuietInv, ~disturbed, ~savesUnderWay(Slots), known = server.version,
             NEW f \in Fields, f \notin unsent, f \notin DOMAIN deferred.changes
      PROVE  store[f] = server.content[f]
  <2>1. \A s \in Slots : ~mergeSave(s)
    BY <1>1 DEF savesUnderWay, mergeSave, active
  <2> QED
    BY <1>1, <2>1 DEF QuietInv, ScreenAgrees, deferredFields
<1>2. QuietInv => ScreenIsServer
  BY <1>1, Zenon DEF ScreenIsServer
<1> QED
  BY <1>2, QuietInvariant, PTL

(* ChoicesHonoured: each field of a conflict becomes what the user chose,   *)
(* whatever came in while the dialog was open.                              *)
THEOREM ChoicesAreHonoured == Spec => ChoicesHonoured
<1> DEFINE honoured ==
       \A chosen \in SUBSET Fields :
          (ResolveDeferred(chosen) \/ \E s \in Slots : ResolveSave(s, chosen)) /\ ~disturbed'
          => \A f \in DOMAIN dialog.mine :
                store'[f] = IF f \in chosen THEN dialog.mine[f] ELSE dialog.theirs[f]
<1>1. TypeInv /\ QuietInv /\ [Next]_vars => [honoured]_vars
  <2> SUFFICES ASSUME TypeInv, QuietInv, [Next]_vars, ~disturbed', NEW chosen \in SUBSET Fields,
                      ResolveDeferred(chosen) \/ \E s \in Slots : ResolveSave(s, chosen),
                      NEW f \in DOMAIN dialog.mine
               PROVE  store'[f] = IF f \in chosen THEN dialog.mine[f] ELSE dialog.theirs[f]
    OBVIOUS
  <2> DEFINE own == Only(pending, kept(chosen))
  <2>1. dialogOpen /\ dialog.mine \in Partial /\ dialog.content \in Contents
        /\ pending \in Partial /\ store \in Contents /\ deferred.changes \in Partial
    BY DialogTypes DEF ResolveDeferred, ResolveSave, TypeInv, TypeOK
  <2>2. Quiet
    BY DisturbedStays DEF QuietInv, Quiet
  <2>3. /\ f \in Fields /\ f \in DOMAIN pending /\ pending[f] = dialog.mine[f]
        /\ dialog.kind = "save" => dialog.content[f] = dialog.theirs[f]
        /\ dialog.kind = "deferred"
              => f \in DOMAIN deferred.changes /\ deferred.changes[f] = dialog.theirs[f]
    BY <2>1, <2>2, PartialDef DEF Quiet, DialogShowsConflict, deferredFields
  <2>4. /\ own \in Partial /\ DOMAIN own = DOMAIN pending \cap kept(chosen)
        /\ f \in DOMAIN own => own[f] = pending[f]
    <3>1. pending \in Partial
      BY <2>1
    <3> QED
      BY <3>1, OnlyProperties
  <2>5. f \in DOMAIN own <=> f \in chosen
    BY <2>3, <2>4 DEF kept
  <2> HIDE DEF own
  <2>6. CASE ResolveDeferred(chosen)
    <3>1. dialog.kind = "deferred" /\ store' = With(With(store, deferred.changes), own)
      BY <2>6 DEF ResolveDeferred, own
    <3>2. /\ With(store, deferred.changes) \in Contents
          /\ With(store, deferred.changes)[f] = dialog.theirs[f]
      BY <2>1, <2>3, <3>1, WithProperties
    <3> QED
      BY <2>3, <2>4, <2>5, <3>1, <3>2, WithProperties
  <2>7. ASSUME NEW s \in Slots, ResolveSave(s, chosen)
        PROVE  store'[f] = IF f \in chosen THEN dialog.mine[f] ELSE dialog.theirs[f]
    <3>1. dialog.kind = "save" /\ store' = With(dialog.content, own)
      BY <2>7 DEF ResolveSave, own
    <3>2. store'[f] = IF f \in DOMAIN own THEN own[f] ELSE dialog.content[f]
      <4>1. dialog.content \in Contents /\ own \in Partial /\ f \in Fields
        BY <2>1, <2>3, <2>4
      <4> QED
        BY <3>1, <4>1, WithProperties
    <3> QED
      BY <2>3, <2>4, <2>5, <3>1, <3>2
  <2> QED
    BY <2>6, <2>7
<1> QED
  BY <1>1, QuietInvariant, PTL DEF Spec, ChoicesHonoured

=============================================================================
