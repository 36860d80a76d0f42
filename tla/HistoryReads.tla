----------------------------- MODULE HistoryReads -----------------------------
(***************************************************************************)
(* Reading an old version (GET /:assessmentId/versions/:version with       *)
(* includeState, routes/assessments.ts) beside the writers of              *)
(* AssessmentStore, and the in-memory LRU that keeps the states it has     *)
(* replayed (utils/rebuildStateCache.ts).  The handler reads the current   *)
(* version, then the version row, then the edits, and if it finds none the *)
(* instance; writers run between the queries, and nothing ever invalidates *)
(* the cache.                                                              *)
(***************************************************************************)
EXTENDS AssessmentStore, Sequences, SequencesExt

CONSTANTS
    Readers,       \* identifiers of the reads in flight
    MaxEntries     \* MAX_ENTRIES of the cache

ASSUME MaxEntriesAssumption == MaxEntries \in Nat \ {0}

VARIABLES
    read,          \* the handler activation of each reader
    cache,         \* the cached states of this assessment, least recently used first
    premature      \* history: a read was started before the creation had ended

readVars == <<read, cache, premature>>
allVars == <<vars, readVars>>

NotReading == [pc |-> "idle"]
\* seen is history: what replaying the version gave when the read started.
Read == [pc : {"findRow", "replay", "fallback", "answered"}, version : Versions, immutable : BOOLEAN,
         seen : Edits, content : Edits]
\* Only versions that have a successor are cached.
Entry == [version : 1..(MaxVersion - 1), content : Edits]

ReadInit ==
    /\ Init
    /\ read = [d \in Readers |-> NotReading]
    /\ cache = <<>>
    /\ premature = FALSE

\* What rebuildState gives when no writer runs between its queries: no edits at all
\* give the cached state.  A field without any edit is absent from the replayed state.
isFallback(n) == \A v \in versions : v.version <= n => v.edits = NoEdits
rebuilt(n) ==
    IF isFallback(n)
    THEN cachedState
    ELSE [f \in Fields |-> IF rowsTouching(versions, f, n) = {} THEN NoEdit
                           ELSE replay(versions, f, n)]

\* The cache with the entry of version n deleted.
Without(n) == IF \E k \in DOMAIN cache : cache[k].version = n
              THEN RemoveAt(cache, CHOOSE k \in DOMAIN cache : cache[k].version = n)
              ELSE cache
cached(n) == {e \in ToSet(cache) : e.version = n}

\* getCachedRebuild: a hit becomes the most recently used entry.
getCachedRebuild(e) == cache' = Append(Without(e.version), e)

\* Mutant of setCachedRebuild: the bound is checked before the entry is added.
setCachedRebuildOverfull(n, content) ==
    LET kept == Without(n)
    IN cache' = Append(IF Len(kept) > MaxEntries THEN Tail(kept) ELSE kept,
                       [version |-> n, content |-> content])

\* setCachedRebuild drops the least recently used entry when there are too many.
setCachedRebuild(n, content) ==
    LET kept == Append(Without(n), [version |-> n, content |-> content])
    IN cache' = IF Len(kept) > MaxEntries THEN Tail(kept) ELSE kept

\* Mutant of isImmutable: the newest version counts as immutable too.
isImmutableNewest(n) == n <= currentVersion

isImmutable(n) == n < currentVersion

-----------------------------------------------------------------------------
(* The handler.                                                            *)

\* requireAssessmentAccess reads the current version.  (A reader that has its
\* answer may ask again.)
StartRead(d, n) ==
    /\ read[d].pc \in {"idle", "answered"}
    /\ currentVersion # 0
    /\ read' = [read EXCEPT ![d] = [pc |-> "findRow", version |-> n, seen |-> rebuilt(n),
                                    immutable |-> isImmutable(n), content |-> NoEdits]]
    /\ premature' = (premature \/ creation # Created)
    /\ UNCHANGED cache

\* The version row is looked up; without one the answer is 404.
RowNotFound(d) ==
    /\ read[d].pc = "findRow"
    /\ \A v \in versions : v.version # read[d].version
    /\ read' = [read EXCEPT ![d] = NotReading]
    /\ UNCHANGED <<cache, premature>>

RowFoundCached(d) ==
    /\ read[d].pc = "findRow"
    /\ \E v \in versions : v.version = read[d].version
    /\ read[d].immutable
    /\ \E e \in cached(read[d].version) :
          /\ getCachedRebuild(e)
          /\ read' = [read EXCEPT ![d].pc = "answered", ![d].content = e.content]
    /\ UNCHANGED premature

RowFound(d) ==
    /\ read[d].pc = "findRow"
    /\ \E v \in versions : v.version = read[d].version
    /\ read[d].immutable => cached(read[d].version) = {}
    /\ read' = [read EXCEPT ![d].pc = "replay"]
    /\ UNCHANGED <<cache, premature>>

\* The edits are read and replayed, and the state is cached unless it is too large.
Replay(d) ==
    /\ read[d].pc = "replay"
    /\ ~isFallback(read[d].version)
    /\ LET n == read[d].version
       IN  /\ read' = [read EXCEPT ![d].pc = "answered", ![d].content = rebuilt(n)]
           /\ \/ UNCHANGED cache
              \/ read[d].immutable /\ setCachedRebuild(n, rebuilt(n))
    /\ UNCHANGED premature

\* The query finds no edits: none were inserted yet, or the assessment was deleted
\* since its row was found.
NoEditsFound(d) ==
    /\ read[d].pc = "replay"
    /\ isFallback(read[d].version)
    /\ read' = [read EXCEPT ![d].pc = "fallback"]
    /\ UNCHANGED <<cache, premature>>

\* instance?.cachedState ?? {}: without an instance the answer is an empty state,
\* with the status 200.  It is not cached.
ReadCachedState(d) ==
    /\ read[d].pc = "fallback"
    /\ read' = [read EXCEPT ![d].pc = "answered",
                            ![d].content = IF currentVersion = 0 THEN NoEdits ELSE cachedState]
    /\ UNCHANGED <<cache, premature>>

\* A query fails: nothing is cached.
ReadFails(d) ==
    /\ read[d].pc \in {"findRow", "replay", "fallback"}
    /\ read' = [read EXCEPT ![d] = NotReading]
    /\ UNCHANGED <<cache, premature>>

\* Entries of other assessments push out the least recently used one.
EvictedByOthers ==
    /\ cache # <<>>
    /\ cache' = Tail(cache)
    /\ UNCHANGED <<read, premature>>

\* A restart of the server loses the cache and every activation.
Restart ==
    /\ cache' = <<>>
    /\ read' = [d \in Readers |-> NotReading]
    /\ request' = [r \in Requests |-> Idle]
    /\ creation' = IF creation = Created THEN Created ELSE Interrupted
    /\ UNCHANGED <<currentVersion, cachedState, versions, overwritten, lastSaver, premature>>

ReadNext ==
    \/ Next /\ UNCHANGED readVars
    \/ \E d \in Readers :
          \/ /\ \/ \E n \in Versions : StartRead(d, n)
                \/ RowNotFound(d) \/ RowFoundCached(d) \/ RowFound(d)
                \/ Replay(d) \/ NoEditsFound(d) \/ ReadCachedState(d) \/ ReadFails(d)
             /\ UNCHANGED vars
    \/ EvictedByOthers /\ UNCHANGED vars
    \/ Restart

ReadSpec == ReadInit /\ [][ReadNext]_allVars

-----------------------------------------------------------------------------
(* Properties.                                                             *)

\* A hit re-inserts its entry and an insert evicts the oldest one afterwards: the
\* cache never holds more than MaxEntries states, nor two of one version.
CacheIsBounded ==
    /\ Len(cache) <= MaxEntries
    /\ \A i, j \in DOMAIN cache : cache[i].version = cache[j].version => i = j

\* Every variable has its type and the cache its bound; in particular only versions
\* older than the newest possible one are ever cached or read as immutable.
ReadTypeOK ==
    /\ read \in [Readers -> Read \cup {NotReading}]
    /\ \A d \in Readers :
          read[d] # NotReading /\ read[d].immutable => read[d].version < MaxVersion
    /\ \A i \in DOMAIN cache : cache[i] \in Entry
    /\ CacheIsBounded
    /\ premature \in BOOLEAN

\* The header of utils/rebuildStateCache.ts: "the rebuilt state can never change - no
\* invalidation needed".  Every cached state is still what a replay of its version
\* gives, however old the decision to cache it was and whatever was saved,
\* consolidated or described since (if no read met a half-created assessment).
CacheIsFresh ==
    currentVersion # 0 /\ ~premature =>
        \A i \in DOMAIN cache : cache[i].content = rebuilt(cache[i].version)

\* A read of a version that was old when the read started answers with what that
\* version contained at that moment, whether it came from the cache or from a
\* replay several writes later.  The one exception is an assessment deleted during
\* the read: rebuildState may then find nothing at all and answer an empty state (as
\* a success), but never a part of what the version held.
OldVersionsReadConsistently ==
    \A d \in Readers :
        read[d].pc = "answered" /\ read[d].immutable /\ ~premature
            => \/ read[d].content = read[d].seen
               \/ currentVersion = 0 /\ read[d].content = NoEdits

=============================================================================
