---------------------------- MODULE MCHistoryReads ----------------------------
(* Model values and symmetry for checking HistoryReads with TLC.             *)
EXTENDS HistoryReads, TLC

CONSTANTS alice, bob, r1, d1, d2, f1, a, b

MCUsers == {alice, bob}
MCOwners == {alice}
MCRequests == {r1}
MCReaders == {d1, d2}
MCFields == {f1}
MCValues == {a, b}
\* Ordinary saves: a new row appears when the other user saves, or the window closed.
MCSaveFlags == {<<FALSE, FALSE>>}
MCPatchVersions == {}

\* Bounds: at most one save commits before the creation has ended or after it was
\* interrupted, and a read that met a half-created assessment ends the behaviour.
EarlySaves == creation = Created \/ currentVersion <= 2
Bounds == EarlySaves /\ ~premature

Symmetry == Permutations(MCValues) \cup Permutations(MCReaders)

==============================================================================
