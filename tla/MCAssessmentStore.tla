-------------------------- MODULE MCAssessmentStore --------------------------
(* Model values and symmetry for checking AssessmentStore with TLC.          *)
EXTENDS AssessmentStore, TLC

CONSTANTS alice, bob, r1, r2, f1, f2, a, b

MCUsers == {alice, bob}
MCOwners == {alice}
MCEditors == {alice, bob}
MCRequests == {r1, r2}
MCFields == {f1, f2}
MCValues == {a, b}
\* An ordinary save, and a restore (new version with a description).
MCSaveFlags == {<<FALSE, FALSE>>, <<TRUE, TRUE>>}
MCPatchVersions == {2}

\* Bound: at most one save commits before the creation has ended or after it was
\* interrupted.
EarlySaves == creation = Created \/ currentVersion <= 2

\* Requests and fields are interchangeable, and so are the values of a field.
Symmetry == Permutations(MCRequests) \cup Permutations(MCFields) \cup Permutations(MCValues)

==============================================================================
