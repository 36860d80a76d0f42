---------------------------- MODULE MCEditorSession ----------------------------
(* Model values for checking EditorSession with TLC.                           *)
EXTENDS EditorSession, TLC

CONSTANTS f, g, blank, x, y

MCFields == {f, g}
MCValues == {blank, x, y}

\* Fields are interchangeable, and so are the values that are not blank.
Symmetry == Permutations(MCFields) \cup Permutations({x, y})

================================================================================
