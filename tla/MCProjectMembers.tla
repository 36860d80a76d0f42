--------------------------- MODULE MCProjectMembers ---------------------------
(* Model values and symmetry for checking ProjectMembers with TLC.           *)
EXTENDS ProjectMembers, TLC

CONSTANTS u1, u2, u3, q1, q2

MCUsers == {u1, u2, u3}
\* editor stands for every role below owner.
MCRoles == {"owner", "editor"}
MCRequests == {q1, q2}

Symmetry == Permutations(MCUsers) \cup Permutations(MCRequests)

==============================================================================
