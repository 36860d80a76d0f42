-------------------------- MODULE MCClientPersistence --------------------------
(* Model values, two sections of one field each, for checking               *)
(* ClientPersistence with TLC.                                              *)
EXTENDS ClientPersistence, TLC

CONSTANTS f1, f2, v0, v1, v2, s1, s2, a, b

MCFields == {f1, f2}
MCValues == {v0, v1, v2}
MCSlots == {s1, s2}
MCSections == {a, b}
MCSectionOf == f1 :> a @@ f2 :> b

OneSection == {a}
AllInOne == f1 :> a @@ f2 :> a

OneSlot == {s1}

Symmetry == Permutations(MCValues \ {v0}) \cup Permutations(MCSlots)

=============================================================================
