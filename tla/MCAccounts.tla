------------------------------ MODULE MCAccounts ------------------------------
(* Model values and symmetry for checking Accounts with TLC.                 *)
EXTENDS Accounts, TLC

CONSTANTS e1, e2, e3, s1, s2, s3, l1, l2, v1

MCAddresses == {e1, e2, e3}
MCSubs == {s1, s2, s3}
MCLogins == {l1, l2}
MCInvites == {v1}

Symmetry == Permutations(MCAddresses) \cup Permutations(MCSubs) \cup Permutations(MCLogins)

==============================================================================
