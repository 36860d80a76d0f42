-------------------------- MODULE VersionedDocument --------------------------
(***************************************************************************)
(* What the version history of an assessment promises its readers, without *)
(* requests, rows or edits: contents[n] is the content as of version n.  A *)
(* save makes one new newest version.  It may take the place of the newest *)
(* version before it, whose number then shows what the version below it    *)
(* shows, but never of the initial version; nothing below the newest       *)
(* version ever changes.  The document ends with its deletion.             *)
(***************************************************************************)
EXTENDS Integers

CONSTANT Contents   \* what a version may contain

VARIABLES
    current,        \* the newest version; 0: there is no (complete) document
    contents        \* the content as of each version

docVars == <<current, contents>>

NoContents == [n \in 1..0 |-> {}]

Init == current = 0 /\ contents = NoContents

\* The creation ends; saves may have come before its end.
Create ==
    /\ current = 0
    /\ current' \in Nat \ {0}
    /\ contents' \in [1..current' -> Contents]

\* A save: whatever it does to the newest version, the older ones stay.
Save ==
    /\ current # 0
    /\ current' = current + 1
    /\ contents' \in [1..current' -> Contents]
    /\ \A n \in 1..(current - 1) : contents'[n] = contents[n]

AddVersion == Save /\ contents'[current] = contents[current]

AmendNewest == Save /\ current > 1 /\ contents'[current] = contents[current - 1]

Delete ==
    /\ current # 0
    /\ current' = 0
    /\ contents' = NoContents

Next == Create \/ AddVersion \/ AmendNewest \/ Delete

Spec == Init /\ [][Next]_docVars

=============================================================================
