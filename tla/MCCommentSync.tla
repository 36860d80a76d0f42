---------------------------- MODULE MCCommentSync ----------------------------
(* Model values and bounds for checking CommentSync with TLC.  To the list of *)
(* comments, a write whose answer is lost is what a write of a colleague is,  *)
(* so that one user is enough.                                                *)
EXTENDS CommentSync

CONSTANTS me, r1, r2

MCUsers == {me}
MCRequests == {r1, r2}

\* Bounds on what overlaps: any request beside an edit, which it may overtake; and a
\* reply beside the deletion of its thread (the only comment, by someone else's tab).
Begins(r) == call[r] = Idle /\ call'[r] # Idle
UnderWay(r, kind) == call[r].pc \in {"write", "stamped", "commit"} /\ call[r].kind = kind

Overlaps ==
    /\ Begins(r1) => call'[r1].kind # "edit" /\ ~UnderWay(r2, "delete")
    /\ Begins(r2) =>
          \/ call'[r2].kind = "edit"
          \/ /\ call'[r2].kind = "delete" /\ call'[r2].root
             /\ UnderWay(r1, "reply") /\ rows = Row(1) /\ clock <= 2
    /\ UnderWay(r2, "delete") => call'[r2].pc # "done"

=============================================================================
