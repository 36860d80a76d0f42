------------------------------- MODULE Comments -------------------------------
(***************************************************************************)
(* The comments of one assessment, as the handlers of routes/comments.ts   *)
(* write them: a first query looks at the comment the request names, a     *)
(* later one writes, without a transaction around both, and a write shows  *)
(* some time after its stamp was taken.  The column parent_id has no       *)
(* foreign key (db/schema.ts).                                             *)
(*                                                                         *)
(* A body is the stamp with which it was written.  Stamps are a counter,   *)
(* so that no two writes share one.  Only the answers to one user, Me, are *)
(* followed.                                                               *)
(***************************************************************************)
EXTENDS Integers, FiniteSets

CONSTANTS
    Users,       \* the members that may comment
    Me,          \* the one whose browser CommentSync follows
    Editors,     \* those that may resolve a thread
    Owners,      \* those that may delete any comment
    Requests,    \* identifiers of the requests in flight
    MaxClock     \* bound on the stamps

ASSUME RolesAssumption == Owners \subseteq Editors /\ Editors \subseteq Users
ASSUME MeAssumption == Me \in Users
ASSUME MaxClockAssumption == MaxClock \in Nat

VARIABLES
    rows,        \* the table comments
    clock,       \* the last stamp of an insert or update
    call,        \* the handler activation of each request
    raced        \* history: replies inserted while their parent went, or later

vars == <<rows, clock, call, raced>>

NoComment == 0
Ids == 1..MaxClock

\* id is the time of creation; parent is NoComment in the root of a thread.
Comment == [id : Ids, parent : Ids \cup {NoComment}, author : Users, body : Ids,
            resolved : BOOLEAN, updated : Ids]

Idle == [pc |-> "idle"]
\* root: the comment the request names is the root of a thread; at: the stamp of its
\* write; doomed: the replies that a deletion has locked.  A handler that is done has
\* answered Me, who has not heard it.
Call == [pc : {"write", "stamped", "commit", "done"}, user : Users, at : Ids \cup {NoComment},
         kind : {"create", "reply", "edit", "resolve", "reopen", "delete"},
         target : Ids \cup {NoComment}, root : BOOLEAN, doomed : SUBSET Ids]

isRoot(c) == c.parent = NoComment
Row(id) == {c \in rows : c.id = id}
repliesTo(id) == {c.id : c \in {d \in rows : d.parent = id}}
Locked(id) == \E r \in Requests : call[r].pc = "commit" /\ id \in call[r].doomed

Init ==
    /\ rows = {} /\ clock = 0
    /\ call = [r \in Requests |-> Idle]
    /\ raced = {}

-----------------------------------------------------------------------------
(* The first query.  A request that it refuses leaves no trace.            *)

\* Mutant of mayName: one may reply to a reply.
mayNameReplies(u, kind, c) ==
    \/ kind = "reply"
    \/ kind = "edit" /\ c.author = u
    \/ kind \in {"resolve", "reopen"} /\ isRoot(c) /\ u \in Editors
    \/ kind = "delete" /\ (c.author = u \/ u \in Owners)

\* Threads are one level deep, an author edits, an editor resolves.
mayName(u, kind, c) ==
    \/ kind = "reply" /\ isRoot(c)
    \/ kind = "edit" /\ c.author = u
    \/ kind \in {"resolve", "reopen"} /\ isRoot(c) /\ u \in Editors
    \/ kind = "delete" /\ (c.author = u \/ u \in Owners)

query(u, kind, target, root) ==
    [pc |-> "write", user |-> u, kind |-> kind, at |-> NoComment, target |-> target,
     root |-> root, doomed |-> {}]

Start(r, u, kind, c) ==
    /\ call[r] = Idle
    /\ kind \in {"reply", "delete"}
    /\ mayName(u, kind, c)
    /\ call' = [call EXCEPT ![r] = query(u, kind, c.id, isRoot(c))]
    /\ UNCHANGED <<rows, clock, raced>>

-----------------------------------------------------------------------------
(* The stamp.                                                              *)

Stamp(r, q) ==
    /\ clock < MaxClock
    /\ clock' = clock + 1
    /\ call' = [call EXCEPT ![r] = [q EXCEPT !.pc = "stamped", !.at = clock']]
    /\ UNCHANGED <<rows, raced>>

\* new Date() at the answer to the first query, before the UPDATE is sent.
StartUpdate(r, u, kind, c) ==
    /\ call[r] = Idle
    /\ kind \in {"edit", "resolve", "reopen"}
    /\ mayName(u, kind, c)
    /\ Stamp(r, query(u, kind, c.id, isRoot(c)))

\* An insert gets the database's now(), before it shows.  A new thread has nothing to
\* look up first.
StampThread(r, u) == call[r] = Idle /\ Stamp(r, query(u, "create", NoComment, FALSE))
StampReply(r) == call[r].pc = "write" /\ call[r].kind = "reply" /\ Stamp(r, call[r])

-----------------------------------------------------------------------------
(* The write.                                                              *)

Answer(r) ==
    call' = [call EXCEPT ![r] = IF @.user = Me THEN [@ EXCEPT !.pc = "done"] ELSE Idle]

Goes(id) == Row(id) = {} \/ \E r \in Requests : call[r].pc = "commit" /\ call[r].target = id

Insert(r) ==
    /\ call[r].pc = "stamped" /\ call[r].kind \in {"create", "reply"}
    /\ LET q == call[r]
       IN  /\ rows' = rows \cup {[id |-> q.at, parent |-> q.target, author |-> q.user,
                                  body |-> q.at, resolved |-> FALSE, updated |-> q.at]}
           /\ raced' = raced \cup {id \in {q.at} : q.kind = "reply" /\ Goes(q.target)}
    /\ Answer(r)
    /\ UNCHANGED clock

Updated(c, q) ==
    [c EXCEPT !.updated = q.at,
              !.body = IF q.kind = "edit" THEN q.at ELSE @,
              !.resolved = IF q.kind = "edit" THEN @ ELSE q.kind = "resolve"]

\* By id alone; a comment that has gone leaves the handler without an answer, and one
\* that a deletion has locked is waited for.
Update(r) ==
    /\ call[r].pc = "stamped" /\ call[r].kind \in {"edit", "resolve", "reopen"}
    /\ ~Locked(call[r].target)
    /\ \/ /\ Row(call[r].target) = {}
          /\ call' = [call EXCEPT ![r] = Idle]
          /\ UNCHANGED rows
       \/ /\ Row(call[r].target) # {}
          /\ rows' = {IF c.id = call[r].target THEN Updated(c, call[r]) ELSE c : c \in rows}
          /\ Answer(r)
    /\ UNCHANGED <<clock, raced>>

Deleting(r) == call[r].pc = "write" /\ call[r].kind = "delete"

DeleteReply(r) ==
    /\ Deleting(r) /\ ~call[r].root
    /\ ~Locked(call[r].target)
    /\ rows' = rows \ Row(call[r].target)
    /\ Answer(r)
    /\ UNCHANGED <<clock, raced>>

\* The first statement of the transaction deletes, for nobody to see yet, the replies
\* there are.  Those that another deletion has locked are waited for.
DeleteReplies(r) ==
    /\ Deleting(r) /\ call[r].root
    /\ \A id \in repliesTo(call[r].target) : ~Locked(id)
    /\ call' = [call EXCEPT ![r].pc = "commit", ![r].doomed = repliesTo(call[r].target)]
    /\ UNCHANGED <<rows, clock, raced>>

\* Mutant of deleted: the replies stay.
deletedAlone(q) == {q.target}

\* A root takes along the replies that the first statement saw.
deleted(q) == {q.target} \cup q.doomed

\* The second statement deletes the root, and the transaction is committed.
DeleteThread(r) ==
    /\ call[r].pc = "commit"
    /\ rows' = {c \in rows : c.id \notin deleted(call[r])}
    /\ Answer(r)
    /\ UNCHANGED <<clock, raced>>

\* The answer arrives or is lost, or the handler has failed, and with it its transaction.
End(r) ==
    /\ call[r] # Idle
    /\ call' = [call EXCEPT ![r] = Idle]
    /\ UNCHANGED <<rows, clock, raced>>

Begin(r) ==
    \E u \in Users :
        \/ StampThread(r, u)
        \/ \E c \in rows, kind \in {"reply", "edit", "resolve", "reopen", "delete"} :
              Start(r, u, kind, c) \/ StartUpdate(r, u, kind, c)

Write(r) ==
    StampReply(r) \/ Insert(r) \/ Update(r) \/ DeleteReply(r) \/ DeleteReplies(r) \/ DeleteThread(r)

Next == \E r \in Requests : Begin(r) \/ Write(r) \/ End(r)

Spec == Init /\ [][Next]_vars

-----------------------------------------------------------------------------
(* Properties.                                                             *)

\* Every variable has its type.
TypeOK ==
    /\ rows \subseteq Comment
    /\ clock \in 0..MaxClock
    /\ call \in [Requests -> Call \cup {Idle}]
    /\ raced \subseteq Ids

\* comments.ts:204 and :386-391: threads stay one level deep, and a deletion takes
\* the replies along.  A reply stands without its thread only if it was itself
\* inserted after the thread had gone, or between the two statements that delete it.
ThreadsWellFormed ==
    /\ \A c, d \in rows : c.parent = d.id => isRoot(d)
    /\ \A c \in rows : isRoot(c) \/ Row(c.parent) # {} \/ c.id \in raced

=============================================================================
