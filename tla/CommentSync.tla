----------------------------- MODULE CommentSync -----------------------------
(***************************************************************************)
(* The list of comments in one browser (stores/collaboration.ts) beside    *)
(* the handlers of Comments.  The list changes when a request of this user *)
(* is answered, and when the poll, every ten seconds, gets a count (GET    *)
(* .../sync) and then the comments that it needs (GET .../comments, with   *)
(* or without ?since), which the server reads in two queries.              *)
(***************************************************************************)
EXTENDS Comments, Sequences, SequencesExt

VARIABLES
    threads,         \* the threads with their replies, as they are listed
    lastModifiedAt,  \* null is 0
    poll,            \* the activation of pollForUpdates
    passed           \* history: comments whose last change a poll may have passed by

listVars == <<threads, lastModifiedAt, poll, passed>>
allVars == <<vars, listVars>>

Null == 0
Reply == [id : Ids, body : Ids]
Thread == [id : Ids, body : Ids, resolved : BOOLEAN, replies : Seq(Reply)]
NotPolling == [pc |-> "idle"]

ListInit ==
    /\ Init
    /\ threads = <<>>
    /\ lastModifiedAt = Null
    /\ poll = NotPolling
    /\ passed = {}

position(list, id) == SelectInSeq(list, LAMBDA c : c.id = id)
without(list, id) ==
    IF position(list, id) = 0 THEN list ELSE RemoveAt(list, position(list, id))

replyOf(c) == [id |-> c.id, body |-> c.body]
threadOf(c, replies) ==
    [id |-> c.id, body |-> c.body, resolved |-> c.resolved, replies |-> replies]
byCreation(comments) == SetToSortSeq(comments, LAMBDA c, d : c.id < d.id)

\* computeLastModifiedAt.
latest(comments) == IF comments = {} THEN Null ELSE Max({c.updated : c \in comments})

localCommentCount == FoldLeft(LAMBDA n, t : n + 1 + Len(t.replies), 0, threads)

-----------------------------------------------------------------------------
(* The answers to this user's own requests.                                *)

pushReply(list, parent, reply) ==
    IF position(list, parent) = 0 THEN list
    ELSE [list EXCEPT ![position(list, parent)].replies = Append(@, reply)]

\* The first thread, or reply of a thread, that has the id.
setBody(list, id, body) ==
    LET holders == {i \in DOMAIN list : list[i].id = id \/ position(list[i].replies, id) # 0}
        i == Min(holders)
    IN  CASE holders = {} -> list
          [] holders # {} /\ list[i].id = id -> [list EXCEPT ![i].body = body]
          [] OTHER -> [list EXCEPT ![i].replies[position(list[i].replies, id)].body = body]

setResolved(list, id, resolved) ==
    IF position(list, id) = 0 THEN list
    ELSE [list EXCEPT ![position(list, id)].resolved = resolved]

\* A thread, else a reply of the first thread that has it.
splice(list, id) ==
    LET holders == {i \in DOMAIN list : position(list[i].replies, id) # 0}
    IN  IF position(list, id) # 0 THEN without(list, id)
        ELSE IF holders = {} THEN list
        ELSE [list EXCEPT ![Min(holders)].replies = without(@, id)]

\* The list, or the answer that is on its way to it, has come further than c's stamp.
overtakes(c) == \/ c.updated <= lastModifiedAt
                \/ poll.pc = "listed" /\ c.updated <= poll.at

\* What the answer says of a thread is no longer so.
outdated(q, c) == \/ q.kind = "create" /\ c.id = q.at /\ (c.body # q.at \/ c.resolved)
                  \/ q.kind = "edit" /\ c.id = q.target /\ c.body # q.at
                  \/ q.kind = "resolve" /\ c.id = q.target /\ ~c.resolved
                  \/ q.kind = "reopen" /\ c.id = q.target /\ c.resolved

\* createComment, createReply, updateComment, resolveThread, reopenThread and
\* deleteComment, once their request is answered.
Answered(r) ==
    /\ call[r].pc = "done"
    /\ LET q == call[r]
           new == [id |-> q.at, body |-> q.at, resolved |-> FALSE]
       IN  /\ threads' = CASE q.kind = "create" -> Append(threads, threadOf(new, <<>>))
                           [] q.kind = "reply" -> pushReply(threads, q.target, replyOf(new))
                           [] q.kind = "edit" -> setBody(threads, q.target, q.at)
                           [] q.kind = "resolve" -> setResolved(threads, q.target, TRUE)
                           [] q.kind = "reopen" -> setResolved(threads, q.target, FALSE)
                           [] q.kind = "delete" -> splice(threads, q.target)
           /\ passed' = passed \cup {c.id : c \in {d \in rows : outdated(q, d) /\ overtakes(d)}}
    /\ End(r)
    /\ UNCHANGED <<lastModifiedAt, poll>>

-----------------------------------------------------------------------------
(* The poll.                                                               *)

\* A step of a handler.  A thread that it writes with a stamp the list has overtaken
\* will be in no answer to ?since.
Handlers ==
    /\ Next
    /\ LET written == rows' \ rows
       IN passed' = {c.id : c \in {d \in rows' : isRoot(d) /\ IF d \in written THEN overtakes(d)
                                                             ELSE d.id \in passed}}
    /\ UNCHANGED <<threads, lastModifiedAt, poll>>

\* The timer, unless a poll is under way; the server counts all comments.
CountComments ==
    /\ poll = NotPolling
    /\ poll' = [pc |-> "counted", count |-> Cardinality(rows)]
    /\ UNCHANGED <<vars, threads, lastModifiedAt, passed>>

\* Mutant of needsFullRefresh: only a surplus in the list counts.
needsFullRefreshSurplus(count) == count < localCommentCount

needsFullRefresh(count) == count # localCommentCount

\* The list is compared with the count, and the comments are asked for.
CompareCounts ==
    /\ poll.pc = "counted"
    /\ LET full == needsFullRefresh(poll.count)
       IN  poll' = [pc |-> "asked", full |-> full, since |-> IF full THEN Null ELSE lastModifiedAt]
    /\ UNCHANGED <<vars, threads, lastModifiedAt, passed>>

\* An insert is stamped by the database, to the microsecond, an update by the handler,
\* to the millisecond; lastModifiedAt keeps milliseconds, so that it does not exclude
\* the insert that it was read from.
newer(c, since) == c.updated > since \/ (c.updated = since /\ c.updated = c.id)

ReadRoots ==
    /\ poll.pc = "asked"
    /\ poll' = [pc |-> "roots", full |-> poll.full, since |-> poll.since,
                roots |-> {c \in rows : isRoot(c) /\ newer(c, poll.since)}]
    /\ UNCHANGED <<vars, threads, lastModifiedAt, passed>>

Respond(response, at) ==
    poll' = [pc |-> "listed", full |-> poll.full, at |-> at, response |-> response]

\* A reply in a list of updates, beside the roots.
flat(c) == [parent |-> c.parent, thread |-> threadOf(c, <<>>)]
nested(c) == [parent |-> NoComment, thread |-> threadOf(c,
                LET replies == byCreation({d \in rows : d.parent = c.id})
                IN [i \in DOMAIN replies |-> replyOf(replies[i])])]

\* Without roots nothing is looked up.  Else, with ?since, everything that is newer,
\* which fails when that has gone; without it, the roots and their replies.
ReadReplies ==
    /\ poll.pc = "roots"
    /\ LET recent == {c \in rows : newer(c, poll.since)}
           replies == {c \in rows : \E d \in poll.roots : c.parent = d.id}
           shown == byCreation(IF poll.since = Null THEN poll.roots ELSE recent)
           at == latest(poll.roots \cup replies)
           unread == {c \in rows : isRoot(c) /\ c \notin poll.roots /\ c.updated <= at}
       IN  \/ /\ poll.roots = {}
              /\ Respond(<<>>, Null)
              /\ UNCHANGED passed
           \/ /\ poll.roots # {} /\ poll.since = Null
              /\ Respond([i \in DOMAIN shown |-> nested(shown[i])], at)
              /\ passed' = passed \cup {c.id : c \in unread}
           \/ /\ poll.roots # {} /\ poll.since # Null /\ recent # {}
              /\ Respond([i \in DOMAIN shown |-> flat(shown[i])], latest(recent))
              /\ UNCHANGED passed
           \/ /\ poll.roots # {} /\ poll.since # Null /\ recent = {}
              /\ poll' = NotPolling
              /\ UNCHANGED passed
    /\ UNCHANGED <<vars, threads, lastModifiedAt>>

\* Mutant of mergeThread: a thread that is listed stays as it is.
mergeThreadNew(list, t) == IF position(list, t.id) = 0 THEN Append(list, t) ELSE list

\* A thread that is listed keeps its replies.
mergeThread(list, t) ==
    IF position(list, t.id) = 0 THEN Append(list, t)
    ELSE [list EXCEPT ![position(list, t.id)] = [t EXCEPT !.replies = list[position(list, t.id)].replies]]

mergeReply(list, parent, reply) ==
    LET i == position(list, parent)
    IN  IF i = 0 THEN list
        ELSE IF position(list[i].replies, reply.id) = 0 THEN pushReply(list, parent, reply)
        ELSE [list EXCEPT ![i].replies[position(list[i].replies, reply.id)] = reply]

Listing == [parent : Ids \cup {NoComment}, thread : Thread]
merge[list \in Seq(Thread), u \in Listing] ==
    IF u.parent = NoComment THEN mergeThread(list, u.thread)
    ELSE mergeReply(list, u.parent, replyOf(u.thread))

ShowComments ==
    /\ poll.pc = "listed"
    /\ threads' = IF poll.full THEN [i \in DOMAIN poll.response |-> poll.response[i].thread]
                  ELSE FoldLeft(LAMBDA list, u : merge[list, u], threads, poll.response)
    /\ lastModifiedAt' = poll.at
    /\ poll' = NotPolling
    /\ UNCHANGED <<vars, passed>>

PollFails ==
    /\ poll # NotPolling
    /\ poll' = NotPolling
    /\ UNCHANGED <<vars, threads, lastModifiedAt, passed>>

ListNext ==
    \/ Handlers
    \/ \E r \in Requests : Answered(r)
    \/ CountComments \/ CompareCounts \/ ReadRoots \/ ReadReplies \/ ShowComments \/ PollFails

\* The timer is set again after every poll, and the network is not down for ever.
Polling ==
    /\ WF_allVars(CountComments)
    /\ SF_allVars(CompareCounts) /\ SF_allVars(ReadRoots)
    /\ SF_allVars(ReadReplies) /\ SF_allVars(ShowComments)

ListSpec == ListInit /\ [][ListNext]_allVars /\ Polling

-----------------------------------------------------------------------------
(* Properties.                                                             *)

Listed(c) ==
    /\ position(threads, c.id) # 0
    /\ LET t == threads[position(threads, c.id)]
       IN t.body = c.body /\ t.resolved = c.resolved

\* The newest change is a new thread: every poll reports it again, so that no poll
\* comes back without roots and makes the next one ask for everything.
NewestIsNewThread ==
    \E d \in rows : /\ isRoot(d) /\ d.updated = d.id
                     /\ \A c \in rows : c.updated <= d.updated

\* Once nobody writes any more, every thread is in the list as it is on the server,
\* whatever the polls and the user's own answers did to the list in between; a change
\* that a poll has passed by stays out only as long as the newest is a new thread.
ThreadsConverge ==
    <>[](\A c \in rows : isRoot(c) => Listed(c) \/ (c.id \in passed /\ NewestIsNewThread))

\* collaboration.ts:87-88: a list of another length is refreshed, until it has as many
\* comments as the server, unless a reply has no thread left to be shown in.
CountsConverge ==
    <>[](\/ localCommentCount = Cardinality(rows)
         \/ \E c \in rows : ~isRoot(c) /\ Row(c.parent) = {})

=============================================================================
