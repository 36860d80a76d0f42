---------------------------- MODULE CommentsProofs ----------------------------
(***************************************************************************)
(* Proofs about Comments for any set of users, roles and requests.         *)
(***************************************************************************)
EXTENDS Comments, TLAPS

(***************************************************************************)
(* The inductive invariant: besides the threads, what a request learnt of  *)
(* the comment it names still holds of that comment, if it is there; what  *)
(* a deletion has not locked is a reply that raced it; and the stamp of an *)
(* insert that does not show yet is nobody's id.                           *)
(***************************************************************************)
IdsUnique == \A c, d \in rows : c.id = d.id => c = d

IdsKnown == \A c \in rows : c.id \in 1..clock /\ c.parent \in 0..clock

Moving(q) == q.pc = "write" \/ q.pc = "stamped" \/ q.pc = "commit"
Inserting(q) == q.pc = "stamped" /\ (q.kind = "create" \/ q.kind = "reply")

KnowsTarget(q) ==
    /\ q.kind = "create" => q.target = NoComment
    /\ q.kind # "create" => q.target \in 1..clock
    /\ \A c \in Row(q.target) : isRoot(c) <=> q.root
    /\ q.kind = "reply" => q.root

KnowsStamp(q) == q.pc = "stamped" => q.at \in 1..clock /\ q.target < q.at

KnowsReplies(q) ==
    /\ q.doomed \subseteq 1..clock
    /\ \A c \in rows : c.id \in q.doomed => ~isRoot(c)
    /\ q.pc = "commit" =>
          /\ q.kind = "delete" /\ q.root
          /\ \A c \in rows : c.parent = q.target => c.id \in q.doomed \cup raced

Knows(q) == KnowsTarget(q) /\ KnowsStamp(q) /\ KnowsReplies(q)

LookupsHold == \A r \in Requests : Moving(call[r]) => Knows(call[r])

Unused(at) == \A c \in rows : c.id # at /\ c.parent # at

Apart(at, q) ==
    /\ Inserting(q) => q.at # at
    /\ Moving(q) => q.target # at /\ at \notin q.doomed

StampsFresh ==
    \A r \in Requests : Inserting(call[r]) =>
        Unused(call[r].at) /\ \A p \in Requests \ {r} : Apart(call[r].at, call[p])

CommentsInv ==
    TypeOK /\ IdsUnique /\ IdsKnown /\ LookupsHold /\ StampsFresh /\ ThreadsWellFormed

LEMMA IdleHasNoStep == Idle.pc = "idle"
BY DEF Idle

LEMMA QueryIsCall ==
    ASSUME NEW u \in Users, NEW target \in Ids \cup {NoComment}, NEW root \in BOOLEAN,
           NEW kind \in {"create", "reply", "edit", "resolve", "reopen", "delete"}
    PROVE  query(u, kind, target, root) \in Call
BY DEF query, Call

LEMMA InitCommentsInv == Init => CommentsInv
<1> SUFFICES ASSUME Init PROVE CommentsInv
  OBVIOUS
<1>1. TypeOK
  <2>1. rows \subseteq Comment /\ clock \in 0..MaxClock /\ raced \subseteq Ids
    BY MaxClockAssumption DEF Init
  <2>2. call \in [Requests -> Call \cup {Idle}]
    BY DEF Init
  <2> QED
    BY <2>1, <2>2 DEF TypeOK
<1>2. IdsUnique /\ IdsKnown /\ ThreadsWellFormed
  BY DEF Init, IdsUnique, IdsKnown, ThreadsWellFormed
<1>3. LookupsHold /\ StampsFresh
  BY IdleHasNoStep DEF Init, LookupsHold, StampsFresh, Moving, Inserting
<1> QED
  BY <1>1, <1>2, <1>3 DEF CommentsInv

(* How a request goes on matters only while it is under way.                *)
LEMMA CallsTyped ==
    ASSUME TypeOK, NEW r \in Requests, NEW n \in Call \cup {Idle},
           call' = [call EXCEPT ![r] = n]
    PROVE  /\ call' \in [Requests -> Call \cup {Idle}]
           /\ call'[r] = n
           /\ \A p \in Requests \ {r} : call'[p] = call[p]
BY DEF TypeOK

(* A request that is under way is typed, and one that has answered is not   *)
(* under way any more.                                                      *)
LEMMA MovingCall ==
    ASSUME CommentsInv, NEW r \in Requests, Moving(call[r])
    PROVE  call[r] \in Call /\ Knows(call[r])
BY IdleHasNoStep DEF CommentsInv, TypeOK, LookupsHold, Moving

LEMMA AnsweredCall ==
    ASSUME CommentsInv, NEW r \in Requests, Moving(call[r]), Answer(r)
    PROVE  /\ call' \in [Requests -> Call \cup {Idle}]
           /\ ~Moving(call'[r])
           /\ \A p \in Requests \ {r} : call'[p] = call[p]
<1> DEFINE n == IF call[r].user = Me THEN [call[r] EXCEPT !.pc = "done"] ELSE Idle
<1>1. n \in Call \cup {Idle} /\ ~Moving(n)
  BY IdleHasNoStep, MovingCall DEF Call, Moving
<1>2. call' = [call EXCEPT ![r] = n]
  BY DEF Answer, CommentsInv, TypeOK
<1> QED
  BY <1>1, <1>2, CallsTyped DEF CommentsInv

(***************************************************************************)
(* A step that adds no comment, whatever it does to those there are, keeps *)
(* what is known of comments and stamps.                                   *)
(***************************************************************************)
SameComments == \A c \in rows' : \E d \in rows : d.id = c.id /\ d.parent = c.parent

LEMMA KnowsKept ==
    ASSUME NEW q \in Call, Knows(q), SameComments, raced' = raced,
           clock \in Nat, clock' \in Nat, clock <= clock'
    PROVE  Knows(q)'
<1>1. KnowsTarget(q)'
  <2>1. ASSUME NEW c \in rows', c.id = q.target PROVE isRoot(c) <=> q.root
    BY <2>1 DEF Knows, KnowsTarget, SameComments, Row, isRoot
  <2> QED
    BY <2>1 DEF Knows, KnowsTarget, Row
<1>2. KnowsStamp(q)'
  BY DEF Knows, KnowsStamp
<1>3. KnowsReplies(q)'
  BY DEF Knows, KnowsReplies, SameComments, isRoot
<1> QED
  BY <1>1, <1>2, <1>3 DEF Knows

LEMMA LookupsKept ==
    ASSUME CommentsInv, NEW r \in Requests, SameComments, raced' = raced,
           clock' \in Nat, clock <= clock',
           \A p \in Requests \ {r} : call'[p] = call[p],
           Moving(call'[r]) => Knows(call[r])'
    PROVE  LookupsHold'
<1> SUFFICES ASSUME NEW p \in Requests, Moving(call'[p]) PROVE Knows(call[p])'
  BY DEF LookupsHold, Knows, KnowsTarget, KnowsStamp, KnowsReplies, Row, Moving
<1>1. CASE p = r
  BY <1>1
<1>2. CASE p # r
  <2>1. PICK q : q = call[p]
    OBVIOUS
  <2>2. call'[p] = q /\ q \in Call /\ Knows(q)
    BY <1>2, <2>1, MovingCall
  <2>3. Knows(q)'
    BY <2>2, KnowsKept DEF CommentsInv, TypeOK
  <2> QED
    BY <2>2, <2>3 DEF Knows, KnowsTarget, KnowsStamp, KnowsReplies, Row
<1> QED
  BY <1>1, <1>2

LEMMA StampsKept ==
    ASSUME CommentsInv, NEW r \in Requests, SameComments,
           \A p \in Requests \ {r} : call'[p] = call[p],
           ~Inserting(call'[r]),
           \A p \in Requests \ {r} : Inserting(call[p]) => Apart(call[p].at, call'[r])
    PROVE  StampsFresh'
BY DEF CommentsInv, StampsFresh, Unused, SameComments, Apart, Inserting, Moving

LEMMA UnmovedIsApart ==
    ASSUME NEW q, NEW at, ~Moving(q)
    PROVE  Apart(at, q) /\ ~Inserting(q)
BY DEF Apart, Moving, Inserting

(* A step that leaves the table and the clock alone.                        *)
LEMMA QuietStep ==
    ASSUME CommentsInv, NEW r \in Requests, NEW n \in Call \cup {Idle},
           call' = [call EXCEPT ![r] = n], UNCHANGED <<rows, clock, raced>>,
           Moving(n) => Knows(n), ~Inserting(n),
           \A p \in Requests \ {r} : Inserting(call[p]) => Apart(call[p].at, n)
    PROVE  CommentsInv'
<1>1. /\ call' \in [Requests -> Call \cup {Idle}]
      /\ call'[r] = n
      /\ \A p \in Requests \ {r} : call'[p] = call[p]
  BY CallsTyped DEF CommentsInv
<1>2. TypeOK'
  BY <1>1 DEF CommentsInv, TypeOK
<1>3. IdsUnique' /\ IdsKnown' /\ ThreadsWellFormed'
  BY DEF CommentsInv, IdsUnique, IdsKnown, ThreadsWellFormed, Row
<1>4. SameComments /\ clock \in Nat
  BY DEF SameComments, CommentsInv, TypeOK
<1>5. LookupsHold'
  <2>1. Moving(n) => Knows(n)'
    BY DEF Knows, KnowsTarget, KnowsStamp, KnowsReplies, Row
  <2>2. Moving(call'[r]) => Knows(call[r])'
    BY <1>1, <2>1 DEF Knows, KnowsTarget, KnowsStamp, KnowsReplies, Row
  <2> QED
    BY <1>1, <1>4, <2>2, LookupsKept
<1>6. StampsFresh'
  BY <1>1, <1>4, StampsKept
<1> QED
  BY <1>2, <1>3, <1>5, <1>6 DEF CommentsInv

LEMMA EndCommentsInv ==
    ASSUME CommentsInv, NEW r \in Requests, End(r)
    PROVE  CommentsInv'
BY QuietStep, IdleHasNoStep, UnmovedIsApart DEF End, Moving

(* What the first query learns.                                             *)
LEMMA QueryKnows ==
    ASSUME CommentsInv, NEW u \in Users, NEW c \in rows,
           NEW kind \in {"reply", "edit", "resolve", "reopen", "delete"}, mayName(u, kind, c)
    PROVE  /\ query(u, kind, c.id, isRoot(c)) \in Call
           /\ Knows(query(u, kind, c.id, isRoot(c)))
           /\ \A p \in Requests : Inserting(call[p]) =>
                 Apart(call[p].at, query(u, kind, c.id, isRoot(c)))
<1> DEFINE n == query(u, kind, c.id, isRoot(c))
<1>1. n \in Call
  BY QueryIsCall DEF CommentsInv, TypeOK, Comment, isRoot
<1>2. /\ n.kind = kind /\ n.target = c.id /\ (n.root <=> isRoot(c))
      /\ n.doomed = {} /\ n.pc = "write"
  BY DEF query
<1>3. \A d \in Row(n.target) : d = c
  BY <1>2 DEF Row, CommentsInv, IdsUnique
<1>4. kind = "reply" => isRoot(c)
  BY DEF mayName
<1> HIDE DEF n
<1>5. KnowsTarget(n)
  BY <1>2, <1>3, <1>4 DEF KnowsTarget, CommentsInv, IdsKnown
<1>6. KnowsStamp(n) /\ KnowsReplies(n)
  BY <1>2 DEF KnowsStamp, KnowsReplies
<1>7. \A p \in Requests : Inserting(call[p]) => Apart(call[p].at, n)
  BY <1>2 DEF CommentsInv, StampsFresh, Unused, Apart, Inserting
<1> QED
  BY <1>1, <1>5, <1>6, <1>7 DEF Knows, n

LEMMA StartCommentsInv ==
    ASSUME CommentsInv, NEW r \in Requests, NEW u \in Users, NEW c \in rows,
           NEW kind \in {"reply", "edit", "resolve", "reopen", "delete"}, Start(r, u, kind, c)
    PROVE  CommentsInv'
<1>1. PICK n : n = query(u, kind, c.id, isRoot(c))
  OBVIOUS
<1>2. mayName(u, kind, c) /\ call' = [call EXCEPT ![r] = n]
  BY <1>1 DEF Start
<1>3. /\ n \in Call /\ Knows(n)
      /\ \A p \in Requests : Inserting(call[p]) => Apart(call[p].at, n)
  BY <1>1, <1>2, QueryKnows
<1>4. ~Inserting(n)
  BY <1>1 DEF query, Inserting
<1> QED
  BY <1>2, <1>3, <1>4, QuietStep DEF Start

(***************************************************************************)
(* The stamp is newer than every id and every stamp there is.              *)
(***************************************************************************)
LEMMA StampCommentsInv ==
    ASSUME CommentsInv, NEW r \in Requests, NEW q \in Call, Stamp(r, q),
           q.pc = "write", Knows(q), ~Inserting(call[r]),
           \A p \in Requests \ {r} : Inserting(call[p]) => Apart(call[p].at, q)
    PROVE  CommentsInv'
<1>1. clock \in Nat /\ clock' = clock + 1 /\ clock' \in Ids /\ clock' \in 0..MaxClock
  BY MaxClockAssumption DEF CommentsInv, TypeOK, Stamp, Ids
<1>2. PICK n : n = [q EXCEPT !.pc = "stamped", !.at = clock']
  OBVIOUS
<1>3. /\ n \in Call /\ n.pc = "stamped" /\ n.at = clock + 1 /\ n.kind = q.kind
      /\ n.target = q.target /\ n.root = q.root /\ n.doomed = q.doomed
  BY <1>1, <1>2 DEF Call
<1>4. call' = [call EXCEPT ![r] = n] /\ rows' = rows /\ raced' = raced
  BY <1>2 DEF Stamp
<1>5. /\ call' \in [Requests -> Call \cup {Idle}]
      /\ call'[r] = n
      /\ \A p \in Requests \ {r} : call'[p] = call[p]
  BY <1>3, <1>4, CallsTyped DEF CommentsInv
<1>6. TypeOK'
  BY <1>1, <1>4, <1>5 DEF CommentsInv, TypeOK
<1>7. IdsUnique' /\ ThreadsWellFormed'
  BY <1>4 DEF CommentsInv, IdsUnique, ThreadsWellFormed, Row
<1>8. IdsKnown'
  BY <1>1, <1>4 DEF CommentsInv, IdsKnown
<1>9. SameComments
  BY <1>4 DEF SameComments
<1>10. q.target \in 0..clock /\ q.doomed \subseteq 1..clock
  BY <1>1 DEF Knows, KnowsTarget, KnowsReplies, NoComment
<1>11. Knows(n)'
  <2>1. Knows(q)'
    BY <1>1, <1>4, <1>9, KnowsKept
  <2>2. KnowsStamp(n)'
    BY <1>1, <1>3, <1>10 DEF KnowsStamp
  <2> QED
    BY <1>3, <2>1, <2>2 DEF Knows, KnowsTarget, KnowsReplies
<1>12. LookupsHold'
  <2>1. Knows(call[r])'
    BY <1>5, <1>11 DEF Knows, KnowsTarget, KnowsStamp, KnowsReplies, Row
  <2> QED
    BY <1>1, <1>4, <1>5, <1>9, <2>1, LookupsKept
<1>13. StampsFresh'
  <2>1. ASSUME NEW p \in Requests \ {r}
        PROVE  Apart(clock + 1, call[p])
    <3>1. CASE Moving(call[p])
      BY <1>1, <3>1, MovingCall
         DEF Apart, Moving, Inserting, Knows, KnowsTarget, KnowsStamp, KnowsReplies, NoComment
    <3>2. CASE ~Moving(call[p])
      BY <3>2, UnmovedIsApart
    <3> QED
      BY <3>1, <3>2
  <2>2. ASSUME NEW p \in Requests \ {r}, Inserting(call[p])
        PROVE  Apart(call[p].at, n)
    <3>1. call[p].at \in 1..clock
      BY <2>2, MovingCall DEF Inserting, Moving, Knows, KnowsStamp
    <3>2. call[p].at # q.target /\ call[p].at \notin q.doomed
      BY <2>2 DEF Apart, Moving
    <3> QED
      BY <1>1, <1>3, <3>1, <3>2 DEF Apart
  <2>3. \A c \in rows : c.id # clock + 1 /\ c.parent # clock + 1
    BY <1>1 DEF CommentsInv, IdsKnown
  <2>4. ASSUME NEW s \in Requests, Inserting(call'[s])
        PROVE  /\ \A c \in rows' : c.id # call'[s].at /\ c.parent # call'[s].at
               /\ \A p \in Requests \ {s} : Apart(call'[s].at, call'[p])
    <3>1. CASE s = r
      BY <1>3, <1>4, <1>5, <2>1, <2>3, <3>1
    <3>2. CASE s # r
      BY <1>4, <1>5, <2>2, <2>4, <3>2 DEF CommentsInv, StampsFresh, Unused
    <3> QED
      BY <3>1, <3>2
  <2> QED
    BY <2>4 DEF StampsFresh, Unused, Apart, Inserting, Moving
<1> QED
  BY <1>6, <1>7, <1>8, <1>12, <1>13 DEF CommentsInv

LEMMA StampsCommentsInv ==
    ASSUME CommentsInv, NEW r \in Requests, NEW u \in Users
    PROVE  /\ StampThread(r, u) => CommentsInv'
           /\ StampReply(r) => CommentsInv'
           /\ \A c \in rows, kind \in {"reply", "edit", "resolve", "reopen", "delete"} :
                 StartUpdate(r, u, kind, c) => CommentsInv'
<1>1. ASSUME StampThread(r, u) PROVE CommentsInv'
  <2>1. PICK q : q = query(u, "create", NoComment, FALSE)
    OBVIOUS
  <2>2. /\ q \in Call /\ q.pc = "write" /\ q.kind = "create" /\ q.target = NoComment
        /\ q.doomed = {}
    BY <2>1, QueryIsCall DEF query
  <2>3. KnowsTarget(q)
    BY <2>2 DEF KnowsTarget, Row, CommentsInv, IdsKnown, NoComment
  <2>4. Knows(q)
    BY <2>2, <2>3 DEF Knows, KnowsStamp, KnowsReplies
  <2>5. ASSUME NEW p \in Requests, Inserting(call[p]) PROVE Apart(call[p].at, q)
    <3>1. call[p].at # NoComment
      BY <2>5, MovingCall DEF Inserting, Moving, Knows, KnowsStamp, NoComment
    <3> QED
      BY <2>2, <3>1 DEF Apart, Inserting
  <2>6. Stamp(r, q) /\ ~Inserting(call[r])
    BY <1>1, <2>1, IdleHasNoStep DEF StampThread, Inserting
  <2> QED
    BY <2>2, <2>4, <2>5, <2>6, StampCommentsInv
<1>2. ASSUME StampReply(r) PROVE CommentsInv'
  <2>1. PICK q : q = call[r]
    OBVIOUS
  <2>2. q.pc = "write" /\ q \in Call /\ Knows(q) /\ Stamp(r, q) /\ ~Inserting(call[r])
    BY <1>2, <2>1, MovingCall DEF StampReply, Moving, Inserting
  <2>3. \A p \in Requests \ {r} : Inserting(call[p]) => Apart(call[p].at, q)
    BY <2>1 DEF CommentsInv, StampsFresh
  <2> QED
    BY <2>2, <2>3, StampCommentsInv
<1>3. ASSUME NEW c \in rows, NEW kind \in {"reply", "edit", "resolve", "reopen", "delete"},
             StartUpdate(r, u, kind, c)
      PROVE  CommentsInv'
  <2>1. PICK q : q = query(u, kind, c.id, isRoot(c))
    OBVIOUS
  <2>2. mayName(u, kind, c) /\ Stamp(r, q) /\ ~Inserting(call[r])
    BY <1>3, <2>1, IdleHasNoStep DEF StartUpdate, Inserting
  <2>3. /\ q \in Call /\ Knows(q)
        /\ \A p \in Requests : Inserting(call[p]) => Apart(call[p].at, q)
    BY <2>1, <2>2, QueryKnows
  <2>4. q.pc = "write"
    BY <2>1 DEF query
  <2> QED
    BY <2>2, <2>3, <2>4, StampCommentsInv
<1> QED
  BY <1>1, <1>2, <1>3

(***************************************************************************)
(* The writes.                                                             *)
(***************************************************************************)
LEMMA InsertCommentsInv ==
    ASSUME CommentsInv, NEW r \in Requests, Insert(r)
    PROVE  CommentsInv'
<1>1. PICK q : q = call[r]
  OBVIOUS
<1>2. q \in Call /\ Knows(q) /\ Inserting(q) /\ Moving(call[r])
  BY <1>1, MovingCall DEF Insert, Inserting, Moving
<1>3. PICK new : new = [id |-> q.at, parent |-> q.target, author |-> q.user,
                        body |-> q.at, resolved |-> FALSE, updated |-> q.at]
  OBVIOUS
<1>4. /\ rows' = rows \cup {new} /\ clock' = clock /\ clock \in Nat
      /\ raced' = raced \cup {id \in {q.at} : q.kind = "reply" /\ Goes(q.target)}
  BY <1>1, <1>3 DEF Insert, CommentsInv, TypeOK
<1>5. /\ q.at \in 1..clock /\ q.at \in Ids /\ q.target \in 0..clock /\ q.target < q.at
      /\ q.kind = "create" => q.target = NoComment
      /\ q.kind = "create" \/ q.kind = "reply"
  BY <1>2, <1>4, MaxClockAssumption
     DEF Knows, KnowsTarget, KnowsStamp, Inserting, NoComment, CommentsInv, TypeOK, Ids
<1>6. new.id = q.at /\ new.parent = q.target /\ new \in Comment
  BY <1>2, <1>3, <1>5 DEF Comment, Call
<1>7. /\ call' \in [Requests -> Call \cup {Idle}]
      /\ ~Moving(call'[r])
      /\ \A p \in Requests \ {r} : call'[p] = call[p]
  BY <1>1, <1>2, AnsweredCall DEF Insert
<1>8. /\ \A c \in rows : c.id # new.id /\ c.parent # new.id
      /\ \A p \in Requests \ {r} : Apart(new.id, call[p])
  BY <1>1, <1>2, <1>6 DEF CommentsInv, StampsFresh, Unused
<1>9. TypeOK'
  <2>1. rows' \subseteq Comment /\ raced' \subseteq Ids /\ clock' \in 0..MaxClock
    BY <1>4, <1>5, <1>6 DEF CommentsInv, TypeOK
  <2> QED
    BY <1>7, <2>1 DEF TypeOK
<1>10. IdsUnique' /\ IdsKnown'
  <2>1. IdsUnique'
    BY <1>4, <1>8 DEF CommentsInv, IdsUnique
  <2>2. IdsKnown'
    BY <1>4, <1>5, <1>6 DEF CommentsInv, IdsKnown
  <2> QED
    BY <2>1, <2>2
<1>11. LookupsHold'
  <2> SUFFICES ASSUME NEW p \in Requests, Moving(call'[p]) PROVE Knows(call[p])'
    BY DEF LookupsHold, Knows, KnowsTarget, KnowsStamp, KnowsReplies, Row, Moving
  <2>1. PICK k : k = call[p]
    OBVIOUS
  <2>2. p # r /\ call'[p] = k /\ k \in Call /\ Knows(k) /\ Moving(k)
    BY <1>7, <2>1, MovingCall
  <2>3. Apart(new.id, k) /\ k.target # new.id /\ new.id \notin k.doomed
    BY <1>8, <2>1, <2>2 DEF Apart
  <2>4. KnowsTarget(k)'
    BY <1>4, <2>2, <2>3 DEF Knows, KnowsTarget, Row
  <2>5. KnowsStamp(k)'
    BY <1>4, <2>2 DEF Knows, KnowsStamp
  <2>6. ASSUME k.pc = "commit", new.parent = k.target PROVE new.id \in raced'
    <3>1. k.target \in 1..clock
      BY <2>2, <2>6 DEF Knows, KnowsTarget, KnowsReplies
    <3>2. q.kind = "reply"
      BY <1>5, <1>6, <2>6, <3>1 DEF NoComment
    <3>3. Goes(q.target)
      BY <1>6, <2>1, <2>6 DEF Goes
    <3> QED
      BY <1>4, <1>6, <3>2, <3>3
  <2>7. KnowsReplies(k)'
    BY <1>4, <2>2, <2>3, <2>6 DEF Knows, KnowsReplies, isRoot
  <2> QED
    BY <2>2, <2>4, <2>5, <2>7 DEF Knows, KnowsTarget, KnowsStamp, KnowsReplies, Row
<1>12. StampsFresh'
  <2>1. ASSUME NEW s \in Requests, Inserting(call'[s])
        PROVE  /\ \A c \in rows' : c.id # call'[s].at /\ c.parent # call'[s].at
               /\ \A p \in Requests \ {s} : Apart(call'[s].at, call'[p])
    <3>1. s # r /\ call'[s] = call[s]
      BY <1>7, <2>1 DEF Moving, Inserting
    <3>2. Inserting(call[s]) /\ Unused(call[s].at) /\ \A p \in Requests \ {s} : Apart(call[s].at, call[p])
      BY <2>1, <3>1 DEF CommentsInv, StampsFresh
    <3>3. new.id # call[s].at /\ new.parent # call[s].at
      BY <1>1, <1>2, <1>6, <3>1, <3>2 DEF Apart
    <3>4. \A p \in Requests \ {s} : Apart(call[s].at, call'[p])
      BY <1>7, <3>2, UnmovedIsApart
    <3> QED
      BY <1>4, <3>1, <3>2, <3>3, <3>4 DEF Unused
  <2> QED
    BY <2>1 DEF StampsFresh, Unused, Apart, Inserting, Moving
<1>13. ThreadsWellFormed'
  <2>1. ASSUME NEW c \in rows', NEW d \in rows', c.parent = d.id PROVE isRoot(d)
    <3>1. CASE c \in rows
      BY <1>4, <1>8, <2>1, <3>1 DEF CommentsInv, ThreadsWellFormed
    <3>2. CASE c = new /\ d = new
      BY <1>5, <1>6, <2>1, <3>2 DEF Ids
    <3>3. CASE c = new /\ d \in rows
      <4>1. d \in Row(q.target) /\ d.id \in 1..clock
        BY <1>6, <2>1, <3>3 DEF Row, CommentsInv, IdsKnown
      <4>2. q.kind = "reply"
        BY <1>5, <1>6, <2>1, <3>3, <4>1 DEF NoComment
      <4> QED
        BY <1>2, <4>1, <4>2 DEF Knows, KnowsTarget
    <3> QED
      BY <1>4, <3>1, <3>2, <3>3
  <2>2. ASSUME NEW c \in rows', ~isRoot(c), c.id \notin raced'
        PROVE  \E d \in rows' : d.id = c.parent
    <3>1. CASE c \in rows
      BY <1>4, <2>2, <3>1 DEF CommentsInv, ThreadsWellFormed, Row
    <3>2. CASE c = new
      <4>1. q.kind = "reply" /\ ~Goes(q.target)
        BY <1>4, <1>5, <1>6, <2>2, <3>2 DEF isRoot
      <4> QED
        BY <1>4, <1>6, <3>2, <4>1 DEF Goes, Row
    <3> QED
      BY <1>4, <3>1, <3>2
  <2> QED
    BY <2>1, <2>2 DEF ThreadsWellFormed, Row, isRoot
<1> QED
  BY <1>9, <1>10, <1>11, <1>12, <1>13 DEF CommentsInv

(* A write that adds no comment, and what is left to show of it.            *)
LEMMA WriteCommentsInv ==
    ASSUME CommentsInv, NEW r \in Requests, Moving(call[r]), Answer(r),
           SameComments, rows' \subseteq Comment, IdsUnique', ThreadsWellFormed',
           UNCHANGED <<clock, raced>>
    PROVE  CommentsInv'
<1>1. /\ call' \in [Requests -> Call \cup {Idle}]
      /\ ~Moving(call'[r])
      /\ \A p \in Requests \ {r} : call'[p] = call[p]
  BY AnsweredCall
<1>2. TypeOK'
  BY <1>1 DEF CommentsInv, TypeOK
<1>3. IdsKnown'
  BY DEF CommentsInv, IdsKnown, SameComments
<1>4. clock \in Nat
  BY DEF CommentsInv, TypeOK
<1>5. LookupsHold'
  BY <1>1, <1>4, LookupsKept
<1>6. StampsFresh'
  BY <1>1, StampsKept, UnmovedIsApart
<1> QED
  BY <1>2, <1>3, <1>5, <1>6 DEF CommentsInv

LEMMA UpdateCommentsInv ==
    ASSUME CommentsInv, NEW r \in Requests, Update(r)
    PROVE  CommentsInv'
<1>1. CASE call' = [call EXCEPT ![r] = Idle] /\ UNCHANGED <<rows, clock, raced>>
  BY <1>1, QuietStep, IdleHasNoStep, UnmovedIsApart DEF Moving
<1>2. CASE Row(call[r].target) # {}
  <2> DEFINE after(c) == IF c.id = call[r].target THEN Updated(c, call[r]) ELSE c
  <2>1. /\ Moving(call[r]) /\ Answer(r) /\ clock' = clock /\ raced' = raced
        /\ rows' = {after(c) : c \in rows}
    BY <1>2 DEF Update, Moving
  <2>2. call[r].at \in Ids
    BY <1>2, <2>1, MovingCall, MaxClockAssumption
       DEF Update, Knows, KnowsStamp, CommentsInv, TypeOK, Ids
  <2>3. ASSUME NEW c \in rows
        PROVE  after(c) \in Comment /\ after(c).id = c.id /\ after(c).parent = c.parent
    BY <2>2 DEF Updated, CommentsInv, TypeOK, Comment
  <2>4. \A c \in rows' : \E d \in rows : c = after(d) /\ d.id = c.id /\ d.parent = c.parent
    BY <2>1, <2>3
  <2>5. SameComments /\ rows' \subseteq Comment
    BY <2>1, <2>3 DEF SameComments
  <2>6. IdsUnique'
    BY <2>4 DEF CommentsInv, IdsUnique
  <2>7. ThreadsWellFormed'
    <3>1. \A c, d \in rows' : c.parent = d.id => isRoot(d)
      BY <2>4 DEF CommentsInv, ThreadsWellFormed, isRoot
    <3>2. ASSUME NEW c \in rows', ~isRoot(c), c.id \notin raced
          PROVE  \E d \in rows' : d.id = c.parent
      BY <2>1, <2>3, <2>4, <3>2 DEF CommentsInv, ThreadsWellFormed, Row, isRoot
    <3> QED
      BY <2>1, <3>1, <3>2 DEF ThreadsWellFormed, Row, isRoot
  <2> QED
    BY <2>1, <2>5, <2>6, <2>7, WriteCommentsInv
<1> QED
  BY <1>1, <1>2 DEF Update

(* Deletions.                                                               *)
LEMMA DeleteReplyCommentsInv ==
    ASSUME CommentsInv, NEW r \in Requests, DeleteReply(r)
    PROVE  CommentsInv'
<1>1. /\ Moving(call[r]) /\ ~call[r].root /\ clock' = clock /\ raced' = raced /\ Answer(r)
      /\ rows' = rows \ Row(call[r].target)
  BY DEF DeleteReply, Deleting, Moving
<1>2. \A d \in Row(call[r].target) : ~isRoot(d)
  BY <1>1, MovingCall DEF Knows, KnowsTarget
<1>3. SameComments /\ rows' \subseteq Comment /\ IdsUnique'
  BY <1>1 DEF SameComments, CommentsInv, TypeOK, IdsUnique
<1>4. ThreadsWellFormed'
  <2>1. \A c, d \in rows' : c.parent = d.id => isRoot(d)
    BY <1>1 DEF CommentsInv, ThreadsWellFormed
  <2>2. ASSUME NEW c \in rows', ~isRoot(c), c.id \notin raced
        PROVE  \E d \in rows' : d.id = c.parent
    <3>1. PICK d \in rows : d.id = c.parent
      BY <1>1, <2>2 DEF CommentsInv, ThreadsWellFormed, Row
    <3>2. isRoot(d)
      BY <1>1, <3>1 DEF CommentsInv, ThreadsWellFormed
    <3> QED
      BY <1>1, <1>2, <3>1, <3>2
  <2> QED
    BY <1>1, <2>1, <2>2 DEF ThreadsWellFormed, Row, isRoot
<1> QED
  BY <1>1, <1>3, <1>4, WriteCommentsInv

LEMMA DeleteRepliesCommentsInv ==
    ASSUME CommentsInv, NEW r \in Requests, DeleteReplies(r)
    PROVE  CommentsInv'
<1>1. PICK q, n : q = call[r] /\ n = [q EXCEPT !.pc = "commit", !.doomed = repliesTo(q.target)]
  OBVIOUS
<1>2. q.pc = "write" /\ q.kind = "delete" /\ q.root /\ q \in Call /\ Knows(q)
  BY <1>1, MovingCall DEF DeleteReplies, Deleting, Moving
<1>3. call' = [call EXCEPT ![r] = n] /\ UNCHANGED <<rows, clock, raced>>
  BY <1>1 DEF DeleteReplies, CommentsInv, TypeOK
<1>4. \A id : id \in repliesTo(q.target) <=> \E c \in rows : c.id = id /\ c.parent = q.target
  BY DEF repliesTo
<1>5. repliesTo(q.target) \subseteq 1..clock /\ repliesTo(q.target) \subseteq Ids
  BY <1>4 DEF CommentsInv, IdsKnown, TypeOK, Comment
<1>6. /\ n \in Call /\ n.pc = "commit" /\ n.kind = "delete" /\ n.root /\ n.target = q.target
      /\ n.doomed = repliesTo(q.target) /\ n.root = q.root
  BY <1>1, <1>2, <1>5 DEF Call
<1>7. KnowsTarget(n) /\ KnowsStamp(n)
  BY <1>2, <1>6 DEF Knows, KnowsTarget, KnowsStamp
<1>8. q.target # NoComment
  BY <1>2 DEF Knows, KnowsTarget, NoComment
<1>9. KnowsReplies(n)
  <2>1. \A c \in rows : c.id \in repliesTo(q.target) => c.parent = q.target
    BY <1>4 DEF CommentsInv, IdsUnique
  <2> QED
    BY <1>4, <1>5, <1>6, <1>8, <2>1 DEF KnowsReplies, isRoot
<1>10. ASSUME NEW p \in Requests \ {r}, Inserting(call[p]) PROVE Apart(call[p].at, n)
  <2>1. Unused(call[p].at) /\ Apart(call[p].at, q)
    BY <1>1, <1>10 DEF CommentsInv, StampsFresh
  <2>2. call[p].at \notin repliesTo(q.target)
    BY <1>4, <2>1 DEF Unused
  <2> QED
    BY <1>2, <1>6, <2>1, <2>2 DEF Apart, Moving, Inserting
<1>11. ~Inserting(n)
  BY <1>6 DEF Inserting
<1> QED
  BY <1>3, <1>6, <1>7, <1>9, <1>10, <1>11, QuietStep DEF Knows

LEMMA DeleteThreadCommentsInv ==
    ASSUME CommentsInv, NEW r \in Requests, DeleteThread(r)
    PROVE  CommentsInv'
<1>1. PICK q : q = call[r]
  OBVIOUS
<1>2. /\ Moving(call[r]) /\ clock' = clock /\ raced' = raced /\ Answer(r)
      /\ rows' = {c \in rows : c.id # q.target /\ c.id \notin q.doomed}
  BY <1>1 DEF DeleteThread, deleted, Moving
<1>3. /\ \A c \in rows : c.id \in q.doomed => ~isRoot(c)
      /\ \A c \in rows : c.parent = q.target => c.id \in q.doomed \cup raced
  BY <1>1, <1>2, MovingCall DEF DeleteThread, Knows, KnowsReplies
<1>4. SameComments /\ rows' \subseteq Comment /\ IdsUnique'
  BY <1>2 DEF SameComments, CommentsInv, TypeOK, IdsUnique
<1>5. ThreadsWellFormed'
  <2>1. \A c, d \in rows' : c.parent = d.id => isRoot(d)
    BY <1>2 DEF CommentsInv, ThreadsWellFormed
  <2>2. ASSUME NEW c \in rows', ~isRoot(c), c.id \notin raced
        PROVE  \E d \in rows' : d.id = c.parent
    <3>1. PICK d \in rows : d.id = c.parent
      BY <1>2, <2>2 DEF CommentsInv, ThreadsWellFormed, Row
    <3>2. isRoot(d)
      BY <1>2, <3>1 DEF CommentsInv, ThreadsWellFormed
    <3>3. d.id # q.target
      BY <1>2, <1>3, <2>2, <3>1
    <3> QED
      BY <1>2, <1>3, <3>1, <3>2, <3>3
  <2> QED
    BY <1>2, <2>1, <2>2 DEF ThreadsWellFormed, Row, isRoot
<1> QED
  BY <1>2, <1>4, <1>5, WriteCommentsInv

LEMMA NextCommentsInv == CommentsInv /\ [Next]_vars => CommentsInv'
<1> SUFFICES ASSUME CommentsInv, [Next]_vars PROVE CommentsInv'
  OBVIOUS
<1>1. ASSUME NEW r \in Requests, Begin(r) PROVE CommentsInv'
  BY <1>1, StartCommentsInv, StampsCommentsInv DEF Begin
<1>2. ASSUME NEW r \in Requests, StampReply(r) PROVE CommentsInv'
  BY <1>2, MeAssumption, StampsCommentsInv
<1>3. ASSUME NEW r \in Requests, Write(r) PROVE CommentsInv'
  BY <1>2, <1>3, InsertCommentsInv, UpdateCommentsInv, DeleteReplyCommentsInv,
     DeleteRepliesCommentsInv, DeleteThreadCommentsInv DEF Write
<1>4. CASE UNCHANGED vars
  BY <1>4 DEF vars, CommentsInv, TypeOK, IdsUnique, IdsKnown, LookupsHold, StampsFresh, Unused,
              Apart, Moving, Inserting, Knows, KnowsTarget, KnowsStamp, KnowsReplies,
              ThreadsWellFormed, Row
<1> QED
  BY <1>1, <1>3, <1>4, EndCommentsInv DEF Next

LEMMA CommentsInvariant == Spec => []CommentsInv
BY InitCommentsInv, NextCommentsInv, PTL DEF Spec

(* Every variable of the model has its type, in every behaviour.            *)
THEOREM CommentsTyped == Spec => []TypeOK
<1>1. CommentsInv => TypeOK
  BY DEF CommentsInv
<1> QED
  BY <1>1, CommentsInvariant, PTL

(* However the requests of any number of users interleave, threads stay one *)
(* level deep, and a reply is left without its thread only if it was itself *)
(* inserted after the thread had gone or between the two statements that    *)
(* delete the thread (comments.ts:387-392).                                 *)
THEOREM ThreadsStayWellFormed == Spec => []ThreadsWellFormed
<1>1. CommentsInv => ThreadsWellFormed
  BY DEF CommentsInv
<1> QED
  BY <1>1, CommentsInvariant, PTL

=============================================================================
