---------------------------- MODULE AccountsProofs ----------------------------
(***************************************************************************)
(* Proofs about Accounts for any addresses, subjects and requests and any  *)
(* size of the cache.  The rows, an activation and the cache each have a   *)
(* predicate over the rows; what a step does to the rows is one of three   *)
(* updates, and all of them leave a link in place.                         *)
(***************************************************************************)
EXTENDS Accounts, SequenceTheorems, TLAPS

(***************************************************************************)
(* The inductive invariant.                                                *)
(***************************************************************************)
Lower == {e \in Emails : e[2] = "lower"}

RowsOK(rows) ==
    /\ rows \in Seq([email : Lower, sub : Subs \cup {NoSub}])
    /\ \A i, j \in 1..Len(rows) :
          \/ rows[i].email = rows[j].email
          \/ rows[i].sub = rows[j].sub /\ rows[i].sub # NoSub
          => i = j

LinkedTo(rows, id, s) == id \in 1..Len(rows) /\ rows[id].sub = s

\* What is to be written of a token is in lower case; who is answered is linked.
ActivationOK(a, rows) ==
    \/ a = Idle
    \/ a \in Login /\ a.email \in Lower /\ a.rowEmail \in Lower
    \/ a \in Answered /\ LinkedTo(rows, a.id, a.sub)
    \/ a \in Refused

InvitationOK(v) == v = Idle \/ (v \in Invite /\ v.email \in Lower)

EntriesOK(c, rows) ==
    /\ c \in Seq([sub : Subs, id : Nat])
    /\ Len(c) <= MaxEntries
    /\ \A i, j \in 1..Len(c) : c[i].sub = c[j].sub => i = j
    /\ \A i \in 1..Len(c) : LinkedTo(rows, c[i].id, c[i].sub)

AccountsInv ==
    /\ RowsOK(users)
    /\ login \in [Logins -> Login \cup Answered \cup Refused \cup {Idle}]
    /\ \A l \in Logins : ActivationOK(login[l], users)
    /\ invite \in [Invites -> Invite \cup {Idle}]
    /\ \A v \in Invites : InvitationOK(invite[v])
    /\ EntriesOK(cache, users)

\* What every update of the rows does: none goes, and a link stays.
Grown(rows, more) ==
    /\ RowsOK(more)
    /\ Len(rows) <= Len(more)
    /\ \A i \in 1..Len(rows) : rows[i].sub # NoSub => more[i].sub = rows[i].sub

LEMMA LowerIsSpelling == \A e \in Emails : toLowerCase(e) \in Lower
BY DEF Lower, Emails, Spellings, toLowerCase

LEMMA LowerByAddress == \A d, e \in Lower : d[1] = e[1] => d = e
BY DEF Lower, Emails, Spellings

LEMMA RowsTyped ==
    ASSUME NEW rows, RowsOK(rows)
    PROVE  /\ Len(rows) \in Nat /\ DOMAIN rows = 1..Len(rows)
           /\ \A i \in 1..Len(rows) :
                 /\ rows[i] \in [email : Lower, sub : Subs \cup {NoSub}]
                 /\ rows[i].email \in Lower /\ rows[i].sub \in Subs \cup {NoSub}
<1>1. rows \in Seq([email : Lower, sub : Subs \cup {NoSub}])
  BY DEF RowsOK
<1>2. \A i \in 1..Len(rows) : rows[i] \in [email : Lower, sub : Subs \cup {NoSub}]
  BY <1>1, ElementOfSeq
<1> QED
  BY <1>1, <1>2, LenProperties

(***************************************************************************)
(* The three updates of the rows.                                          *)
(***************************************************************************)
LEMMA Unchanged ==
    ASSUME NEW rows, RowsOK(rows) PROVE Grown(rows, rows)
BY RowsTyped DEF Grown

(* A new row has an address and a subject that no row has.                  *)
LEMMA RowAppended ==
    ASSUME NEW rows, RowsOK(rows), NEW e \in Lower, NEW s \in Subs \cup {NoSub},
           \A i \in 1..Len(rows) : rows[i].email # e,
           s # NoSub => \A i \in 1..Len(rows) : rows[i].sub # s
    PROVE  LET more == Append(rows, [email |-> e, sub |-> s])
           IN  Grown(rows, more) /\ LinkedTo(more, Len(rows) + 1, s)
<1> DEFINE R == [email : Lower, sub : Subs \cup {NoSub}]
           u == [email |-> e, sub |-> s]
           more == Append(rows, u)
<1>1. u \in R /\ u.email = e /\ u.sub = s
  OBVIOUS
<1>2. rows \in Seq(R) /\ Len(rows) \in Nat
  BY RowsTyped DEF RowsOK
<1>3. /\ more \in Seq(R) /\ Len(more) = Len(rows) + 1
      /\ \A i \in 1..Len(rows) : more[i] = rows[i]
      /\ more[Len(rows) + 1] = u
  <2> HIDE DEF R, u
  <2> QED
    BY <1>1, <1>2, AppendProperties
<1> HIDE DEF more, u
<1>4. ASSUME NEW i \in 1..Len(more), NEW j \in 1..Len(more),
             \/ more[i].email = more[j].email
             \/ more[i].sub = more[j].sub /\ more[i].sub # NoSub
      PROVE  i = j
  <2>1. CASE i \in 1..Len(rows) /\ j \in 1..Len(rows)
    BY <1>3, <1>4, <2>1 DEF RowsOK
  <2>2. CASE i = Len(rows) + 1 /\ j \in 1..Len(rows)
    BY <1>1, <1>2, <1>3, <1>4, <2>2
  <2>3. CASE i \in 1..Len(rows) /\ j = Len(rows) + 1
    BY <1>1, <1>2, <1>3, <1>4, <2>3
  <2>4. CASE i = Len(rows) + 1 /\ j = Len(rows) + 1
    BY <2>4
  <2> QED
    BY <1>2, <1>3, <2>1, <2>2, <2>3, <2>4
<1>5. RowsOK(more)
  BY <1>3, <1>4 DEF RowsOK
<1> QED
  BY <1>1, <1>2, <1>3, <1>5 DEF Grown, LinkedTo, more, u

(* A row that is replaced keeps its subject or had none, and gets no address *)
(* nor subject of another row.                                              *)
LEMMA RowReplaced ==
    ASSUME NEW rows, RowsOK(rows), NEW k \in 1..Len(rows),
           NEW u \in [email : Lower, sub : Subs \cup {NoSub}],
           rows[k].sub \in {u.sub, NoSub},
           \A i \in 1..Len(rows) \ {k} : rows[i].email # u.email,
           u.sub # NoSub => \A i \in 1..Len(rows) \ {k} : rows[i].sub # u.sub
    PROVE  /\ Grown(rows, [rows EXCEPT ![k] = u])
           /\ LinkedTo([rows EXCEPT ![k] = u], k, u.sub)
<1> DEFINE R == [email : Lower, sub : Subs \cup {NoSub}]
           more == [rows EXCEPT ![k] = u]
<1>1. rows \in Seq(R) /\ Len(rows) \in Nat
  BY RowsTyped DEF RowsOK
<1>2. /\ more \in Seq(R) /\ Len(more) = Len(rows)
      /\ \A i \in 1..Len(rows) : more[i] = IF i = k THEN u ELSE rows[i]
  BY <1>1, ExceptSeq
<1> HIDE DEF more
<1>3. ASSUME NEW i \in 1..Len(more), NEW j \in 1..Len(more),
             \/ more[i].email = more[j].email
             \/ more[i].sub = more[j].sub /\ more[i].sub # NoSub
      PROVE  i = j
  <2>1. CASE i # k /\ j # k
    BY <1>2, <1>3, <2>1 DEF RowsOK
  <2>2. CASE i = k \/ j = k
    BY <1>2, <1>3, <2>2
  <2> QED
    BY <2>1, <2>2
<1>4. RowsOK(more)
  BY <1>2, <1>3 DEF RowsOK
<1> QED
  BY <1>1, <1>2, <1>4 DEF Grown, LinkedTo, more

(***************************************************************************)
(* What the updates leave in place.                                        *)
(***************************************************************************)
LEMMA LinkStays ==
    ASSUME NEW rows, NEW more, RowsOK(rows), Grown(rows, more), NEW id, NEW s \in Subs,
           LinkedTo(rows, id, s)
    PROVE  LinkedTo(more, id, s)
BY RowsTyped, NoSubAssumption DEF Grown, LinkedTo

LEMMA ActivationStays ==
    ASSUME NEW rows, NEW more, RowsOK(rows), Grown(rows, more), NEW a, ActivationOK(a, rows)
    PROVE  ActivationOK(a, more)
BY LinkStays DEF ActivationOK, Answered

LEMMA EntriesTyped ==
    ASSUME NEW c, NEW rows, EntriesOK(c, rows)
    PROVE  /\ Len(c) \in Nat /\ DOMAIN c = 1..Len(c)
           /\ \A i \in 1..Len(c) : c[i] \in [sub : Subs, id : Nat]
BY LenProperties, ElementOfSeq DEF EntriesOK

LEMMA EntriesStay ==
    ASSUME NEW rows, NEW more, RowsOK(rows), Grown(rows, more), NEW c, EntriesOK(c, rows)
    PROVE  EntriesOK(c, more)
<1>1. \A i \in 1..Len(c) : c[i].sub \in Subs
  BY EntriesTyped
<1>2. \A i \in 1..Len(c) : LinkedTo(more, c[i].id, c[i].sub)
  BY <1>1, LinkStays DEF EntriesOK
<1> QED
  BY <1>2 DEF EntriesOK

(***************************************************************************)
(* The cache.                                                              *)
(***************************************************************************)
LEMMA EntriesEmpty == \A rows : EntriesOK(<<>>, rows)
BY EmptySeq, MaxEntriesAssumption DEF EntriesOK

LEMMA EntriesDropped ==
    ASSUME NEW c, NEW rows, EntriesOK(c, rows), c # <<>>
    PROVE  EntriesOK(Tail(c), rows)
<1> DEFINE d == Tail(c)
<1>1. c \in Seq([sub : Subs, id : Nat]) /\ Len(c) \in Nat
  BY EntriesTyped DEF EntriesOK
<1>2. /\ d \in Seq([sub : Subs, id : Nat]) /\ Len(d) = Len(c) - 1
      /\ \A i \in 1..Len(d) : d[i] = c[i + 1]
  <2> DEFINE T == [sub : Subs, id : Nat]
  <2> HIDE DEF T
  <2>1. c \in Seq(T)
    BY <1>1 DEF T
  <2>2. /\ d \in Seq(T) /\ Len(d) = Len(c) - 1
        /\ \A i \in 1..Len(d) : d[i] = c[i + 1]
    BY <2>1, HeadTailProperties
  <2> QED
    BY <2>2 DEF T
<1> HIDE DEF d
<1>3. Len(d) <= MaxEntries
  BY <1>1, <1>2, MaxEntriesAssumption DEF EntriesOK
<1>4. ASSUME NEW i \in 1..Len(d), NEW j \in 1..Len(d), d[i].sub = d[j].sub PROVE i = j
  <2>1. PICK m \in 1..Len(c) : m = i + 1 /\ d[i] = c[m]
    BY <1>1, <1>2
  <2>2. PICK n \in 1..Len(c) : n = j + 1 /\ d[j] = c[n]
    BY <1>1, <1>2
  <2>3. m = n
    BY <1>4, <2>1, <2>2 DEF EntriesOK
  <2> QED
    BY <2>1, <2>2, <2>3
<1>5. ASSUME NEW i \in 1..Len(d) PROVE LinkedTo(rows, d[i].id, d[i].sub)
  <2>1. i + 1 \in 1..Len(c) /\ d[i] = c[i + 1]
    BY <1>1, <1>2
  <2> QED
    BY <2>1 DEF EntriesOK
<1> QED
  BY <1>2, <1>3, <1>4, <1>5 DEF EntriesOK, d

LEMMA EntriesWithout ==
    ASSUME NEW c, NEW rows, EntriesOK(c, rows), NEW k \in 1..Len(c)
    PROVE  EntriesOK(RemoveAt(c, k), rows)
<1> DEFINE T == [sub : Subs, id : Nat]
           p == SubSeq(c, 1, k - 1)
           q == SubSeq(c, k + 1, Len(c))
           d == p \o q
<1> HIDE DEF T
<1>1. c \in Seq(T) /\ Len(c) \in Nat /\ \A i \in 1..Len(c) : c[i] \in T
  BY EntriesTyped DEF EntriesOK, T
<1>2. p \in Seq(T) /\ Len(p) = k - 1 /\ \A i \in 1..(k - 1) : p[i] = c[i]
  <2>1. \A i \in 1..(k - 1) : c[i] \in T
    BY <1>1
  <2>2. /\ p \in Seq(T) /\ Len(p) = IF 1 <= k - 1 THEN (k - 1) - 1 + 1 ELSE 0
        /\ \A i \in 1..((k - 1) - 1 + 1) : p[i] = c[1 + i - 1]
    <3> k - 1 \in Int
      OBVIOUS
    <3> QED
      BY <2>1, SubSeqProperties
  <2> QED
    BY <1>1, <2>2
<1>3. q \in Seq(T) /\ Len(q) = Len(c) - k /\ \A i \in 1..(Len(c) - k) : q[i] = c[k + i]
  <2>1. \A i \in (k + 1)..Len(c) : c[i] \in T
    BY <1>1
  <2>2. /\ q \in Seq(T) /\ Len(q) = IF k + 1 <= Len(c) THEN Len(c) - (k + 1) + 1 ELSE 0
        /\ \A i \in 1..(Len(c) - (k + 1) + 1) : q[i] = c[(k + 1) + i - 1]
    <3> k + 1 \in Int /\ Len(c) \in Int
      BY <1>1
    <3> QED
      BY <2>1, SubSeqProperties
  <2> QED
    BY <1>1, <2>2
<1> HIDE DEF p, q
<1>4. /\ d \in Seq(T) /\ Len(d) = Len(c) - 1
      /\ \A i \in 1..Len(d) : d[i] = IF i < k THEN c[i] ELSE c[i + 1]
  <2>1. /\ d \in Seq(T) /\ Len(d) = Len(p) + Len(q)
        /\ \A i \in 1..(Len(p) + Len(q)) : d[i] = IF i <= Len(p) THEN p[i] ELSE q[i - Len(p)]
    BY <1>2, <1>3, ConcatProperties
  <2>2. ASSUME NEW i \in 1..Len(d), i < k PROVE d[i] = c[i]
    BY <1>1, <1>2, <1>3, <2>1, <2>2
  <2>3. ASSUME NEW i \in 1..Len(d), ~(i < k) PROVE d[i] = c[i + 1]
    <3>1. i - Len(p) \in 1..(Len(c) - k) /\ k + (i - Len(p)) = i + 1
      BY <1>1, <1>2, <1>3, <2>1, <2>3
    <3> QED
      BY <1>1, <1>2, <1>3, <2>1, <2>3, <3>1
  <2> QED
    BY <1>1, <1>2, <1>3, <2>1, <2>2, <2>3
<1> HIDE DEF d
<1>5. \A i \in 1..Len(d) : \E j \in 1..Len(c) : d[i] = c[j] /\ j = IF i < k THEN i ELSE i + 1
  BY <1>1, <1>4
<1>6. ASSUME NEW i \in 1..Len(d), NEW j \in 1..Len(d), d[i].sub = d[j].sub PROVE i = j
  <2>1. PICK m \in 1..Len(c) : d[i] = c[m] /\ m = IF i < k THEN i ELSE i + 1
    BY <1>5
  <2>2. PICK n \in 1..Len(c) : d[j] = c[n] /\ n = IF j < k THEN j ELSE j + 1
    BY <1>5
  <2>3. m = n
    BY <1>6, <2>1, <2>2 DEF EntriesOK
  <2> QED
    BY <1>1, <1>4, <2>1, <2>2, <2>3
<1>7. \A i \in 1..Len(d) : LinkedTo(rows, d[i].id, d[i].sub)
  BY <1>5 DEF EntriesOK
<1>8. Len(d) <= MaxEntries
  BY <1>1, <1>4, MaxEntriesAssumption DEF EntriesOK
<1>9. d \in Seq([sub : Subs, id : Nat])
  BY <1>4 DEF T
<1>10. EntriesOK(d, rows)
  BY <1>6, <1>7, <1>8, <1>9 DEF EntriesOK
<1> QED
  BY <1>10 DEF d, p, q, RemoveAt

(* An entry of another subject is added.                                    *)
LEMMA EntriesAppended ==
    ASSUME NEW c, NEW rows, EntriesOK(c, rows), Len(c) < MaxEntries,
           NEW s \in Subs, NEW id \in Nat, LinkedTo(rows, id, s),
           \A i \in 1..Len(c) : c[i].sub # s
    PROVE  EntriesOK(Append(c, [sub |-> s, id |-> id]), rows)
<1> DEFINE T == [sub : Subs, id : Nat]
           e == [sub |-> s, id |-> id]
           d == Append(c, e)
<1>1. e \in T /\ e.sub = s /\ e.id = id
  OBVIOUS
<1>2. c \in Seq(T) /\ Len(c) \in Nat
  BY EntriesTyped DEF EntriesOK
<1> HIDE DEF T, e
<1>3. /\ d \in Seq(T) /\ Len(d) = Len(c) + 1
      /\ \A i \in 1..Len(c) : d[i] = c[i]
      /\ d[Len(c) + 1] = e
  BY <1>1, <1>2, AppendProperties
<1> HIDE DEF d
<1>4. \A i \in 1..Len(d) : i \in 1..Len(c) \/ i = Len(c) + 1
  BY <1>2, <1>3
<1>5. \A i, j \in 1..Len(d) : d[i].sub = d[j].sub => i = j
  BY <1>1, <1>3, <1>4 DEF EntriesOK
<1>6. \A i \in 1..Len(d) : LinkedTo(rows, d[i].id, d[i].sub)
  BY <1>1, <1>3, <1>4 DEF EntriesOK
<1>7. Len(d) <= MaxEntries
  BY <1>2, <1>3, MaxEntriesAssumption
<1>8. d \in Seq([sub : Subs, id : Nat])
  BY <1>3 DEF T
<1> QED
  BY <1>5, <1>6, <1>7, <1>8 DEF EntriesOK, d, e

(* An entry of the subject is replaced in its place.                        *)
LEMMA EntriesReplaced ==
    ASSUME NEW c, NEW rows, EntriesOK(c, rows),
           NEW s \in Subs, NEW id \in Nat, LinkedTo(rows, id, s)
    PROVE  EntriesOK([i \in DOMAIN c |-> IF c[i].sub = s THEN [c[i] EXCEPT !.id = id] ELSE c[i]],
                     rows)
<1> DEFINE d == [i \in DOMAIN c |-> IF c[i].sub = s THEN [c[i] EXCEPT !.id = id] ELSE c[i]]
<1>1. Len(c) \in Nat /\ DOMAIN c = 1..Len(c) /\ \A i \in 1..Len(c) : c[i] \in [sub : Subs, id : Nat]
  BY EntriesTyped
<1>2. d \in [1..Len(c) -> [sub : Subs, id : Nat]]
  BY <1>1
<1>3. d \in Seq([sub : Subs, id : Nat]) /\ Len(d) = Len(c)
  BY <1>1, <1>2
<1>4. \A i \in 1..Len(c) : d[i].sub = c[i].sub /\ d[i].id = IF c[i].sub = s THEN id ELSE c[i].id
  BY <1>1
<1> HIDE DEF d
<1>5. \A i \in 1..Len(d) : LinkedTo(rows, d[i].id, d[i].sub)
  BY <1>3, <1>4 DEF EntriesOK
<1> QED
  BY <1>3, <1>4, <1>5 DEF EntriesOK, d

LEMMA CacheSet ==
    ASSUME NEW rows, EntriesOK(cache, rows), NEW s \in Subs, NEW id \in Nat,
           LinkedTo(rows, id, s), cacheSet(s, id)
    PROVE  EntriesOK(cache', rows)
<1>1. Len(cache) \in Nat /\ DOMAIN cache = 1..Len(cache)
  BY EntriesTyped
<1>2. CASE cachedId(s) # {}
  <2>1. cache' = [i \in DOMAIN cache |->
                     IF cache[i].sub = s THEN [cache[i] EXCEPT !.id = id] ELSE cache[i]]
    BY <1>2 DEF cacheSet
  <2> QED
    BY <2>1, EntriesReplaced
<1>3. CASE cachedId(s) = {}
  <2>1. \A i \in 1..Len(cache) : cache[i].sub # s
    BY <1>1, <1>3 DEF cachedId, ToSet
  <2>2. CASE Len(cache) >= MaxEntries
    <3>1. cache # <<>>
      BY <2>2, MaxEntriesAssumption, EmptySeq
    <3>2. EntriesOK(Tail(cache), rows)
      BY <3>1, EntriesDropped
    <3>3. Len(Tail(cache)) = Len(cache) - 1 /\ \A i \in 1..Len(Tail(cache)) : Tail(cache)[i] = cache[i + 1]
      BY <3>1, HeadTailProperties DEF EntriesOK
    <3>4. \A i \in 1..Len(Tail(cache)) : Tail(cache)[i].sub # s
      BY <1>1, <2>1, <3>3
    <3>5. Len(Tail(cache)) < MaxEntries
      BY <1>1, <3>3, MaxEntriesAssumption DEF EntriesOK
    <3>6. cache' = Append(Tail(cache), [sub |-> s, id |-> id])
      BY <1>3, <2>2 DEF cacheSet
    <3> QED
      BY <3>2, <3>4, <3>5, <3>6, EntriesAppended
  <2>3. CASE ~(Len(cache) >= MaxEntries)
    <3>1. cache' = Append(cache, [sub |-> s, id |-> id])
      BY <1>3, <2>3 DEF cacheSet
    <3>2. Len(cache) < MaxEntries
      BY <1>1, <2>3, MaxEntriesAssumption
    <3> QED
      BY <2>1, <3>1, <3>2, EntriesAppended
  <2> QED
    BY <2>2, <2>3
<1> QED
  BY <1>2, <1>3

(***************************************************************************)
(* The steps.  An activation goes on, and the rows and the cache may have  *)
(* been updated.                                                           *)
(***************************************************************************)
LEMMA LoginStep ==
    ASSUME AccountsInv, NEW l \in Logins, NEW a, login' = [login EXCEPT ![l] = a],
           Grown(users, users'), ActivationOK(a, users'), EntriesOK(cache', users'),
           invite' = invite
    PROVE  AccountsInv'
<1>1. a \in Login \cup Answered \cup Refused \cup {Idle}
  BY DEF ActivationOK
<1>2. \A m \in Logins : login'[m] = IF m = l THEN a ELSE login[m]
  BY DEF AccountsInv
<1>3. \A m \in Logins : ActivationOK(login[m], users')
  BY ActivationStays DEF AccountsInv
<1>4. \A m \in Logins : ActivationOK(login'[m], users')
  BY <1>2, <1>3
<1>5. login' \in [Logins -> Login \cup Answered \cup Refused \cup {Idle}]
  BY <1>1 DEF AccountsInv
<1>6. invite' \in [Invites -> Invite \cup {Idle}] /\ \A v \in Invites : InvitationOK(invite'[v])
  BY DEF AccountsInv
<1> QED
  BY <1>4, <1>5, <1>6 DEF AccountsInv, Grown

LEMMA InviteStep ==
    ASSUME AccountsInv, NEW v \in Invites, NEW a, invite' = [invite EXCEPT ![v] = a],
           Grown(users, users'), InvitationOK(a), login' = login, cache' = cache
    PROVE  AccountsInv'
<1>1. a \in Invite \cup {Idle}
  BY DEF InvitationOK
<1>2. \A w \in Invites : invite'[w] = IF w = v THEN a ELSE invite[w]
  BY DEF AccountsInv
<1>3. \A w \in Invites : InvitationOK(invite'[w])
  BY <1>2 DEF AccountsInv
<1>4. invite' \in [Invites -> Invite \cup {Idle}]
  BY <1>1 DEF AccountsInv
<1>5. \A m \in Logins : ActivationOK(login'[m], users')
  BY ActivationStays DEF AccountsInv
<1>6. EntriesOK(cache', users')
  BY EntriesStay DEF AccountsInv
<1>7. login' \in [Logins -> Login \cup Answered \cup Refused \cup {Idle}]
  BY DEF AccountsInv
<1> QED
  BY <1>3, <1>4, <1>5, <1>6, <1>7 DEF AccountsInv, Grown

(* What an activation in requireAuth holds by its step.                     *)
LEMMA ActiveLogin ==
    ASSUME AccountsInv, NEW l \in Logins, ~Resting(l)
    PROVE  /\ login[l] \in Login
           /\ login[l].sub \in Subs
           /\ login[l].email \in Lower
           /\ login[l].rowEmail \in Lower
<1>1. ActivationOK(login[l], users)
  BY DEF AccountsInv
<1>2. login[l] # Idle /\ login[l] \notin Answered /\ login[l] \notin Refused
  BY DEF Resting, Idle, Answered, Refused
<1>3. login[l] \in Login /\ login[l].email \in Lower /\ login[l].rowEmail \in Lower
  BY <1>1, <1>2 DEF ActivationOK
<1> QED
  BY <1>3 DEF Login

LEMMA Quiet ==
    ASSUME AccountsInv, users' = users
    PROVE  Grown(users, users') /\ EntriesOK(cache, users')
BY Unchanged DEF AccountsInv

(* The end of a login: the answer, and the entry in the cache.              *)
LEMMA Resolved ==
    ASSUME AccountsInv, NEW l \in Logins, login[l].sub \in Subs, NEW id \in Nat \ {0},
           LinkedTo(users', id, login[l].sub), Resolve(l, id), Grown(users, users'),
           invite' = invite
    PROVE  AccountsInv'
<1> DEFINE a == [pc |-> "answered", sub |-> login[l].sub, id |-> id]
<1>1. login' = [login EXCEPT ![l] = a] /\ cacheSet(login[l].sub, id)
  BY DEF Resolve, Answer
<1>2. ActivationOK(a, users')
  BY DEF ActivationOK, Answered
<1>3. EntriesOK(cache, users')
  BY EntriesStay DEF AccountsInv
<1>4. EntriesOK(cache', users')
  BY <1>1, <1>3, CacheSet
<1> QED
  BY <1>1, <1>2, <1>4, LoginStep

LEMMA LoginRefused ==
    ASSUME AccountsInv, NEW l \in Logins, login[l].sub \in Subs,
           NEW how \in {"conflict", "constraintError", "syncError"}, Refuse(l, how),
           UNCHANGED <<users, cache, invite>>
    PROVE  AccountsInv'
<1> DEFINE a == [pc |-> how, sub |-> login[l].sub]
<1>1. login' = [login EXCEPT ![l] = a]
  BY DEF Refuse
<1>2. ActivationOK(a, users')
  BY DEF ActivationOK, Refused
<1> QED
  BY <1>1, <1>2, Quiet, LoginStep

(* A login goes on to its next query.                                       *)
LEMMA Proceeded ==
    ASSUME AccountsInv, NEW l \in Logins, NEW a \in Login, a.email \in Lower, a.rowEmail \in Lower,
           login' = [login EXCEPT ![l] = a], UNCHANGED <<users, cache, invite>>
    PROVE  AccountsInv'
<1>1. ActivationOK(a, users')
  BY DEF ActivationOK
<1> QED
  BY <1>1, Quiet, LoginStep

LEMMA ArriveStep ==
    ASSUME AccountsInv, NEW l \in Logins, NEW s \in Subs, NEW email \in Emails, Arrive(l, s, email)
    PROVE  AccountsInv'
<1>1. CASE \E id \in cachedId(s) : Answer(l, s, id)
  <2>1. PICK id \in cachedId(s) : Answer(l, s, id)
    BY <1>1
  <2>2. EntriesOK(cache, users) /\ DOMAIN cache = 1..Len(cache)
    BY EntriesTyped DEF AccountsInv
  <2>3. LinkedTo(users, id, s)
    BY <2>2 DEF cachedId, ToSet, EntriesOK
  <2>4. id \in Nat \ {0}
    BY <2>3, RowsTyped DEF AccountsInv, LinkedTo
  <2> DEFINE a == [pc |-> "answered", sub |-> s, id |-> id]
  <2>5. ActivationOK(a, users)
    BY <2>3, <2>4 DEF ActivationOK, Answered
  <2> QED
    BY <2>1, <2>5, Quiet, LoginStep DEF Answer, Arrive
<1>2. CASE ~\E id \in cachedId(s) : Answer(l, s, id)
  <2> DEFINE a == [pc |-> "lookup", sub |-> s, email |-> toLowerCase(email),
                   rowEmail |-> toLowerCase(email)]
  <2>1. login' = [login EXCEPT ![l] = a] /\ UNCHANGED <<users, cache, invite>>
    BY <1>2 DEF Arrive
  <2>2. toLowerCase(email) \in Lower /\ toLowerCase(email) \in Emails
    BY LowerIsSpelling DEF Lower
  <2>3. a \in Login /\ a.email \in Lower /\ a.rowEmail \in Lower
    BY <2>2 DEF Login
  <2> QED
    BY <2>1, <2>3, Proceeded
<1> QED
  BY <1>1, <1>2

(* The rows of a subject and of an address.                                 *)
LEMMA RowOfSub ==
    ASSUME AccountsInv, NEW s \in Subs, NEW i \in bySub(s)
    PROVE  /\ i \in 1..Len(users) /\ i \in Nat \ {0} /\ users[i].sub = s
           /\ users[i] \in [email : Lower, sub : Subs \cup {NoSub}]
           /\ users[i].email \in Lower /\ LinkedTo(users, i, s)
BY RowsTyped DEF AccountsInv, bySub, Ids, LinkedTo

LEMMA LookupFoundStep ==
    ASSUME AccountsInv, NEW l \in Logins, NEW nameChanged \in BOOLEAN, LookupFound(l, nameChanged)
    PROVE  AccountsInv'
<1>1. ~Resting(l)
  BY DEF LookupFound, Resting
<1>2. /\ login[l] \in Login /\ login[l].sub \in Subs
      /\ login[l].email \in Lower /\ login[l].rowEmail \in Lower
  BY <1>1, ActiveLogin
<1>3. PICK i \in bySub(login[l].sub) :
          \/ users[i].email = login[l].email /\ ~nameChanged /\ Resolve(l, i)
          \/ users[i].email = login[l].email /\ nameChanged /\ Proceed(l, "sync") /\ UNCHANGED cache
          \/ /\ users[i].email # login[l].email
             /\ login' = [login EXCEPT ![l].pc = "clash", ![l].rowEmail = users[i].email]
             /\ UNCHANGED cache
  BY DEF LookupFound
<1>4. i \in Nat \ {0} /\ users[i].email \in Lower /\ LinkedTo(users, i, login[l].sub)
  BY <1>2, RowOfSub
<1>5. UNCHANGED <<users, invite>>
  BY DEF LookupFound
<1>6. CASE Resolve(l, i)
  BY <1>2, <1>4, <1>5, <1>6, Quiet, Resolved
<1>7. CASE Proceed(l, "sync") /\ UNCHANGED cache
  <2> DEFINE a == [login[l] EXCEPT !.pc = "sync"]
  <2>1. a \in Login /\ a.email \in Lower /\ a.rowEmail \in Lower
    BY <1>2 DEF Login
  <2>2. login' = [login EXCEPT ![l] = a]
    BY <1>7 DEF Proceed
  <2> QED
    BY <1>5, <1>7, <2>1, <2>2, Proceeded
<1>8. CASE login' = [login EXCEPT ![l].pc = "clash", ![l].rowEmail = users[i].email] /\ UNCHANGED cache
  <2> DEFINE a == [login[l] EXCEPT !.pc = "clash", !.rowEmail = users[i].email]
  <2>1. users[i].email \in Emails
    BY <1>4 DEF Lower
  <2>2. a \in Login /\ a.email \in Lower /\ a.rowEmail \in Lower
    BY <1>2, <1>4, <2>1 DEF Login
  <2>3. login' = [login EXCEPT ![l] = a]
    BY <1>8
  <2> QED
    BY <1>5, <1>8, <2>2, <2>3, Proceeded
<1> QED
  BY <1>3, <1>6, <1>7, <1>8

LEMMA LookupNotFoundStep ==
    ASSUME AccountsInv, NEW l \in Logins, LookupNotFound(l)
    PROVE  AccountsInv'
<1> DEFINE a == [login[l] EXCEPT !.pc = "claim"]
<1>1. /\ login[l] \in Login /\ login[l].email \in Lower /\ login[l].rowEmail \in Lower
  BY ActiveLogin DEF LookupNotFound, Resting
<1>2. a \in Login /\ a.email \in Lower /\ a.rowEmail \in Lower
  BY <1>1 DEF Login
<1>3. login' = [login EXCEPT ![l] = a]
  BY DEF LookupNotFound, Proceed
<1> QED
  BY <1>2, <1>3, Proceeded DEF LookupNotFound

LEMMA CheckClashStep ==
    ASSUME AccountsInv, NEW l \in Logins, CheckClash(l)
    PROVE  AccountsInv'
<1> DEFINE e == IF byEmail(login[l].email) = {} THEN login[l].email ELSE login[l].rowEmail
           a == [login[l] EXCEPT !.pc = "sync", !.email = e]
<1>1. /\ login[l] \in Login /\ login[l].email \in Lower /\ login[l].rowEmail \in Lower
  BY ActiveLogin DEF CheckClash, Resting
<1>2. e \in Lower /\ e \in Emails
  BY <1>1 DEF Lower
<1>3. login' = [login EXCEPT ![l] = a]
  BY DEF CheckClash
<1> HIDE DEF e
<1>4. a \in Login /\ a.email \in Lower /\ a.rowEmail \in Lower
  BY <1>1, <1>2 DEF Login
<1> QED
  BY <1>3, <1>4, Proceeded DEF CheckClash

(* The address is written only if no other row has it.                      *)
LEMMA SyncEmailStep ==
    ASSUME AccountsInv, NEW l \in Logins, SyncEmail(l)
    PROVE  AccountsInv'
<1>1. /\ login[l] \in Login /\ login[l].sub \in Subs /\ login[l].email \in Lower
  BY ActiveLogin DEF SyncEmail, Resting
<1>2. PICK i \in bySub(login[l].sub) :
          IF byEmail(login[l].email) \subseteq {i}
          THEN users' = [users EXCEPT ![i].email = login[l].email] /\ Resolve(l, i)
          ELSE Refuse(l, "syncError") /\ UNCHANGED <<users, cache>>
  BY DEF SyncEmail
<1>3. /\ i \in 1..Len(users) /\ i \in Nat \ {0} /\ users[i].sub = login[l].sub
      /\ users[i] \in [email : Lower, sub : Subs \cup {NoSub}]
  BY <1>1, RowOfSub
<1>4. invite' = invite
  BY DEF SyncEmail
<1>5. CASE byEmail(login[l].email) \subseteq {i}
  <2> DEFINE u == [users[i] EXCEPT !.email = login[l].email]
  <2>1. users' = [users EXCEPT ![i] = u]
    BY <1>2, <1>5
  <2>2. u \in [email : Lower, sub : Subs \cup {NoSub}] /\ u.email = login[l].email
        /\ u.sub = login[l].sub
    BY <1>1, <1>3
  <2>3. \A j \in 1..Len(users) \ {i} : users[j].email # u.email
    BY <1>5, <2>2 DEF byEmail, Ids
  <2>4. \A j \in 1..Len(users) \ {i} : users[j].sub # u.sub
    BY <1>1, <1>3, <2>2, NoSubAssumption DEF AccountsInv, RowsOK
  <2> HIDE DEF u
  <2>5. Grown(users, users') /\ LinkedTo(users', i, login[l].sub)
    BY <1>3, <2>1, <2>2, <2>3, <2>4, RowReplaced DEF AccountsInv
  <2> QED
    BY <1>1, <1>2, <1>3, <1>4, <1>5, <2>5, Resolved
<1>6. CASE ~(byEmail(login[l].email) \subseteq {i})
  BY <1>1, <1>2, <1>4, <1>6, LoginRefused
<1> QED
  BY <1>5, <1>6

(* The update of a claim: an unlinked row gets a subject that no row has.   *)
LEMMA ClaimedRow ==
    ASSUME AccountsInv, NEW s \in Subs, NEW i \in bySub(NoSub), bySub(s) \subseteq {i}
    PROVE  /\ i \in Nat \ {0}
           /\ Grown(users, [users EXCEPT ![i].sub = s])
           /\ LinkedTo([users EXCEPT ![i].sub = s], i, s)
<1> DEFINE u == [users[i] EXCEPT !.sub = s]
<1>1. /\ i \in 1..Len(users) /\ i \in Nat \ {0} /\ users[i].sub = NoSub
      /\ users[i] \in [email : Lower, sub : Subs \cup {NoSub}]
  BY RowsTyped DEF bySub, Ids, AccountsInv
<1>2. /\ u \in [email : Lower, sub : Subs \cup {NoSub}] /\ u.email = users[i].email /\ u.sub = s
  BY <1>1
<1>3. \A j \in 1..Len(users) \ {i} : users[j].email # u.email
  BY <1>1, <1>2 DEF AccountsInv, RowsOK
<1>4. \A j \in 1..Len(users) \ {i} : users[j].sub # u.sub
  BY <1>2 DEF bySub, Ids
<1>5. [users EXCEPT ![i].sub = s] = [users EXCEPT ![i] = u]
  OBVIOUS
<1> HIDE DEF u
<1> QED
  BY <1>1, <1>2, <1>3, <1>4, <1>5, RowReplaced DEF AccountsInv

LEMMA ClaimStep ==
    ASSUME AccountsInv, NEW l \in Logins, Claim(l)
    PROVE  AccountsInv'
<1>1. /\ login[l] \in Login /\ login[l].sub \in Subs
      /\ login[l].email \in Lower /\ login[l].rowEmail \in Lower
  BY ActiveLogin DEF Claim, Resting
<1>2. CASE Proceed(l, "insert") /\ UNCHANGED <<users, cache>>
  <2> DEFINE a == [login[l] EXCEPT !.pc = "insert"]
  <2>1. a \in Login /\ a.email \in Lower /\ a.rowEmail \in Lower
    BY <1>1 DEF Login
  <2>2. login' = [login EXCEPT ![l] = a]
    BY <1>2 DEF Proceed
  <2> QED
    BY <1>2, <2>1, <2>2, Proceeded DEF Claim
<1>3. ASSUME NEW i \in claimable(login[l].email),
             IF bySub(login[l].sub) \subseteq {i}
             THEN users' = [users EXCEPT ![i].sub = login[l].sub] /\ Resolve(l, i)
             ELSE Refuse(l, "constraintError") /\ UNCHANGED <<users, cache>>
      PROVE  AccountsInv'
  <2>1. i \in bySub(NoSub) /\ invite' = invite
    BY DEF claimable, Claim
  <2>2. CASE bySub(login[l].sub) \subseteq {i}
    BY <1>1, <1>3, <2>1, <2>2, ClaimedRow, Resolved
  <2>3. CASE ~(bySub(login[l].sub) \subseteq {i})
    BY <1>1, <1>3, <2>1, <2>3, LoginRefused
  <2> QED
    BY <2>2, <2>3
<1> QED
  BY <1>2, <1>3 DEF Claim

LEMMA InsertStep ==
    ASSUME AccountsInv, NEW l \in Logins, Insert(l)
    PROVE  AccountsInv'
<1>1. login[l].sub \in Subs /\ login[l].email \in Lower
  BY ActiveLogin DEF Insert, Resting
<1>2. invite' = invite
  BY DEF Insert
<1>3. CASE Refuse(l, "conflict") /\ UNCHANGED <<users, cache>>
  BY <1>1, <1>2, <1>3, LoginRefused
<1>4. CASE Refuse(l, "constraintError") /\ UNCHANGED <<users, cache>>
  BY <1>1, <1>2, <1>4, LoginRefused
<1>5. CASE /\ byEmail(login[l].email) = {} /\ bySub(login[l].sub) = {}
           /\ users' = Append(users, [email |-> login[l].email, sub |-> login[l].sub])
           /\ Resolve(l, Len(users) + 1)
  <2>1. /\ \A i \in 1..Len(users) : users[i].email # login[l].email
        /\ \A i \in 1..Len(users) : users[i].sub # login[l].sub
    BY <1>5 DEF byEmail, bySub, Ids
  <2>2. Grown(users, users') /\ LinkedTo(users', Len(users) + 1, login[l].sub)
    BY <1>1, <1>5, <2>1, RowAppended DEF AccountsInv
  <2>3. Len(users) + 1 \in Nat \ {0}
    BY RowsTyped DEF AccountsInv
  <2> QED
    BY <1>1, <1>2, <1>5, <2>2, <2>3, Resolved
<1> QED
  BY <1>3, <1>4, <1>5 DEF Insert

LEMMA LoginFailsStep ==
    ASSUME AccountsInv, NEW l \in Logins, LoginFails(l)
    PROVE  AccountsInv'
<1>1. ActivationOK(Idle, users')
  BY DEF ActivationOK
<1> QED
  BY <1>1, Quiet, LoginStep DEF LoginFails

LEMMA InvitationStep ==
    ASSUME AccountsInv, NEW v \in Invites,
           \/ \E email \in Emails : StartInvite(v, email)
           \/ FindUser(v) \/ InsertPlaceholder(v) \/ InviteFails(v)
    PROVE  AccountsInv'
<1>1. InvitationOK(invite[v]) /\ InvitationOK(Idle)
  BY DEF AccountsInv, InvitationOK
<1>2. ASSUME NEW email \in Emails, StartInvite(v, email) PROVE AccountsInv'
  <2> DEFINE a == [pc |-> "findUser", email |-> toLowerCase(email)]
  <2>1. toLowerCase(email) \in Lower /\ toLowerCase(email) \in Emails
    BY LowerIsSpelling DEF Lower
  <2>2. InvitationOK(a)
    BY <2>1 DEF InvitationOK, Invite
  <2> QED
    BY <1>2, <2>2, Quiet, InviteStep DEF StartInvite
<1>3. CASE FindUser(v)
  <2> DEFINE a == IF byEmail(invite[v].email) # {} THEN Idle
                  ELSE [invite[v] EXCEPT !.pc = "insertUser"]
  <2>1. invite[v] \in Invite /\ invite[v].email \in Lower
    BY <1>1, <1>3 DEF InvitationOK, FindUser, Idle
  <2>2. InvitationOK(a)
    BY <1>1, <2>1 DEF InvitationOK, Invite
  <2>3. invite' = [invite EXCEPT ![v] = a]
    BY <1>3 DEF FindUser
  <2> QED
    BY <1>3, <2>2, <2>3, Quiet, InviteStep DEF FindUser
<1>4. CASE InsertPlaceholder(v)
  <2>1. invite[v] \in Invite /\ invite[v].email \in Lower
    BY <1>1, <1>4 DEF InvitationOK, InsertPlaceholder, Idle
  <2>2. CASE byEmail(invite[v].email) # {}
    BY <1>1, <1>4, <2>2, Quiet, InviteStep DEF InsertPlaceholder
  <2>3. CASE byEmail(invite[v].email) = {}
    <3>1. \A i \in 1..Len(users) : users[i].email # invite[v].email
      BY <2>3 DEF byEmail, Ids
    <3>2. users' = Append(users, [email |-> invite[v].email, sub |-> NoSub])
      BY <1>4, <2>3 DEF InsertPlaceholder
    <3>3. Grown(users, users')
      BY <2>1, <3>1, <3>2, RowAppended DEF AccountsInv
    <3> QED
      BY <1>1, <1>4, <3>3, InviteStep DEF InsertPlaceholder
  <2> QED
    BY <2>2, <2>3
<1>5. CASE InviteFails(v)
  BY <1>1, <1>5, Quiet, InviteStep DEF InviteFails
<1> QED
  BY <1>2, <1>3, <1>4, <1>5

LEMMA CacheSteps ==
    ASSUME AccountsInv, Restart \/ \E s \in Subs : Expire(s)
    PROVE  AccountsInv'
<1>1. CASE Restart
  <2>1. EntriesOK(cache', users')
    BY <1>1, EntriesEmpty DEF Restart
  <2>2. /\ \A l \in Logins : login'[l] = Idle
        /\ \A v \in Invites : invite'[v] = Idle
    BY <1>1 DEF Restart
  <2>3. /\ login' \in [Logins -> Login \cup Answered \cup Refused \cup {Idle}]
        /\ invite' \in [Invites -> Invite \cup {Idle}]
    BY <1>1 DEF Restart
  <2> QED
    BY <1>1, <2>1, <2>2, <2>3 DEF Restart, AccountsInv, ActivationOK, InvitationOK
<1>2. ASSUME NEW s \in Subs, Expire(s) PROVE AccountsInv'
  <2>1. PICK k \in DOMAIN cache : cache' = RemoveAt(cache, k)
    BY <1>2 DEF Expire
  <2>2. EntriesOK(cache', users')
    BY <1>2, <2>1, EntriesWithout, EntriesTyped DEF AccountsInv, Expire
  <2> QED
    BY <1>2, <2>2 DEF Expire, AccountsInv
<1> QED
  BY <1>1, <1>2

LEMMA InitAccountsInv == Init => AccountsInv
<1> SUFFICES ASSUME Init PROVE AccountsInv
  OBVIOUS
<1>1. RowsOK(users) /\ EntriesOK(cache, users)
  BY EmptySeq, EntriesEmpty DEF Init, RowsOK
<1> QED
  BY <1>1 DEF Init, AccountsInv, ActivationOK, InvitationOK

LEMMA NextAccountsInv == AccountsInv /\ [Next]_vars => AccountsInv'
<1> SUFFICES ASSUME AccountsInv, [Next]_vars PROVE AccountsInv'
  OBVIOUS
<1>1. ASSUME NEW l \in Logins,
             \/ \E s \in Subs, email \in Emails : Arrive(l, s, email)
             \/ \E nameChanged \in BOOLEAN : LookupFound(l, nameChanged)
             \/ LookupNotFound(l) \/ CheckClash(l) \/ SyncEmail(l)
             \/ Claim(l) \/ Insert(l) \/ LoginFails(l)
      PROVE  AccountsInv'
  BY <1>1, ArriveStep, LookupFoundStep, LookupNotFoundStep, CheckClashStep, SyncEmailStep,
     ClaimStep, InsertStep, LoginFailsStep
<1>2. CASE UNCHANGED vars
  BY <1>2 DEF vars, AccountsInv
<1> QED
  BY <1>1, <1>2, InvitationStep, CacheSteps DEF Next

(***************************************************************************)
(* The properties of the runs.                                             *)
(***************************************************************************)
LEMMA AccountsInvTypes == AccountsInv => TypeOK
<1> SUFFICES ASSUME AccountsInv PROVE TypeOK
  OBVIOUS
<1>1. users \in Seq(User) /\ \A i \in Ids : users[i].email[2] = "lower"
  <2>1. [email : Lower, sub : Subs \cup {NoSub}] \subseteq User
    BY DEF Lower, User
  <2>2. users \in Seq(User)
    <3> DEFINE R == [email : Lower, sub : Subs \cup {NoSub}]
    <3>1. R \subseteq User /\ users \in Seq(R)
      BY <2>1 DEF AccountsInv, RowsOK
    <3> HIDE DEF R
    <3> QED
      BY <3>1, SeqMonotonic
  <2> QED
    BY <2>2, RowsTyped DEF AccountsInv, Ids, Lower
<1>2. \A l \in Logins : login[l].pc = "answered" => login[l].id \in Ids
  BY DEF AccountsInv, ActivationOK, Idle, Login, Refused, LinkedTo, Ids
<1>3. EntriesOK(cache, users) /\ DOMAIN cache = 1..Len(cache)
  BY EntriesTyped DEF AccountsInv
<1>4. CacheIsBounded
  BY <1>3 DEF EntriesOK, CacheIsBounded
<1>5. cache \in Seq([sub : Subs, id : Ids])
  <2>1. \A i \in 1..Len(cache) : cache[i] \in [sub : Subs, id : Ids]
    BY <1>3, EntriesTyped DEF EntriesOK, LinkedTo, Ids
  <2>2. cache \in [1..Len(cache) -> [sub : Subs, id : Ids]] /\ Len(cache) \in Nat
    BY <1>3, <2>1, LenProperties DEF EntriesOK
  <2> QED
    BY <2>2, SeqDef
<1> QED
  BY <1>1, <1>2, <1>4, <1>5 DEF AccountsInv, TypeOK

(* auth.ts: every variable has its type, the cache keeps its bound and has  *)
(* one entry per subject, and addresses are stored in lower case.           *)
THEOREM AccountsTyped == Spec => []TypeOK
<1>1. Spec => []AccountsInv
  BY InitAccountsInv, NextAccountsInv, PTL DEF Spec
<1> QED
  BY <1>1, AccountsInvTypes, PTL

(* auth.ts:99-103: no two accounts have the address or the subject of one   *)
(* person, whichever of the invitations and the logins come first.          *)
THEOREM OneAccountEachHolds == Spec => []OneAccountEach
<1>1. AccountsInv => OneAccountEach
  <2> SUFFICES ASSUME AccountsInv, NEW i \in Ids, NEW j \in Ids,
                      \/ users[i].email[1] = users[j].email[1]
                      \/ users[i].sub = users[j].sub /\ users[i].sub # NoSub
               PROVE  i = j
    BY DEF OneAccountEach
  <2>1. i \in 1..Len(users) /\ j \in 1..Len(users) /\ RowsOK(users)
    BY DEF Ids, AccountsInv
  <2>2. users[i].email[1] = users[j].email[1] => users[i].email = users[j].email
    BY <2>1, RowsTyped, LowerByAddress
  <2> QED
    BY <2>1, <2>2 DEF RowsOK
<1>2. Spec => []AccountsInv
  BY InitAccountsInv, NextAccountsInv, PTL DEF Spec
<1> QED
  BY <1>1, <1>2, PTL

(* userIdCache.ts: whoever is answered acts as the account that is linked   *)
(* to the subject of the token, from the cache or not.                      *)
THEOREM AnsweredAsLinkedHolds == Spec => []AnsweredAsLinked
<1>1. AccountsInv => AnsweredAsLinked
  <2> SUFFICES ASSUME AccountsInv PROVE AnsweredAsLinked
    OBVIOUS
  <2>1. \A l \in Logins : login[l].pc = "answered" => LinkedTo(users, login[l].id, login[l].sub)
    BY DEF AccountsInv, ActivationOK, Idle, Login, Refused
  <2>2. \A k \in DOMAIN cache : LinkedTo(users, cache[k].id, cache[k].sub)
    BY EntriesTyped DEF AccountsInv, EntriesOK
  <2> QED
    BY <2>1, <2>2 DEF AnsweredAsLinked, LinkedTo
<1>2. Spec => []AccountsInv
  BY InitAccountsInv, NextAccountsInv, PTL DEF Spec
<1> QED
  BY <1>1, <1>2, PTL

(***************************************************************************)
(* A link is never taken away, and a claim needs the address.              *)
(***************************************************************************)
Relinks(i) ==
    /\ users[i].sub # NoSub => users'[i].sub = users[i].sub
    /\ users[i].sub = NoSub /\ users'[i].sub # NoSub =>
          \E l \in Logins : /\ login[l].pc = "claim"
                            /\ login[l].sub = users'[i].sub
                            /\ login[l].email = users[i].email

LEMMA AppendedKeepsLinks ==
    ASSUME AccountsInv, NEW u, users' = Append(users, u), NEW i \in Ids
    PROVE  Relinks(i)
<1>1. Len(users) \in Nat
  BY RowsTyped DEF AccountsInv
<1>2. users'[i] = users[i]
  BY <1>1 DEF Ids, AccountsInv, RowsOK
<1> QED
  BY <1>2 DEF Relinks

LEMMA StepKeepsLinks ==
    ASSUME AccountsInv, Next, NEW i \in Ids
    PROVE  Relinks(i)
<1>0. i \in DOMAIN users /\ DOMAIN users = Ids
  BY RowsTyped DEF AccountsInv, Ids
<1>1. CASE users' = users
  BY <1>1 DEF Relinks
<1>2. ASSUME NEW l \in Logins, SyncEmail(l) PROVE Relinks(i)
  <2>1. CASE users' = users
    BY <2>1 DEF Relinks
  <2>2. CASE users' # users
    <3>1. PICK k \in bySub(login[l].sub) : users' = [users EXCEPT ![k].email = login[l].email]
      BY <1>2, <2>2 DEF SyncEmail
    <3>2. users[i] \in [email : Lower, sub : Subs \cup {NoSub}]
      BY RowsTyped DEF AccountsInv, Ids
    <3>3. users'[i].sub = users[i].sub
      BY <1>0, <3>1, <3>2
    <3> QED
      BY <3>3 DEF Relinks
  <2> QED
    BY <2>1, <2>2
<1>3. ASSUME NEW l \in Logins, Claim(l) PROVE Relinks(i)
  <2>1. CASE users' = users
    BY <2>1 DEF Relinks
  <2>2. CASE users' # users
    <3>1. PICK k \in claimable(login[l].email) : users' = [users EXCEPT ![k].sub = login[l].sub]
      BY <1>3, <2>2 DEF Claim
    <3>2. users[k].sub = NoSub /\ users[k].email = login[l].email /\ login[l].pc = "claim"
      BY <1>3, <3>1 DEF claimable, byEmail, bySub, Claim
    <3>3. users[i] \in [email : Lower, sub : Subs \cup {NoSub}]
      BY RowsTyped DEF AccountsInv, Ids
    <3>4. CASE i = k
      BY <1>0, <3>1, <3>2, <3>3, <3>4 DEF Relinks
    <3>5. CASE i # k
      BY <1>0, <3>1, <3>5 DEF Relinks
    <3> QED
      BY <3>4, <3>5
  <2> QED
    BY <2>1, <2>2
<1>4. ASSUME NEW l \in Logins, Insert(l) PROVE Relinks(i)
  BY <1>1, <1>4, AppendedKeepsLinks DEF Insert
<1>5. ASSUME NEW v \in Invites, InsertPlaceholder(v) PROVE Relinks(i)
  BY <1>1, <1>5, AppendedKeepsLinks DEF InsertPlaceholder
<1> QED
  BY <1>1, <1>2, <1>3, <1>4, <1>5 DEF Next, Arrive, LookupFound, LookupNotFound, CheckClash,
     LoginFails, StartInvite, FindUser, InviteFails, Expire, Restart

(* auth.ts:152-155: a linked account stays with its subject, and one that   *)
(* is not linked is claimed only by a login with its address.               *)
THEOREM NeverRelinkedHolds == Spec => NeverRelinked
<1>1. AccountsInv /\ [Next]_vars =>
        [\A i \in Ids :
            /\ users[i].sub # NoSub => users'[i].sub = users[i].sub
            /\ users[i].sub = NoSub /\ users'[i].sub # NoSub =>
                  \E l \in Logins : /\ login[l].pc = "claim"
                                    /\ login[l].sub = users'[i].sub
                                    /\ login[l].email = users[i].email]_vars
  BY StepKeepsLinks DEF Relinks
<1>2. Spec => []AccountsInv
  BY InitAccountsInv, NextAccountsInv, PTL DEF Spec
<1> QED
  BY <1>1, <1>2, PTL DEF Spec, NeverRelinked

===============================================================================
