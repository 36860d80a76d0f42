------------------------------- MODULE Accounts -------------------------------
(***************************************************************************)
(* The users table as the logins and the invitations write it:             *)
(* middleware/auth.ts (requireAuth, on every request), the invitation of   *)
(* an e-mail address in routes/members.ts, and the in-memory cache of      *)
(* utils/userIdCache.ts.  A handler is a few queries without a             *)
(* transaction; the unique constraints on email and oidc_sub refuse a      *)
(* write of any of them.  Keycloak decides which address a subject's token *)
(* carries; it may change between tokens, and old tokens stay in use.      *)
(*                                                                         *)
(* Display names are left out, but for the update they may cause.          *)
(***************************************************************************)
EXTENDS Integers, Sequences, SequencesExt

CONSTANTS
    Addresses,     \* e-mail addresses, up to the case of their letters
    Subs,          \* Keycloak subjects
    Logins,        \* identifiers of the requests under way in requireAuth
    Invites,       \* identifiers of the invitations under way
    MaxEntries     \* maxEntries of the identity cache

NoSub == "no oidc_sub"
Spellings == {"lower", "mixed"}
Emails == Addresses \X Spellings

ASSUME NoSubAssumption == NoSub \notin Subs
ASSUME MaxEntriesAssumption == MaxEntries \in Nat \ {0}

VARIABLES
    users,         \* the rows, in order of insertion; the id of a row is its place
    login,         \* the handler activation of each login
    invite,        \* the handler activation of each invitation
    cache          \* userIdCache: its entries, oldest first

vars == <<users, login, invite, cache>>

Ids == 1..Len(users)
User == [email : Emails, sub : Subs \cup {NoSub}]

\* Mutant of toLowerCase: the address is taken as it is spelled.
toLowerCaseNot(email) == email

toLowerCase(email) == <<email[1], "lower">>

Idle == [pc |-> "idle"]
\* email: the address of the token, in the end the one to write; rowEmail: the
\* address that the lookup has read from the row of the subject.
Login == [pc : {"lookup", "clash", "sync", "claim", "insert"}, sub : Subs,
          email : Emails, rowEmail : Emails]
Answered == [pc : {"answered"}, sub : Subs, id : Nat \ {0}]
\* conflict: the 409; constraintError, syncError: a unique constraint refuses (500).
Refused == [pc : {"conflict", "constraintError", "syncError"}, sub : Subs]
Invite == [pc : {"findUser", "insertUser"}, email : Emails]

bySub(s) == {i \in Ids : users[i].sub = s}
byEmail(e) == {i \in Ids : users[i].email = e}

Init ==
    /\ users = <<>>
    /\ login = [l \in Logins |-> Idle]
    /\ invite = [v \in Invites |-> Idle]
    /\ cache = <<>>

-----------------------------------------------------------------------------
(* The identity cache.                                                     *)

cachedId(s) == {e.id : e \in {x \in ToSet(cache) : x.sub = s}}

\* Mutant of cacheSet: the size is checked after the entry is in.
cacheSetOverfull(s, id) ==
    cache' = IF cachedId(s) # {} THEN [i \in DOMAIN cache |->
                  IF cache[i].sub = s THEN [cache[i] EXCEPT !.id = id] ELSE cache[i]]
             ELSE Append(IF Len(cache) > MaxEntries THEN Tail(cache) ELSE cache,
                         [sub |-> s, id |-> id])

\* userIdCache.set: an entry of the subject is replaced in its place, a new one may
\* push out the oldest.
cacheSet(s, id) ==
    cache' = IF cachedId(s) # {} THEN [i \in DOMAIN cache |->
                  IF cache[i].sub = s THEN [cache[i] EXCEPT !.id = id] ELSE cache[i]]
             ELSE Append(IF Len(cache) >= MaxEntries THEN Tail(cache) ELSE cache,
                         [sub |-> s, id |-> id])

\* An entry that has outlived its time to live is dropped when it is read.  (When
\* it expires is left open: the clock is not tracked.)
Expire(s) ==
    /\ \E k \in DOMAIN cache : cache[k].sub = s /\ cache' = RemoveAt(cache, k)
    /\ UNCHANGED <<users, login, invite>>

Restart ==
    /\ cache' = <<>>
    /\ login' = [l \in Logins |-> Idle]
    /\ invite' = [v \in Invites |-> Idle]
    /\ UNCHANGED users

-----------------------------------------------------------------------------
(* requireAuth.  An activation that has ended may make way for another.    *)

Resting(l) == login[l].pc \in {"idle", "answered", "conflict", "constraintError", "syncError"}
Proceed(l, pc) == login' = [login EXCEPT ![l].pc = pc]
Refuse(l, how) == login' = [login EXCEPT ![l] = [pc |-> how, sub |-> login[l].sub]]
Answer(l, s, id) == login' = [login EXCEPT ![l] = [pc |-> "answered", sub |-> s, id |-> id]]
Resolve(l, id) == Answer(l, login[l].sub, id) /\ cacheSet(login[l].sub, id)

\* A verified token: answered from the cache, or on to the database.
Arrive(l, s, email) ==
    /\ Resting(l)
    /\ \/ \E id \in cachedId(s) : Answer(l, s, id)
       \/ /\ cachedId(s) = {}
          /\ login' = [login EXCEPT ![l] =
               [pc |-> "lookup", sub |-> s, email |-> toLowerCase(email),
                rowEmail |-> toLowerCase(email)]]
    /\ UNCHANGED <<users, invite, cache>>

\* SELECT by oidc_sub.  nameChanged: the token carries another display name.
LookupFound(l, nameChanged) ==
    /\ login[l].pc = "lookup"
    /\ \E i \in bySub(login[l].sub) :
          \/ /\ users[i].email = login[l].email /\ ~nameChanged
             /\ Resolve(l, i)
          \/ /\ users[i].email = login[l].email /\ nameChanged
             /\ Proceed(l, "sync") /\ UNCHANGED cache
          \/ /\ users[i].email # login[l].email
             /\ login' = [login EXCEPT ![l].pc = "clash", ![l].rowEmail = users[i].email]
             /\ UNCHANGED cache
    /\ UNCHANGED <<users, invite>>

LookupNotFound(l) ==
    /\ login[l].pc = "lookup"
    /\ bySub(login[l].sub) = {}
    /\ Proceed(l, "claim")
    /\ UNCHANGED <<users, invite, cache>>

\* An address that another row has is not synced: the one read earlier is kept.
CheckClash(l) ==
    /\ login[l].pc = "clash"
    /\ login' = [login EXCEPT
          ![l].pc = "sync",
          ![l].email = IF byEmail(login[l].email) = {} THEN @ ELSE login[l].rowEmail]
    /\ UNCHANGED <<users, invite, cache>>

\* UPDATE ... SET email WHERE oidc_sub.
SyncEmail(l) ==
    /\ login[l].pc = "sync"
    /\ \E i \in bySub(login[l].sub) :
          IF byEmail(login[l].email) \subseteq {i}
          THEN users' = [users EXCEPT ![i].email = login[l].email] /\ Resolve(l, i)
          ELSE Refuse(l, "syncError") /\ UNCHANGED <<users, cache>>
    /\ UNCHANGED invite

\* Mutant of claimable: the condition on oidc_sub is missing.
claimableLinked(email) == byEmail(email)

claimable(email) == byEmail(email) \cap bySub(NoSub)

\* UPDATE ... SET oidc_sub WHERE email AND oidc_sub IS NULL.
Claim(l) ==
    /\ login[l].pc = "claim"
    /\ \/ /\ claimable(login[l].email) = {}
          /\ Proceed(l, "insert") /\ UNCHANGED <<users, cache>>
       \/ \E i \in claimable(login[l].email) :
             IF bySub(login[l].sub) \subseteq {i}
             THEN users' = [users EXCEPT ![i].sub = login[l].sub] /\ Resolve(l, i)
             ELSE Refuse(l, "constraintError") /\ UNCHANGED <<users, cache>>
    /\ UNCHANGED invite

\* INSERT ... ON CONFLICT (email) DO NOTHING.
Insert(l) ==
    /\ login[l].pc = "insert"
    /\ \/ /\ byEmail(login[l].email) # {}
          /\ Refuse(l, "conflict") /\ UNCHANGED <<users, cache>>
       \/ /\ byEmail(login[l].email) = {} /\ bySub(login[l].sub) # {}
          /\ Refuse(l, "constraintError") /\ UNCHANGED <<users, cache>>
       \/ /\ byEmail(login[l].email) = {} /\ bySub(login[l].sub) = {}
          /\ users' = Append(users, [email |-> login[l].email, sub |-> login[l].sub])
          /\ Resolve(l, Len(users) + 1)
    /\ UNCHANGED invite

\* A database error or a dropped connection.
LoginFails(l) ==
    /\ ~Resting(l)
    /\ login' = [login EXCEPT ![l] = Idle]
    /\ UNCHANGED <<users, invite, cache>>

-----------------------------------------------------------------------------
(* The invitation: find the user, or insert a placeholder for the address. *)

StartInvite(v, email) ==
    /\ invite[v] = Idle
    /\ invite' = [invite EXCEPT ![v] = [pc |-> "findUser", email |-> toLowerCase(email)]]
    /\ UNCHANGED <<users, login, cache>>

FindUser(v) ==
    /\ invite[v].pc = "findUser"
    /\ invite' = [invite EXCEPT ![v] =
          IF byEmail(invite[v].email) # {} THEN Idle ELSE [@ EXCEPT !.pc = "insertUser"]]
    /\ UNCHANGED <<users, login, cache>>

\* A plain INSERT: the unique constraint may refuse it.
InsertPlaceholder(v) ==
    /\ invite[v].pc = "insertUser"
    /\ users' = IF byEmail(invite[v].email) # {} THEN users
                ELSE Append(users, [email |-> invite[v].email, sub |-> NoSub])
    /\ invite' = [invite EXCEPT ![v] = Idle]
    /\ UNCHANGED <<login, cache>>

InviteFails(v) ==
    /\ invite[v] # Idle
    /\ invite' = [invite EXCEPT ![v] = Idle]
    /\ UNCHANGED <<users, login, cache>>

Next ==
    \/ \E l \in Logins :
          \/ \E s \in Subs, email \in Emails : Arrive(l, s, email)
          \/ \E nameChanged \in BOOLEAN : LookupFound(l, nameChanged)
          \/ LookupNotFound(l) \/ CheckClash(l) \/ SyncEmail(l)
          \/ Claim(l) \/ Insert(l) \/ LoginFails(l)
    \/ \E v \in Invites :
          \/ \E email \in Emails : StartInvite(v, email)
          \/ FindUser(v) \/ InsertPlaceholder(v) \/ InviteFails(v)
    \/ \E s \in Subs : Expire(s)
    \/ Restart

Spec == Init /\ [][Next]_vars

-----------------------------------------------------------------------------
(* Properties.                                                             *)

\* The identity cache stays within its bound and has one entry per subject, although
\* concurrent logins of one subject each set theirs.
CacheIsBounded ==
    /\ Len(cache) <= MaxEntries
    /\ \A i, j \in DOMAIN cache : cache[i].sub = cache[j].sub => i = j

\* Every variable has its type and the cache its bound; an answer names a row that
\* exists, and addresses are stored in lower case.
TypeOK ==
    /\ users \in Seq(User)
    /\ \A i \in Ids : users[i].email[2] = "lower"
    /\ login \in [Logins -> Login \cup Answered \cup Refused \cup {Idle}]
    /\ \A l \in Logins : login[l].pc = "answered" => login[l].id \in Ids
    /\ invite \in [Invites -> Invite \cup {Idle}]
    /\ cache \in Seq([sub : Subs, id : Ids])
    /\ CacheIsBounded

\* auth.ts:99-103: an invitation and a login that spell an address differently never
\* end in two accounts, whichever comes first, and no subject has two accounts.
OneAccountEach ==
    \A i, j \in Ids :
        \/ users[i].email[1] = users[j].email[1]
        \/ users[i].sub = users[j].sub /\ users[i].sub # NoSub
        => i = j

\* auth.ts:152-155: an account that is linked to a subject stays with that subject,
\* and one that is not is claimed only by a login with its address, however the
\* logins of several subjects and the invitations interleave.
NeverRelinked ==
    [][\A i \in Ids :
          /\ users[i].sub # NoSub => users'[i].sub = users[i].sub
          /\ users[i].sub = NoSub /\ users'[i].sub # NoSub =>
                \E l \in Logins : /\ login[l].pc = "claim"
                                  /\ login[l].sub = users'[i].sub
                                  /\ login[l].email = users[i].email]_vars

\* Whoever is answered acts as the account linked to the subject of the token, also
\* when the id comes from a cache entry that is older than every row around it.
AnsweredAsLinked ==
    /\ \A l \in Logins :
          login[l].pc = "answered" => users[login[l].id].sub = login[l].sub
    /\ \A k \in DOMAIN cache : users[cache[k].id].sub = cache[k].sub

=============================================================================
