------------------------- MODULE ProjectMembersProofs -------------------------
(***************************************************************************)
(* Proofs about ProjectMembers for any set of users, roles and requests.   *)
(***************************************************************************)
EXTENDS ProjectMembers, FiniteSetTheorems, TLAPS

(***************************************************************************)
(* The inductive invariant.  ChecksHold is the heart of it: what a request *)
(* found out before its write is still true unless it was overtaken.       *)
(***************************************************************************)
CheckHolds(q) ==
    IF q.counted THEN \E u \in owners : u # q.target
    ELSE q.target \in owners => ~takesOwnership(q)

ChecksHold ==
    \A q \in Requests :
        exists /\ request[q].pc = "write" /\ ~request[q].overtaken => CheckHolds(request[q])

\* Only additions insert, and nothing is asked of a project before it has an owner.
StepsMatchKinds ==
    /\ \A q \in Requests :
          /\ request[q].pc \in {"readExisting", "insert"} => request[q].kind = "add"
          /\ request[q].pc = "countOwners" => takesOwnership(request[q])
          /\ request[q].pc \in {"readMembership", "write"} =>
                request[q].kind \in {"put", "remove"}
    /\ founding.pc # "done" => exists /\ \A q \in Requests : request[q] = Idle

MembersInv ==
    /\ TypeOK
    /\ NoStrayMembers
    /\ OwnerUnlessRaced
    /\ StepsMatchKinds
    /\ ChecksHold

(* More than one owner means another one beside any given user.             *)
LEMMA AnotherOwner ==
    ASSUME NEW t, Cardinality(owners) > 1
    PROVE  \E u \in owners : u # t
<1> SUFFICES ASSUME \A u \in owners : u = t PROVE FALSE
  OBVIOUS
<1>1. IsFiniteSet({t}) /\ Cardinality({t}) = 1
  BY FS_Singleton
<1>2. owners \subseteq {t}
  OBVIOUS
<1>3. IsFiniteSet(owners) /\ Cardinality(owners) <= 1
  BY <1>1, <1>2, FS_Subset
<1>4. Cardinality(owners) \in Nat
  BY <1>3, FS_CardinalityType
<1> QED
  BY <1>3, <1>4

LEMMA IdleHasNoStep == Idle.pc = "idle"
BY DEF Idle

(* A request that is not idle is a request.                                 *)
LEMMA ActiveRequest ==
    ASSUME TypeOK, NEW q \in Requests, request[q] # Idle
    PROVE  request[q] \in Request
BY DEF TypeOK

LEMMA InitMembersInv == Init => MembersInv
<1> SUFFICES ASSUME Init PROVE MembersInv
  OBVIOUS
<1>1. \A q \in Requests : request[q] = Idle
  BY DEF Init
<1>2. TypeOK
  <2>1. founding \in Founding
    <3>1. PICK creator \in Users : founding = [pc |-> "insertOwner", creator |-> creator]
      BY DEF Init
    <3> QED
      BY <3>1 DEF Founding
  <2>2. role \in [Users -> Roles \cup {NoRole}]
    BY DEF Init
  <2>3. request \in [Requests -> Request \cup {Idle}]
    BY DEF Init
  <2> QED
    BY <1>1, <2>1, <2>2, <2>3 DEF Init, TypeOK
<1>3. NoStrayMembers /\ OwnerUnlessRaced
  BY DEF Init, NoStrayMembers, OwnerUnlessRaced
<1>4. StepsMatchKinds /\ ChecksHold
  BY <1>1, IdleHasNoStep DEF Init, StepsMatchKinds, ChecksHold
<1> QED
  BY <1>2, <1>3, <1>4 DEF MembersInv

(* The founding.                                                            *)
LEMMA FoundingMembersInv ==
    ASSUME MembersInv, InsertOwner \/ FoundingFails
    PROVE  MembersInv'
<1>1. /\ founding.pc = "insertOwner"
      /\ \A q \in Requests : request[q] = Idle
      /\ UNCHANGED <<exists, request, raced>>
  BY DEF MembersInv, StepsMatchKinds, InsertOwner, FoundingFails
<1>2. founding.creator \in Users
  BY DEF MembersInv, TypeOK, Founding
<1>3. \A q \in Requests : request'[q] = Idle
  BY <1>1
<1>4. StepsMatchKinds' /\ ChecksHold'
  BY <1>1, <1>3, IdleHasNoStep DEF MembersInv, StepsMatchKinds, ChecksHold
<1>5. founding' \in Founding
  BY DEF MembersInv, TypeOK, Founding, InsertOwner, FoundingFails
<1>6. CASE InsertOwner
  <2>1. role' = [role EXCEPT ![founding.creator] = "owner"] /\ founding'.pc = "done"
    BY <1>6 DEF InsertOwner, MembersInv, TypeOK, Founding
  <2>2. TypeOK'
    BY <1>1, <1>3, <1>5, <2>1, RolesAssumption DEF MembersInv, TypeOK
  <2>3. founding.creator \in owners'
    BY <1>2, <2>1 DEF owners, MembersInv, TypeOK
  <2>4. exists'
    BY <1>1 DEF MembersInv, StepsMatchKinds
  <2> QED
    BY <1>1, <1>4, <2>1, <2>2, <2>3, <2>4 DEF MembersInv, NoStrayMembers, OwnerUnlessRaced
<1>7. CASE FoundingFails
  <2>1. role' = role /\ founding'.pc = "interrupted"
    BY <1>7 DEF FoundingFails, MembersInv, TypeOK, Founding
  <2>2. TypeOK'
    BY <1>1, <1>5, <2>1 DEF MembersInv, TypeOK
  <2> QED
    BY <1>1, <1>4, <2>1, <2>2 DEF MembersInv, NoStrayMembers, OwnerUnlessRaced
<1> QED
  BY <1>6, <1>7

(* A step of one request that changes no role: what the request goes on     *)
(* with must fit the state.                                                 *)
Fits(n) ==
    /\ founding.pc = "done"
    /\ n.pc \in {"readExisting", "insert"} => n.kind = "add"
    /\ n.pc = "countOwners" => takesOwnership(n)
    /\ n.pc = "readMembership" => n.kind \in {"put", "remove"}
    /\ n.pc = "write" => n.kind \in {"put", "remove"}
    /\ exists /\ n.pc = "write" /\ ~n.overtaken => CheckHolds(n)
    /\ n.counted => n.pc = "write" /\ (n.kind = "remove" \/ n.role # "owner")

LEMMA QuietStep ==
    ASSUME MembersInv, NEW q \in Requests, NEW n \in Request \cup {Idle},
           request' = [request EXCEPT ![q] = n],
           UNCHANGED <<exists, founding, role, raced>>,
           n = Idle \/ (n # Idle /\ Fits(n))
    PROVE  MembersInv'
<1>1. request' \in [Requests -> Request \cup {Idle}] /\ request'[q] = n
      /\ \A p \in Requests \ {q} : request'[p] = request[p]
  BY DEF MembersInv, TypeOK
<1>2. TypeOK'
  BY <1>1 DEF MembersInv, TypeOK, Fits
<1>3. NoStrayMembers' /\ OwnerUnlessRaced'
  BY DEF MembersInv, NoStrayMembers, OwnerUnlessRaced, owners
<1>4. StepsMatchKinds'
  BY <1>1, IdleHasNoStep DEF MembersInv, StepsMatchKinds, Fits
<1>5. owners' = owners
  BY DEF owners
<1>6. ChecksHold'
  <2> SUFFICES ASSUME NEW p \in Requests, exists', (request[p].pc = "write")',
                      (~request[p].overtaken)'
               PROVE  CheckHolds(request'[p])
    BY <1>5 DEF ChecksHold, CheckHolds, takesOwnership
  <2>1. CASE p = q
    BY <1>1, <2>1, IdleHasNoStep DEF Fits
  <2>2. CASE p # q
    BY <1>1, <2>2 DEF MembersInv, ChecksHold
  <2> QED
    BY <2>1, <2>2
<1> QED
  BY <1>2, <1>3, <1>4, <1>6 DEF MembersInv

LEMMA EndMembersInv ==
    ASSUME MembersInv, NEW q \in Requests, End(q), UNCHANGED <<exists, founding, role, raced>>
    PROVE  MembersInv'
BY QuietStep DEF End

(* An active request belongs to a founded project.                          *)
LEMMA ActiveIsFounded ==
    ASSUME MembersInv, NEW q \in Requests, request[q] # Idle
    PROVE  founding.pc = "done"
BY DEF MembersInv, StepsMatchKinds

LEMMA AuthoriseMembersInv ==
    ASSUME MembersInv, NEW q \in Requests, NEW u \in Users, NEW target \in Users,
           NEW kind \in {"add", "put", "remove", "deleteProject"}, NEW r \in Roles,
           Authorise(q, u, kind, target, r)
    PROVE  MembersInv'
<1> DEFINE n == [pc |-> firstStep(kind), kind |-> kind, target |-> target, role |-> r,
                 counted |-> FALSE, overtaken |-> FALSE]
<1>1. firstStep(kind) \in {"readMembership", "readExisting", "deleteProject"}
      /\ (firstStep(kind) = "readExisting" => kind = "add")
      /\ (firstStep(kind) = "readMembership" => kind \in {"put", "remove"})
  BY DEF firstStep
<1>2. n \in Request /\ n # Idle
  BY <1>1 DEF Request, Idle
<1>3. founding.pc = "done"
  BY RolesAssumption DEF Authorise, MembersInv, NoStrayMembers
<1>4. Fits(n)
  BY <1>1, <1>3 DEF Fits
<1>5. request' = [request EXCEPT ![q] = n] /\ UNCHANGED <<exists, founding, role, raced>>
  BY DEF Authorise
<1> QED
  BY <1>2, <1>4, <1>5, QuietStep

LEMMA ReadMembershipMembersInv ==
    ASSUME MembersInv, NEW q \in Requests, ReadMembership(q)
    PROVE  MembersInv'
<1>1. request[q] \in Request /\ request[q] # Idle /\ ~request[q].counted
      /\ request[q].pc = "readMembership" /\ request[q].kind \in {"put", "remove"}
      /\ UNCHANGED <<exists, founding, role, raced>>
  BY IdleHasNoStep, ActiveRequest DEF MembersInv, TypeOK, StepsMatchKinds, ReadMembership
<1> DEFINE target == request[q].target
           check == role[target] = "owner" /\ takesOwnership(request[q])
           n == [request[q] EXCEPT !.pc = IF check THEN "countOwners" ELSE "write",
                                   !.overtaken = FALSE]
<1>2. CASE End(q)
  BY <1>1, <1>2, EndMembersInv
<1>3. CASE request' = [request EXCEPT ![q] = n]
  <2>1. n \in Request /\ n # Idle
    BY <1>1 DEF Request, Idle
  <2>2. n.pc = (IF check THEN "countOwners" ELSE "write") /\ ~n.counted
        /\ n.target = target /\ n.kind = request[q].kind /\ n.role = request[q].role
    BY <1>1 DEF Request
  <2>3. n.pc = "write" => CheckHolds(n)
    BY <2>2 DEF CheckHolds, owners, takesOwnership
  <2>4. founding.pc = "done"
    BY <1>1, ActiveIsFounded
  <2>5. n.pc = "countOwners" => takesOwnership(n)
    BY <2>2 DEF takesOwnership
  <2>6. Fits(n)
    <3> HIDE DEF n
    <3> QED
      BY <1>1, <2>2, <2>3, <2>4, <2>5 DEF Fits
  <2> HIDE DEF n
  <2> QED
    BY <1>1, <1>3, <2>1, <2>6, QuietStep
<1> QED
  BY <1>2, <1>3 DEF ReadMembership

LEMMA CountOwnersMembersInv ==
    ASSUME MembersInv, NEW q \in Requests, CountOwners(q)
    PROVE  MembersInv'
<1>1. request[q] \in Request /\ request[q] # Idle
      /\ request[q].pc = "countOwners"
      /\ UNCHANGED <<exists, founding, role, raced>>
  BY IdleHasNoStep, ActiveRequest DEF MembersInv, CountOwners
<1> DEFINE n == [request[q] EXCEPT !.pc = "write", !.counted = TRUE, !.overtaken = FALSE]
<1>2. CASE ~enoughOwners
  BY <1>1, <1>2, EndMembersInv DEF CountOwners
<1>3. CASE enoughOwners
  <2>1. request' = [request EXCEPT ![q] = n]
    BY <1>3 DEF CountOwners
  <2>2. n \in Request /\ n # Idle
    BY <1>1 DEF Request, Idle
  <2>3. n.pc = "write" /\ n.counted /\ n.target = request[q].target
        /\ n.kind = request[q].kind /\ n.role = request[q].role
    BY <1>1 DEF Request
  <2>4. CheckHolds(n)
    BY <1>3, <2>3, AnotherOwner DEF CheckHolds, enoughOwners
  <2>5. n.kind = "remove" \/ (n.kind = "put" /\ n.role # "owner")
    BY <1>1, <2>3 DEF MembersInv, StepsMatchKinds, takesOwnership
  <2>6. founding.pc = "done"
    BY <1>1, ActiveIsFounded
  <2> HIDE DEF n
  <2>7. Fits(n)
    BY <2>3, <2>4, <2>5, <2>6 DEF Fits
  <2> QED
    BY <1>1, <2>1, <2>2, <2>7, QuietStep
<1> QED
  BY <1>2, <1>3

LEMMA ReadExistingMembersInv ==
    ASSUME MembersInv, NEW q \in Requests, ReadExisting(q)
    PROVE  MembersInv'
<1>1. request[q] \in Request /\ request[q] # Idle /\ request[q].kind = "add"
      /\ request[q].pc = "readExisting" /\ ~request[q].counted
      /\ UNCHANGED <<exists, founding, role, raced>>
  BY IdleHasNoStep, ActiveRequest DEF MembersInv, TypeOK, StepsMatchKinds, ReadExisting
<1> DEFINE n == [request[q] EXCEPT !.pc = "insert"]
<1>2. CASE End(q)
  BY <1>1, <1>2, EndMembersInv
<1>3. CASE request' = [request EXCEPT ![q] = n]
  <2>1. n \in Request /\ n # Idle /\ n.pc = "insert" /\ n.kind = "add" /\ ~n.counted
    BY <1>1 DEF Request, Idle
  <2>2. founding.pc = "done"
    BY <1>1, ActiveIsFounded
  <2> HIDE DEF n
  <2>3. Fits(n)
    BY <2>1, <2>2 DEF Fits
  <2> QED
    BY <1>1, <1>3, <2>1, <2>3, QuietStep
<1> QED
  BY <1>2, <1>3 DEF ReadExisting

(* An update that loses owners only when it was not overtaken, or marks the *)
(* race, and that marks every request that it overtakes.                    *)
LEMMA LoudStep ==
    ASSUME MembersInv, NEW q \in Requests, request[q] # Idle, NEW u \in Users,
           NEW r \in Roles \cup {NoRole},
           role' = [role EXCEPT ![u] = r], Overtake(q),
           UNCHANGED <<exists, founding>>,
           exists \/ role' = role,
           u \in owners /\ r # "owner" /\ ~request[q].overtaken =>
              \E w \in owners : w # u
    PROVE  MembersInv'
<1> DEFINE lost == \E w \in owners : role'[w] # "owner"
           gained(t) == t \notin owners /\ role'[t] = "owner"
<1>1. founding.pc = "done"
  BY ActiveIsFounded
<1>2. /\ role' \in [Users -> Roles \cup {NoRole}]
      /\ \A w \in Users : role'[w] = IF w = u THEN r ELSE role[w]
  BY DEF MembersInv, TypeOK
<1>3. owners' = {w \in Users : role'[w] = "owner"}
  BY DEF owners
<1>4. raced' = (raced \/ (lost /\ request[q].overtaken))
  BY DEF Overtake
<1>5. \A p \in Requests :
         \/ request'[p] = Idle
         \/ /\ p # q /\ request[p] # Idle
            /\ request'[p] = [request[p] EXCEPT !.overtaken =
                  @ \/ IF request[p].counted THEN lost ELSE gained(request[p].target)]
  BY DEF Overtake
<1>6. request' \in [Requests -> Request \cup {Idle}]
  <2>1. \A p \in Requests : request'[p] \in Request \cup {Idle}
    <3> SUFFICES ASSUME NEW p \in Requests, request'[p] # Idle PROVE request'[p] \in Request
      OBVIOUS
    <3>1. request[p] \in Request
      BY <1>5, ActiveRequest DEF MembersInv
    <3>2. (IF request[p].counted THEN lost ELSE gained(request[p].target)) \in BOOLEAN
      OBVIOUS
    <3> HIDE DEF lost, gained
    <3> QED
      BY <1>5, <3>1, <3>2 DEF Request
  <2> QED
    BY <2>1 DEF Overtake
<1>7. \A p \in Requests : request'[p] # Idle =>
         /\ request[p] # Idle /\ request[p] \in Request
         /\ request'[p].pc = request[p].pc /\ request'[p].kind = request[p].kind
         /\ request'[p].target = request[p].target /\ request'[p].role = request[p].role
         /\ request'[p].counted = request[p].counted
         /\ request'[p].overtaken =
               (request[p].overtaken \/
                IF request[p].counted THEN lost ELSE gained(request[p].target))
  <2> SUFFICES ASSUME NEW p \in Requests, request'[p] # Idle
               PROVE  /\ request[p] # Idle /\ request[p] \in Request
                      /\ request'[p].pc = request[p].pc /\ request'[p].kind = request[p].kind
                      /\ request'[p].target = request[p].target
                      /\ request'[p].role = request[p].role
                      /\ request'[p].counted = request[p].counted
                      /\ request'[p].overtaken =
                            (request[p].overtaken \/
                             IF request[p].counted THEN lost ELSE gained(request[p].target))
    OBVIOUS
  <2>1. request[p] # Idle /\ request[p] \in Request
    BY <1>5, ActiveRequest DEF MembersInv
  <2> HIDE DEF lost, gained
  <2> QED
    BY <1>5, <2>1 DEF Request
<1> HIDE DEF lost, gained
<1>8. TypeOK'
  <2>1. \A p \in Requests : request'[p] # Idle /\ request'[p].counted =>
           /\ request'[p].pc = "write"
           /\ request'[p].kind = "remove" \/ request'[p].role # "owner"
    BY <1>7 DEF MembersInv, TypeOK
  <2>2. raced' \in BOOLEAN
    BY <1>4 DEF MembersInv, TypeOK
  <2> QED
    BY <1>2, <1>6, <2>1, <2>2 DEF MembersInv, TypeOK
<1>9. NoStrayMembers'
  BY <1>1, <1>2 DEF MembersInv, NoStrayMembers
<1>10. OwnerUnlessRaced'
  <2> SUFFICES ASSUME exists, ~raced' PROVE owners' # {}
    BY DEF OwnerUnlessRaced
  <2>1. ~raced /\ owners # {}
    BY <1>1, <1>4 DEF MembersInv, OwnerUnlessRaced
  <2>2. CASE u \in owners /\ r # "owner"
    <3>1. lost
      BY <1>2, <2>2 DEF lost, owners
    <3>2. PICK w \in owners : w # u
      BY <1>4, <2>2, <3>1 DEF MembersInv
    <3> QED
      BY <1>2, <1>3, <3>2 DEF owners
  <2>3. CASE ~(u \in owners /\ r # "owner")
    BY <1>2, <1>3, <2>1, <2>3 DEF owners
  <2> QED
    BY <2>2, <2>3
<1>11. StepsMatchKinds'
  <2> SUFFICES ASSUME NEW p \in Requests, request'[p] # Idle
               PROVE  /\ request'[p].pc \in {"readExisting", "insert"} =>
                            request'[p].kind = "add"
                      /\ request'[p].pc = "countOwners" => takesOwnership(request'[p])
                      /\ request'[p].pc \in {"readMembership", "write"} =>
                            request'[p].kind \in {"put", "remove"}
    BY <1>1, IdleHasNoStep DEF StepsMatchKinds
  <2> QED
    BY <1>7 DEF MembersInv, StepsMatchKinds, takesOwnership
<1>12. ChecksHold'
  <2> SUFFICES ASSUME NEW p \in Requests, exists, request'[p].pc = "write",
                      ~request'[p].overtaken
               PROVE  CheckHolds(request[p])'
    BY DEF ChecksHold
  <2>1. request'[p] # Idle
    BY IdleHasNoStep
  <2>2. /\ request[p].pc = "write" /\ ~request[p].overtaken
        /\ CheckHolds(request[p])
        /\ IF request[p].counted THEN ~lost ELSE ~gained(request[p].target)
    BY <1>7, <2>1 DEF MembersInv, ChecksHold
  <2>3. request[p].target \in Users
    BY <1>7, <2>1 DEF Request
  <2>4. CASE request[p].counted
    <3>1. PICK w \in owners : w # request[p].target
      BY <2>2, <2>4 DEF CheckHolds
    <3>2. w \in owners'
      BY <1>2, <1>3, <2>2, <2>4 DEF lost, owners
    <3> QED
      BY <1>7, <2>1, <2>4, <3>1, <3>2 DEF CheckHolds
  <2>5. CASE ~request[p].counted
    <3>1. request[p].target \in owners' => request[p].target \in owners
      BY <1>3, <2>2, <2>5 DEF gained
    <3> QED
      BY <1>7, <2>1, <2>2, <2>5, <3>1 DEF CheckHolds, takesOwnership
  <2> QED
    BY <2>4, <2>5
<1> QED
  BY <1>8, <1>9, <1>10, <1>11, <1>12 DEF MembersInv

LEMMA WriteMembersInv ==
    ASSUME MembersInv, NEW q \in Requests, Write(q)
    PROVE  MembersInv'
<1>1. request[q] # Idle /\ request[q] \in Request /\ request[q].pc = "write"
      /\ request[q].kind \in {"put", "remove"}
  BY IdleHasNoStep, ActiveRequest DEF MembersInv, StepsMatchKinds, Write
<1> DEFINE u == request[q].target
           r == IF request[q].kind = "remove" THEN NoRole
                ELSE memberAfterPut(u, request[q].role)
<1>2. u \in Users /\ r \in Roles \cup {NoRole}
  BY <1>1 DEF Request, memberAfterPut
<1>3. role' = [role EXCEPT ![u] = r] /\ Overtake(q) /\ UNCHANGED <<exists, founding>>
  BY DEF Write
<1>4. exists \/ role' = role
  BY <1>2, <1>3 DEF MembersInv, TypeOK, NoStrayMembers, memberAfterPut
<1>5. ASSUME u \in owners, r # "owner", ~request[q].overtaken
      PROVE  \E w \in owners : w # u
  <2>1. takesOwnership(request[q])
    BY <1>1, <1>5, RolesAssumption DEF takesOwnership, memberAfterPut, owners
  <2>2. exists
    BY <1>5, RolesAssumption DEF MembersInv, NoStrayMembers, owners
  <2> QED
    BY <1>1, <1>5, <2>1, <2>2 DEF MembersInv, ChecksHold, CheckHolds
<1> HIDE DEF u, r
<1> QED
  BY <1>1, <1>2, <1>3, <1>4, <1>5, LoudStep

LEMMA InsertMembersInv ==
    ASSUME MembersInv, NEW q \in Requests, Insert(q)
    PROVE  MembersInv'
<1>1. request[q] # Idle /\ request[q] \in Request
  BY IdleHasNoStep, ActiveRequest DEF MembersInv, Insert
<1> DEFINE u == request[q].target
           r == request[q].role
<1>2. u \in Users /\ r \in Roles
  BY <1>1 DEF Request
<1>3. exists /\ u \notin owners
  BY RolesAssumption DEF Insert, canInsert, owners
<1>4. role' = [role EXCEPT ![u] = r] /\ Overtake(q) /\ UNCHANGED <<exists, founding>>
  BY DEF Insert
<1> HIDE DEF u, r
<1> QED
  BY <1>1, <1>2, <1>3, <1>4, LoudStep

LEMMA DeleteProjectMembersInv ==
    ASSUME MembersInv, NEW q \in Requests, DeleteProject(q)
    PROVE  MembersInv'
<1>1. founding.pc = "done"
  BY IdleHasNoStep, ActiveIsFounded DEF DeleteProject
<1>2. ~exists' /\ exists' \in BOOLEAN /\ role' = [w \in Users |-> NoRole]
      /\ founding' = founding /\ raced' = raced
      /\ request' = [request EXCEPT ![q] = Idle]
  BY DEF DeleteProject, End
<1>3. \A p \in Requests : request'[p] = Idle \/ request'[p] = request[p]
  BY <1>2 DEF MembersInv, TypeOK
<1>4. TypeOK'
  BY <1>2, <1>3 DEF MembersInv, TypeOK
<1>5. StepsMatchKinds'
  BY <1>1, <1>2, <1>3, IdleHasNoStep DEF MembersInv, StepsMatchKinds
<1>6. NoStrayMembers' /\ OwnerUnlessRaced' /\ ChecksHold'
  BY <1>2 DEF NoStrayMembers, OwnerUnlessRaced, ChecksHold
<1> QED
  BY <1>4, <1>5, <1>6 DEF MembersInv

LEMMA NextMembersInv == MembersInv /\ [Next]_vars => MembersInv'
<1> SUFFICES ASSUME MembersInv, [Next]_vars PROVE MembersInv'
  OBVIOUS
<1>1. CASE InsertOwner \/ FoundingFails
  BY <1>1, FoundingMembersInv
<1>2. ASSUME NEW q \in Requests, NEW u \in Users, NEW kind \in {"add", "put", "remove"},
             NEW target \in Users, NEW r \in Roles, Authorise(q, u, kind, target, r)
      PROVE  MembersInv'
  BY <1>2, AuthoriseMembersInv
<1>3. ASSUME NEW q \in Requests, NEW u \in Users,
             Authorise(q, u, "deleteProject", u, "owner")
      PROVE  MembersInv'
  <2>1. "owner" \in Roles
    BY RolesAssumption
  <2> QED
    BY <1>3, <2>1, AuthoriseMembersInv
<1>4. ASSUME NEW q \in Requests, InsertRefused(q) \/ Fail(q) PROVE MembersInv'
  BY <1>4, EndMembersInv DEF InsertRefused, Fail
<1>5. ASSUME NEW q \in Requests,
             ReadMembership(q) \/ CountOwners(q) \/ Write(q) \/ ReadExisting(q)
               \/ Insert(q) \/ DeleteProject(q)
      PROVE  MembersInv'
  BY <1>5, ReadMembershipMembersInv, CountOwnersMembersInv, WriteMembersInv,
     ReadExistingMembersInv, InsertMembersInv, DeleteProjectMembersInv
<1>6. CASE UNCHANGED vars
  BY <1>6 DEF vars, MembersInv, TypeOK, NoStrayMembers, OwnerUnlessRaced, StepsMatchKinds,
              ChecksHold, CheckHolds, takesOwnership, owners
<1> QED
  BY <1>1, <1>2, <1>3, <1>4, <1>5, <1>6 DEF Next

(* MembersInv is an invariant of the specification.                         *)
THEOREM MembersInvHolds == Spec => []MembersInv
BY InitMembersInv, NextMembersInv, PTL DEF Spec

(* Type correctness: the owners are counted only for what may take          *)
(* ownership away.                                                          *)
THEOREM MembersTyped == Spec => []TypeOK
<1>1. MembersInv => TypeOK
  BY DEF MembersInv
<1> QED
  BY <1>1, MembersInvHolds, PTL

(* A project keeps an owner unless the check of a request that takes        *)
(* ownership away was overtaken by another change.                          *)
THEOREM OwnerRemains == Spec => []OwnerUnlessRaced
<1>1. MembersInv => OwnerUnlessRaced
  BY DEF MembersInv
<1> QED
  BY <1>1, MembersInvHolds, PTL

(* A deleted project, and one whose founding was interrupted, has no        *)
(* members, now or later.                                                   *)
THEOREM StrayMembersNever == Spec => []NoStrayMembers
<1>1. MembersInv => NoStrayMembers
  BY DEF MembersInv
<1> QED
  BY <1>1, MembersInvHolds, PTL

(* Only the founding and additions make members.                            *)
THEOREM MembersOnlyAdded == Spec => MembersAreAdded
<1> DEFINE Added ==
      \A u \in Users : role[u] = NoRole /\ role'[u] # NoRole =>
         \/ founding.pc = "insertOwner" /\ founding.creator = u
         \/ \E q \in Requests : /\ request[q] # Idle
                                /\ request[q].kind = "add"
                                /\ request[q].target = u
                                /\ request[q].role = role'[u]
<1>1. MembersInv /\ [Next]_vars => [Added]_vars
  <2> SUFFICES ASSUME MembersInv, Next, NEW u \in Users, role[u] = NoRole, role'[u] # NoRole
               PROVE  \/ founding.pc = "insertOwner" /\ founding.creator = u
                      \/ \E q \in Requests : /\ request[q] # Idle
                                             /\ request[q].kind = "add"
                                             /\ request[q].target = u
                                             /\ request[q].role = role'[u]
    OBVIOUS
  <2>1. CASE InsertOwner
    BY <2>1 DEF InsertOwner, MembersInv, TypeOK, Founding
  <2>2. ASSUME NEW q \in Requests, Write(q) PROVE FALSE
    <3>1. role'[u] = NoRole
      BY <2>2 DEF Write, MembersInv, TypeOK, memberAfterPut
    <3> QED
      BY <3>1
  <2>3. ASSUME NEW q \in Requests, Insert(q)
        PROVE  /\ request[q] # Idle
               /\ request[q].kind = "add"
               /\ request[q].target = u
               /\ request[q].role = role'[u]
    <3>1. request[q].kind = "add" /\ request[q] # Idle
      BY <2>3, IdleHasNoStep DEF Insert, MembersInv, StepsMatchKinds
    <3> QED
      BY <2>3, <3>1 DEF Insert, MembersInv, TypeOK
  <2>4. ASSUME NEW q \in Requests, DeleteProject(q) PROVE FALSE
    BY <2>4 DEF DeleteProject
  <2>5. role' # role
    OBVIOUS
  <2> QED
    BY <2>1, <2>2, <2>3, <2>4, <2>5
       DEF Next, FoundingFails, Authorise, ReadMembership, CountOwners, ReadExisting,
           InsertRefused, Fail
<1> HIDE DEF Added
<1>2. Spec => [][Added]_vars
  BY <1>1, MembersInvHolds, PTL DEF Spec
<1> QED
  BY <1>2 DEF MembersAreAdded, Added

===============================================================================
