---------------------------- MODULE ProjectMembers ----------------------------
(***************************************************************************)
(* The members of one project (routes/members.ts, and the creation and     *)
(* deletion in routes/projects.ts).  A request is authorised in a          *)
(* preHandler, reads what it needs in one or two queries, and writes in a  *)
(* last one, without a transaction: other requests run between any two.    *)
(***************************************************************************)
EXTENDS Integers, FiniteSets

CONSTANTS
    Users,       \* the users that can be members
    Roles,       \* the roles of a member; only "owner" is told apart here
    Requests     \* identifiers of the requests in flight

NoRole == "none"

ASSUME RolesAssumption == "owner" \in Roles /\ NoRole \notin Roles
ASSUME UsersAssumption == IsFiniteSet(Users)

VARIABLES
    exists,      \* the row of the project
    founding,    \* the handler activation that creates the project
    role,        \* project_members: the role of each user
    request,     \* the handler activation of each request
    raced        \* history: a request took ownership on a check that no longer held

vars == <<exists, founding, role, request, raced>>

Idle == [pc |-> "idle"]
\* counted: the request has seen two owners or more.  overtaken is history: since
\* its check, an owner was lost or its target has become one.
Request == [pc : {"readMembership", "countOwners", "write", "readExisting", "insert",
                  "deleteProject"},
            kind : {"add", "put", "remove", "deleteProject"}, target : Users, role : Roles,
            counted : BOOLEAN, overtaken : BOOLEAN]
Founding == [pc : {"insertOwner", "done", "interrupted"}, creator : Users]

owners == {u \in Users : role[u] = "owner"}

Init ==
    \E creator \in Users :
        /\ exists = TRUE
        /\ founding = [pc |-> "insertOwner", creator |-> creator]
        /\ role = [u \in Users |-> NoRole]
        /\ request = [q \in Requests |-> Idle]
        /\ raced = FALSE

\* The creator becomes owner, in an insert of its own.
InsertOwner ==
    /\ founding.pc = "insertOwner"
    /\ role' = [role EXCEPT ![founding.creator] = "owner"]
    /\ founding' = [founding EXCEPT !.pc = "done"]
    /\ UNCHANGED <<exists, request, raced>>

FoundingFails ==
    /\ founding.pc = "insertOwner"
    /\ founding' = [founding EXCEPT !.pc = "interrupted"]
    /\ UNCHANGED <<exists, role, request, raced>>

-----------------------------------------------------------------------------
(* The handlers.                                                           *)

firstStep(kind) ==
    CASE kind = "add" -> "readExisting"
      [] kind = "deleteProject" -> "deleteProject"
      [] OTHER -> "readMembership"

\* requireProjectAccess('owner') reads the role of the user who asks.
Authorise(q, u, kind, target, r) ==
    /\ request[q] = Idle
    /\ role[u] = "owner"
    /\ request' = [request EXCEPT ![q] =
          [pc |-> firstStep(kind), kind |-> kind, target |-> target, role |-> r,
           counted |-> FALSE, overtaken |-> FALSE]]
    /\ UNCHANGED <<exists, founding, role, raced>>

End(q) == request' = [request EXCEPT ![q] = Idle]

\* Mutant of takesOwnership: every change of an owner's role is checked.
takesOwnershipAlways(q) == q.kind \in {"remove", "put"}

\* Whether the write ends the ownership of a target that is an owner.
takesOwnership(q) == q.kind = "remove" \/ (q.kind = "put" /\ q.role # "owner")

\* PUT and DELETE of a member: 404, straight to the write, or count the owners.
ReadMembership(q) ==
    /\ request[q].pc = "readMembership"
    /\ LET current == role[request[q].target]
       IN  \/ current = NoRole /\ End(q)
           \/ /\ current # NoRole
              /\ request' = [request EXCEPT
                    ![q].pc = IF current = "owner" /\ takesOwnership(request[q])
                              THEN "countOwners" ELSE "write",
                    ![q].overtaken = FALSE]
    /\ UNCHANGED <<exists, founding, role, raced>>

\* Mutant of enoughOwners: off by one.
enoughOwnersOffByOne == Cardinality(owners) >= 1

\* A last owner is refused with 400.
enoughOwners == Cardinality(owners) > 1

CountOwners(q) ==
    /\ request[q].pc = "countOwners"
    /\ IF enoughOwners
       THEN request' = [request EXCEPT ![q].pc = "write", ![q].counted = TRUE,
                                       ![q].overtaken = FALSE]
       ELSE End(q)
    /\ UNCHANGED <<exists, founding, role, raced>>

\* Bookkeeping of the history: what a write means for the other requests.
Overtake(q) ==
    LET lost == \E u \in owners : role'[u] # "owner"
        gained(u) == u \notin owners /\ role'[u] = "owner"
    IN  /\ raced' = (raced \/ (lost /\ request[q].overtaken))
        /\ request' = [p \in Requests |->
              IF p = q \/ request[p] = Idle THEN Idle
              ELSE [request[p] EXCEPT !.overtaken =
                      @ \/ IF request[p].counted THEN lost ELSE gained(request[p].target)]]

\* Mutant of memberAfterPut: an upsert instead of an update.
memberAfterPutUpsert(u, r) == r

\* UPDATE ... SET role: nothing happens when the row is gone.
memberAfterPut(u, r) == IF role[u] = NoRole THEN NoRole ELSE r

Write(q) ==
    /\ request[q].pc = "write"
    /\ LET u == request[q].target
       IN role' = [role EXCEPT ![u] = IF request[q].kind = "remove" THEN NoRole
                                      ELSE memberAfterPut(u, request[q].role)]
    /\ Overtake(q)
    /\ UNCHANGED <<exists, founding>>

\* POST of a member: 409 when there is one already.
ReadExisting(q) ==
    /\ request[q].pc = "readExisting"
    /\ IF role[request[q].target] # NoRole
       THEN End(q)
       ELSE request' = [request EXCEPT ![q].pc = "insert"]
    /\ UNCHANGED <<exists, founding, role, raced>>

\* Mutant of canInsert: the foreign key to the project is missing.
canInsertAnywhere(u) == role[u] = NoRole

\* The primary key and the foreign key refuse the row (500) or admit it.
canInsert(u) == exists /\ role[u] = NoRole

Insert(q) ==
    /\ request[q].pc = "insert"
    /\ canInsert(request[q].target)
    /\ role' = [role EXCEPT ![request[q].target] = request[q].role]
    /\ Overtake(q)
    /\ UNCHANGED <<exists, founding>>

InsertRefused(q) ==
    /\ request[q].pc = "insert"
    /\ ~canInsert(request[q].target)
    /\ End(q)
    /\ UNCHANGED <<exists, founding, role, raced>>

\* DELETE of the project; the members go by ON DELETE CASCADE.
DeleteProject(q) ==
    /\ request[q].pc = "deleteProject"
    /\ exists' = FALSE
    /\ role' = [u \in Users |-> NoRole]
    /\ End(q)
    /\ UNCHANGED <<founding, raced>>

\* An invalid role, a database error or a crash of the server.
Fail(q) ==
    /\ request[q] # Idle
    /\ End(q)
    /\ UNCHANGED <<exists, founding, role, raced>>

Next ==
    \/ InsertOwner \/ FoundingFails
    \/ \E q \in Requests :
          \/ \E u \in Users, kind \in {"add", "put", "remove"}, target \in Users, r \in Roles :
                Authorise(q, u, kind, target, r)
          \/ \E u \in Users : Authorise(q, u, "deleteProject", u, "owner")
          \/ ReadMembership(q) \/ CountOwners(q) \/ Write(q)
          \/ ReadExisting(q) \/ Insert(q) \/ InsertRefused(q)
          \/ DeleteProject(q) \/ Fail(q)

Spec == Init /\ [][Next]_vars

-----------------------------------------------------------------------------
(* Properties.                                                             *)

\* Every variable has its type; only a request that may take ownership away
\* is held up to count the owners.
TypeOK ==
    /\ exists \in BOOLEAN
    /\ founding \in Founding
    /\ role \in [Users -> Roles \cup {NoRole}]
    /\ request \in [Requests -> Request \cup {Idle}]
    /\ raced \in BOOLEAN
    /\ \A q \in Requests : request[q] # Idle /\ request[q].counted =>
          /\ request[q].pc = "write"
          /\ request[q].kind = "remove" \/ request[q].role # "owner"

\* The check before a demotion or removal is as good as a lock as long as nobody
\* overtakes it: a project loses its last owner only when a request takes ownership
\* although, since its own check, another owner was lost or its target became one.
OwnerUnlessRaced == exists /\ founding.pc = "done" /\ ~raced => owners # {}

\* Nobody is a member of a project that is deleted, or whose founding was
\* interrupted: such a project can be found by no request, however long after.
NoStrayMembers ==
    ~exists \/ founding.pc # "done" => \A u \in Users : role[u] = NoRole

\* Who is not a member becomes one by the founding or by an addition of that user
\* with that role; a role change that was under way when the member was removed does
\* not bring the member back.
MembersAreAdded ==
    [][\A u \in Users : role[u] = NoRole /\ role'[u] # NoRole =>
          \/ founding.pc = "insertOwner" /\ founding.creator = u
          \/ \E q \in Requests : /\ request[q] # Idle
                                 /\ request[q].kind = "add"
                                 /\ request[q].target = u
                                 /\ request[q].role = role'[u]]_vars

=============================================================================
