SPECIFICATION Spec
CONSTANTS
    u1 = u1
    u2 = u2
    u3 = u3
    q1 = q1
    q2 = q2
    Users <- MCUsers
    Roles <- MCRoles
    Requests <- MCRequests
SYMMETRY Symmetry
INVARIANTS
    TypeOK
    OwnerUnlessRaced
    NoStrayMembers
PROPERTY MembersAreAdded
CHECK_DEADLOCK FALSE
