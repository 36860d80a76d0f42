SPECIFICATION Spec
CONSTANTS
    e1 = e1
    e2 = e2
    e3 = e3
    s1 = s1
    s2 = s2
    s3 = s3
    l1 = l1
    l2 = l2
    v1 = v1
    Addresses <- MCAddresses
    Subs <- MCSubs
    Logins <- MCLogins
    Invites <- MCInvites
    MaxEntries = 2
SYMMETRY Symmetry
INVARIANTS
    TypeOK
    OneAccountEach
    AnsweredAsLinked
PROPERTY NeverRelinked
CHECK_DEADLOCK FALSE
