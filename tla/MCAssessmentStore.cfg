SPECIFICATION Spec
CONSTANTS
    alice = alice
    bob = bob
    r1 = r1
    r2 = r2
    f1 = f1
    f2 = f2
    a = a
    b = b
    NoEdit = NoEdit
    Users <- MCUsers
    Owners <- MCOwners
    Editors <- MCEditors
    Requests <- MCRequests
    Fields <- MCFields
    Values <- MCValues
    SaveFlags <- MCSaveFlags
    PatchVersions <- MCPatchVersions
    MaxVersion = 3
SYMMETRY Symmetry
CONSTRAINT EarlySaves
INVARIANTS
    TypeOK
    VersionTable
    CacheMatchesHistory
    NewestRowIsLastSavers
PROPERTIES
    PastIsFrozen
    SealedVersionsKept
    ImplementsDocument
CHECK_DEADLOCK FALSE
