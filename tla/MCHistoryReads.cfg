SPECIFICATION ReadSpec
CONSTANTS
    alice = alice
    bob = bob
    r1 = r1
    d1 = d1
    d2 = d2
    f1 = f1
    a = a
    b = b
    NoEdit = NoEdit
    Users <- MCUsers
    Owners <- MCOwners
    Editors <- MCUsers
    Requests <- MCRequests
    Readers <- MCReaders
    Fields <- MCFields
    Values <- MCValues
    SaveFlags <- MCSaveFlags
    PatchVersions <- MCPatchVersions
    MaxVersion = 4
    MaxEntries = 2
SYMMETRY Symmetry
CONSTRAINT Bounds
INVARIANTS
    ReadTypeOK
    CacheIsFresh
    OldVersionsReadConsistently
CHECK_DEADLOCK FALSE
