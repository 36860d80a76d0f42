SPECIFICATION Spec
CONSTANTS
    f1 = f1
    f2 = f2
    v0 = v0
    v1 = v1
    v2 = v2
    s1 = s1
    s2 = s2
    a = a
    b = b
    Fields <- MCFields
    Sections <- MCSections
    sectionOf <- MCSectionOf
    Values <- MCValues
    Blank = v0
    Slots <- OneSlot
    MaxVersion = 3
    MaxEdits = 2
SYMMETRY Symmetry
INVARIANT TypeOK
INVARIANT ScreenIsServer
PROPERTY ChoicesHonoured
PROPERTY NoSilentOverwrite
CHECK_DEADLOCK FALSE
