CONSTANTS
    f = f
    g = g
    blank = blank
    x = x
    y = y
    Users = {anna, bram}
    NoUser = nobody
    Fields <- MCFields
    Values <- MCValues
    Blank = blank
    MaxVersion = 3
    MaxEdits = 2
SPECIFICATION Spec
SYMMETRY Symmetry

PROPERTY
    WorkIsKept
