CONSTANTS
    f = f
    g = g
    blank = blank
    x = x
    y = y
    Users = {anna, bram}
    NoUser = nobody
    Fields <- MCFields
    Values <- MCValues
    Blank = blank
    MaxVersion = 4
    MaxEdits = 2
SPECIFICATION Spec
SYMMETRY Symmetry
PROPERTIES
    KeptWorkReturns
    RestoredByAuthor
    OnlyRestoredOverwrites
