CONSTANTS
    blank = blank
    x = x
    none = none
    Saves <- MCSaves
    Questions <- MCQuestions
    Values = {blank, x}
    Blank = blank
    NoElement = none
    PageSize = 2
    MaxVersion = 4
    MaxClicks = 3
SPECIFICATION Spec
INVARIANTS
    ListFollowsServer
PROPERTIES
    RestoreTouchesOneField
    RestoredFromRowBelow
    FullRestoreGivesVersion
ACTION_CONSTRAINT Apart
