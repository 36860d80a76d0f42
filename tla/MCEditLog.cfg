CONSTANTS
    Tasks <- MCTasks
    NoTask = "none"
    Parent <- MCParent
    Above <- MCAbove
    Repeatable <- MCRepeatable
    MaxIndex = 1
    Values = {"a", "b"}
    Sections = {"6"}
    Gone = "null"
    MaxAnswers = 3
    Saves <- MCSaves
SPECIFICATION Spec
INVARIANTS
    HistoryHoldsTheRest
    ElementsHoldTheirOwn
