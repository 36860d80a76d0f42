CONSTANTS
    Tasks <- MCTasks
    NoTask = "none"
    Parent <- MCParent
    Repeatable <- MCRepeatable
    MaxIndex = 1
    Values <- MCValues
    TaskOrder <- MCTaskOrder
    Condition <- MCCondition
    MappedFrom <- MCMappedFrom
    Yes = "yes"
    Empty = ""
    NoValue = "null"
    Options <- MCOptions
    Completable = {"2"}
    Files <- MCFiles
    Sections = {"2", "3", "12", "20"}
    PdfSections = {"20"}
    MaxFilledIn = 3
SPECIFICATION Spec
ACTION_CONSTRAINT FewFilledIn
INVARIANTS
    FormWellFormed
    ReloadGivesForm
    ExportsAgree
    ExportCanBeUploaded
PROPERTIES
    MappedFollowSource
    AnswersStayOrMove
