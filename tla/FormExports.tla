------------------------------ MODULE FormExports ------------------------------
(***************************************************************************)
(* What leaves the form: the JSON export that can be uploaded again        *)
(* (utils/jsonExport.ts), the PDF (utils/pdfExport.ts) and the Markdown    *)
(* report (utils/markdownExport.ts).  A report is the set of instances it  *)
(* prints an answer for; headings, formatting and order are left out.      *)
(***************************************************************************)
EXTENDS FormStores

CONSTANTS
    Sections,     \* the root tasks a report has a section for
    PdfSections   \* those that the Markdown report has none for (task 20 of the DPIA)

ASSUME SectionsAssumption == Sections \subseteq rootTasks /\ PdfSections \subseteq Sections

isLeaf(t) == childrenIds[t] = {}
instancesUnder(inst, t, id) == {i \in getInstancesForTask(inst, t) : inst[i].parent = id}

\* --- JSON ----------------------------------------------------------------

\* An answer without an instance counts as shown, like one of an unknown task.
\* Mutant of filterVisibleAnswers: the answers of a whole task go when one is hidden.
filterVisibleTasks(inst, answers) ==
    Restrict(answers, {id \in DOMAIN answers :
        \A i \in DOMAIN answers : taskOf(i) = taskOf(id) => shouldShowTask(inst, answers, i)})
filterVisibleAnswers(inst, answers) ==
    Restrict(answers, {id \in DOMAIN answers : shouldShowTask(inst, answers, id)})

buildOutputData(inst, answers, completed) ==
    [state |-> groupAnswers(filterVisibleAnswers(inst, answers), DOMAIN inst), completed |-> completed]

\* --- PDF -----------------------------------------------------------------

\* The groups of t below an instance: a mapped group is looked up by its source.
childGroups(inst, t, id) ==
    IF MappedFrom[t] # NoTask THEN {i \in getInstancesForTask(inst, t) : inst[i].source = id}
    ELSE instancesUnder(inst, t, id)

\* buildTableRows: the fields of one group.
tableRows(inst, answers, id) ==
    {i \in UNION {instancesUnder(inst, t, id) : t \in {c \in childrenIds[taskOf(id)] : isLeaf(c)}} :
        shouldShowTask(inst, answers, i)}

\* processTaskWithInstances, for one instance.
printedBelow(inst, answers, id) ==
    LET printed[i \in Ids] ==
            IF ~shouldShowTask(inst, answers, i) THEN {}
            ELSE IF isLeaf(taskOf(i)) THEN {i}
            ELSE tableRows(inst, answers, i)
                 \cup UNION {UNION {printed[j] : j \in childGroups(inst, t, i)} :
                             t \in {c \in childrenIds[taskOf(i)] : ~isLeaf(c)}}
    IN  printed[id]

printedInSection(inst, answers, s) ==
    IF isLeaf(s) THEN getInstancesForTask(inst, s)
    ELSE UNION {printedBelow(inst, answers, i) :
                i \in UNION {getInstancesForTask(inst, c) : c \in childrenIds[s]}}

withValue(answers, ids) == {id \in ids \cap DOMAIN answers : getAnswer(answers, id) # NoValue}
pdfAnswers(inst, answers) ==
    withValue(answers, UNION {printedInSection(inst, answers, s) : s \in Sections})

\* --- Markdown --------------------------------------------------------------

\* Mutant of markdownGroups: the groups below an instance are those with its index.
markdownGroupsOfIndex(inst, t, id) ==
    {i \in getInstancesForTask(inst, t) : indexOf(id) \in {NoIndex, indexOf(i)}}
markdownGroups(inst, t, id) ==
    IF MappedFrom[t] # NoTask THEN {i \in getInstancesForTask(inst, t) : inst[i].source = id}
    ELSE instancesUnder(inst, t, id)

markdownRows(inst, answers, id) ==
    {i \in UNION {instancesUnder(inst, t, id) : t \in {c \in childrenIds[taskOf(id)] : isLeaf(c)}} :
        shouldShowTask(inst, answers, i)}

\* processTaskWithInstances, for the instances of t below one instance, or all.
markdownOf(inst, answers, t) ==
    LET listed[i \in Ids] ==
            IF ~shouldShowTask(inst, answers, i) THEN {}
            ELSE IF isLeaf(taskOf(i)) THEN {i}
            ELSE markdownRows(inst, answers, i)
                 \cup UNION {UNION {listed[j] : j \in markdownGroups(inst, c, i)} :
                             c \in {u \in childrenIds[taskOf(i)] : ~isLeaf(u)}}
    IN  UNION {listed[i] : i \in getInstancesForTask(inst, t)}

\* buildAnswerContent
markdownSection(inst, answers, s) ==
    IF isLeaf(s) THEN getInstancesForTask(inst, s)
    ELSE UNION {markdownOf(inst, answers, c) : c \in childrenIds[s]}

markdownAnswers(inst, answers) ==
    withValue(answers, UNION {markdownSection(inst, answers, s) : s \in Sections \ PdfSections})

=============================================================================
