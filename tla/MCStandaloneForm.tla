--------------------------- MODULE MCStandaloneForm ---------------------------
(***************************************************************************)
(* The shapes of the DPIA form (sources/dpia.yaml) in four sections:       *)
(*   2  a repeated group with a name, a yes/no question and a detail that  *)
(*      is shown after a yes;                                              *)
(*   3  a group per name, with a repeated group of the user in it (6.1.1)  *)
(*      and one that is mapped from the group it is in, which no source    *)
(*      has but a test of the reports;                                     *)
(*   12 a repeated group that is shown after a yes (12.1.2);               *)
(*   20 a section of the PDF alone.                                        *)
(***************************************************************************)
EXTENDS StandaloneForm

CONSTANTS MaxFilledIn

MCTaskOrder == <<"2", "2.1", "2.1.1", "2.1.2", "2.1.3",
                 "3", "3.1", "3.1.1", "3.1.1.1", "3.1.2", "3.1.2.1",
                 "12", "12.1", "12.2", "12.2.1", "20">>
MCTasks == {"2", "2.1", "2.1.1", "2.1.2", "2.1.3", "3", "3.1", "3.1.1", "3.1.1.1", "3.1.2", "3.1.2.1",
            "12", "12.1", "12.2", "12.2.1", "20"}
MCParent == [t \in MCTasks |->
                CASE t \in {"2", "3", "12", "20"} -> "none"
                  [] t = "2.1" -> "2"
                  [] t \in {"2.1.1", "2.1.2", "2.1.3"} -> "2.1"
                  [] t = "3.1" -> "3"
                  [] t \in {"3.1.1", "3.1.2"} -> "3.1"
                  [] t = "3.1.1.1" -> "3.1.1"
                  [] t = "3.1.2.1" -> "3.1.2"
                  [] t \in {"12.1", "12.2"} -> "12"
                  [] t = "12.2.1" -> "12.2"]
MCRepeatable == {"2.1", "3.1", "3.1.1", "3.1.2", "12.2"}
MCCondition == [t \in MCTasks |-> CASE t = "2.1.3" -> "2.1.2" [] t = "12.2" -> "12.1" [] OTHER -> "none"]
MCMappedFrom == [t \in MCTasks |-> CASE t = "3.1" -> "2.1.1" [] t = "3.1.2" -> "3.1" [] OTHER -> "none"]
MCValues == {"yes", "no", "text", ""}
MCOptions == [t \in MCTasks |->
                CASE t = "2.1.1" -> {"text", ""}
                  [] t \in {"2.1.2", "12.1"} -> {"yes", "no"}
                  [] t \in {"2.1.3", "3.1.1.1", "3.1.2.1", "12.2.1", "20"} -> {"text"}
                  [] OTHER -> {}]

\* An uploaded file: a second group only, its question left blank but its detail
\* and the fields of its mapped group filled in.
MCFiles == {[state |-> groupAnswers(<<"2.1.1", 1>> :> "text" @@ <<"2.1.2", 1>> :> ""
                                    @@ <<"2.1.3", 1>> :> "text" @@ <<"3.1.1.1", 1>> :> "text"
                                    @@ <<"3.1.2.1", 1>> :> "text", {}),
             completed |-> {"2"}]}

\* No more than MaxFilledIn answers and marks are filled in on the page; what is
\* loaded or uploaded may be more.
filledIn == Cardinality(DOMAIN answers) + Cardinality(DOMAIN cache) + Cardinality(completed)
FewFilledIn ==
    phase = "form" /\ phase' = "form" => filledIn' <= MaxFilledIn \/ filledIn' <= filledIn
=============================================================================
