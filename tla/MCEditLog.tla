------------------------------- MODULE MCEditLog -------------------------------
(***************************************************************************)
(* A repeated group with a field and a repeated group inside it, and a     *)
(* field outside; the answers and instances come and go in every           *)
(* combination that the form can save with at most MaxAnswers answers.     *)
(***************************************************************************)
EXTENDS EditLog

CONSTANT MaxAnswers

MCTasks == {"6", "6.1", "6.1.1", "6.1.2", "6.1.2.1", "6.2"}
MCParent == "6" :> "none" @@ "6.1" :> "6" @@ "6.1.1" :> "6.1" @@ "6.1.2" :> "6.1"
            @@ "6.1.2.1" :> "6.1.2" @@ "6.2" :> "6"
MCAbove == "6" :> <<>> @@ "6.1" :> <<"6">> @@ "6.1.1" :> <<"6.1", "6">> @@ "6.1.2" :> <<"6.1", "6">>
           @@ "6.1.2.1" :> <<"6.1.2", "6.1", "6">> @@ "6.2" :> <<"6">>
MCRepeatable == {"6.1", "6.1.2"}
MCFields == {<<"6.1.1", 0>>, <<"6.1.1", 1>>, <<"6.1.2.1", 0>>, <<"6.1.2.1", 1>>, <<"6.2", NoIndex>>}
MCInstances == {{<<"6.1", 0>>}, {<<"6.1", 1>>}, {<<"6.1", 0>>, <<"6.1", 1>>}}
MCInnerInstances == {{<<"6.1.2", 0>>}, {<<"6.1.2", 0>>, <<"6.1.2", 1>>}}

\* Only the answers of the outer group change from one value to another.
MCAnswers == {a \in UNION {[ids -> Values] : ids \in {s \in SUBSET MCFields : Cardinality(s) <= MaxAnswers}} :
                \A id \in DOMAIN a : taskOf(id) # "6.1.1" => a[id] = "a"}
MCSaves == {[state |-> groupAnswers(a, i \cup j), completed |-> {}] :
                a \in MCAnswers, i \in MCInstances, j \in MCInnerInstances}
              \cup {[state |-> EmptyState, completed |-> {"6"}]}
===============================================================================
