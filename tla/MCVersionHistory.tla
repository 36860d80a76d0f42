--------------------------- MODULE MCVersionHistory ---------------------------
(* Model values for checking VersionHistory with TLC.                         *)
EXTENDS VersionHistory

CONSTANTS blank, x, none

MCQuestions == {"q"}
\* Every kind of edit: the question changes both ways, the instance comes with and
\* without an answer, changes, and goes.
MCSaves == {[q |-> blank, group |-> none], [q |-> x, group |-> blank], [q |-> blank, group |-> x]}

\* A bound on what overlaps: a description is saved, and a version restored, from a page
\* that shows no edits, of which neither reads or changes anything.
Apart ==
    /\ restore.pc = "idle" /\ restore'.pc = "confirmVersion" => expanded = 0 /\ asking = {}
    /\ server' # server /\ server'.version = server.version => expanded = 0 /\ asking = {}
===============================================================================
