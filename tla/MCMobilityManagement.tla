------------------------ MODULE MCMobilityManagement ------------------------
(* Instances of MobilityManagement for TLC: what the applications request. *)
EXTENDS MobilityManagement

\* A base station that keeps its parts: procedures whose answers are checked
Checked == {"AUTHENTICATE", "IDENTIFICATION", "PARAMETER_RETRIEVAL", "ACCESS_RIGHTS_TERMINATE"}

FixedPart == [s \in Side |-> IF s = "FP" THEN Checked ELSE {}]

\* Everything there is
Everything == [s \in Side |-> Procedure]
=============================================================================
