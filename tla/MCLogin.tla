------------------------------ MODULE MCLogin ------------------------------
(* Bounds for model-checking logins: two names that are equal to the         *)
(* database, one of them not plain, and two passwords that are equal in      *)
(* lower case, so that rows may differ in either only.                       *)
EXTENDS Login

MCName == {"ann", "odd"}
MCPlain == {"ann"}
MCPassword == {"pw", "Pw"}
MCLower == [s \in MCName \cup MCPassword |-> IF s = "Pw" THEN "pw" ELSE s]
MCCollated == [n \in MCName |-> "ann"]
=============================================================================
