--------------------------- MODULE MCContentStore ---------------------------
(* The instance of ContentStore that TLC checks: every constant is in the  *)
(* configurations, one key and one body that are refused among them.       *)
EXTENDS ContentStore
=============================================================================
