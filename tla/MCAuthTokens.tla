---------------------------- MODULE MCAuthTokens ----------------------------
(* Small instances of AuthTokens for TLC. *)
EXTENDS AuthTokens, TLC

(* Requests are interchangeable: sound for the safety runs.  Token ids are *)
(* not, since Record draws a fixed unused one.                             *)
Symmetry == Permutations(Request)
=============================================================================
