--------------------------- MODULE MCAdminAccess ---------------------------
(* An instance of AdminAccess for TLC: a deployment, one with a new        *)
(* password, one with a new key and kid, one whose gateway secret is       *)
(* missing, one outside prod, and that without a key.                      *)
EXTENDS AdminAccess, TLC

First == [prod |-> TRUE, password |-> "p1", key |-> "k1", kid |-> "v1",
          gateway |-> "long"]
MCSettings ==
  {First, [First EXCEPT !.password = "p2"],
   [First EXCEPT !.key = "k2", !.kid = "v2"],
   [First EXCEPT !.gateway = ""], [First EXCEPT !.prod = FALSE],
   [First EXCEPT !.prod = FALSE, !.key = ""]}

(* Requests are interchangeable, and so are pods: sound for safety. *)
Symmetry == Permutations(Request) \cup Permutations(Pod)
=============================================================================
