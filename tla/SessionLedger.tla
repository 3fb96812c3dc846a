---------------------------- MODULE SessionLedger ----------------------------
(***************************************************************************)
(* What the token endpoints promise, without versions, rows, locks or      *)
(* transactions: a ledger of refresh tokens.  A token is live while the    *)
(* service would still exchange it (whether its lifetime has run out is    *)
(* another matter) and spent for ever after.  A session is one login and   *)
(* the tokens its successive refreshes lead to; its first token names it.  *)
(* AuthTokens implements this module.                                      *)
(***************************************************************************)
CONSTANTS Jti, None

VARIABLES
  live,     \* tokens the service would exchange
  spent,    \* tokens it will never exchange again
  session   \* the session of each issued token

Issued == live \cup spent

Init == live = {} /\ spent = {} /\ session = [j \in Jti |-> None]

(* A login opens a session. *)
Open(n) ==
  /\ n \in Jti \ Issued
  /\ live' = live \cup {n}
  /\ session' = [session EXCEPT ![n] = n]
  /\ UNCHANGED spent

(* A refresh swaps the live token of a session for a fresh one. *)
Exchange(j, n) ==
  /\ j \in live
  /\ n \in Jti \ Issued
  /\ live' = (live \ {j}) \cup {n}
  /\ spent' = spent \cup {j}
  /\ session' = [session EXCEPT ![n] = session[j]]

(* A login or a refresh overtaken by a kill issues a dead token. *)
StillBorn(n) ==
  /\ n \in Jti \ Issued
  /\ spent' = spent \cup {n}
  /\ \E s \in {n} \cup {session[j] : j \in spent} :
       session' = [session EXCEPT ![n] = s]
  /\ UNCHANGED live

(* Logout and reuse detection end every session at once. *)
CloseAll ==
  /\ live' = {}
  /\ spent' = spent \cup live
  /\ UNCHANGED session

Next ==
  \/ \E n \in Jti : Open(n) \/ StillBorn(n)
  \/ \E j, n \in Jti : Exchange(j, n)
  \/ CloseAll

Spec == Init /\ [][Next]_<<live, spent, session>>
=============================================================================
