--------------------------- MODULE ContentRegister ---------------------------
(* What PUT and GET /content/{key} promise: a register for each key.  Each *)
(* request takes effect once, at one moment between its arrival and its    *)
(* answer: a PUT stores its body and is answered with it, a GET is         *)
(* answered with what is stored.  Only an error leaves open whether a PUT  *)
(* took effect.                                                            *)
CONSTANTS Request, Key, Absent
VARIABLES asks, register, result

vars == <<asks, register, result>>

Init ==
  /\ register = [k \in Key |-> Absent]
  /\ result = [r \in Request |-> "none"]

Answer(r, what) == result[r] = "none" /\ result' = [result EXCEPT ![r] = what]

Get(r) ==
  /\ asks[r].op = "get" /\ asks[r].key \in Key
  /\ Answer(r, register[asks[r].key])
  /\ UNCHANGED register

Put(r) ==
  /\ asks[r].op = "put" /\ asks[r].key \in Key
  /\ \E what \in {asks[r].body, "error"} : Answer(r, what)
  /\ register' = [register EXCEPT ![asks[r].key] = asks[r].body]

Refuse(r) == Answer(r, "error") /\ UNCHANGED register

Operate(r) == (Get(r) \/ Put(r) \/ Refuse(r)) /\ UNCHANGED asks

Next == \E r \in Request : Operate(r)

Safety == Init /\ [][Next]_vars

Spec == Safety /\ \A r \in Request : WF_vars(Operate(r))
=============================================================================
