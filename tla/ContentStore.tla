---------------------------- MODULE ContentStore ----------------------------
(***************************************************************************)
(* Site content: GET and PUT /content/{key}, over PostgreSQL at READ       *)
(* COMMITTED.  A PUT is one transaction of an upsert and a read of the row *)
(* it wrote; whoever upserts a key that another transaction has written    *)
(* waits until that one ends.  updated_at is left out.                     *)
(*                                                                         *)
(* What comes before, the session and require_admin, is in RequestScope    *)
(* and AdminAccess.                                                        *)
(***************************************************************************)
CONSTANTS
  Request,   \* HTTP requests; each one runs once
  AnyKey,    \* path segments
  Key,       \* those that _KEY_RE matches
  Body,      \* contents of a PUT
  Storable,  \* those without NaN or Infinity and of 64 KB at most
  None       \* no row

ASSUME KeyAssumption  == Key \subseteq AnyKey
ASSUME BodyAssumption == Storable \subseteq Body
ASSUME NoneAssumption == None \notin Body

VARIABLES
  asks,     \* what each request asks for
  rows,     \* the content of each row of site_contents, as committed
  pc,       \* what each request does next
  written,  \* the content it has written, not committed yet
  seen,     \* the content it has read
  answer    \* the content it is answered with, or none

vars == <<asks, rows, pc, written, seen, answer>>

Asks == [op : {"get"}, key : AnyKey]
          \cup [op : {"put"}, key : AnyKey, body : Body]

Init ==
  /\ asks \in [Request -> Asks]
  /\ rows = [k \in Key |-> None]
  /\ pc = [r \in Request |-> "start"]
  /\ written = [r \in Request |-> None]
  /\ seen = [r \in Request |-> None]
  /\ answer = [r \in Request |-> "none"]

Goto(r, label)  == pc' = [pc EXCEPT ![r] = label]
Finish(r, what) == Goto(r, "done") /\ answer' = [answer EXCEPT ![r] = what]

(* What a statement of r reads under key k: its own write first. *)
Visible(r, k) == IF written[r] # None THEN written[r] ELSE rows[k]
Locked(k, r)  == \E o \in Request \ {r} : written[o] # None /\ asks[o].key = k

(* _validate_key, and the checks of the service before its first statement *)
Valid(a) == a.key \in Key /\ (a.op = "put" => a.body \in Storable)

(* 422: nothing has been written. *)
Refuse(r) ==
  /\ pc[r] = "start" /\ ~Valid(asks[r])
  /\ Finish(r, "error")
  /\ UNCHANGED <<asks, rows, written, seen>>

(* One statement: the row, or 404. *)
Get(r) ==
  /\ pc[r] = "start" /\ Valid(asks[r]) /\ asks[r].op = "get"
  /\ Finish(r, rows[asks[r].key])
  /\ UNCHANGED <<asks, rows, written, seen>>

(* @Transactional: BEGIN reaches the server with the first statement. *)
Begin(r) ==
  /\ pc[r] = "start" /\ Valid(asks[r]) /\ asks[r].op = "put"
  /\ Goto(r, "upsert")
  /\ UNCHANGED <<asks, rows, written, seen, answer>>

(* Mutant of Upsert: ON CONFLICT DO NOTHING. *)
UpsertNothing(r) ==
  /\ pc[r] = "upsert" /\ ~Locked(asks[r].key, r)
  /\ written' = IF rows[asks[r].key] # None THEN written
                ELSE [written EXCEPT ![r] = asks[r].body]
  /\ Goto(r, "read")
  /\ UNCHANGED <<asks, rows, seen, answer>>

(* Mutant of Upsert: it does not wait for another writer of the row. *)
UpsertNoWait(r) ==
  /\ pc[r] = "upsert"
  /\ written' = [written EXCEPT ![r] = asks[r].body]
  /\ Goto(r, "read")
  /\ UNCHANGED <<asks, rows, seen, answer>>

(* INSERT ... ON CONFLICT DO UPDATE, which also renews updated_at. *)
Upsert(r) ==
  /\ pc[r] = "upsert" /\ ~Locked(asks[r].key, r)
  /\ written' = [written EXCEPT ![r] = asks[r].body]
  /\ Goto(r, "read")
  /\ UNCHANGED <<asks, rows, seen, answer>>

(* The row is read again in the transaction, for the response. *)
Read(r) ==
  /\ pc[r] = "read"
  /\ seen' = [seen EXCEPT ![r] = Visible(r, asks[r].key)]
  /\ Goto(r, "commit")
  /\ UNCHANGED <<asks, rows, written, answer>>

(* COMMIT, whose outcome may be lost with the connection. *)
Commit(r) ==
  /\ pc[r] = "commit"
  /\ rows' = [rows EXCEPT ![asks[r].key] = Visible(r, asks[r].key)]
  /\ written' = [written EXCEPT ![r] = None]
  /\ \E what \in {seen[r], "error"} : Finish(r, what)
  /\ UNCHANGED <<asks, seen>>

(* A statement fails, by a timeout or with its connection: ROLLBACK. *)
Fail(r) ==
  /\ pc[r] # "done" /\ Valid(asks[r])
  /\ written' = [written EXCEPT ![r] = None]
  /\ Finish(r, "error")
  /\ UNCHANGED <<asks, rows, seen>>

(* lock_timeout is what bounds the wait in Upsert. *)
LockTimeout(r) == pc[r] = "upsert" /\ Locked(asks[r].key, r) /\ Fail(r)

Serve(r) ==
  \/ Refuse(r) \/ Get(r)
  \/ Begin(r) \/ Upsert(r) \/ Read(r) \/ Commit(r) \/ LockTimeout(r)

Next == \E r \in Request : Serve(r) \/ Fail(r)

Spec == Init /\ [][Next]_vars

(* The event loop and the server run what they can run. *)
FairSpec == Spec /\ \A r \in Request : WF_vars(Serve(r))

-----------------------------------------------------------------------------
(* Types: and at most one transaction at a time has written a row. *)
TypeOK ==
  /\ asks \in [Request -> Asks]
  /\ rows \in [Key -> Storable \cup {None}]
  /\ pc \in [Request -> {"start", "upsert", "read", "commit", "done"}]
  /\ answer \in [Request -> Body \cup {None, "none", "error"}]
  /\ \A r \in Request :
       /\ {written[r], seen[r]} \subseteq Storable \cup {None}
       /\ written[r] # None =>
            pc[r] \in {"read", "commit"} /\ ~Locked(asks[r].key, r)

(* Concurrent PUTs and GETs of a key are those of a register, and each one *)
(* ends: no PUT is lost or answered with what another one wrote            *)
(* (app/content/infrastructure/repository.py, upsert).                     *)
Register == INSTANCE ContentRegister WITH
  Absent <- None, register <- rows, result <- answer
ImplementsRegister == Register!Spec
=============================================================================
