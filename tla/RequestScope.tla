---------------------------- MODULE RequestScope ----------------------------
(***************************************************************************)
(* The database scope of a request: SQLAlchemyMiddleware binds a session,  *)
(* require_admin reads the admin row through it, @Transactional opens a    *)
(* transaction on it or joins the one that is open, and the middleware     *)
(* removes it at the end.  A session takes a connection from the pool of   *)
(* its worker at its first statement and gives it back when its            *)
(* transaction ends.  Any statement autobegins a transaction; what nobody  *)
(* commits is rolled back.                                                 *)
(*                                                                         *)
(* The kinds of request: "get", a public read; "adminget", a read behind   *)
(* require_admin; "write", a @Transactional endpoint behind require_admin; *)
(* "refresh", whose explicit transaction may commit and then answer 401.   *)
(***************************************************************************)
EXTENDS Naturals, FiniteSets

CONSTANTS
  Request,   \* HTTP requests; each one runs once.  A request also names the
             \* session context id that the middleware draws for it (uuid4)
  Size,      \* DB_POOL_SIZE + DB_MAX_OVERFLOW
  Prod,      \* require_admin reads a header in the place of the admin row
  None       \* no session

ASSUME SizeAssumption == Size \in Nat \ {0}
ASSUME ProdAssumption == Prod \in BOOLEAN
ASSUME NoneAssumption == None \notin Request

VARIABLES
  pc,       \* what each request does next
  kind,     \* what it is
  ctx,      \* session_context of its task
  begun,    \* sessions in a transaction
  pool,     \* sessions that hold a connection
  pending,  \* requests whose writes a session's transaction carries
  joined,   \* requests whose @Transactional joined an open transaction
  answer,   \* what the client is told
  durable   \* requests whose writes are committed

scope == <<ctx, begun, pool, pending>>
vars  == <<pc, kind, scope, joined, answer, durable>>

Kinds   == {"get", "adminget", "write", "refresh"}
Answers == {"none", "ok", "unauthorized", "error", "lost"}

Init ==
  /\ pc = [r \in Request |-> "idle"]
  /\ kind \in [Request -> Kinds]
  /\ ctx = [r \in Request |-> None]
  /\ begun = {} /\ pool = {}
  /\ pending = [s \in Request |-> {}]
  /\ joined = {} /\ durable = {}
  /\ answer = [r \in Request |-> "none"]

Goto(r, label)  == pc' = [pc EXCEPT ![r] = label]
Reply(r, what)  == answer' = [answer EXCEPT ![r] = what]
InTransaction(s) == s \in begun

(* The pool has a connection for the session, or the session has one. *)
Connected(s) == s \in pool \/ Cardinality(pool) < Size

(* A statement: autobegin and, at the first one, a connection. *)
Execute(s) ==
  /\ Connected(s)
  /\ begun' = begun \cup {s} /\ pool' = pool \cup {s}

(* COMMIT, ROLLBACK and remove end the transaction of a session. *)
Release(s) ==
  /\ begun' = begun \ {s} /\ pool' = pool \ {s}
  /\ pending' = [pending EXCEPT ![s] = {}]

-----------------------------------------------------------------------------
(* Mutant of Bind: one session for the whole process. *)
BindShared(r) ==
  /\ pc[r] = "idle"
  /\ ctx' = [ctx EXCEPT ![r] = CHOOSE s \in Request : TRUE]
  /\ Goto(r, IF kind[r] \in {"adminget", "write"} /\ ~Prod
             THEN "verify" ELSE "endpoint")
  /\ UNCHANGED <<kind, begun, pool, pending, joined, answer, durable>>

(* SQLAlchemyMiddleware: a session context id of its own. *)
Bind(r) ==
  /\ pc[r] = "idle"
  /\ ctx' = [ctx EXCEPT ![r] = r]
  /\ Goto(r, IF kind[r] \in {"adminget", "write"} /\ ~Prod
             THEN "verify" ELSE "endpoint")
  /\ UNCHANGED <<kind, begun, pool, pending, joined, answer, durable>>

(* _verify_subject: the admin row. *)
Verify(r) ==
  /\ pc[r] = "verify"
  /\ Execute(ctx[r])
  /\ Goto(r, "verified")
  /\ UNCHANGED <<kind, ctx, pending, joined, answer, durable>>

(* Mutant of Verified: without the rollback in _verify_subject. *)
VerifiedNoRollback(r) ==
  /\ pc[r] = "verified"
  /\ \/ Goto(r, "endpoint") /\ UNCHANGED answer
     \/ Goto(r, "cleanup") /\ Reply(r, "unauthorized")
  /\ UNCHANGED <<kind, scope, joined, durable>>

(* Its finally: the transaction of that read is rolled back, then the      *)
(* endpoint runs, or a token that was revoked gets a 401.                  *)
Verified(r) ==
  /\ pc[r] = "verified"
  /\ IF InTransaction(ctx[r])
     THEN Release(ctx[r]) ELSE UNCHANGED <<begun, pool, pending>>
  /\ \/ Goto(r, "endpoint") /\ UNCHANGED answer
     \/ Goto(r, "cleanup") /\ Reply(r, "unauthorized")
  /\ UNCHANGED <<kind, ctx, joined, durable>>

-----------------------------------------------------------------------------
(* A read: its transaction stays open until the middleware's cleanup,      *)
(* after the response has been sent.                                       *)
Select(r) ==
  /\ pc[r] = "endpoint" /\ kind[r] \in {"get", "adminget"}
  /\ Execute(ctx[r])
  /\ \/ Goto(r, "endpoint") /\ UNCHANGED answer
     \/ Goto(r, "respond") /\ Reply(r, "ok")
  /\ UNCHANGED <<kind, ctx, pending, joined, durable>>

(* @Transactional and session.begin().  An explicit begin on a session in  *)
(* a transaction is an InvalidRequestError.                                *)
Enter(r) ==
  /\ pc[r] = "endpoint" /\ kind[r] \in {"write", "refresh"}
  /\ IF InTransaction(ctx[r])
     THEN /\ joined' = joined \cup {r}
          /\ Goto(r, IF kind[r] = "write" THEN "body" ELSE "cleanup")
          /\ IF kind[r] = "write" THEN UNCHANGED answer ELSE Reply(r, "error")
          /\ UNCHANGED begun
     ELSE /\ begun' = begun \cup {ctx[r]}
          /\ Goto(r, "body")
          /\ UNCHANGED <<joined, answer>>
  /\ UNCHANGED <<kind, ctx, pool, pending, durable>>

(* One or more statements that write. *)
Write(r) ==
  /\ pc[r] = "body"
  /\ Execute(ctx[r])
  /\ pending' = [pending EXCEPT ![ctx[r]] = @ \cup {r}]
  /\ \E label \in {"body", "exit"} : Goto(r, label)
  /\ UNCHANGED <<kind, ctx, joined, answer, durable>>

(* The function returns: whoever opened the transaction commits it, whose  *)
(* outcome may be lost with the connection.  A replayed refresh token is   *)
(* answered with 401 after the commit.                                     *)
Return(r) ==
  /\ pc[r] = "exit"
  /\ IF r \in joined
     THEN UNCHANGED <<begun, pool, pending, durable>>
     ELSE Release(ctx[r]) /\ durable' = durable \cup pending[ctx[r]]
  /\ \/ Reply(r, "ok")
     \/ r \notin joined /\ Reply(r, "lost")
     \/ kind[r] = "refresh" /\ Reply(r, "unauthorized")
  /\ Goto(r, "respond")
  /\ UNCHANGED <<kind, ctx, joined>>

(* An exception: the opener rolls back; a join leaves that to the outside. *)
Raise(r) ==
  /\ pc[r] \in {"verify", "endpoint", "body", "exit"}
  /\ IF pc[r] \in {"body", "exit"} /\ r \notin joined
     THEN Release(ctx[r]) ELSE UNCHANGED <<begun, pool, pending>>
  /\ Reply(r, "error")
  /\ Goto(r, "cleanup")
  /\ UNCHANGED <<kind, ctx, joined, durable>>

(* The response reaches the client, as slowly as the client reads it. *)
Respond(r) ==
  /\ pc[r] = "respond"
  /\ Goto(r, "cleanup")
  /\ UNCHANGED <<kind, scope, joined, answer, durable>>

(* Mutant of Cleanup: without session.remove(). *)
CleanupNoRemove(r) ==
  /\ pc[r] = "cleanup"
  /\ Goto(r, "done")
  /\ ctx' = [ctx EXCEPT ![r] = None]
  /\ UNCHANGED <<kind, begun, pool, pending, joined, answer, durable>>

(* The middleware's finally: session.remove(), then the context is reset. *)
Cleanup(r) ==
  /\ pc[r] = "cleanup"
  /\ Release(ctx[r])
  /\ Goto(r, "done")
  /\ ctx' = [ctx EXCEPT ![r] = None]
  /\ UNCHANGED <<kind, joined, answer, durable>>

-----------------------------------------------------------------------------
Executes(r) == \/ pc[r] \in {"verify", "body"}
               \/ pc[r] = "endpoint" /\ kind[r] \in {"get", "adminget"}
Starved(r)  == Executes(r) /\ ~Connected(ctx[r])

(* Mutant of PoolTimeout: pool_timeout disabled. *)
PoolTimeoutNever(r) == Starved(r) /\ FALSE /\ UNCHANGED vars

(* The pool's timeout: the wait for a connection ends in an exception. *)
PoolTimeout(r) == Starved(r) /\ Raise(r)

(* What the server does on its own, the client's reading left out. *)
Serve(r) ==
  \/ Bind(r) \/ Verify(r) \/ Verified(r)
  \/ Select(r) \/ Enter(r) \/ Write(r) \/ Return(r)
  \/ Cleanup(r)

Next == \E r \in Request :
  Serve(r) \/ Respond(r) \/ Raise(r) \/ PoolTimeout(r)

Spec == Init /\ [][Next]_vars

(* Nothing makes a client read its response. *)
FairSpec == Spec /\ \A r \in Request :
  WF_vars(Serve(r)) /\ WF_vars(PoolTimeout(r))

-----------------------------------------------------------------------------
(* Types: and a connection is held only inside a transaction, and a        *)
(* transaction open only in the session of a request in progress.          *)
TypeOK ==
  /\ pc \in [Request -> {"idle", "verify", "verified", "endpoint", "body",
                         "exit", "respond", "cleanup", "done"}]
  /\ kind \in [Request -> Kinds] /\ answer \in [Request -> Answers]
  /\ ctx \in [Request -> Request \cup {None}]
  /\ pending \in [Request -> SUBSET Request]
  /\ joined \subseteq Request /\ durable \subseteq Request
  /\ pool \subseteq begun
  /\ \A s \in begun : \E r \in Request : ctx[r] = s

(* A write acknowledged with success is committed: a transaction left open *)
(* by an earlier read would be joined, then rolled back at cleanup (the    *)
(* reason given in _verify_subject for its rollback).                      *)
AcknowledgedIsDurable ==
  \A r \in Request : answer[r] = "ok" /\ kind[r] \in {"write", "refresh"}
                       => r \in durable

(* A write that was refused leaves nothing behind, and no request's writes *)
(* are committed by another: sessions are never shared.  (A 401 of refresh *)
(* is told after its commit on purpose.)                                   *)
RefusedLeavesNothing ==
  \A r \in durable : \/ answer[r] \in {"ok", "lost"}
                     \/ kind[r] = "refresh" /\ answer[r] = "unauthorized"

(* A worker never has more connections open than configured, and requests  *)
(* that are over hold none.                                                *)
PoolBounded ==
  /\ Cardinality(pool) <= Size
  /\ \A s \in pool : \E r \in Request : ctx[r] = s /\ pc[r] # "done"

(* A request that waits for a connection goes on or gives up, though slow  *)
(* clients may keep every connection of the pool.                          *)
NobodyStarves ==
  \A r \in Request : Starved(r) ~> ~Starved(r)
=============================================================================
