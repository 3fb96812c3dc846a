-------------------------- MODULE ServiceLifecycle --------------------------
(***************************************************************************)
(* The life of the worker processes around RequestScope: lifespan creates  *)
(* the missing tables before a worker serves, and disposes the engine when *)
(* it stops; uvicorn stops accepting requests at SIGTERM, waits for those  *)
(* in progress for GRACEFUL_SHUTDOWN_SECONDS, and cancels what is left; a  *)
(* worker may be killed at any time.  A worker that is down is started     *)
(* again.  All workers create tables in one database; the requests of      *)
(* RequestScope are those of the worker Me, and only its orderly stop is   *)
(* modelled: that of another worker changes nothing they share.            *)
(***************************************************************************)
EXTENDS RequestScope

CONSTANTS
  Worker, Me,  \* processes, on any pod; the one whose requests are modelled
  Tables,      \* how many tables Base.metadata has
  MaxStops     \* bound on the stops and kills

ASSUME WorkerAssumption == Me \in Worker
ASSUME TablesAssumption == Tables \in Nat \ {0}
ASSUME StopsAssumption  == MaxStops \in Nat

VARIABLES
  schema,    \* tables that are committed, each a number in creation order
  phase,     \* where each worker is
  next,      \* the next table a booting worker looks at
  missing,   \* tables it has found missing and not created yet
  created,   \* tables its transaction has created
  stops      \* stops and kills so far

life    == <<schema, phase, next, missing, created, stops>>
allvars == <<vars, life>>

Table  == 1..Tables
Phases == {"down", "check", "create",
           "serving", "draining", "cancelling", "disposed"}

(* A database is new, or older than the last tables of the code. *)
LifeInit ==
  /\ Init
  /\ schema \in {1..n : n \in 0..Tables}
  /\ phase = [w \in Worker |-> "down"]
  /\ next = [w \in Worker |-> 1]
  /\ missing = [w \in Worker |-> {}] /\ created = [w \in Worker |-> {}]
  /\ stops = 0

Enters(w, p) == phase' = [phase EXCEPT ![w] = p]

-----------------------------------------------------------------------------
(* lifespan, until the yield *)

(* init_engines, and the transaction of init_tables. *)
Start(w) ==
  /\ phase[w] = "down"
  /\ Enters(w, "check")
  /\ UNCHANGED <<schema, next, missing, created, stops, vars>>

(* Mutants of CheckTable: every table is looked for as the first one; none *)
(* is looked for at all.                                                   *)
CheckTableFirst(w) ==
  /\ phase[w] = "check"
  /\ missing' = [missing EXCEPT ![w] = IF 1 \in schema THEN {} ELSE Table]
  /\ Enters(w, "create")
  /\ UNCHANGED <<schema, next, created, stops, vars>>
CheckTableNever(w) ==
  /\ phase[w] = "check"
  /\ missing' = [missing EXCEPT ![w] = Table]
  /\ Enters(w, "create")
  /\ UNCHANGED <<schema, next, created, stops, vars>>

(* create_all looks for every table first, one query each. *)
CheckTable(w) ==
  /\ phase[w] = "check"
  /\ missing' = [missing EXCEPT ![w] = @ \cup ({next[w]} \ schema)]
  /\ next' = [next EXCEPT ![w] = @ + 1]
  /\ IF next[w] = Tables THEN Enters(w, "create") ELSE UNCHANGED phase
  /\ UNCHANGED <<schema, created, stops, vars>>

(* Nothing of its transaction stays. *)
Quit(w) ==
  /\ Enters(w, "down")
  /\ next' = [next EXCEPT ![w] = 1]
  /\ missing' = [missing EXCEPT ![w] = {}]
  /\ created' = [created EXCEPT ![w] = {}]

(* Then it creates what was missing, in order.  It waits for a transaction *)
(* that has created the same table; if that one commits, this one fails,   *)
(* and with it the start of the worker.                                    *)
CreateTable(w) ==
  /\ phase[w] = "create"
  /\ \E t \in missing[w] :
       /\ \A u \in missing[w] : t <= u
       /\ \A v \in Worker \ {w} : t \notin created[v]
       /\ IF t \in schema
          THEN Quit(w)
          ELSE /\ missing' = [missing EXCEPT ![w] = @ \ {t}]
               /\ created' = [created EXCEPT ![w] = @ \cup {t}]
               /\ UNCHANGED <<phase, next>>
  /\ UNCHANGED <<schema, stops, vars>>

(* COMMIT, and the worker accepts requests. *)
Ready(w) ==
  /\ phase[w] = "create" /\ missing[w] = {}
  /\ schema' = schema \cup created[w]
  /\ created' = [created EXCEPT ![w] = {}]
  /\ next' = [next EXCEPT ![w] = 1]
  /\ Enters(w, "serving")
  /\ UNCHANGED <<missing, stops, vars>>

Boot(w) == Start(w) \/ CheckTable(w) \/ CreateTable(w) \/ Ready(w)

-----------------------------------------------------------------------------
(* Serving and stopping *)

InProgress == {r \in Request : pc[r] \notin {"idle", "done"}}

(* Requests are served while the worker drains, but none is accepted. *)
Serves(r, action) ==
  /\ phase[Me] \in {"serving", "draining"}
  /\ pc[r] = "idle" => phase[Me] = "serving"
  /\ action
  /\ UNCHANGED life

Sigterm ==
  /\ phase[Me] = "serving" /\ stops < MaxStops
  /\ stops' = stops + 1
  /\ Enters(Me, "draining")
  /\ UNCHANGED <<schema, next, missing, created, vars>>

(* Mutant of GraceTimeout: timeout_graceful_shutdown is not set. *)
GraceTimeoutNever == FALSE /\ UNCHANGED allvars

(* timeout_graceful_shutdown: every task is cancelled. *)
GraceTimeout ==
  /\ phase[Me] = "draining" /\ InProgress # {}
  /\ Enters(Me, "cancelling")
  /\ UNCHANGED <<schema, next, missing, created, stops, vars>>

(* Mutant of Cancelled: the commit of what was written is not undone by a  *)
(* cancellation, and its client is told so.                                *)
CancelledCommits(r) ==
  /\ phase[Me] \in {"cancelling", "disposed"}
  /\ r \in InProgress /\ pc[r] # "cleanup"
  /\ IF pc[r] \in {"body", "exit"} /\ r \notin joined
     THEN Release(ctx[r]) /\ durable' = durable \cup pending[ctx[r]]
     ELSE UNCHANGED <<begun, pool, pending, durable>>
  /\ Reply(r, "error") /\ Goto(r, "cleanup")
  /\ UNCHANGED <<kind, ctx, joined, life>>

(* A task learns of it where it waits: it executes nothing more, and its   *)
(* transaction is rolled back, unless a COMMIT has already been sent.      *)
Cancelled(r) ==
  /\ phase[Me] \in {"cancelling", "disposed"}
  /\ r \in InProgress /\ pc[r] # "cleanup"
  /\ IF pc[r] \in {"body", "exit"} /\ r \notin joined
     THEN /\ Release(ctx[r])
          /\ \/ UNCHANGED durable
             \/ pc[r] = "exit" /\ durable' = durable \cup pending[ctx[r]]
     ELSE UNCHANGED <<begun, pool, pending, durable>>
  /\ Reply(r, "lost") /\ Goto(r, "cleanup")
  /\ UNCHANGED <<kind, ctx, joined, life>>

(* The middleware's finally of such a task. *)
CancelledCleanup(r) ==
  /\ phase[Me] \in {"cancelling", "disposed"}
  /\ Cleanup(r)
  /\ UNCHANGED life

(* lifespan, after the yield: dispose_engines.  uvicorn does not wait for  *)
(* the tasks it has cancelled.                                             *)
Dispose ==
  /\ \/ phase[Me] = "draining" /\ InProgress = {}
     \/ phase[Me] = "cancelling"
  /\ Enters(Me, "disposed")
  /\ UNCHANGED <<schema, next, missing, created, stops, vars>>

(* The event loop ends when its tasks have. *)
Exit ==
  /\ phase[Me] = "disposed" /\ InProgress = {}
  /\ Enters(Me, "down")
  /\ UNCHANGED <<schema, next, missing, created, stops, vars>>

(* SIGKILL or a crash: the server rolls back what was not committed; what  *)
(* a client has not read, it never gets.                                   *)
Kill(w) ==
  /\ phase[w] # "down" /\ stops < MaxStops
  /\ stops' = stops + 1
  /\ Quit(w)
  /\ IF w # Me THEN UNCHANGED vars
     ELSE /\ \E sent \in SUBSET {r \in InProgress \ joined : pc[r] = "exit"} :
               durable' = durable \cup UNION {pending[ctx[r]] : r \in sent}
          /\ answer' = [r \in Request |->
               IF r \in InProgress /\ pc[r] # "cleanup" THEN "lost"
                                                        ELSE answer[r]]
          /\ pc' = [r \in Request |->
               IF r \in InProgress THEN "done" ELSE pc[r]]
          /\ ctx' = [r \in Request |-> None]
          /\ begun' = {} /\ pool' = {} /\ pending' = [s \in Request |-> {}]
          /\ UNCHANGED <<kind, joined>>
  /\ UNCHANGED schema

-----------------------------------------------------------------------------
Shutdown == GraceTimeout \/ Dispose \/ Exit
Ends(r)  == Cancelled(r) \/ CancelledCleanup(r)

LifeNext ==
  \/ \E w \in Worker : Boot(w) \/ Kill(w)
  \/ Sigterm \/ Shutdown
  \/ \E r \in Request :
       \/ Serves(r, Serve(r)) \/ Serves(r, Respond(r))
       \/ Serves(r, Raise(r)) \/ Serves(r, PoolTimeout(r))
       \/ Ends(r)

(* Kubernetes and uvicorn start what is down; what a worker does on its    *)
(* own happens.  No client has to read, and nobody has to stop a worker.   *)
LifeSpec ==
  /\ LifeInit /\ [][LifeNext]_allvars
  /\ \A w \in Worker : WF_allvars(Boot(w))
  /\ WF_allvars(Shutdown)
  /\ \A r \in Request :
       /\ WF_allvars(Serves(r, Serve(r))) /\ WF_allvars(Serves(r, PoolTimeout(r)))
       /\ WF_allvars(Ends(r))

-----------------------------------------------------------------------------
(* Types: and a worker that is down or still boots has no request.        *)
LifeTypeOK ==
  /\ TypeOK
  /\ schema \subseteq Table /\ phase \in [Worker -> Phases]
  /\ next \in [Worker -> 1..Tables + 1] /\ stops \in 0..MaxStops
  /\ \A w \in Worker :
       /\ missing[w] \subseteq Table /\ created[w] \subseteq Table \ schema
       /\ missing[w] \cup created[w] # {} => phase[w] \in {"check", "create"}
  /\ phase[Me] \in {"down", "check", "create"} => InProgress = {}

(* A worker serves only over all its tables, though several create them at *)
(* once, over an old schema, and die on the way (init_tables).             *)
ServingHasSchema ==
  \A w \in Worker : phase[w] = "serving" => schema = Table

(* Every worker comes up: one that lost the race to create a table starts  *)
(* again and finds it.                                                     *)
WorkersComeUp == \A w \in Worker : phase[w] = "down" ~> phase[w] = "serving"

(* A worker told to stop disposes its engine and ends, though clients may  *)
(* never read their responses (GRACEFUL_SHUTDOWN_SECONDS).                 *)
DrainEnds == phase[Me] = "draining" ~> phase[Me] = "down"
=============================================================================
