----------------------- MODULE ServiceLifecycleProofs -----------------------
(* Theorems about ServiceLifecycle: for any number of workers, tables,     *)
(* requests and stops, and any size of the pool.  The first part is about  *)
(* RequestScope alone: what each step of a request keeps true.             *)
EXTENDS ServiceLifecycle, FiniteSetTheorems, TLAPS

(***************************************************************************)
(* The invariant of the requests.  Nobody ever joins: whoever comes to     *)
(* Enter has no transaction open, since require_admin has rolled back its  *)
(* own.  So a transaction carries at most the writes of the request that   *)
(* opened it, and whoever returns commits what it has written.             *)
(***************************************************************************)

Labels == {"idle", "verify", "verified", "endpoint", "body", "exit",
           "respond", "cleanup", "done"}
Reading == {"get", "adminget"}
Writing == {"write", "refresh"}

Typed ==
  /\ pc \in [Request -> Labels] /\ kind \in [Request -> Kinds]
  /\ answer \in [Request -> Answers]
  /\ ctx \in [Request -> Request \cup {None}]
  /\ pending \in [Request -> SUBSET Request]
  /\ joined \subseteq Request /\ durable \subseteq Request
  /\ begun \subseteq Request

PoolInv == pool \subseteq begun /\ IsFiniteSet(pool) /\ Cardinality(pool) <= Size

(* The session of a request, and the transaction it is in. *)
SessionInv(r) ==
  /\ ctx[r] = IF pc[r] \in {"idle", "done"} THEN None ELSE r
  /\ r \in begun =>
       /\ pc[r] \in Labels \ {"idle", "verify", "done"}
       /\ pc[r] = "endpoint" => kind[r] \in Reading
  /\ pc[r] \in {"body", "exit"} => r \in begun /\ kind[r] \in Writing
  /\ r \notin joined

(* What it has written, and what it is told of it. *)
WriteInv(r) ==
  /\ pending[r] \subseteq {r}
  /\ r \in pending[r] => pc[r] \in {"body", "exit"}
  /\ pc[r] = "exit" => r \in pending[r]
  /\ pc[r] \notin {"respond", "cleanup", "done"} =>
       answer[r] = "none" /\ r \notin durable
  /\ answer[r] = "ok" /\ kind[r] \in Writing => r \in durable
  /\ r \in durable => \/ answer[r] \in {"ok", "lost"}
                      \/ kind[r] = "refresh" /\ answer[r] = "unauthorized"

ScopeInv == /\ Typed /\ PoolInv
            /\ \A r \in Request : SessionInv(r) /\ WriteInv(r)

LEMMA ScopeInit ==
  ASSUME Init
  PROVE  ScopeInv
<1>1. IsFiniteSet({}) /\ Cardinality({}) = 0
  BY FS_EmptySet
<1>2. Typed
  BY DEF Init, Typed, Labels, Answers
<1>3. PoolInv
  BY <1>1, SizeAssumption DEF Init, PoolInv
<1>4. \A r \in Request : SessionInv(r) /\ WriteInv(r)
  BY DEF Init, SessionInv, WriteInv
<1>5. QED
  BY <1>2, <1>3, <1>4 DEF ScopeInv

(* What the invariant says of the properties. *)
LEMMA ScopeImplies ==
  ASSUME ScopeInv
  PROVE  TypeOK /\ AcknowledgedIsDurable /\ RefusedLeavesNothing /\ PoolBounded
<1>1. \A s \in begun : ctx[s] = s /\ s \in Request /\ pc[s] # "done"
  BY DEF ScopeInv, Typed, SessionInv
<1>2. TypeOK
  BY <1>1 DEF ScopeInv, Typed, PoolInv, TypeOK, Labels
<1>3. AcknowledgedIsDurable /\ RefusedLeavesNothing
  BY DEF ScopeInv, Typed, WriteInv, AcknowledgedIsDurable, RefusedLeavesNothing,
         Writing
<1>4. PoolBounded
  BY <1>1 DEF ScopeInv, PoolInv, PoolBounded
<1>5. QED
  BY <1>2, <1>3, <1>4

-----------------------------------------------------------------------------
(* A step of r leaves alone what belongs to others. *)
Only(r) ==
  /\ kind' = kind
  /\ \A q \in Request \ {r} :
       /\ pc'[q] = pc[q] /\ ctx'[q] = ctx[q] /\ answer'[q] = answer[q]
       /\ pending'[q] = pending[q]
       /\ q \in begun' <=> q \in begun
       /\ q \in joined' <=> q \in joined
       /\ q \in durable' <=> q \in durable

LEMMA OthersKept ==
  ASSUME ScopeInv, NEW r \in Request, Only(r), Typed', PoolInv',
         SessionInv(r)', WriteInv(r)'
  PROVE  ScopeInv'
<1>1. ASSUME NEW q \in Request \ {r} PROVE SessionInv(q)' /\ WriteInv(q)'
  BY <1>1 DEF ScopeInv, SessionInv, WriteInv, Only
<1>2. QED
  BY <1>1 DEF ScopeInv

(* Connections are taken only while there is one, and given back. *)
LEMMA PoolExecute ==
  ASSUME PoolInv, NEW s, Execute(s)
  PROVE  PoolInv'
<1>1. CASE s \in pool
  <2>1. pool' = pool
    BY <1>1 DEF Execute
  <2>2. QED
    BY <2>1 DEF PoolInv, Execute
<1>2. CASE s \notin pool
  <2>1. /\ IsFiniteSet(pool \cup {s})
        /\ Cardinality(pool \cup {s}) = Cardinality(pool) + 1
    BY <1>2, FS_AddElement DEF PoolInv
  <2>2. Cardinality(pool) \in Nat /\ Size \in Nat
    BY FS_CardinalityType, SizeAssumption DEF PoolInv
  <2>3. QED
    BY <1>2, <2>1, <2>2 DEF PoolInv, Execute, Connected
<1>3. QED
  BY <1>1, <1>2

LEMMA PoolRelease ==
  ASSUME PoolInv, NEW s, begun' = begun \ {s}, pool' = pool \ {s}
  PROVE  PoolInv'
<1>1. IsFiniteSet(pool \ {s}) /\ Cardinality(pool \ {s}) <= Cardinality(pool)
  BY FS_Subset DEF PoolInv
<1>2. Cardinality(pool) \in Nat /\ Cardinality(pool \ {s}) \in Nat /\ Size \in Nat
  BY <1>1, FS_CardinalityType, SizeAssumption DEF PoolInv
<1>3. QED
  BY <1>1, <1>2 DEF PoolInv

-----------------------------------------------------------------------------
(* The steps of a request.  Each one has in ctx[r] the session of r.       *)

LEMMA Own ==
  ASSUME ScopeInv, NEW r \in Request, pc[r] \notin {"idle", "done"}
  PROVE  ctx[r] = r
BY DEF ScopeInv, SessionInv

LEMMA BindStep ==
  ASSUME ScopeInv, NEW r \in Request, Bind(r)
  PROVE  ScopeInv'
<1> USE DEF Bind, Goto
<1>1. Typed' /\ PoolInv'
  BY DEF ScopeInv, Typed, PoolInv, Labels
<1>2. Only(r)
  BY DEF ScopeInv, Typed, Only
<1>3. SessionInv(r)'
  BY DEF ScopeInv, Typed, SessionInv, Labels
<1>4. WriteInv(r)'
  BY DEF ScopeInv, Typed, SessionInv, WriteInv, Labels
<1>5. QED
  BY <1>1, <1>2, <1>3, <1>4, OthersKept

LEMMA VerifyStep ==
  ASSUME ScopeInv, NEW r \in Request, Verify(r)
  PROVE  ScopeInv'
<1>0. ctx[r] = r
  BY Own DEF Verify
<1>1. PoolInv'
  BY PoolExecute DEF Verify, ScopeInv
<1> USE <1>0 DEF Verify, Goto, Execute
<1>2. Typed'
  BY DEF ScopeInv, Typed, Labels
<1>3. Only(r)
  BY DEF ScopeInv, Typed, Only
<1>4. SessionInv(r)'
  BY DEF ScopeInv, Typed, SessionInv, Labels
<1>5. WriteInv(r)'
  BY DEF ScopeInv, Typed, SessionInv, WriteInv, Labels
<1>6. QED
  BY <1>1, <1>2, <1>3, <1>4, <1>5, OthersKept

(* The rollback is what makes the next Enter begin. *)
LEMMA VerifiedStep ==
  ASSUME ScopeInv, NEW r \in Request, Verified(r)
  PROVE  ScopeInv'
<1>0. ctx[r] = r
  BY Own DEF Verified
<1>1. PoolInv'
  BY PoolRelease DEF Verified, Release, ScopeInv, PoolInv
<1> USE <1>0 DEF Verified, Goto, Reply, Release, InTransaction
<1>2. Typed'
  BY DEF ScopeInv, Typed, Labels, Answers
<1>3. Only(r)
  BY DEF ScopeInv, Typed, Only
<1>4. SessionInv(r)'
  BY DEF ScopeInv, Typed, SessionInv, Labels
<1>5. WriteInv(r)'
  BY DEF ScopeInv, Typed, SessionInv, WriteInv, Labels
<1>6. QED
  BY <1>1, <1>2, <1>3, <1>4, <1>5, OthersKept

LEMMA SelectStep ==
  ASSUME ScopeInv, NEW r \in Request, Select(r)
  PROVE  ScopeInv'
<1>0. ctx[r] = r
  BY Own DEF Select
<1>1. PoolInv'
  BY PoolExecute DEF Select, ScopeInv
<1> USE <1>0 DEF Select, Goto, Reply, Execute
<1>2. Typed'
  BY DEF ScopeInv, Typed, Labels, Answers
<1>3. Only(r)
  BY DEF ScopeInv, Typed, Only
<1>4. SessionInv(r)'
  BY DEF ScopeInv, Typed, SessionInv, Labels, Reading
<1>5. WriteInv(r)'
  BY DEF ScopeInv, Typed, SessionInv, WriteInv, Labels, Writing
<1>6. QED
  BY <1>1, <1>2, <1>3, <1>4, <1>5, OthersKept

(* A writing request finds no transaction open. *)
LEMMA EnterStep ==
  ASSUME ScopeInv, NEW r \in Request, Enter(r)
  PROVE  ScopeInv'
<1>0. ctx[r] = r /\ ~InTransaction(r)
  BY Own DEF Enter, ScopeInv, SessionInv, InTransaction, Reading
<1> USE <1>0 DEF Enter, Goto
<1>1. PoolInv'
  BY DEF ScopeInv, PoolInv
<1>2. Typed'
  BY DEF ScopeInv, Typed, Labels
<1>3. Only(r)
  BY DEF ScopeInv, Typed, Only
<1>4. SessionInv(r)'
  BY DEF ScopeInv, Typed, SessionInv, Labels, Writing
<1>5. WriteInv(r)'
  BY DEF ScopeInv, Typed, SessionInv, WriteInv, Labels
<1>6. QED
  BY <1>1, <1>2, <1>3, <1>4, <1>5, OthersKept

LEMMA WriteStep ==
  ASSUME ScopeInv, NEW r \in Request, Write(r)
  PROVE  ScopeInv'
<1>0. ctx[r] = r
  BY Own DEF Write
<1>1. PoolInv'
  BY PoolExecute DEF Write, ScopeInv
<1> USE <1>0 DEF Write, Goto, Execute
<1>2. Typed'
  BY DEF ScopeInv, Typed, Labels
<1>3. Only(r)
  BY DEF ScopeInv, Typed, Only
<1>4. SessionInv(r)'
  BY DEF ScopeInv, Typed, SessionInv, Labels
<1>5. WriteInv(r)'
  BY DEF ScopeInv, Typed, SessionInv, WriteInv, Labels
<1>6. QED
  BY <1>1, <1>2, <1>3, <1>4, <1>5, OthersKept

(* What is committed is what r has written. *)
LEMMA ReturnStep ==
  ASSUME ScopeInv, NEW r \in Request, Return(r)
  PROVE  ScopeInv'
<1>0. ctx[r] = r /\ r \notin joined /\ pending[r] = {r}
  BY Own DEF Return, ScopeInv, SessionInv, WriteInv
<1>1. PoolInv'
  BY <1>0, PoolRelease DEF Return, Release, ScopeInv
<1> USE <1>0 DEF Return, Goto, Reply, Release
<1>2. Typed'
  BY DEF ScopeInv, Typed, Labels, Answers
<1>3. Only(r)
  BY DEF ScopeInv, Typed, Only
<1>4. SessionInv(r)'
  BY DEF ScopeInv, Typed, SessionInv, Labels
<1>5. WriteInv(r)'
  BY DEF ScopeInv, Typed, SessionInv, WriteInv, Labels
<1>6. QED
  BY <1>1, <1>2, <1>3, <1>4, <1>5, OthersKept

LEMMA RaiseStep ==
  ASSUME ScopeInv, NEW r \in Request, Raise(r)
  PROVE  ScopeInv'
<1>0. ctx[r] = r /\ r \notin joined
  BY Own DEF Raise, ScopeInv, SessionInv
<1>1. PoolInv'
  BY PoolRelease DEF Raise, Release, ScopeInv, PoolInv
<1> USE <1>0 DEF Raise, Goto, Reply, Release
<1>2. Typed'
  BY DEF ScopeInv, Typed, Labels, Answers
<1>3. Only(r)
  BY DEF ScopeInv, Typed, Only
<1>4. SessionInv(r)'
  BY DEF ScopeInv, Typed, SessionInv, Labels
<1>5. WriteInv(r)'
  BY DEF ScopeInv, Typed, SessionInv, WriteInv, Labels
<1>6. QED
  BY <1>1, <1>2, <1>3, <1>4, <1>5, OthersKept

LEMMA RespondStep ==
  ASSUME ScopeInv, NEW r \in Request, Respond(r)
  PROVE  ScopeInv'
<1> USE DEF Respond, Goto, scope
<1>1. Typed' /\ PoolInv'
  BY DEF ScopeInv, Typed, PoolInv, Labels
<1>2. Only(r)
  BY DEF ScopeInv, Typed, Only
<1>3. SessionInv(r)' /\ WriteInv(r)'
  BY DEF ScopeInv, Typed, SessionInv, WriteInv, Labels
<1>4. QED
  BY <1>1, <1>2, <1>3, OthersKept

LEMMA CleanupStep ==
  ASSUME ScopeInv, NEW r \in Request, Cleanup(r)
  PROVE  ScopeInv'
<1>0. ctx[r] = r
  BY Own DEF Cleanup
<1>1. PoolInv'
  BY PoolRelease DEF Cleanup, Release, ScopeInv
<1> USE <1>0 DEF Cleanup, Goto, Release
<1>2. Typed'
  BY DEF ScopeInv, Typed, Labels
<1>3. Only(r)
  BY DEF ScopeInv, Typed, Only
<1>4. SessionInv(r)'
  BY DEF ScopeInv, Typed, SessionInv, Labels
<1>5. WriteInv(r)'
  BY DEF ScopeInv, Typed, SessionInv, WriteInv, Labels
<1>6. QED
  BY <1>1, <1>2, <1>3, <1>4, <1>5, OthersKept

LEMMA ScopeStep ==
  ASSUME ScopeInv, [Next]_vars
  PROVE  ScopeInv'
<1>1. ASSUME NEW r \in Request, Serve(r) PROVE ScopeInv'
  BY <1>1, BindStep, VerifyStep, VerifiedStep, SelectStep, EnterStep, WriteStep,
     ReturnStep, CleanupStep DEF Serve
<1>2. ASSUME NEW r \in Request, Respond(r) \/ Raise(r) \/ PoolTimeout(r)
      PROVE  ScopeInv'
  BY <1>2, RespondStep, RaiseStep DEF PoolTimeout
<1>3. CASE UNCHANGED vars
  BY <1>3 DEF vars, scope, ScopeInv, Typed, PoolInv, SessionInv, WriteInv
<1>4. QED
  BY <1>1, <1>2, <1>3 DEF Next

-----------------------------------------------------------------------------
(* The service: requests, bootstrap and stops *)

(***************************************************************************)
(* The inductive invariant: ScopeInv of RequestScope for the requests, and *)
(* what a booting worker knows of the schema.                              *)
(***************************************************************************)

LifeTyped ==
  /\ schema \subseteq Table /\ phase \in [Worker -> Phases]
  /\ next \in [Worker -> 1..Tables + 1] /\ stops \in 0..MaxStops
  /\ missing \in [Worker -> SUBSET Table]
  /\ created \in [Worker -> SUBSET Table]

(* A worker has looked at the tables before next; what it will not create  *)
(* is there.  A table that is there is there for good.                     *)
BootInv(w) ==
  /\ created[w] \cap schema = {}
  /\ phase[w] \notin {"check", "create"} =>
       missing[w] = {} /\ created[w] = {} /\ next[w] = 1
  /\ phase[w] = "check" =>
       /\ next[w] <= Tables /\ created[w] = {}
       /\ \A t \in 1..Tables : t < next[w] => t \in schema \cup missing[w]
  /\ phase[w] = "create" => Table \subseteq schema \cup missing[w] \cup created[w]
  /\ phase[w] = "serving" => Table \subseteq schema

(* Nobody creates a table that another transaction has created. *)
Apart == \A v, w \in Worker : v # w => created[v] \cap created[w] = {}

(* A worker that does not run has no request. *)
Quiet == phase[Me] \in {"down", "check", "create"} => InProgress = {}

SchemaInv == LifeTyped /\ Apart /\ \A w \in Worker : BootInv(w)
LifeInv   == ScopeInv /\ SchemaInv /\ Quiet

LEMMA LifeImplies ==
  ASSUME LifeInv
  PROVE  LifeTypeOK /\ ServingHasSchema
<1>1. LifeTypeOK
  BY ScopeImplies DEF LifeInv, SchemaInv, LifeTyped, BootInv, Quiet, LifeTypeOK
<1>2. ServingHasSchema
  BY DEF LifeInv, SchemaInv, LifeTyped, BootInv, ServingHasSchema
<1>3. QED
  BY <1>1, <1>2

LEMMA LifeInitInv ==
  ASSUME LifeInit
  PROVE  LifeInv
<1>1. ScopeInv
  BY ScopeInit DEF LifeInit
<1>2. SchemaInv
  <2>1. LifeTyped
    BY TablesAssumption, StopsAssumption DEF LifeInit, LifeTyped, Table, Phases
  <2>2. Apart /\ \A w \in Worker : BootInv(w)
    BY DEF LifeInit, Apart, BootInv
  <2>3. QED
    BY <2>1, <2>2 DEF SchemaInv
<1>3. Quiet
  BY DEF LifeInit, Init, Quiet, InProgress
<1>4. QED
  BY <1>1, <1>2, <1>3 DEF LifeInv

-----------------------------------------------------------------------------
(* Booting. *)

(* A step of one worker that leaves the schema, and what the others have   *)
(* created, as they are.                                                   *)
Alone(w) ==
  /\ schema' = schema
  /\ \A v \in Worker \ {w} :
       /\ phase'[v] = phase[v] /\ next'[v] = next[v]
       /\ missing'[v] = missing[v] /\ created'[v] = created[v]

LEMMA OthersBoot ==
  ASSUME SchemaInv, NEW w \in Worker, Alone(w), LifeTyped', BootInv(w)',
         \A v \in Worker \ {w} : created[v] \cap created'[w] = {}
  PROVE  SchemaInv'
<1>1. \A v \in Worker \ {w} : BootInv(v)'
  BY DEF SchemaInv, BootInv, Alone
<1>2. Apart'
  BY DEF SchemaInv, Apart, Alone
<1>3. QED
  BY <1>1, <1>2 DEF SchemaInv

LEMMA StartStep ==
  ASSUME SchemaInv, NEW w \in Worker, Start(w)
  PROVE  SchemaInv'
<1> USE DEF Start, Enters
<1>1. LifeTyped' /\ Alone(w)
  BY DEF SchemaInv, LifeTyped, Alone, Phases
<1>2. BootInv(w)'
  BY TablesAssumption DEF SchemaInv, LifeTyped, BootInv
<1>3. \A v \in Worker \ {w} : created[v] \cap created'[w] = {}
  BY DEF SchemaInv, Apart
<1>4. QED
  BY <1>1, <1>2, <1>3, OthersBoot

LEMMA CheckTableStep ==
  ASSUME SchemaInv, NEW w \in Worker, CheckTable(w)
  PROVE  SchemaInv'
<1> USE DEF CheckTable, Enters
<1>1. /\ next[w] \in 1..Tables /\ Tables \in Nat /\ created'[w] = created[w]
      /\ missing'[w] = missing[w] \cup ({next[w]} \ schema)
      /\ next'[w] = next[w] + 1
      /\ phase'[w] = IF next[w] = Tables THEN "create" ELSE "check"
  BY TablesAssumption DEF SchemaInv, LifeTyped, BootInv
<1>2. LifeTyped'
  BY <1>1 DEF SchemaInv, LifeTyped, Table, Phases
<1>3. Alone(w)
  BY DEF SchemaInv, LifeTyped, Alone
<1>4. BootInv(w)'
  <2>1. \A t \in 1..Tables : t < next'[w] => t \in schema \cup missing'[w]
    BY <1>1 DEF SchemaInv, BootInv
  <2>2. CASE next[w] = Tables
    BY <1>1, <2>1, <2>2 DEF SchemaInv, BootInv, Table
  <2>3. CASE next[w] # Tables
    BY <1>1, <2>1, <2>3 DEF SchemaInv, BootInv
  <2>4. QED
    BY <2>2, <2>3
<1>5. \A v \in Worker \ {w} : created[v] \cap created'[w] = {}
  BY <1>1 DEF SchemaInv, Apart
<1>6. QED
  BY <1>2, <1>3, <1>4, <1>5, OthersBoot

LEMMA QuitStep ==
  ASSUME SchemaInv, NEW w \in Worker, Quit(w), schema' = schema,
         stops' \in 0..MaxStops
  PROVE  SchemaInv'
<1> USE DEF Quit, Enters
<1>1. LifeTyped' /\ Alone(w)
  BY TablesAssumption DEF SchemaInv, LifeTyped, Alone, Phases
<1>2. BootInv(w)' /\ \A v \in Worker \ {w} : created[v] \cap created'[w] = {}
  BY DEF SchemaInv, LifeTyped, BootInv
<1>3. QED
  BY <1>1, <1>2, OthersBoot

LEMMA CreateTableStep ==
  ASSUME SchemaInv, NEW w \in Worker, CreateTable(w)
  PROVE  SchemaInv'
<1>1. PICK t \in missing[w] :
        /\ \A v \in Worker \ {w} : t \notin created[v]
        /\ IF t \in schema
           THEN Quit(w)
           ELSE /\ missing' = [missing EXCEPT ![w] = @ \ {t}]
                /\ created' = [created EXCEPT ![w] = @ \cup {t}]
                /\ UNCHANGED <<phase, next>>
  BY DEF CreateTable
<1>2. phase[w] = "create" /\ UNCHANGED <<schema, stops>> /\ stops \in 0..MaxStops
  BY DEF CreateTable, SchemaInv, LifeTyped
<1>3. CASE t \in schema
  BY <1>1, <1>2, <1>3, QuitStep
<1>4. CASE t \notin schema
  <2>1. /\ missing'[w] = missing[w] \ {t} /\ created'[w] = created[w] \cup {t}
        /\ t \in Table
    BY <1>1, <1>4 DEF SchemaInv, LifeTyped
  <2>2. LifeTyped' /\ Alone(w)
    BY <1>1, <1>2, <1>4, <2>1 DEF SchemaInv, LifeTyped, Alone
  <2>3. BootInv(w)'
    BY <1>1, <1>2, <1>4, <2>1 DEF SchemaInv, BootInv
  <2>4. \A v \in Worker \ {w} : created[v] \cap created'[w] = {}
    BY <1>1, <2>1 DEF SchemaInv, Apart
  <2>5. QED
    BY <2>2, <2>3, <2>4, OthersBoot
<1>5. QED
  BY <1>3, <1>4

(* The commit takes nothing from what others are about to commit. *)
LEMMA ReadyStep ==
  ASSUME SchemaInv, NEW w \in Worker, Ready(w)
  PROVE  SchemaInv'
<1> USE DEF Ready, Enters
<1>1. LifeTyped'
  BY TablesAssumption DEF SchemaInv, LifeTyped, Phases
<1>2. BootInv(w)'
  BY DEF SchemaInv, LifeTyped, BootInv
<1>3. ASSUME NEW v \in Worker \ {w} PROVE BootInv(v)'
  <2>1. /\ phase'[v] = phase[v] /\ next'[v] = next[v] /\ created'[v] = created[v]
        /\ missing' = missing /\ schema' = schema \cup created[w]
        /\ created[v] \cap created[w] = {}
    BY DEF SchemaInv, LifeTyped, Apart
  <2>2. QED
    BY <2>1 DEF SchemaInv, BootInv
<1>4. Apart'
  BY DEF SchemaInv, LifeTyped, Apart
<1>5. QED
  BY <1>1, <1>2, <1>3, <1>4 DEF SchemaInv

LEMMA BootStep ==
  ASSUME LifeInv, NEW w \in Worker, Boot(w)
  PROVE  LifeInv'
<1>1. SchemaInv'
  BY StartStep, CheckTableStep, CreateTableStep, ReadyStep DEF Boot, LifeInv
<1>2. UNCHANGED vars
  BY DEF Boot, Start, CheckTable, CreateTable, Ready
<1>3. ScopeInv'
  BY <1>2, ScopeStep DEF LifeInv
<1>4. phase[w] \in {"down", "check", "create"}
  BY DEF Boot, Start, CheckTable, CreateTable, Ready
<1>5. phase'[Me] \in {"down", "check", "create"} =>
        phase[Me] \in {"down", "check", "create"}
  BY <1>4, WorkerAssumption
     DEF Boot, Start, CheckTable, CreateTable, Ready, Enters, Quit,
         LifeInv, SchemaInv, LifeTyped
<1>6. Quiet'
  BY <1>2, <1>5 DEF LifeInv, Quiet, InProgress, vars
<1>7. QED
  BY <1>1, <1>3, <1>6 DEF LifeInv

-----------------------------------------------------------------------------
(* Serving and stopping. *)

(* Where only the phase of a worker that runs changes. *)
LEMMA PhaseStep ==
  ASSUME LifeInv, NEW p \in Phases \ {"check", "create", "serving"},
         phase[Me] \notin {"check", "create"},
         phase' = [phase EXCEPT ![Me] = p],
         UNCHANGED <<schema, next, missing, created>>, stops' \in 0..MaxStops
  PROVE  SchemaInv'
<1> USE WorkerAssumption DEF LifeInv, SchemaInv
<1>1. LifeTyped' /\ Alone(Me)
  BY DEF LifeTyped, Alone
<1>2. BootInv(Me)' /\ \A v \in Worker \ {Me} : created[v] \cap created'[Me] = {}
  BY DEF LifeTyped, BootInv, Apart
<1>3. QED
  BY <1>1, <1>2, OthersBoot

LEMMA SigtermStep ==
  ASSUME LifeInv, Sigterm
  PROVE  LifeInv'
<1>1. SchemaInv'
  <2>1. stops' \in 0..MaxStops /\ phase[Me] = "serving"
    BY StopsAssumption DEF Sigterm, LifeInv, SchemaInv, LifeTyped
  <2>2. QED
    BY <2>1, PhaseStep DEF Sigterm, Enters, Phases
<1>2. UNCHANGED vars
  BY DEF Sigterm
<1>3. ScopeInv'
  BY <1>2, ScopeStep DEF LifeInv
<1>4. Quiet'
  BY WorkerAssumption DEF Sigterm, Enters, Quiet, LifeInv, SchemaInv, LifeTyped
<1>5. QED
  BY <1>1, <1>3, <1>4 DEF LifeInv

LEMMA ShutdownStep ==
  ASSUME LifeInv, Shutdown
  PROVE  LifeInv'
<1>1. /\ UNCHANGED <<schema, next, missing, created, stops, vars>>
      /\ phase[Me] \in {"draining", "cancelling", "disposed"}
  BY DEF Shutdown, GraceTimeout, Dispose, Exit
<1>2. PICK p \in {"cancelling", "disposed", "down"} :
        Enters(Me, p) /\ (p = "down" => InProgress = {})
  BY DEF Shutdown, GraceTimeout, Dispose, Exit
<1>3. SchemaInv'
  BY <1>1, <1>2, PhaseStep DEF Enters, Phases, LifeInv, SchemaInv, LifeTyped
<1>4. ScopeInv'
  BY <1>1, ScopeStep DEF LifeInv
<1>5. Quiet'
  BY <1>1, <1>2, WorkerAssumption
     DEF Enters, Quiet, InProgress, vars, LifeInv, SchemaInv, LifeTyped
<1>6. QED
  BY <1>3, <1>4, <1>5 DEF LifeInv

(* While a worker serves or stops, its requests may be anywhere. *)
LEMMA Serving ==
  ASSUME LifeInv, ScopeInv', UNCHANGED life,
         phase[Me] \notin {"down", "check", "create"}
  PROVE  LifeInv'
<1>1. SchemaInv'
  BY DEF LifeInv, SchemaInv, LifeTyped, Apart, BootInv, life
<1>2. Quiet'
  BY DEF Quiet, life
<1>3. QED
  BY <1>1, <1>2 DEF LifeInv

LEMMA ServesStep ==
  ASSUME LifeInv, NEW r \in Request,
         \/ Serves(r, Serve(r)) \/ Serves(r, Respond(r))
         \/ Serves(r, Raise(r)) \/ Serves(r, PoolTimeout(r))
  PROVE  LifeInv'
<1>1. ScopeInv'
  BY ScopeStep DEF Serves, Next, LifeInv
<1>2. QED
  BY <1>1, Serving DEF Serves

(* A cancelled request writes nothing, unless its COMMIT was on its way:   *)
(* then it had written, and its client does not know.                      *)
LEMMA CancelledStep ==
  ASSUME LifeInv, NEW r \in Request, Cancelled(r)
  PROVE  LifeInv'
<1>0. /\ ScopeInv /\ ctx[r] = r /\ r \notin joined
      /\ pc[r] = "exit" => pending[r] = {r}
  BY DEF Cancelled, InProgress, LifeInv, ScopeInv, SessionInv, WriteInv
<1>1. PoolInv'
  BY <1>0, PoolRelease DEF Cancelled, Release, ScopeInv, PoolInv
<1> USE <1>0 DEF Cancelled, InProgress, Goto, Reply, Release
<1>2. Typed'
  BY DEF ScopeInv, Typed, Labels, Answers
<1>3. Only(r)
  BY DEF ScopeInv, Typed, Only
<1>4. SessionInv(r)'
  BY DEF ScopeInv, Typed, SessionInv, Labels
<1>5. WriteInv(r)'
  BY DEF ScopeInv, Typed, SessionInv, WriteInv, Labels
<1>6. ScopeInv'
  BY <1>1, <1>2, <1>3, <1>4, <1>5, OthersKept
<1>7. QED
  BY <1>6, Serving

LEMMA EndsStep ==
  ASSUME LifeInv, NEW r \in Request, Ends(r)
  PROVE  LifeInv'
<1>1. ASSUME CancelledCleanup(r) PROVE LifeInv'
  BY <1>1, CleanupStep, Serving DEF CancelledCleanup, LifeInv
<1>2. QED
  BY <1>1, CancelledStep DEF Ends

(* A kill ends every request at once; those whose COMMIT was sent may have *)
(* written what they had to write, and no other.                           *)
LEMMA KilledScope ==
  ASSUME LifeInv, Kill(Me)
  PROVE  ScopeInv'
<1>1. PICK sent \in SUBSET {r \in InProgress \ joined : pc[r] = "exit"} :
        durable' = durable \cup UNION {pending[ctx[r]] : r \in sent}
  BY DEF Kill
<1>2. /\ answer' = [r \in Request |->
           IF r \in InProgress /\ pc[r] # "cleanup" THEN "lost" ELSE answer[r]]
      /\ pc' = [r \in Request |-> IF r \in InProgress THEN "done" ELSE pc[r]]
      /\ ctx' = [r \in Request |-> None]
      /\ begun' = {} /\ pool' = {} /\ pending' = [s \in Request |-> {}]
      /\ UNCHANGED <<kind, joined>>
  BY DEF Kill
<1>3. ScopeInv
  BY DEF LifeInv
<1>4. \A r \in sent : /\ r \in Request /\ pc[r] = "exit" /\ kind[r] \in Writing
                      /\ pending[ctx[r]] = {r}
  BY <1>3 DEF InProgress, ScopeInv, SessionInv, WriteInv
<1>5. durable' = durable \cup sent
  BY <1>1, <1>4
<1>6. IsFiniteSet({}) /\ Cardinality({}) = 0
  BY FS_EmptySet
<1>7. PoolInv'
  BY <1>2, <1>6, SizeAssumption DEF PoolInv
<1>8. Typed'
  BY <1>2, <1>3, <1>4, <1>5 DEF ScopeInv, Typed, Labels, Answers
<1>9. ASSUME NEW r \in Request PROVE SessionInv(r)' /\ WriteInv(r)'
  <2>1. pc'[r] \in {"idle", "done"} /\ ctx'[r] = None /\ pending'[r] = {}
    BY <1>2 DEF InProgress
  <2>2. SessionInv(r)'
    BY <1>2, <1>3, <2>1 DEF ScopeInv, SessionInv
  <2>3. /\ answer'[r] = IF r \in InProgress /\ pc[r] # "cleanup"
                        THEN "lost" ELSE answer[r]
        /\ r \in durable' => r \in durable \/ pc[r] = "exit"
        /\ r \in durable => r \in durable'
        /\ kind'[r] = kind[r]
    BY <1>2, <1>4, <1>5
  <2>4. /\ pc'[r] = IF r \in InProgress THEN "done" ELSE pc[r]
        /\ pc[r] = "exit" => r \in InProgress
        /\ pc[r] = "idle" => r \notin InProgress
    BY <1>2 DEF InProgress
  <2>5. WriteInv(r)
    BY <1>3 DEF ScopeInv
  <2>6. pc'[r] = "idle" => pc[r] = "idle"
    BY <2>4
  <2>7. WriteInv(r)'
    BY <2>1, <2>3, <2>4, <2>5, <2>6 DEF WriteInv
  <2>8. QED
    BY <2>2, <2>7
<1>10. QED
  BY <1>7, <1>8, <1>9 DEF ScopeInv

LEMMA KillStep ==
  ASSUME LifeInv, NEW w \in Worker, Kill(w)
  PROVE  LifeInv'
<1>1. SchemaInv'
  <2>1. stops' \in 0..MaxStops
    BY StopsAssumption DEF Kill, LifeInv, SchemaInv, LifeTyped
  <2>2. QED
    BY <2>1, QuitStep DEF Kill, LifeInv
<1>2. CASE w = Me
  <2>1. ScopeInv'
    BY <1>2, KilledScope
  <2>2. Quiet'
    BY <1>2 DEF Kill, Quiet, InProgress
  <2>3. QED
    BY <1>1, <2>1, <2>2 DEF LifeInv
<1>3. CASE w # Me
  <2>1. UNCHANGED vars /\ phase'[Me] = phase[Me]
    BY <1>3, WorkerAssumption DEF Kill, Quit, Enters, LifeInv, SchemaInv, LifeTyped
  <2>2. ScopeInv' /\ Quiet'
    BY <2>1, ScopeStep DEF LifeInv, Quiet, InProgress, vars
  <2>3. QED
    BY <1>1, <2>2 DEF LifeInv
<1>4. QED
  BY <1>2, <1>3

-----------------------------------------------------------------------------
LEMMA LifeStep ==
  ASSUME LifeInv, [LifeNext]_allvars
  PROVE  LifeInv'
<1>1. ASSUME NEW w \in Worker, Boot(w) \/ Kill(w) PROVE LifeInv'
  BY <1>1, BootStep, KillStep
<1>2. CASE Sigterm \/ Shutdown
  BY <1>2, SigtermStep, ShutdownStep
<1>3. ASSUME NEW r \in Request,
             \/ Serves(r, Serve(r)) \/ Serves(r, Respond(r))
             \/ Serves(r, Raise(r)) \/ Serves(r, PoolTimeout(r))
             \/ Ends(r)
      PROVE  LifeInv'
  BY <1>3, ServesStep, EndsStep
<1>4. CASE UNCHANGED allvars
  <2>1. ScopeInv'
    BY <1>4, ScopeStep DEF allvars, LifeInv
  <2>2. SchemaInv' /\ Quiet'
    BY <1>4 DEF allvars, life, vars, LifeInv, SchemaInv, LifeTyped, Apart, BootInv,
                Quiet, InProgress
  <2>3. QED
    BY <2>1, <2>2 DEF LifeInv
<1>5. QED
  BY <1>1, <1>2, <1>3, <1>4 DEF LifeNext

(* The strengthened invariant holds, of a service that is started, stopped *)
(* and killed at any time.                                                 *)
THEOREM LifeInvariance == LifeSpec => []LifeInv
BY LifeInitInv, LifeStep, PTL DEF LifeSpec

(* Types: a worker that is down or boots has no request, and what it is    *)
(* creating is not there yet.                                              *)
THEOREM LifeTypeCorrect == LifeSpec => []LifeTypeOK
<1>1. LifeInv => LifeTypeOK
  BY LifeImplies
<1>2. QED
  BY <1>1, LifeInvariance, PTL

(* A worker serves only over all its tables, however many create them. *)
THEOREM SchemaBeforeServing == LifeSpec => []ServingHasSchema
<1>1. LifeInv => ServingHasSchema
  BY LifeImplies
<1>2. QED
  BY <1>1, LifeInvariance, PTL

(* A write that was acknowledged is committed. *)
THEOREM Acknowledged == LifeSpec => []AcknowledgedIsDurable
<1>1. LifeInv => AcknowledgedIsDurable
  BY ScopeImplies DEF LifeInv
<1>2. QED
  BY <1>1, LifeInvariance, PTL

(* A write that was refused is not, through kills and cancellations too. *)
THEOREM Refused == LifeSpec => []RefusedLeavesNothing
<1>1. LifeInv => RefusedLeavesNothing
  BY ScopeImplies DEF LifeInv
<1>2. QED
  BY <1>1, LifeInvariance, PTL

(* The pool is never overdrawn, and no request that is over holds a part   *)
(* of it.                                                                  *)
THEOREM NoLeak == LifeSpec => []PoolBounded
<1>1. LifeInv => PoolBounded
  BY ScopeImplies DEF LifeInv
<1>2. QED
  BY <1>1, LifeInvariance, PTL
=============================================================================
