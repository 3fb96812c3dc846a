------------------------- MODULE ContentStoreProofs -------------------------
(* Theorems about ContentStore, for any requests, keys and contents. *)
EXTENDS ContentStore, TLAPS

(***************************************************************************)
(* The inductive invariant.  That a PUT answers with its own write rests   *)
(* on the row lock: from Upsert to Commit its row has no other writer.     *)
(***************************************************************************)

Labels == {"start", "upsert", "read", "commit", "done"}

Typed ==
  /\ asks \in [Request -> Asks]
  /\ rows \in [Key -> Storable \cup {None}]
  /\ pc \in [Request -> Labels]
  /\ answer \in [Request -> Body \cup {None, "none", "error"}]
  /\ written \in [Request -> Storable \cup {None}]
  /\ seen \in [Request -> Storable \cup {None}]

(* What a request has done so far. *)
Progress(r) ==
  /\ pc[r] # "done" => answer[r] = "none"
  /\ pc[r] \in {"upsert", "read", "commit"} => Valid(asks[r]) /\ asks[r].op = "put"
  /\ written[r] = IF pc[r] \in {"read", "commit"} THEN asks[r].body ELSE None
  /\ pc[r] = "commit" => seen[r] = asks[r].body

(* A row has one writer at a time. *)
OneWriter ==
  \A q, r \in Request :
    written[q] # None /\ written[r] # None /\ asks[q].key = asks[r].key => q = r

StoreInv == Typed /\ OneWriter /\ \A r \in Request : Progress(r)

LEMMA InitInv ==
  ASSUME Init
  PROVE  StoreInv
BY DEF Init, StoreInv, Typed, OneWriter, Progress, Labels

(* A body that may be stored is something to store. *)
LEMMA BodyIsSome ==
  ASSUME StoreInv, NEW r \in Request, Valid(asks[r]), asks[r].op = "put"
  PROVE  asks[r].body \in Storable /\ asks[r].body # None
BY BodyAssumption, NoneAssumption DEF Valid

LEMMA Preserved ==
  ASSUME StoreInv, NEW r \in Request, Serve(r) \/ Fail(r)
  PROVE  StoreInv'
<1> USE DEF StoreInv
<1>0. \A q \in Request \ {r} : /\ pc'[q] = pc[q] /\ written'[q] = written[q]
                               /\ seen'[q] = seen[q] /\ answer'[q] = answer[q]
                               /\ Progress(q)'
  <2>1. ASSUME NEW q \in Request \ {r}
        PROVE  /\ pc'[q] = pc[q] /\ written'[q] = written[q]
               /\ seen'[q] = seen[q] /\ answer'[q] = answer[q] /\ asks' = asks
    BY DEF Serve, Refuse, Get, Begin, Upsert, Read, Commit, LockTimeout, Fail,
           Goto, Finish, Typed
  <2>2. QED
    BY <2>1 DEF Progress
<1>1. CASE Refuse(r)
  BY <1>0, <1>1 DEF Refuse, Goto, Finish, Typed, Progress, OneWriter, Labels
<1>2. CASE Get(r)
  <2>1. Typed'
    BY <1>2, BodyAssumption DEF Get, Goto, Finish, Typed, Valid, Labels
  <2>2. OneWriter' /\ Progress(r)'
    BY <1>2 DEF Get, Goto, Finish, Typed, Progress, OneWriter
  <2>3. QED
    BY <1>0, <2>1, <2>2
<1>3. CASE Begin(r)
  BY <1>0, <1>3 DEF Begin, Goto, Typed, Progress, OneWriter, Labels
<1>4. CASE Upsert(r)
  <2>1. asks[r].body \in Storable /\ asks[r].body # None
    BY <1>4, BodyIsSome DEF Upsert, Progress
  <2>2. Typed' /\ Progress(r)'
    BY <1>4, <2>1 DEF Upsert, Goto, Typed, Progress, Labels
  <2>3. OneWriter'
    BY <1>0, <1>4 DEF Upsert, Locked, OneWriter
  <2>4. QED
    BY <1>0, <2>2, <2>3
<1>5. CASE Read(r)
  <2>1. Visible(r, asks[r].key) = asks[r].body /\ asks[r].body \in Storable
    BY <1>5, BodyIsSome DEF Read, Visible, Progress
  <2>2. Typed' /\ Progress(r)'
    BY <1>5, <2>1 DEF Read, Goto, Typed, Progress, Labels
  <2>3. OneWriter'
    BY <1>5 DEF Read, OneWriter
  <2>4. QED
    BY <1>0, <2>2, <2>3
<1>6. CASE Commit(r)
  <2>1. /\ Visible(r, asks[r].key) = asks[r].body /\ asks[r].body \in Storable
        /\ seen[r] = asks[r].body /\ asks[r].key \in Key
    BY <1>6, BodyIsSome DEF Commit, Visible, Progress, Valid
  <2>2. PICK what \in {seen[r], "error"} : Finish(r, what)
    BY <1>6 DEF Commit
  <2>3. Typed'
    BY <1>6, <2>1, <2>2, BodyAssumption DEF Commit, Goto, Finish, Typed, Labels
  <2>4. Progress(r)' /\ OneWriter'
    BY <1>0, <1>6, <2>2 DEF Commit, Goto, Finish, Typed, Progress, OneWriter
  <2>5. QED
    BY <1>0, <2>3, <2>4
<1>7. CASE Fail(r)
  BY <1>0, <1>7 DEF Fail, Goto, Finish, Typed, Progress, OneWriter, Labels
<1>8. QED
  BY <1>1, <1>2, <1>3, <1>4, <1>5, <1>6, <1>7 DEF Serve, LockTimeout

LEMMA StoreStep ==
  ASSUME StoreInv, [Next]_vars
  PROVE  StoreInv'
<1>1. CASE UNCHANGED vars
  BY <1>1 DEF vars, StoreInv, Typed, OneWriter, Progress
<1>2. QED
  BY <1>1, Preserved DEF Next

(* The strengthened invariant holds. *)
THEOREM Invariance == Spec => []StoreInv
BY InitInv, StoreStep, PTL DEF Spec

(* Types, and a row has at most one transaction that has written it. *)
THEOREM TypeCorrect == Spec => []TypeOK
<1>1. StoreInv => TypeOK
  BY DEF StoreInv, Typed, OneWriter, Progress, TypeOK, Locked, Labels
<1>2. QED
  BY <1>1, Invariance, PTL

(* Every step of a PUT, a GET, a refusal or a failure is one of the        *)
(* register or leaves it unchanged: the safety part of ImplementsRegister. *)
THEOREM Implementation == Spec => Register!Safety
<1>1. Init => Register!Init
  BY DEF Init, Register!Init
<1>2. ASSUME StoreInv, [Next]_vars PROVE [Register!Next]_Register!vars
  <2> USE DEF Register!vars, Register!Next, Register!Operate
  <2>1. CASE UNCHANGED vars
    BY <2>1 DEF vars
  <2>2. ASSUME NEW r \in Request, Refuse(r) \/ Fail(r)
        PROVE  Register!Operate(r)
    BY <1>2, <2>2 DEF Refuse, Fail, Goto, Finish, StoreInv, Progress,
       Register!Refuse, Register!Answer
  <2>3. ASSUME NEW r \in Request, Get(r) PROVE Register!Operate(r)
    BY <1>2, <2>3 DEF Get, Goto, Finish, StoreInv, Progress, Valid,
       Register!Get, Register!Answer
  <2>4. ASSUME NEW r \in Request, Begin(r) \/ Upsert(r) \/ Read(r)
        PROVE  UNCHANGED <<asks, rows, answer>>
    BY <2>4 DEF Begin, Upsert, Read
  <2>5. ASSUME NEW r \in Request, Commit(r) PROVE Register!Operate(r)
    <3>1. /\ Visible(r, asks[r].key) = asks[r].body /\ seen[r] = asks[r].body
          /\ Valid(asks[r]) /\ asks[r].op = "put" /\ answer[r] = "none"
      BY <2>5, <1>2, BodyIsSome DEF Commit, Visible, StoreInv, Progress
    <3>2. QED
      BY <2>5, <3>1 DEF Commit, Goto, Finish, Valid, Register!Put, Register!Answer
  <2>6. QED
    BY <1>2, <2>1, <2>2, <2>3, <2>4, <2>5 DEF Next, Serve, LockTimeout
<1>3. QED
  BY <1>1, <1>2, Invariance, PTL DEF Spec, Register!Safety
=============================================================================
