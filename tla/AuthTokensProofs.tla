-------------------------- MODULE AuthTokensProofs --------------------------
(* Theorems about AuthTokens, for every number of requests and tokens. *)
EXTENDS AuthTokens, TLAPS

(***************************************************************************)
(* The inductive invariant.  OneActivePerFamily and the others are not     *)
(* inductive: why a rotation commits safely depends on the row lock it     *)
(* holds, and why a kill is final depends on the versions tokens carry.    *)
(***************************************************************************)

(* The row of a jti exists exactly from its commit on, in the family of    *)
(* its login; tokens of one family carry one version, never a later one    *)
(* than the table's.                                                       *)
TokenInv ==
  /\ held \subseteq Recorded
  /\ \A j \in Jti : j \in Recorded <=> family[j] # None
  /\ \A j \in Jti : family[j] # None => family[j] \in Recorded
  /\ \A j \in Jti : tv[j] <= version
  /\ \A j \in Recorded : tv[j] > 0
  /\ \A i, j \in Recorded : family[i] = family[j] => tv[i] = tv[j]

(* A killed family carries an old version; only a kill revokes. *)
KillInv ==
  /\ killed \subseteq {family[j] : j \in Recorded}
  /\ \A j \in Jti : family[j] \in killed => tv[j] < version
  /\ \A j \in Jti : status[j] = "revoked" => family[j] \in killed

(* At most one transaction has a pending write of a row; an admin row's is *)
(* the committed version plus one.                                         *)
LockInv ==
  /\ \A r, q \in Request : bump[r] # 0 /\ bump[q] # 0 => r = q
  /\ \A r, q \in Request : \A j \in Jti :
       mark[r][j] # "none" /\ mark[q][j] # "none" => r = q
  /\ \A r \in Request : bump[r] # 0 => bump[r] = version + 1

(* What a pending write of a token row says about its transaction. *)
MarkInv ==
  \A r \in Request : \A j \in Jti :
    /\ mark[r][j] = "active" => pc[r] = "commit" /\ newJti[r] = j
    /\ mark[r][j] = "rotated" => /\ pc[r] \in {"record", "commit"}
                                 /\ reqJti[r] = j
                                 /\ status[j] = "active"
    /\ mark[r][j] = "revoked" => pc[r] = "revoking" /\ j \in Recorded

(* Where a request is, and what it holds there. *)
PhaseInv ==
  \A r \in Request :
    /\ scan[r] \subseteq Recorded
    /\ pc[r] \in {"revoke", "revoking"} => bump[r] # 0
    /\ bump[r] # 0 => pc[r] \in {"read", "record", "commit", "revoke", "revoking"}
    /\ pc[r] = "commit" => /\ newJti[r] \in Jti \ Recorded
                           /\ mark[r][newJti[r]] = "active"
    /\ newJti[r] # None => pc[r] = "commit"
    /\ pc[r] \in {"idle", "upsert", "read"} => reqJti[r] = None
    /\ pc[r] \in {"check", "claim", "lookup"} => reqJti[r] # None

(* The token a refresh presents, and the version it has read for it. *)
PresentInv ==
  \A r \in Request : reqJti[r] # None =>
    /\ reqJti[r] \in Recorded
    /\ pc[r] # "check" => reqTv[r] = tv[reqJti[r]]
    /\ pc[r] \in {"record", "commit"} =>
         bump[r] = 0 /\ mark[r][reqJti[r]] = "rotated"

(* The version a request issues a token with. *)
VersionInv ==
  \A r \in Request :
    /\ pc[r] \in {"record", "commit"} =>
         /\ 0 < reqTv[r]
         /\ reqTv[r] <= IF bump[r] # 0 THEN bump[r] ELSE version
    /\ pc[r] = "read" /\ bump[r] = 0 => version > 0
    /\ pc[r] \in {"read", "record", "commit"} /\ bump[r] # 0 => version = 0

(* A replay stays one: its row has left the active status for good. *)
ReplayInv ==
  \A r \in Request : replay[r] =>
    /\ reqJti[r] # None
    /\ status[reqJti[r]] \in {"rotated", "revoked"}
    /\ pc[r] # "check"

IInv ==
  /\ TypeOK /\ TokenInv /\ KillInv /\ LockInv /\ MarkInv
  /\ PhaseInv /\ PresentInv /\ VersionInv /\ ReplayInv
  /\ OneActivePerFamily

(* The id Record draws is an unused one. *)
LEMMA DrawnIsFresh ==
  ASSUME Fresh # {}
  PROVE  (CHOOSE n \in Fresh : TRUE) \in Fresh
  OBVIOUS

(* Ending a request keeps its variables in their ranges. *)
LEMMA EndType ==
  ASSUME TypeOK, NEW r \in Request, NEW o \in Outcomes, End(r, o)
  PROVE  /\ pc' \in [Request -> Labels]
         /\ reqTv' \in [Request -> Nat]
         /\ reqJti' \in [Request -> Jti \cup {None}]
         /\ newJti' \in [Request -> Jti \cup {None}]
         /\ late' \in [Request -> BOOLEAN]
         /\ bump' \in [Request -> Nat]
         /\ mark' \in [Request -> [Jti -> {"none", "active", "rotated", "revoked"}]]
         /\ scan' \in [Request -> SUBSET Jti]
         /\ replay' \in [Request -> BOOLEAN]
  BY DEF TypeOK, End, Goto, NoMarks, Outcomes, Labels

LEMMA RollbackType ==
  ASSUME TypeOK, NEW r \in Request, NEW o \in Outcomes, Rollback(r, o)
  PROVE  TypeOK'
  BY EndType DEF TypeOK, Rollback, tables

(* A request about to commit an issue has drawn the id. *)
Drawn == \A r \in Request : pc[r] = "commit" => newJti[r] \in Jti

(* Every step of a request keeps every variable in its range. *)
LEMMA TypeStep ==
  ASSUME TypeOK, Drawn, [Next]_vars
  PROVE  TypeOK'
<1> USE DEF Outcomes, Labels
<1>1. ASSUME NEW r \in Request, Arrive(r) PROVE TypeOK'
  <2>1. CASE Login(r)
    BY <2>1 DEF Login, Goto, TypeOK, tables, locals
  <2>2. CASE Refresh(r)
    BY <2>2 DEF Refresh, Decodable, Goto, TypeOK, tables
  <2>3. CASE Logout(r)
    <3>1. ASSUME Rollback(r, "unauthorized") PROVE TypeOK'
      BY <3>1, RollbackType
    <3>2. ASSUME NEW v \in access,
                 Goto(r, "bump"), reqTv' = [reqTv EXCEPT ![r] = v],
                 UNCHANGED <<tables, reqJti, newJti, late, bump, mark, scan,
                             replay>>
          PROVE  TypeOK'
      <4>1. reqTv' \in [Request -> Nat]
        BY <3>2 DEF TypeOK
      <4>2. pc' \in [Request -> Labels]
        BY <3>2 DEF Goto, TypeOK
      <4>3. QED
        BY <3>2, <4>1, <4>2 DEF TypeOK, tables
    <3>3. QED
      BY <2>3, <3>1, <3>2 DEF Logout
  <2>4. QED
    BY <1>1, <2>1, <2>2, <2>3 DEF Arrive
<1>2. ASSUME NEW r \in Request, Step(r) PROVE TypeOK'
  <2>1. CASE Upsert(r)
    BY <2>1 DEF Upsert, Goto, TypeOK, tables
  <2>2. CASE ReadVersion(r)
    BY <2>2 DEF ReadVersion, Goto, TypeOK, tables
  <2>3. CASE Record(r)
    BY <2>3, DrawnIsFresh DEF Record, Fresh, Goto, TypeOK, tables
  <2>4. CASE CommitIssue(r)
    <3>1. End(r, "ok") /\ newJti[r] \in Jti
      BY <2>4 DEF CommitIssue, Drawn
    <3>2. version' \in Nat /\ status' \in [Jti -> Status]
      BY <2>4 DEF CommitIssue, TypeOK, Status
    <3>3. tv' \in [Jti -> Nat]
      BY <2>4 DEF CommitIssue, TypeOK
    <3>4. family' \in [Jti -> Jti \cup {None}]
      BY <2>4, <3>1 DEF CommitIssue, TypeOK
    <3>5. expired' \in SUBSET Jti /\ killed' \in SUBSET (Jti \cup {None})
      BY <2>4 DEF CommitIssue, TypeOK
    <3>6. held' \in SUBSET Jti /\ access' \in SUBSET Nat
      <4>1. reqTv[r] \in Nat /\ held \in SUBSET Jti /\ access \in SUBSET Nat
        BY DEF TypeOK
      <4>2. \/ held' = held \cup {newJti[r]} /\ access' = access \cup {reqTv[r]}
            \/ held' = held /\ access' = access
        BY <2>4 DEF CommitIssue
      <4>3. QED
        BY <3>1, <4>1, <4>2
    <3>7. QED
      BY <3>1, <3>2, <3>3, <3>4, <3>5, <3>6, EndType DEF TypeOK
  <2>5. CASE CheckVersion(r)
    <3>1. ASSUME Rollback(r, "unauthorized") PROVE TypeOK'
      BY <3>1, RollbackType
    <3>2. ASSUME tv[reqJti[r]] = version PROVE TypeOK'
      <4> DEFINE l == reqJti[r] \in expired
                 s == status[reqJti[r]] = "rotated"
      <4>1. l \in BOOLEAN /\ s \in BOOLEAN
        OBVIOUS
      <4>2. late' = [late EXCEPT ![r] = l] /\ replay' = [replay EXCEPT ![r] = s]
        BY <2>5, <3>2, Zenon DEF CheckVersion
      <4> HIDE DEF l, s
      <4>3. late' \in [Request -> BOOLEAN] /\ replay' \in [Request -> BOOLEAN]
        BY <4>1, <4>2 DEF TypeOK
      <4>4. QED
        BY <2>5, <3>2, <4>3 DEF CheckVersion, Goto, TypeOK, tables
    <3>3. QED
      BY <2>5, <3>1, <3>2 DEF CheckVersion
  <2>6. CASE Claim(r)
    <3>1. mark' \in [Request -> [Jti -> {"none", "active", "rotated", "revoked"}]]
      <4>1. CASE mark' = [mark EXCEPT ![r][reqJti[r]] = "rotated"]
        BY <4>1 DEF TypeOK
      <4>2. CASE mark' = mark
        BY <4>2 DEF TypeOK
      <4>3. QED
        BY <2>6, <4>1, <4>2 DEF Claim
    <3>2. pc' \in [Request -> Labels]
      <4>1. PICK l \in {"record", "lookup"} : pc' = [pc EXCEPT ![r] = l]
        BY <2>6 DEF Claim, Goto
      <4>2. QED
        BY <4>1 DEF TypeOK
    <3>3. QED
      BY <2>6, <3>1, <3>2 DEF Claim, TypeOK, tables
  <2>7. CASE Lookup(r)
    <3>1. ASSUME Rollback(r, "unauthorized") PROVE TypeOK'
      BY <3>1, RollbackType
    <3>2. QED
      BY <2>7, <3>1 DEF Lookup, Goto, TypeOK, tables, locals
  <2>8. CASE Bump(r)
    BY <2>8 DEF Bump, Goto, TypeOK, tables
  <2>9. CASE Revoke(r)
    BY <2>9 DEF Revoke, Recorded, Goto, TypeOK, tables
  <2>10. CASE RevokeRow(r)
    BY <2>10 DEF RevokeRow, TypeOK, tables
  <2>11. CASE CommitKill(r)
    <3>1. PICK o \in Outcomes : End(r, o)
      BY <2>11 DEF CommitKill
    <3>2. QED
      BY <2>11, <3>1, EndType DEF CommitKill, Recorded, TypeOK, Status
  <2>12. QED
    BY <1>2, <2>1, <2>2, <2>3, <2>4, <2>5, <2>6, <2>7, <2>8, <2>9, <2>10,
       <2>11 DEF Step
<1>3. ASSUME NEW r \in Request, Fail(r) PROVE TypeOK'
  <2>1. Rollback(r, "error") /\ "error" \in Outcomes
    BY <1>3 DEF Fail
  <2>2. QED
    BY <2>1, RollbackType
<1>4. CASE Expire
  BY <1>4 DEF Expire, Recorded, TypeOK, locals
<1>5. CASE UNCHANGED vars
  BY <1>5 DEF TypeOK, vars, tables, locals
<1>6. QED
  BY <1>1, <1>2, <1>3, <1>4, <1>5 DEF Next

-----------------------------------------------------------------------------
(* Preservation of the inductive invariant *)

(* No step but a commit writes the tables. *)
LEMMA TablesFrame ==
  ASSUME TokenInv, KillInv, OneActivePerFamily,
         UNCHANGED <<version, status, tv, held, family, killed>>
  PROVE  TokenInv' /\ KillInv' /\ OneActivePerFamily'
  BY DEF TokenInv, KillInv, OneActivePerFamily, Recorded

(* A rollback leaves nothing behind: no lock, no draft, no token. *)
LEMMA RollbackStep ==
  ASSUME IInv, NEW r \in Request, NEW o \in Outcomes, Rollback(r, o)
  PROVE  IInv'
<1> USE DEF IInv, Rollback, End, Goto, NoMarks, tables, Recorded
<1>1. TypeOK'
  BY RollbackType
<1>2. TokenInv' /\ KillInv' /\ OneActivePerFamily'
  BY TablesFrame
<1>3. LockInv'
  BY DEF LockInv, TypeOK
<1>4. MarkInv'
  BY DEF MarkInv, TypeOK, Outcomes
<1>5. PhaseInv'
  BY DEF PhaseInv, TypeOK, Outcomes
<1>6. PresentInv'
  BY DEF PresentInv, TypeOK, Outcomes
<1>7. VersionInv'
  BY DEF VersionInv, TypeOK, Outcomes
<1>8. ReplayInv'
  BY DEF ReplayInv, TypeOK, Outcomes
<1>9. QED
  BY <1>1, <1>2, <1>3, <1>4, <1>5, <1>6, <1>7, <1>8

(* A login that arrives only takes its place. *)
LEMMA LoginStep ==
  ASSUME IInv, NEW r \in Request, Login(r)
  PROVE  IInv'
<1> USE DEF IInv, Login, Goto, tables, Recorded, locals
<1>1. TypeOK'
  BY TypeStep DEF Drawn, PhaseInv, Next, Step, Arrive
<1>2. TokenInv' /\ KillInv' /\ OneActivePerFamily'
  BY TablesFrame
<1>3. LockInv'
  BY DEF LockInv, TypeOK
<1>4. MarkInv'
  BY DEF MarkInv, TypeOK
<1>5. PhaseInv'
  BY DEF PhaseInv, TypeOK
<1>6. PresentInv'
  BY DEF PresentInv, TypeOK
<1>7. VersionInv'
  BY DEF VersionInv, TypeOK
<1>8. ReplayInv'
  BY DEF ReplayInv, TypeOK
<1>9. QED
  BY <1>1, <1>2, <1>3, <1>4, <1>5, <1>6, <1>7, <1>8

(* A refresh presents a recorded token, which a client holds. *)
LEMMA RefreshStep ==
  ASSUME IInv, NEW r \in Request, Refresh(r)
  PROVE  IInv'
<1> USE DEF IInv, Refresh, Decodable, Goto, tables, Recorded
<1>1. TypeOK'
  BY TypeStep DEF Drawn, PhaseInv, Next, Step, Arrive
<1>2. TokenInv' /\ KillInv' /\ OneActivePerFamily'
  BY TablesFrame
<1>3. LockInv'
  BY DEF LockInv, TypeOK
<1>4. MarkInv'
  BY DEF MarkInv, TypeOK
<1>5. PhaseInv'
  BY NoneAssumption DEF PhaseInv, TypeOK
<1>6. PresentInv'
  BY DEF PresentInv, TokenInv, TypeOK
<1>7. VersionInv'
  BY DEF VersionInv, TypeOK
<1>8. ReplayInv'
  BY DEF ReplayInv, PhaseInv, TypeOK
<1>9. QED
  BY <1>1, <1>2, <1>3, <1>4, <1>5, <1>6, <1>7, <1>8

(* The upsert locks the admin row it inserts, and finds none otherwise. *)
LEMMA UpsertStep ==
  ASSUME IInv, NEW r \in Request, Upsert(r)
  PROVE  IInv'
<1> USE DEF IInv, Upsert, Goto, tables, Recorded
<1>1. TypeOK'
  BY TypeStep DEF Drawn, PhaseInv, Next, Step, Arrive
<1>2. TokenInv' /\ KillInv' /\ OneActivePerFamily'
  BY TablesFrame
<1>3. LockInv'
  BY DEF LockInv, AdminLocked, TypeOK
<1>4. MarkInv'
  BY DEF MarkInv, TypeOK
<1>5. PhaseInv'
  BY DEF PhaseInv, TypeOK
<1>6. PresentInv'
  BY DEF PresentInv, TypeOK
<1>7. VersionInv'
  BY DEF VersionInv, TypeOK
<1>8. ReplayInv'
  BY DEF ReplayInv, TypeOK
<1>9. QED
  BY <1>1, <1>2, <1>3, <1>4, <1>5, <1>6, <1>7, <1>8

(* The version read is that of the row, or of the request's own insert. *)
LEMMA ReadVersionStep ==
  ASSUME IInv, NEW r \in Request, ReadVersion(r)
  PROVE  IInv'
<1> USE DEF IInv, ReadVersion, Goto, tables, Recorded
<1>1. TypeOK'
  BY TypeStep DEF Drawn, PhaseInv, Next, Step, Arrive
<1>2. TokenInv' /\ KillInv' /\ OneActivePerFamily'
  BY TablesFrame
<1>3. LockInv'
  BY DEF LockInv, TypeOK
<1>4. MarkInv'
  BY DEF MarkInv, TypeOK
<1>5. PhaseInv'
  BY DEF PhaseInv, TypeOK
<1>6. PresentInv'
  BY DEF PresentInv, PhaseInv, TypeOK
<1>7. VersionInv'
  BY DEF VersionInv, TypeOK
<1>8. ReplayInv'
  BY DEF ReplayInv, TypeOK
<1>9. QED
  BY <1>1, <1>2, <1>3, <1>4, <1>5, <1>6, <1>7, <1>8

(* The drawn id is no one else's, so its row lock is new. *)
LEMMA RecordStep ==
  ASSUME IInv, NEW r \in Request, Record(r)
  PROVE  IInv'
<1> USE DEF IInv, Record, Goto, tables, Recorded
<1>1. TypeOK'
  BY TypeStep DEF Drawn, PhaseInv, Next, Step, Arrive
<1>2. TokenInv' /\ KillInv' /\ OneActivePerFamily'
  BY TablesFrame
<1>3. LockInv'
  BY DrawnIsFresh DEF LockInv, MarkInv, Fresh, TypeOK
<1>4. MarkInv'
  BY DEF MarkInv, TypeOK
<1>5. PhaseInv'
  BY DrawnIsFresh DEF PhaseInv, Fresh, TypeOK
<1>6. PresentInv'
  BY DrawnIsFresh DEF PresentInv, Fresh, TypeOK
<1>7. VersionInv'
  BY DEF VersionInv, TypeOK
<1>8. ReplayInv'
  BY DEF ReplayInv, TypeOK
<1>9. QED
  BY <1>1, <1>2, <1>3, <1>4, <1>5, <1>6, <1>7, <1>8

(* The claim marks an active row that no one else has written. *)
LEMMA ClaimStep ==
  ASSUME IInv, NEW r \in Request, Claim(r)
  PROVE  IInv'
<1> DEFINE c == Claimable(r)
<1>1. TypeOK'
  BY TypeStep DEF IInv, Drawn, PhaseInv, Next, Step, Arrive
<1>2. TokenInv' /\ KillInv' /\ OneActivePerFamily'
  BY TablesFrame DEF IInv, Claim, tables
<1>3. /\ pc[r] = "claim"
      /\ UNCHANGED <<tables, reqTv, reqJti, newJti, late, bump, scan, replay>>
  BY DEF Claim
<1>4. /\ reqJti[r] \in Recorded /\ reqJti[r] \in Jti
      /\ reqTv[r] = tv[reqJti[r]]
      /\ bump[r] = 0 /\ newJti[r] = None
  BY <1>3 DEF IInv, PhaseInv, PresentInv, Recorded, TypeOK
<1>5. \A q \in Request :
        pc'[q] = IF q = r THEN IF c THEN "record" ELSE "lookup" ELSE pc[q]
  BY DEF Claim, Goto, IInv, TypeOK
<1>6. \A q \in Request, j \in Jti :
        mark'[q][j] = IF q = r /\ j = reqJti[r] /\ c THEN "rotated"
                                                     ELSE mark[q][j]
  BY <1>4 DEF Claim, IInv, TypeOK
<1>7. c => /\ status[reqJti[r]] = "active"
           /\ \A q \in Request \ {r} : mark[q][reqJti[r]] = "none"
  BY DEF Claim, Claimable, RowLocked
<1> HIDE DEF c
<1>8. LockInv'
  BY <1>3, <1>4, <1>6, <1>7 DEF IInv, LockInv, TypeOK, tables
<1>9. MarkInv'
  BY <1>3, <1>4, <1>5, <1>6, <1>7 DEF IInv, MarkInv, Recorded, tables
<1>10. PhaseInv'
  BY <1>3, <1>4, <1>5, <1>6 DEF IInv, PhaseInv, Recorded, TypeOK, tables
<1>11. PresentInv'
  BY <1>3, <1>4, <1>5, <1>6 DEF IInv, PresentInv, Recorded, TypeOK, tables
<1>12. VersionInv'
  <2>1. 0 < reqTv[r] /\ reqTv[r] <= version
    BY <1>4 DEF IInv, TokenInv
  <2>2. QED
    BY <1>3, <1>4, <1>5, <2>1 DEF IInv, VersionInv, tables
<1>13. ReplayInv'
  BY <1>3, <1>5 DEF IInv, ReplayInv, tables
<1>14. QED
  BY <1>1, <1>2, <1>8, <1>9, <1>10, <1>11, <1>12, <1>13 DEF IInv

(* The admin row is locked at most once, and written one higher. *)
LEMMA BumpStep ==
  ASSUME IInv, NEW r \in Request, Bump(r)
  PROVE  IInv'
<1> USE DEF IInv, Bump, Goto, tables, Recorded
<1>1. TypeOK'
  BY TypeStep DEF Drawn, PhaseInv, Next, Step, Arrive
<1>2. TokenInv' /\ KillInv' /\ OneActivePerFamily'
  BY TablesFrame
<1>3. LockInv'
  BY DEF LockInv, AdminLocked, TypeOK
<1>4. MarkInv'
  BY DEF MarkInv, TypeOK
<1>5. PhaseInv'
  BY DEF PhaseInv, TypeOK
<1>6. PresentInv'
  BY DEF PresentInv, TypeOK
<1>7. VersionInv'
  BY DEF VersionInv, TypeOK
<1>8. ReplayInv'
  BY DEF ReplayInv, TypeOK
<1>9. QED
  BY <1>1, <1>2, <1>3, <1>4, <1>5, <1>6, <1>7, <1>8

(* The revoking UPDATE starts on recorded rows. *)
LEMMA RevokeStep ==
  ASSUME IInv, NEW r \in Request, Revoke(r)
  PROVE  IInv'
<1> USE DEF IInv, Revoke, Goto, tables, Recorded
<1>1. TypeOK'
  BY TypeStep DEF Drawn, PhaseInv, Next, Step, Arrive
<1>2. TokenInv' /\ KillInv' /\ OneActivePerFamily'
  BY TablesFrame
<1>3. LockInv'
  BY DEF LockInv, TypeOK
<1>4. MarkInv'
  BY DEF MarkInv, TypeOK
<1>5. PhaseInv'
  BY DEF PhaseInv, TypeOK
<1>6. PresentInv'
  BY DEF PresentInv, TypeOK
<1>7. VersionInv'
  BY DEF VersionInv, TypeOK
<1>8. ReplayInv'
  BY DEF ReplayInv, TypeOK
<1>9. QED
  BY <1>1, <1>2, <1>3, <1>4, <1>5, <1>6, <1>7, <1>8

(* It marks rows that no one else has written. *)
LEMMA RevokeRowStep ==
  ASSUME IInv, NEW r \in Request, RevokeRow(r)
  PROVE  IInv'
<1> USE DEF IInv, RevokeRow, Goto, tables, Recorded
<1>1. TypeOK'
  BY TypeStep DEF Drawn, PhaseInv, Next, Step, Arrive
<1>2. TokenInv' /\ KillInv' /\ OneActivePerFamily'
  BY TablesFrame
<1>3. LockInv'
  BY DEF LockInv, RowLocked, TypeOK
<1>4. MarkInv'
  BY DEF MarkInv, PhaseInv, TypeOK
<1>5. PhaseInv'
  BY DEF PhaseInv, TypeOK
<1>6. PresentInv'
  BY DEF PresentInv, TypeOK
<1>7. VersionInv'
  BY DEF VersionInv, TypeOK
<1>8. ReplayInv'
  BY DEF ReplayInv, TypeOK
<1>9. QED
  BY <1>1, <1>2, <1>3, <1>4, <1>5, <1>6, <1>7, <1>8

(* A logout is refused, or goes on to bump the version. *)
LEMMA LogoutStep ==
  ASSUME IInv, NEW r \in Request, Logout(r)
  PROVE  IInv'
<1>1. ASSUME Rollback(r, "unauthorized") PROVE IInv'
  BY <1>1, RollbackStep DEF Outcomes
<1>2. ASSUME NEW v \in access, Goto(r, "bump"), reqTv' = [reqTv EXCEPT ![r] = v],
             UNCHANGED <<tables, reqJti, newJti, late, bump, mark, scan, replay>>
      PROVE  IInv'
  <2> USE <1>2 DEF IInv, Logout, Goto, tables, Recorded
  <2>1. TypeOK'
    BY DEF TypeOK, Labels
  <2>2. TokenInv' /\ KillInv' /\ OneActivePerFamily'
    BY TablesFrame
  <2>3. LockInv'
    BY DEF LockInv, TypeOK
  <2>4. MarkInv'
    BY DEF MarkInv, TypeOK
  <2>5. PhaseInv'
    BY DEF PhaseInv, TypeOK
  <2>6. PresentInv'
    BY DEF PresentInv, PhaseInv, TypeOK
  <2>7. VersionInv'
    BY DEF VersionInv, TypeOK
  <2>8. ReplayInv'
    BY DEF ReplayInv, TypeOK
  <2>9. QED
    BY <2>1, <2>2, <2>3, <2>4, <2>5, <2>6, <2>7, <2>8
<1>3. QED
  BY <1>1, <1>2 DEF Logout

(* A refresh is refused, or carries the version of its token. *)
LEMMA CheckVersionStep ==
  ASSUME IInv, NEW r \in Request, CheckVersion(r)
  PROVE  IInv'
<1>1. CASE tv[reqJti[r]] = version
  <2>1. TypeOK'
    BY TypeStep DEF IInv, Drawn, PhaseInv, Next, Step
  <2> USE <1>1 DEF IInv, CheckVersion, Goto, tables, Recorded
  <2>2. TokenInv' /\ KillInv' /\ OneActivePerFamily'
    BY TablesFrame
  <2>3. LockInv'
    BY DEF LockInv, TypeOK
  <2>4. MarkInv'
    BY DEF MarkInv, TypeOK
  <2>5. PhaseInv'
    BY DEF PhaseInv, TypeOK
  <2>6. PresentInv'
    BY DEF PresentInv, TypeOK
  <2>7. VersionInv'
    BY DEF VersionInv, TypeOK
  <2>8. ReplayInv'
    BY DEF ReplayInv, PhaseInv, TypeOK
  <2>9. QED
    BY <2>1, <2>2, <2>3, <2>4, <2>5, <2>6, <2>7, <2>8
<1>2. CASE tv[reqJti[r]] # version
  BY <1>2, RollbackStep DEF CheckVersion, Outcomes
<1>3. QED
  BY <1>1, <1>2

(* A lost claim is refused, or goes on to kill the family. *)
LEMMA LookupStep ==
  ASSUME IInv, NEW r \in Request, Lookup(r)
  PROVE  IInv'
<1>1. CASE status[reqJti[r]] = "rotated"
  <2>1. TypeOK'
    BY TypeStep DEF IInv, Drawn, PhaseInv, Next, Step
  <2> USE <1>1 DEF IInv, Lookup, Goto, tables, locals, Recorded
  <2>2. TokenInv' /\ KillInv' /\ OneActivePerFamily'
    BY TablesFrame
  <2>3. LockInv'
    BY DEF LockInv, TypeOK
  <2>4. MarkInv'
    BY DEF MarkInv, TypeOK
  <2>5. PhaseInv'
    BY DEF PhaseInv, TypeOK
  <2>6. PresentInv'
    BY DEF PresentInv, TypeOK
  <2>7. VersionInv'
    BY DEF VersionInv, TypeOK
  <2>8. ReplayInv'
    BY DEF ReplayInv, TypeOK
  <2>9. QED
    BY <2>1, <2>2, <2>3, <2>4, <2>5, <2>6, <2>7, <2>8
<1>2. CASE status[reqJti[r]] # "rotated"
  BY <1>2, RollbackStep DEF Lookup, Outcomes
<1>3. QED
  BY <1>1, <1>2

(* The passing of time touches nothing the invariant speaks of. *)
LEMMA ExpireStep ==
  ASSUME IInv, Expire
  PROVE  IInv'
<1>1. TypeOK'
  BY TypeStep DEF IInv, Drawn, PhaseInv, Next
<1> USE DEF IInv, Expire, locals, Recorded
<1>2. TokenInv' /\ KillInv' /\ OneActivePerFamily'
  BY TablesFrame
<1>3. LockInv' /\ MarkInv' /\ PhaseInv'
  BY DEF LockInv, MarkInv, PhaseInv
<1>4. PresentInv' /\ VersionInv' /\ ReplayInv'
  BY DEF PresentInv, VersionInv, ReplayInv
<1>5. QED
  BY <1>1, <1>2, <1>3, <1>4

(* What a committed issue writes: the drawn id n becomes active in the     *)
(* family, and at the version, of the token k it replaces.                 *)
LEMMA IssueWrites ==
  ASSUME IInv, NEW r \in Request, CommitIssue(r),
         NEW n, n = newJti[r], NEW k, k = reqJti[r]
  PROVE  /\ n \in Jti /\ n \notin Recorded /\ mark[r][n] = "active"
         /\ family[n] = None /\ reqTv[r] \in Nat
         /\ 0 < reqTv[r] /\ reqTv[r] <= version'
         /\ version \in Nat /\ version' \in Nat /\ version <= version'
         /\ version' # version => version = 0
         /\ \A j \in Jti : status'[j] = IF j = n THEN "active"
                                        ELSE IF j = k THEN "rotated" ELSE status[j]
         /\ k # None => /\ k \in Recorded /\ status[k] = "active"
                        /\ reqTv[r] = tv[k] /\ version' = version
         /\ \A j \in Jti : tv'[j] = IF j = n THEN reqTv[r] ELSE tv[j]
         /\ family' = [family EXCEPT ![n] = IF k = None THEN n ELSE family[k]]
         /\ Recorded' = Recorded \cup {n}
<1>1. /\ n \in Jti /\ n \notin Recorded /\ mark[r][n] = "active"
      /\ family[n] = None /\ reqTv[r] \in Nat
      /\ 0 < reqTv[r] /\ reqTv[r] <= version'
      /\ version \in Nat /\ version' \in Nat /\ version <= version'
      /\ version' # version => version = 0
  BY DEF IInv, CommitIssue, PhaseInv, TokenInv, VersionInv, LockInv, TypeOK, Recorded
<1>2. \A j \in Jti : status'[j] = IF j = n THEN "active"
                                  ELSE IF j = k THEN "rotated" ELSE status[j]
  <2>1. \A j \in Jti : /\ mark[r][j] # "revoked"
                       /\ mark[r][j] = "active" => j = n
                       /\ mark[r][j] = "rotated" => j = k
                       /\ mark[r][j] \in {"none", "active", "rotated", "revoked"}
    BY DEF IInv, CommitIssue, MarkInv, TypeOK
  <2>2. k # n /\ k \in Jti => mark[r][k] = "rotated"
    BY NoneAssumption DEF IInv, CommitIssue, PresentInv
  <2>3. QED
    BY <1>1, <2>1, <2>2 DEF CommitIssue
<1>3. k # None => /\ k \in Recorded /\ status[k] = "active"
                  /\ reqTv[r] = tv[k] /\ version' = version
  BY DEF IInv, CommitIssue, MarkInv, PresentInv, TypeOK, Recorded
<1>4. /\ \A j \in Jti : tv'[j] = IF j = n THEN reqTv[r] ELSE tv[j]
      /\ family' = [family EXCEPT ![n] = IF k = None THEN n ELSE family[k]]
  BY <1>1 DEF IInv, CommitIssue, TypeOK
<1>5. Recorded' = Recorded \cup {n}
  BY <1>1, <1>2, <1>3, NoneAssumption DEF IInv, TypeOK, Recorded
<1>6. QED
  BY <1>1, <1>2, <1>3, <1>4, <1>5

(* A committed issue: the new token joins its family, at the family's
   version, and the token it replaces leaves the active status. *)
LEMMA CommitIssueStep ==
  ASSUME IInv, NEW r \in Request, CommitIssue(r)
  PROVE  IInv'
<1> DEFINE n == newJti[r]
           k == reqJti[r]
<1>1. TypeOK'
  BY TypeStep DEF IInv, Drawn, PhaseInv, Next, Step
<1>2. /\ n \in Jti /\ n \notin Recorded /\ mark[r][n] = "active"
      /\ family[n] = None /\ 0 < reqTv[r] /\ reqTv[r] <= version'
      /\ version <= version' /\ version \in Nat /\ version' \in Nat
      /\ reqTv[r] \in Nat
  BY IssueWrites
<1>3. \A j \in Jti : status'[j] = IF j = n THEN "active"
                                  ELSE IF j = k THEN "rotated" ELSE status[j]
  BY IssueWrites
<1>4. k # None => /\ k \in Recorded /\ status[k] = "active"
                  /\ reqTv[r] = tv[k] /\ version' = version
  BY IssueWrites
<1>5. /\ \A j \in Jti : tv'[j] = IF j = n THEN reqTv[r] ELSE tv[j]
      /\ \A j \in Jti : family'[j] = IF j # n THEN family[j]
                                    ELSE IF k = None THEN n ELSE family[k]
  BY IssueWrites DEF IInv, TypeOK
<1>6. Recorded' = Recorded \cup {n} /\ None \notin Jti
  BY IssueWrites, NoneAssumption
<1>7. TokenInv'
  <2> USE DEF IInv, TokenInv
  <2>1. held' \subseteq Recorded'
    BY <1>2, <1>6 DEF CommitIssue
  <2>2. \A j \in Jti : j \in Recorded' <=> family'[j] # None
    BY <1>2, <1>4, <1>5, <1>6 DEF Recorded
  <2>3. \A j \in Jti : family'[j] # None => family'[j] \in Recorded'
    BY <1>2, <1>4, <1>5, <1>6 DEF Recorded
  <2>4. \A j \in Jti : tv'[j] <= version'
    <3>1. \A j \in Jti : tv[j] \in Nat /\ tv[j] <= version
      BY DEF TypeOK
    <3> HIDE DEF n, k, IInv, TokenInv
    <3>2. QED
      BY <1>2, <1>5, <3>1
  <2>5. \A j \in Recorded' : tv'[j] > 0
    BY <1>2, <1>5, <1>6 DEF Recorded
  <2>6. \A i, j \in Recorded' : family'[i] = family'[j] => tv'[i] = tv'[j]
    <3>1. k = None => \A j \in Recorded : family[j] # n
      BY <1>2 DEF Recorded
    <3>2. QED
      BY <1>2, <1>4, <1>5, <1>6, <3>1 DEF Recorded
  <2>7. QED
    BY <2>1, <2>2, <2>3, <2>4, <2>5, <2>6
<1>8. KillInv'
  <2> USE DEF IInv, KillInv
  <2>1. killed' = killed /\ n \notin killed
    BY <1>2 DEF CommitIssue, TokenInv, Recorded
  <2>2. killed' \subseteq {family'[j] : j \in Recorded'}
    BY <1>2, <1>5, <1>6, <2>1 DEF Recorded
  <2>3. \A j \in Jti : family'[j] \in killed' => tv'[j] < version'
    <3>1. \A j \in Jti : /\ tv[j] \in Nat
                         /\ family[j] \in killed => tv[j] < version
      BY DEF TypeOK
    <3>2. k # None => k \in Jti
      BY <1>4 DEF Recorded
    <3>3. ASSUME NEW j \in Jti, j # n, family'[j] \in killed'
          PROVE  tv'[j] < version'
      BY <1>2, <1>5, <2>1, <3>1, <3>3
    <3>4. ASSUME k # None, family[k] \in killed PROVE tv'[n] < version'
      BY <1>2, <1>4, <1>5, <3>1, <3>2, <3>4
    <3>5. QED
      BY <1>2, <1>5, <2>1, <3>3, <3>4
  <2>4. \A j \in Jti : status'[j] = "revoked" => family'[j] \in killed'
    BY <1>3, <1>5, <2>1
  <2>5. QED
    BY <2>2, <2>3, <2>4
<1>9. OneActivePerFamily'
  <2>1. \A i, j \in Jti :
          status[i] = "active" /\ status[j] = "active" /\ family[i] = family[j]
            => i = j
    BY DEF IInv, OneActivePerFamily
  <2>2. /\ \A j \in Jti : status[j] = "active" => j \in Recorded /\ family[j] \in Recorded
        /\ k # None => k \in Jti
    BY <1>4 DEF IInv, TokenInv, Recorded
  <2> HIDE DEF n, k
  <2>3. ASSUME NEW j \in Jti, j # n, status'[j] = "active"
        PROVE  family'[j] # family'[n]
    BY <1>2, <1>3, <1>4, <1>5, <2>1, <2>2, <2>3
  <2>4. ASSUME NEW i \in Jti, NEW j \in Jti, i # n, j # n, family'[i] = family'[j],
               status'[i] = "active", status'[j] = "active"
        PROVE  i = j
    BY <1>3, <1>5, <2>1, <2>4
  <2>5. QED
    BY <2>3, <2>4 DEF OneActivePerFamily
<1>10. LockInv'
  BY DEF IInv, CommitIssue, End, Goto, NoMarks, LockInv, TypeOK
<1>11. MarkInv'
  BY <1>3, <1>6 DEF IInv, CommitIssue, End, Goto, NoMarks, MarkInv, LockInv, TypeOK
<1>12. PhaseInv'
  <2>1. \A q \in Request \ {r} : pc[q] = "commit" => newJti[q] # n
    BY <1>2 DEF IInv, PhaseInv, LockInv
  <2>2. QED
    BY <1>6, <2>1 DEF IInv, CommitIssue, End, Goto, NoMarks, PhaseInv, TypeOK
<1>13. PresentInv'
  BY <1>5, <1>6, <1>2 DEF IInv, CommitIssue, End, Goto, NoMarks, PresentInv, TypeOK
<1>14. VersionInv'
  BY <1>2 DEF IInv, CommitIssue, End, Goto, NoMarks, VersionInv, LockInv, TypeOK
<1>15. ReplayInv'
  <2>1. ASSUME NEW q \in Request, replay'[q]
        PROVE  /\ q # r /\ replay[q] /\ reqJti'[q] = reqJti[q] /\ pc'[q] = pc[q]
    BY <2>1 DEF IInv, CommitIssue, End, Goto, TypeOK
  <2>2. ASSUME NEW q \in Request, replay[q]
        PROVE  reqJti[q] \in Jti /\ reqJti[q] # n /\ reqJti[q] # k
    BY <1>2, <1>4, <2>2 DEF IInv, ReplayInv, TypeOK, Recorded
  <2>3. QED
    BY <1>3, <2>1, <2>2 DEF IInv, ReplayInv
<1>16. QED
  BY <1>1, <1>7, <1>8, <1>9, <1>10, <1>11, <1>12, <1>13, <1>14, <1>15 DEF IInv

(* A committed kill: every family on record is now a version behind. *)
LEMMA CommitKillStep ==
  ASSUME IInv, NEW r \in Request, CommitKill(r)
  PROVE  IInv'
<1>1. TypeOK'
  BY TypeStep DEF IInv, Drawn, PhaseInv, Next, Step
<1>2. version' = version + 1 /\ bump[r] # 0
  BY DEF IInv, CommitKill, PhaseInv, LockInv, TypeOK
<1>3. \A j \in Jti : \/ status'[j] = status[j]
                     \/ status'[j] = "revoked" /\ j \in Recorded
  BY DEF IInv, CommitKill, MarkInv, TypeOK
<1>4. Recorded' = Recorded
  BY <1>3, <1>1 DEF Recorded, IInv, TypeOK
<1>5. TokenInv'
  BY <1>2, <1>4, <1>1 DEF IInv, TokenInv, CommitKill, TypeOK
<1>6. KillInv'
  BY <1>2, <1>3, <1>4, <1>1 DEF IInv, KillInv, TokenInv, CommitKill, TypeOK, Recorded
<1>7. OneActivePerFamily'
  BY <1>3 DEF IInv, OneActivePerFamily, CommitKill
<1>8. LockInv'
  <2>1. \A q \in Request : bump'[q] = 0
    BY <1>2 DEF IInv, CommitKill, End, LockInv, TypeOK
  <2>2. QED
    BY <2>1 DEF IInv, CommitKill, End, NoMarks, LockInv, TypeOK
<1>9. MarkInv'
  BY <1>3, <1>4 DEF IInv, CommitKill, End, Goto, NoMarks, MarkInv, LockInv, TypeOK
<1>10. PhaseInv'
  BY <1>4 DEF IInv, CommitKill, End, Goto, NoMarks, PhaseInv, TypeOK
<1>11. PresentInv'
  BY <1>4 DEF IInv, CommitKill, End, Goto, NoMarks, PresentInv, TypeOK
<1>12. VersionInv'
  <2>1. \A q \in Request \ {r} : bump[q] = 0
    BY <1>2 DEF IInv, LockInv
  <2>2. pc'[r] \in Outcomes /\ \A q \in Request \ {r} :
          pc'[q] = pc[q] /\ reqTv'[q] = reqTv[q] /\ bump'[q] = bump[q]
    BY DEF IInv, CommitKill, End, Goto, Outcomes, TypeOK
  <2>3. \A q \in Request : reqTv[q] \in Nat /\ version \in Nat
    BY DEF IInv, TypeOK
  <2>4. ASSUME NEW q \in Request \ {r}, pc[q] \in {"record", "commit"}
        PROVE  0 < reqTv[q] /\ reqTv[q] <= version'
    BY <1>2, <2>1, <2>3, <2>4 DEF IInv, VersionInv
  <2>5. QED
    BY <1>2, <2>1, <2>2, <2>3, <2>4 DEF VersionInv, Outcomes
<1>13. ReplayInv'
  BY <1>3 DEF IInv, CommitKill, End, Goto, ReplayInv, TypeOK
<1>14. QED
  BY <1>1, <1>5, <1>6, <1>7, <1>8, <1>9, <1>10, <1>11, <1>12, <1>13 DEF IInv

(* Every step preserves the inductive invariant. *)
LEMMA InvStep ==
  ASSUME IInv, [Next]_vars
  PROVE  IInv'
<1>1. ASSUME NEW r \in Request, Arrive(r) PROVE IInv'
  BY <1>1, LoginStep, RefreshStep, LogoutStep DEF Arrive
<1>2. ASSUME NEW r \in Request, Step(r) PROVE IInv'
  BY <1>2, UpsertStep, ReadVersionStep, RecordStep, CommitIssueStep,
     CheckVersionStep, ClaimStep, LookupStep, BumpStep, RevokeStep,
     RevokeRowStep, CommitKillStep DEF Step
<1>3. ASSUME NEW r \in Request, Fail(r) PROVE IInv'
  <2>1. Rollback(r, "error") /\ "error" \in Outcomes
    BY <1>3 DEF Fail, Outcomes
  <2>2. QED
    BY <2>1, RollbackStep
<1>4. CASE Expire
  BY <1>4, ExpireStep
<1>5. CASE UNCHANGED vars
  <2> USE <1>5 DEF IInv, vars, tables, locals, Recorded
  <2>1. TypeOK'
    BY DEF TypeOK
  <2>2. TokenInv' /\ KillInv' /\ OneActivePerFamily'
    BY TablesFrame
  <2>3. LockInv' /\ MarkInv' /\ PhaseInv'
    BY DEF LockInv, MarkInv, PhaseInv
  <2>4. PresentInv' /\ VersionInv' /\ ReplayInv'
    BY DEF PresentInv, VersionInv, ReplayInv
  <2>5. QED
    BY <2>1, <2>2, <2>3, <2>4
<1>6. QED
  BY <1>1, <1>2, <1>3, <1>4, <1>5 DEF Next

(* The inductive invariant holds in every execution. *)
THEOREM Invariance == Spec => []IInv
<1>1. Init => IInv
  <2> USE DEF Init, IInv, NoMarks, Recorded
  <2>1. Init => TypeOK
    BY DEF TypeOK, Status, Labels, Outcomes
  <2>2. Init => TokenInv /\ KillInv /\ OneActivePerFamily
    BY DEF TokenInv, KillInv, OneActivePerFamily
  <2>3. Init => LockInv /\ MarkInv /\ PhaseInv
    BY DEF LockInv, MarkInv, PhaseInv
  <2>4. Init => PresentInv /\ VersionInv /\ ReplayInv
    BY DEF PresentInv, VersionInv, ReplayInv
  <2>5. QED
    BY <2>1, <2>2, <2>3, <2>4
<1>2. IInv /\ [Next]_vars => IInv'
  BY InvStep
<1>3. QED
  BY <1>1, <1>2, PTL DEF Spec

-----------------------------------------------------------------------------
(* The theorems *)

(* Every variable keeps its range in every execution: in particular an     *)
(* issue never commits without an id, and a status is one of the four.     *)
THEOREM TypeCorrect == Spec => []TypeOK
<1>1. IInv => TypeOK
  BY DEF IInv
<1>2. QED
  BY <1>1, Invariance, PTL

(* Rotation is single-use for any number of concurrent refreshes.          *)
THEOREM RotationSingleUse == Spec => []OneActivePerFamily
<1>1. IInv => OneActivePerFamily
  BY DEF IInv
<1>2. QED
  BY <1>1, Invariance, PTL

(* A kill is final: the tokens of the families it ended carry an older     *)
(* version than the table's, whichever rotations raced with it.            *)
THEOREM KillFinal == Spec => []KilledFamiliesStayDead
<1>1. IInv => KilledFamiliesStayDead
  <2>1. SUFFICES ASSUME IInv, NEW j \in Jti, family[j] \in killed
                 PROVE  ~Usable(j)
    BY DEF KilledFamiliesStayDead
  <2>2. tv[j] < version /\ tv[j] \in Nat /\ version \in Nat
    BY <2>1 DEF IInv, KillInv, TypeOK
  <2>3. QED
    BY <2>2 DEF Usable
<1>2. QED
  BY <1>1, Invariance, PTL

(* Row locks never deadlock.  Who waits for a row while it holds one is a  *)
(* revoker, and only one request revokes at a time; so in a chain of two   *)
(* waits the first waits for the revoker and the second is the revoker's,  *)
(* for a rotation or a login that waits for nothing.                       *)
THEOREM LocksNeverCycle == Spec => []NoDeadlock
<1>1. ASSUME IInv, NEW r \in Request, NEW q \in Request, WaitsFor(r, q)
      PROVE  /\ pc[r] \in {"upsert", "bump", "claim", "revoking"}
             /\ pc[q] \in {"read", "record", "commit", "revoke", "revoking"}
  <2>1. /\ scan[r] \subseteq Jti
        /\ pc[r] = "claim" => reqJti[r] \in Jti
    BY <1>1 DEF IInv, TypeOK, PhaseInv
  <2>2. bump[q] # 0 \/ \E j \in Jti : mark[q][j] # "none"
    BY <1>1, <2>1 DEF WaitsFor
  <2>3. pc[q] \in {"read", "record", "commit", "revoke", "revoking"}
    BY <1>1, <2>2 DEF IInv, PhaseInv, MarkInv, TypeOK
  <2>4. QED
    BY <1>1, <2>3 DEF WaitsFor
<1>2. ASSUME IInv, NEW r \in Request, NEW q \in Request, NEW s \in Request,
             NEW t \in Request, WaitsFor(r, q), WaitsFor(q, s), WaitsFor(s, t)
      PROVE  FALSE
  <2>1. pc[q] = "revoking" /\ pc[s] = "revoking" /\ q # s
    BY <1>1, <1>2 DEF WaitsFor
  <2>2. QED
    BY <1>2, <2>1 DEF IInv, PhaseInv, LockInv
<1>3. IInv => NoDeadlock
  BY <1>2 DEF NoDeadlock
<1>4. QED
  BY <1>3, Invariance, PTL

(* A step changes the pc of the request that takes it and of no other. *)
LEMMA OneRequestSteps ==
  ASSUME TypeOK, [Next]_vars, NEW r \in Request, pc'[r] # pc[r]
  PROVE  Arrive(r) \/ Step(r) \/ Fail(r)
<1> USE DEF TypeOK, Goto, Rollback, End
<1>1. ASSUME NEW q \in Request, Arrive(q), q # r PROVE FALSE
  BY <1>1 DEF Arrive, Login, Refresh, Logout
<1>2. ASSUME NEW q \in Request, Step(q), q # r PROVE FALSE
  BY <1>2 DEF Step, Upsert, ReadVersion, Record, CommitIssue, CheckVersion,
     Claim, Lookup, Bump, Revoke, RevokeRow, CommitKill
<1>3. ASSUME NEW q \in Request, Fail(q), q # r PROVE FALSE
  BY <1>3 DEF Fail
<1>4. ~Expire /\ ~(UNCHANGED vars)
  BY DEF Expire, vars
<1>5. QED
  BY <1>1, <1>2, <1>3, <1>4 DEF Next

(* A replay that is refused leaves its family dead: it was the revoker, or *)
(* found its row revoked, and only a kill revokes.                         *)
THEOREM ReplayPunished == Spec => ReplayEndsFamily
<1>1. ASSUME IInv, [Next]_vars, NEW r \in Request,
             replay[r], pc[r] # "unauthorized", pc'[r] = "unauthorized"
      PROVE  family[reqJti[r]] \in killed'
  <2> DEFINE k == reqJti[r]
  <2>1. /\ k \in Recorded /\ status[k] \in {"rotated", "revoked"}
        /\ pc[r] \notin {"idle", "check"}
    BY <1>1 DEF IInv, ReplayInv, PresentInv, PhaseInv
  <2>2. Step(r)
    <3>1. Arrive(r) \/ Step(r) \/ Fail(r)
      BY <1>1, OneRequestSteps DEF IInv
    <3>2. ~Arrive(r)
      BY <2>1 DEF Arrive, Login, Refresh, Logout
    <3>3. ~Fail(r)
      BY <1>1 DEF Fail, Rollback, End, Goto, IInv, TypeOK
    <3>4. QED
      BY <3>1, <3>2, <3>3
  <2>3. CASE Lookup(r)
    <3>1. status[k] # "rotated" /\ killed' = killed
      BY <1>1, <2>3 DEF Lookup, Goto, Rollback, tables, IInv, TypeOK
    <3>2. QED
      BY <1>1, <2>1, <3>1 DEF IInv, KillInv, Recorded
  <2>4. CASE CommitKill(r)
    BY <2>1, <2>4 DEF CommitKill
  <2>5. ASSUME ~Lookup(r), ~CommitKill(r) PROVE FALSE
    BY <1>1, <2>1, <2>2, <2>5 DEF Step, Upsert, ReadVersion, Record, CommitIssue,
       CheckVersion, Claim, Bump, Revoke, RevokeRow, End, Goto, IInv, TypeOK
  <2>6. QED
    BY <2>3, <2>4, <2>5
<1>2. IInv /\ [Next]_vars =>
        [\A r \in Request :
           replay[r] /\ pc[r] # "unauthorized" /\ pc'[r] = "unauthorized"
             => family[reqJti[r]] \in killed']_vars
  BY <1>1
<1>3. QED
  BY <1>2, Invariance, PTL DEF Spec, ReplayEndsFamily

-----------------------------------------------------------------------------
(* AuthTokens implements SessionLedger *)

LiveTokens  == {j \in Jti : Usable(j)}
SpentTokens == {j \in Recorded : ~Usable(j)}

(* Only the two commits show in the ledger. *)
LEMMA LedgerFrame ==
  ASSUME UNCHANGED <<version, status, tv, family>>
  PROVE  UNCHANGED <<LiveTokens, SpentTokens, family>>
  BY DEF LiveTokens, SpentTokens, Usable, Recorded

(* A commit of an issue opens a session, swaps one token for one, or       *)
(* issues a dead token.                                                    *)
LEMMA IssueInLedger ==
  ASSUME IInv, NEW r \in Request, CommitIssue(r)
  PROVE  Ledger!Next
<1>a. PICK n : n = newJti[r]
  OBVIOUS
<1>b. PICK k : k = reqJti[r]
  OBVIOUS
<1>1. /\ n \in Jti /\ n \notin Recorded
      /\ version \in Nat /\ version' \in Nat /\ reqTv[r] \in Nat
      /\ reqTv[r] <= version' /\ 0 < reqTv[r]
      /\ version' # version => version = 0
  BY <1>a, <1>b, IssueWrites
<1>2. \A j \in Jti : status'[j] = IF j = n THEN "active"
                                  ELSE IF j = k THEN "rotated" ELSE status[j]
  BY <1>a, <1>b, IssueWrites
<1>3. k # None => /\ k \in Recorded /\ status[k] = "active"
                  /\ reqTv[r] = tv[k] /\ version' = version
  BY <1>a, <1>b, IssueWrites
<1>4. /\ \A j \in Jti : tv'[j] = IF j = n THEN reqTv[r] ELSE tv[j]
      /\ family' = [family EXCEPT ![n] = IF k = None THEN n ELSE family[k]]
  BY <1>a, <1>b, IssueWrites
<1>5. Recorded' = Recorded \cup {n}
  BY <1>a, <1>b, IssueWrites
<1>6. \A j \in Recorded : tv[j] \in Nat /\ tv[j] <= version /\ tv[j] > 0
  BY DEF IInv, TokenInv, TypeOK, Recorded
<1>7. \A j \in Jti \ {n} : Usable(j)' <=> Usable(j) /\ j # k
  <2>1. ASSUME NEW j \in Jti, status[j] = "active" PROVE j \in Recorded
    BY <2>1 DEF Recorded
  <2>2. QED
    BY <1>1, <1>2, <1>4, <1>6, <2>1 DEF Usable
<1>8. ~Usable(n) /\ (Usable(n)' <=> reqTv[r] = version')
  BY <1>1, <1>2, <1>4 DEF Usable, Recorded
<1>9. k # None => (Usable(k) <=> reqTv[r] = version')
  BY <1>3 DEF Usable
<1>10. n \in Jti \ Ledger!Issued
  BY <1>1 DEF Ledger!Issued, Usable, Recorded
<1>11. CASE reqTv[r] = version' /\ k = None
  <2>1. Ledger!Open(n)
    BY <1>1, <1>4, <1>5, <1>7, <1>8, <1>10, <1>11, NoneAssumption
       DEF Ledger!Open, Recorded
  <2>2. QED
    BY <1>1, <2>1 DEF Ledger!Next
<1>12. CASE reqTv[r] = version' /\ k # None
  <2>1. Ledger!Exchange(k, n)
    BY <1>1, <1>3, <1>4, <1>5, <1>7, <1>8, <1>9, <1>10, <1>12
       DEF Ledger!Exchange, Recorded
  <2>2. k \in Jti
    BY <1>3, <1>12 DEF Recorded
  <2>3. QED
    BY <1>1, <2>1, <2>2 DEF Ledger!Next
<1>13. CASE reqTv[r] # version'
  <2>1. \A j \in Jti : Usable(j)' <=> Usable(j)
    BY <1>7, <1>8, <1>9, <1>13, NoneAssumption
  <2>2. {j \in Recorded : ~Usable(j)}' = {j \in Recorded : ~Usable(j)} \cup {n}
    BY <1>1, <1>5, <1>8, <2>1 DEF Recorded
  <2>3. \E s \in {n} \cup {family[j] : j \in {j \in Recorded : ~Usable(j)}} :
          family' = [family EXCEPT ![n] = s]
    <3>1. CASE k = None
      BY <1>4, <3>1
    <3>2. CASE k # None
      BY <1>3, <1>4, <1>9, <1>13, <3>2
    <3>3. QED
      BY <3>1, <3>2
  <2>4. Ledger!StillBorn(n)
    BY <1>10, <2>1, <2>2, <2>3 DEF Ledger!StillBorn
  <2>5. QED
    BY <1>1, <2>4 DEF Ledger!Next
<1>14. QED
  BY <1>11, <1>12, <1>13

(* A commit of a kill closes every session. *)
LEMMA KillInLedger ==
  ASSUME IInv, NEW r \in Request, CommitKill(r)
  PROVE  Ledger!Next
<1>1. version' = version + 1 /\ version \in Nat /\ tv' = tv /\ family' = family
  BY DEF IInv, CommitKill, PhaseInv, LockInv, TypeOK
<1>2. \A j \in Jti : j \in Recorded' <=> j \in Recorded
  <2>1. \A j \in Jti : \/ status'[j] = status[j]
                       \/ status'[j] = "revoked" /\ j \in Recorded
    BY DEF IInv, CommitKill, MarkInv, TypeOK
  <2>2. QED
    BY <2>1 DEF Recorded
<1>3. \A j \in Jti : tv[j] \in Nat /\ tv[j] <= version
  BY DEF IInv, TokenInv, TypeOK
<1>4. \A j \in Jti : ~Usable(j)'
  BY <1>1, <1>3 DEF Usable
<1>5. Ledger!CloseAll
  BY <1>1, <1>2, <1>4 DEF Ledger!CloseAll, Recorded, Usable
<1>6. QED
  BY <1>5 DEF Ledger!Next

(* The tables and transactions implement the session ledger. *)
THEOREM Implementation == Spec => ImplementsLedger
<1>1. Init => Ledger!Init
  BY DEF Init, Ledger!Init, Usable, Recorded
<1>2. ASSUME IInv, [Next]_vars
      PROVE  [Ledger!Next]_<<LiveTokens, SpentTokens, family>>
  <2>1. ASSUME NEW r \in Request, Arrive(r) PROVE UNCHANGED <<version, status, tv, family>>
    BY <2>1 DEF Arrive, Login, Refresh, Logout, Rollback, tables
  <2>2. ASSUME NEW r \in Request, Step(r), ~CommitIssue(r), ~CommitKill(r)
        PROVE  UNCHANGED <<version, status, tv, family>>
    BY <2>2 DEF Step, Upsert, ReadVersion, Record, CheckVersion, Claim, Lookup,
       Bump, Revoke, RevokeRow, Rollback, tables
  <2>3. ASSUME NEW r \in Request, Fail(r) PROVE UNCHANGED <<version, status, tv, family>>
    BY <2>3 DEF Fail, Rollback, tables
  <2>4. Expire \/ UNCHANGED vars => UNCHANGED <<version, status, tv, family>>
    BY DEF Expire, vars, tables
  <2>5. QED
    BY <1>2, <2>1, <2>2, <2>3, <2>4, LedgerFrame, IssueInLedger, KillInLedger DEF Next
<1>3. QED
  BY <1>1, <1>2, Invariance, PTL
     DEF Spec, ImplementsLedger, Ledger!Spec, LiveTokens, SpentTokens
=============================================================================
