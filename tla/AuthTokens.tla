----------------------------- MODULE AuthTokens -----------------------------
(***************************************************************************)
(* The admin session protocol: login, refresh-token rotation with reuse    *)
(* detection, and logout (api/v1/auth.py), over the `admins` and           *)
(* `refresh_tokens` tables (app/admin).  Requests run concurrently, in any *)
(* number of worker processes, each in its own PostgreSQL transaction at   *)
(* the default READ COMMITTED level:                                       *)
(*                                                                         *)
(*  - every SQL statement is one step and reads what is committed when it  *)
(*    runs, plus the transaction's own writes;                             *)
(*  - a row a transaction has written stays locked until it ends: another  *)
(*    writer of the row waits, then re-evaluates its WHERE clause on the   *)
(*    committed row;                                                       *)
(*  - pending writes (bump, mark) reach version and status at commit.      *)
(*                                                                         *)
(* Only one subject exists (the configured ADMIN_USERNAME; every other one *)
(* is refused before any table is read): neither table has a subject here. *)
(***************************************************************************)
EXTENDS Naturals, FiniteSets

CONSTANTS
  Request,      \* HTTP requests; each one runs once
  Jti,          \* refresh-token ids (uuid4, never drawn twice)
  None,         \* no token
  Prod,         \* TRUE: require_admin trusts the gateway's X-User-ID header
  MaxExpired    \* bound on the tokens that pass their expiry

ASSUME NoneAssumption == None \notin Jti
ASSUME ProdAssumption == Prod \in BOOLEAN
ASSUME MaxExpiredAssumption == MaxExpired \in Nat

VARIABLES
  version,   \* committed admins.token_version; 0 while there is no admin row
  status,    \* committed refresh_tokens.status of each jti
  tv,        \* the `tv` claim each recorded refresh token carries
  expired,   \* tokens past their expiry
  held,      \* refresh tokens whose response reached a client
  access,    \* `tv` claims of the access tokens that reached a client
  pc,        \* the next statement of each request, or its outcome
  reqTv,     \* token_version the request has read
  reqJti,    \* refresh token presented (None: login, logout)
  newJti,    \* refresh token being issued
  late,      \* the presented row had expired when the transaction began
  bump,      \* pending write of the admin row; 0 when there is none
  mark,      \* pending writes of refresh-token rows
  scan,      \* rows the revoking UPDATE has still to reach
  family,    \* history: the login each recorded token descends from
  killed,    \* history: families a logout or a reuse detection has ended
  replay     \* history: the presented token was already rotated when checked

tables  == <<version, status, tv, expired, held, access, family, killed>>
locals  == <<reqTv, reqJti, newJti, late, bump, mark, scan, replay>>
vars    == <<tables, pc, locals>>

NoMarks  == [j \in Jti |-> "none"]
Outcomes == {"ok", "unauthorized", "error"}

(* A recorded token that a refresh would still exchange. *)
Usable(j) == status[j] = "active" /\ tv[j] = version
Recorded  == {j \in Jti : status[j] # "absent"}

(* Row locks: the transactions holding a pending write of the row. *)
AdminLocked(r)  == \E q \in Request \ {r} : bump[q] # 0
RowLocked(r, j) == \E q \in Request \ {r} : mark[q][j] # "none"

Init ==
  /\ version = 0
  /\ status = [j \in Jti |-> "absent"]
  /\ tv = [j \in Jti |-> 0]
  /\ expired = {} /\ held = {} /\ access = {}
  /\ pc = [r \in Request |-> "idle"]
  /\ reqTv = [r \in Request |-> 0]
  /\ reqJti = [r \in Request |-> None]
  /\ newJti = [r \in Request |-> None]
  /\ late = [r \in Request |-> FALSE]
  /\ bump = [r \in Request |-> 0]
  /\ mark = [r \in Request |-> NoMarks]
  /\ scan = [r \in Request |-> {}]
  /\ family = [j \in Jti |-> None]
  /\ killed = {}
  /\ replay = [r \in Request |-> FALSE]

(* Mutant of End: the transaction is left open with its admin row lock. *)
EndLeaksLock(r, outcome) ==
  /\ pc' = [pc EXCEPT ![r] = outcome]
  /\ UNCHANGED locals

Goto(r, label) == pc' = [pc EXCEPT ![r] = label]

(* The transaction ends and its locks go; the request has its outcome. *)
End(r, outcome) ==
  /\ Goto(r, outcome)
  /\ reqTv' = [reqTv EXCEPT ![r] = 0]
  /\ reqJti' = [reqJti EXCEPT ![r] = None]
  /\ newJti' = [newJti EXCEPT ![r] = None]
  /\ late' = [late EXCEPT ![r] = FALSE]
  /\ bump' = [bump EXCEPT ![r] = 0]
  /\ mark' = [mark EXCEPT ![r] = NoMarks]
  /\ scan' = [scan EXCEPT ![r] = {}]
  /\ replay' = [replay EXCEPT ![r] = FALSE]

Rollback(r, outcome) == End(r, outcome) /\ UNCHANGED tables

-----------------------------------------------------------------------------
(* A request arrives *)

(* POST /auth/login with the right credentials (others get 401 and touch   *)
(* no table).                                                              *)
Login(r) ==
  /\ pc[r] = "idle"
  /\ Goto(r, "upsert")
  /\ UNCHANGED <<tables, locals>>

(* What decode_token lets through: a signed token before its exp claim. *)
Decodable == held \ expired

(* POST /auth/refresh with a token some client holds: first use, retry and *)
(* replay look alike.                                                      *)
Refresh(r) ==
  /\ pc[r] = "idle"
  /\ \E j \in Decodable :
       reqJti' = [reqJti EXCEPT ![r] = j]
  /\ Goto(r, "check")
  /\ UNCHANGED <<tables, reqTv, newJti, late, bump, mark, scan, replay>>

(* require_admin for an access token of version v.  Outside prod it        *)
(* compares v with the table, in a transaction it rolls back before the    *)
(* endpoint opens its own; in prod it does not look.                       *)
Admitted(v) == Prod \/ v = version

(* Mutant of Logout: it forgets increment_token_version. *)
LogoutKeepsVersion(r) ==
  /\ pc[r] = "idle"
  /\ access # {}
  /\ Goto(r, "revoke")
  /\ UNCHANGED <<tables, locals>>

(* POST /auth/logout with an access token some client holds. *)
Logout(r) ==
  /\ pc[r] = "idle"
  /\ \E v \in access :
       IF Admitted(v)
       THEN /\ Goto(r, "bump")
            /\ reqTv' = [reqTv EXCEPT ![r] = v]
            /\ UNCHANGED <<tables, reqJti, newJti, late, bump, mark, scan,
                           replay>>
       ELSE Rollback(r, "unauthorized")

-----------------------------------------------------------------------------
(* Statements of login *)

(* INSERT INTO admins ... ON CONFLICT DO NOTHING: waits for a transaction  *)
(* writing the row, and writes only when there is none.                    *)
Upsert(r) ==
  /\ pc[r] = "upsert"
  /\ ~AdminLocked(r)
  /\ bump' = [bump EXCEPT ![r] = IF version = 0 THEN 1 ELSE 0]
  /\ Goto(r, "read")
  /\ UNCHANGED <<tables, reqTv, reqJti, newJti, late, mark, scan, replay>>

(* The SELECT that ends upsert_admin: its own insert, or the committed row. *)
ReadVersion(r) ==
  /\ pc[r] = "read"
  /\ reqTv' = [reqTv EXCEPT ![r] = IF bump[r] # 0 THEN bump[r] ELSE version]
  /\ Goto(r, "record")
  /\ UNCHANGED <<tables, reqJti, newJti, late, bump, mark, scan, replay>>

(* Ids no issued token carries and no request has drawn. *)
Fresh == {n \in Jti : status[n] = "absent" /\ \A q \in Request : newJti[q] # n}

(* issue_refresh_token and record_refresh_token: INSERT a row with a new   *)
(* random id.  Which of the unused ids it is makes no difference.          *)
Record(r) ==
  /\ pc[r] = "record"
  /\ Fresh # {}
  /\ LET n == CHOOSE n \in Fresh : TRUE
     IN  /\ newJti' = [newJti EXCEPT ![r] = n]
         /\ mark' = [mark EXCEPT ![r][n] = "active"]
  /\ Goto(r, "commit")
  /\ UNCHANGED <<tables, reqTv, reqJti, late, bump, scan, replay>>

(* COMMIT of a login or a rotation.  The response with the token pair may  *)
(* be lost on its way to the client.                                       *)
CommitIssue(r) ==
  /\ pc[r] = "commit"
  /\ version' = IF bump[r] # 0 THEN bump[r] ELSE version
  /\ status' = [j \in Jti |-> IF mark[r][j] # "none" THEN mark[r][j]
                                                     ELSE status[j]]
  /\ tv' = [tv EXCEPT ![newJti[r]] = reqTv[r]]
  /\ family' = [family EXCEPT ![newJti[r]] =
                  IF reqJti[r] = None THEN newJti[r] ELSE family[reqJti[r]]]
  /\ \/ held' = held \cup {newJti[r]} /\ access' = access \cup {reqTv[r]}
     \/ UNCHANGED <<held, access>>
  /\ UNCHANGED <<expired, killed>>
  /\ End(r, "ok")

-----------------------------------------------------------------------------
(* Statements of refresh *)

(* Mutant of CheckVersion: the tv claim is not compared with the table. *)
CheckVersionSkipped(r) ==
  /\ pc[r] = "check"
  /\ reqTv' = [reqTv EXCEPT ![r] = version]
  /\ Goto(r, "claim")
  /\ UNCHANGED <<tables, reqJti, newJti, late, bump, mark, scan, replay>>

(* BEGIN and get_admin.  now() stays at the transaction's start, so        *)
(* whether the presented row has expired is settled here.                  *)
CheckVersion(r) ==
  /\ pc[r] = "check"
  /\ IF tv[reqJti[r]] = version
     THEN /\ reqTv' = [reqTv EXCEPT ![r] = version]
          /\ late' = [late EXCEPT ![r] = reqJti[r] \in expired]
          /\ replay' = [replay EXCEPT ![r] = status[reqJti[r]] = "rotated"]
          /\ Goto(r, "claim")
          /\ UNCHANGED <<tables, reqJti, newJti, bump, mark, scan>>
     ELSE Rollback(r, "unauthorized")

(* Mutant of Claimable: no compare before the set. *)
ClaimableInAnyState(r) == ~late[r]

(* The WHERE clause of claim_refresh_token_rotation. *)
Claimable(r) == status[reqJti[r]] = "active" /\ ~late[r]

(* UPDATE ... SET status = 'rotated' WHERE ... RETURNING: waits while the  *)
(* row qualifies and another transaction has written it.                   *)
Claim(r) ==
  /\ pc[r] = "claim"
  /\ Claimable(r) => ~RowLocked(r, reqJti[r])
  /\ IF Claimable(r)
     THEN /\ mark' = [mark EXCEPT ![r][reqJti[r]] = "rotated"]
          /\ Goto(r, "record")
     ELSE /\ Goto(r, "lookup")
          /\ UNCHANGED mark
  /\ UNCHANGED <<tables, reqTv, reqJti, newJti, late, bump, scan, replay>>

(* Mutant of Lookup: a replay is refused and nothing more. *)
LookupIgnoresReplay(r) == pc[r] = "lookup" /\ Rollback(r, "unauthorized")

(* get_refresh_token after a lost claim: a rotated row is a replay. *)
Lookup(r) ==
  /\ pc[r] = "lookup"
  /\ IF status[reqJti[r]] = "rotated"
     THEN Goto(r, "bump") /\ UNCHANGED <<tables, locals>>
     ELSE Rollback(r, "unauthorized")

-----------------------------------------------------------------------------
(* Family kill: the body of logout, and of refresh on reuse detection *)

(* Mutant of Bump: it writes the version it found. *)
BumpByNothing(r) ==
  /\ pc[r] = "bump"
  /\ ~AdminLocked(r)
  /\ bump' = [bump EXCEPT ![r] = version]
  /\ Goto(r, "revoke")
  /\ UNCHANGED <<tables, reqTv, reqJti, newJti, late, mark, scan, replay>>

(* increment_token_version: the committed row plus one, under its lock. *)
Bump(r) ==
  /\ pc[r] = "bump"
  /\ ~AdminLocked(r)
  /\ bump' = [bump EXCEPT ![r] = version + 1]
  /\ Goto(r, "revoke")
  /\ UNCHANGED <<tables, reqTv, reqJti, newJti, late, mark, scan, replay>>

(* revoke_refresh_tokens starts: the UPDATE sees the rows committed now. *)
Revoke(r) ==
  /\ pc[r] = "revoke"
  /\ scan' = [scan EXCEPT ![r] = Recorded]
  /\ Goto(r, "revoking")
  /\ UNCHANGED <<tables, reqTv, reqJti, newJti, late, bump, mark, replay>>

(* Mutant of RevokeRow: a status the column's Literal does not name. *)
RevokeRowMisspelt(r) ==
  /\ pc[r] = "revoking"
  /\ \E j \in scan[r] : mark' = [mark EXCEPT ![r][j] = "revoke"]
  /\ UNCHANGED <<tables, pc, reqTv, reqJti, newJti, late, bump, scan, replay>>

(* It writes its rows one after the other, in the order of the scan. *)
RevokeRow(r) ==
  /\ pc[r] = "revoking"
  /\ \E j \in scan[r] :
       /\ ~RowLocked(r, j)
       /\ mark' = [mark EXCEPT ![r][j] = "revoked"]
       /\ scan' = [scan EXCEPT ![r] = @ \ {j}]
  /\ UNCHANGED <<tables, pc, reqTv, reqJti, newJti, late, bump, replay>>

(* COMMIT; logout answers 200, reuse detection 401. *)
CommitKill(r) ==
  /\ pc[r] = "revoking"
  /\ scan[r] = {}
  /\ version' = bump[r]
  /\ status' = [j \in Jti |-> IF mark[r][j] # "none" THEN mark[r][j]
                                                     ELSE status[j]]
  /\ killed' = killed \cup {family[j] : j \in Recorded}
  /\ UNCHANGED <<tv, expired, held, access, family>>
  /\ End(r, IF reqJti[r] = None THEN "ok" ELSE "unauthorized")

-----------------------------------------------------------------------------
(* Environment *)

(* A statement or lock timeout, a lost connection, a killed worker: the    *)
(* server rolls the transaction back and the request fails.                *)
Fail(r) ==
  /\ pc[r] \notin Outcomes \cup {"idle"}
  /\ Rollback(r, "error")

(* Time passes the exp claim and the expires_at column of a token. *)
Expire ==
  /\ Cardinality(expired) < MaxExpired
  /\ \E j \in Recorded \ expired : expired' = expired \cup {j}
  /\ UNCHANGED <<version, status, tv, held, access, family, killed, pc, locals>>

Arrive(r) == Login(r) \/ Refresh(r) \/ Logout(r)

Step(r) ==
  \/ Upsert(r) \/ ReadVersion(r) \/ Record(r) \/ CommitIssue(r)
  \/ CheckVersion(r) \/ Claim(r) \/ Lookup(r)
  \/ Bump(r) \/ Revoke(r) \/ RevokeRow(r) \/ CommitKill(r)

Next ==
  \/ \E r \in Request : Arrive(r) \/ Step(r) \/ Fail(r)
  \/ Expire

Spec == Init /\ [][Next]_vars

(* Once begun, a request keeps executing: the event loop resumes every     *)
(* coroutine and the server every statement that no lock holds back.       *)
Fairness == \A r \in Request : WF_vars(Step(r))
FairSpec == Spec /\ Fairness
-----------------------------------------------------------------------------
(* Properties *)

Status == {"absent", "active", "rotated", "revoked"}
Labels == {"idle", "upsert", "read", "record", "commit", "check", "claim",
           "lookup", "bump", "revoke", "revoking"} \cup Outcomes

(* Every variable stays in its range. *)
TypeOK ==
  /\ version \in Nat
  /\ status \in [Jti -> Status]
  /\ tv \in [Jti -> Nat]
  /\ expired \in SUBSET Jti /\ held \in SUBSET Jti /\ access \in SUBSET Nat
  /\ pc \in [Request -> Labels]
  /\ reqTv \in [Request -> Nat]
  /\ reqJti \in [Request -> Jti \cup {None}]
  /\ newJti \in [Request -> Jti \cup {None}]
  /\ late \in [Request -> BOOLEAN]
  /\ bump \in [Request -> Nat]
  /\ mark \in [Request -> [Jti -> {"none", "active", "rotated", "revoked"}]]
  /\ scan \in [Request -> SUBSET Jti]
  /\ family \in [Jti -> Jti \cup {None}]
  /\ killed \in SUBSET (Jti \cup {None})
  /\ replay \in [Request -> BOOLEAN]

(* A login's chain of refresh tokens never holds two active ones, however  *)
(* many refreshes of the same token race: the compare-and-set of           *)
(* claim_refresh_token_rotation makes rotation single-use.                 *)
OneActivePerFamily ==
  \A i, j \in Jti :
    status[i] = "active" /\ status[j] = "active" /\ family[i] = family[j]
      => i = j

(* Once a logout or a reuse detection has ended a family, no token of the  *)
(* family is usable again, not even one that a rotation racing with the    *)
(* kill records after the revoking UPDATE took its snapshot.               *)
KilledFamiliesStayDead ==
  \A j \in Jti : family[j] \in killed => ~Usable(j)

(* The request r waits for a row that the transaction of q holds. *)
WaitsFor(r, q) ==
  /\ r # q
  /\ \/ pc[r] \in {"upsert", "bump"} /\ bump[q] # 0
     \/ pc[r] = "claim" /\ Claimable(r) /\ mark[q][reqJti[r]] # "none"
     \/ pc[r] = "revoking" /\ \E j \in scan[r] : mark[q][j] # "none"

(* Requests never deadlock on row locks: every path that takes both takes  *)
(* the admin row before token rows, and a rotation waits for nothing once  *)
(* it holds its token, so chains of waiting requests have two links.       *)
NoDeadlock ==
  \A r, q, s, t \in Request :
    WaitsFor(r, q) /\ WaitsFor(q, s) => ~WaitsFor(s, t)

(* A replay never goes unpunished: a refresh that presents a token already *)
(* rotated when its version is checked answers 401 only if its family is   *)
(* dead, by its own doing or by that of a kill that came first.            *)
ReplayEndsFamily ==
  [][\A r \in Request :
       replay[r] /\ pc[r] # "unauthorized" /\ pc'[r] = "unauthorized"
         => family[reqJti[r]] \in killed']_vars

(* Every request that has begun gets an answer: no lock is held for ever,  *)
(* and the revoking UPDATE runs out of rows.                               *)
EveryRequestEnds ==
  \A r \in Request : pc[r] # "idle" ~> pc[r] \in Outcomes

(* The tables implement the ledger: whatever the interleaving, a token is  *)
(* exchanged at most once, for one token of its own session; only a login  *)
(* opens a session; and no token a logout or a reuse detection ended, or   *)
(* that was issued after one overtook its request, ever comes to life.     *)
Ledger == INSTANCE SessionLedger
            WITH live    <- {j \in Jti : Usable(j)},
                 spent   <- {j \in Recorded : ~Usable(j)},
                 session <- family

ImplementsLedger == Ledger!Spec

(* api/v1/auth.py:90 "The refresh token must still match the current       *)
(* `admins.token_version`": a kill that a refresh commits revokes usable   *)
(* sessions of the version of the token presented, and no later one.       *)
ReuseKillsOwnVersionOnly ==
  [][\A r \in Request, j \in Jti :
       pc[r] = "revoking" /\ reqJti[r] # None /\ pc'[r] = "unauthorized" /\ Usable(j)
         => tv[j] = reqTv[r]]_vars
=============================================================================
