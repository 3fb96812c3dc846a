-------------------------- MODULE AdminAccessProofs --------------------------
(* Theorems about AdminAccess, for any fleet, settings and number of       *)
(* requests, any lifetimes and any number of deployments.                  *)
EXTENDS AdminAccess, TLAPS

(***************************************************************************)
(* The inductive invariant.  RevocationLag is about the request that was   *)
(* admitted last; why it was admitted in time rests on when its token was  *)
(* signed, and that on when the version it carries was read.               *)
(***************************************************************************)

(* Every pod that is up has passed the checks at boot. *)
FleetInv == \A p \in Pod : Up(p) => config[p] \in Settings /\ ProdChecks(config[p])

(* Versions end in the past. *)
EndedInv == \A v \in 1..version : v < version => ended[v] <= clock

(* Whoever signs has read its version at most IssueTime ago, and while it  *)
(* was the current one.                                                    *)
Passwords == {s.password : s \in Settings}
Signings  == [pod : Pod, tv : Nat, since : Nat, opened : Passwords]
Signs(s) ==
  /\ s \in Signings /\ s.tv \in 1..version /\ s.since \in 0..clock
  /\ Up(s.pod) /\ config[s.pod].key \in RsaKeys
  /\ clock <= s.since + IssueTime
  /\ s.tv < version => s.since <= ended[s.tv]
RequestInv ==
  /\ pc \in [Request -> {"idle", "signing", "done"}]
  /\ signing = [r \in Request |-> signing[r]]
  /\ \A r \in Request : IF pc[r] = "signing" THEN Signs(signing[r])
                                            ELSE signing[r] = None

(* An access token ends soon, and soon after its version did. *)
Lapses(t) == /\ t.exp <= clock + AccessTtl
             /\ t.tv < version => t.exp <= ended[t.tv] + IssueTime + AccessTtl
TokenInv == \A t \in tokens : /\ t.opened \in Passwords
                              /\ t.typ = "access" => Lapses(t)

(* Whoever was admitted had an access token, valid at that time, and where *)
(* the version is read, one of a version that had not ended.               *)
GrantInv ==
  granted # None =>
    /\ granted.token \in tokens /\ granted.token.typ = "access"
    /\ granted.time \in 0..clock /\ granted.time < granted.token.exp
    /\ granted.prod \in BOOLEAN
    /\ ~granted.prod /\ granted.token.tv < version =>
         granted.time <= ended[granted.token.tv]

IInv == TypeOK /\ FleetInv /\ EndedInv /\ RequestInv /\ TokenInv /\ GrantInv

LEMMA InitInv ==
  ASSUME Init
  PROVE  IInv
<1>1. TypeOK
  BY DEF Init, TypeOK
<1>2. QED
  BY <1>1 DEF Init, IInv, FleetInv, EndedInv, RequestInv, TokenInv, GrantInv, Up

-----------------------------------------------------------------------------
(* What a step may do to the versions: nothing, or end the current one. *)
Versions == Supersede \/ UNCHANGED <<version, ended>>

(* Either way the versions that had ended are left as they are. *)
LEMMA VersionsStep ==
  ASSUME TypeOK, Versions
  PROVE  /\ version' \in Nat /\ version <= version'
         /\ ended' \in Seq(Nat) /\ version' = Len(ended') + 1
         /\ \A v \in 1..version : v < version => ended'[v] = ended[v]
         /\ version' # version => version' = version + 1 /\ ended'[version] = clock
<1>1. CASE Supersede
  BY <1>1 DEF Supersede, TypeOK
<1>2. CASE UNCHANGED <<version, ended>>
  BY <1>2 DEF TypeOK
<1>3. QED
  BY <1>1, <1>2 DEF Versions

(* Signing stays in time, and tokens lapse in time, when a version ends.   *)
LEMMA SignsKept ==
  ASSUME TypeOK, Versions, UNCHANGED <<clock, config>>, NEW s, Signs(s)
  PROVE  Signs(s)'
<1>1. s.tv < version' => s.since <= ended'[s.tv]
  <2>1. CASE s.tv < version
    BY <2>1, VersionsStep DEF Signs, TypeOK
  <2>2. CASE s.tv = version
    BY <2>2, VersionsStep DEF Signs, TypeOK
  <2>3. QED
    BY <2>1, <2>2 DEF Signs, TypeOK
<1>2. s.tv \in 1..version'
  BY VersionsStep DEF Signs, TypeOK
<1>3. QED
  BY <1>1, <1>2 DEF Signs, Up

LEMMA TokensKept ==
  ASSUME IInv, Versions, UNCHANGED <<clock, tokens>>
  PROVE  EndedInv' /\ TokenInv' /\ \A t \in tokens : t.tv \in 1..version'
<1>0. /\ version \in Nat /\ version' \in Nat /\ version <= version'
      /\ \A v \in 1..version : v < version => ended'[v] = ended[v]
      /\ version' # version => version' = version + 1 /\ ended'[version] = clock
      /\ clock \in Nat
  BY VersionsStep DEF IInv, TypeOK
<1>1. EndedInv'
  <2>1. SUFFICES ASSUME NEW v \in 1..version', v < version'
                 PROVE  ended'[v] <= clock
    BY DEF EndedInv
  <2>2. CASE v < version
    BY <1>0, <2>2 DEF IInv, EndedInv
  <2>3. CASE v = version
    BY <1>0, <2>1, <2>3
  <2>4. QED
    BY <1>0, <2>1, <2>2, <2>3
<1>2. TokenInv'
  <2>1. SUFFICES ASSUME NEW t \in tokens, t.typ = "access"
                 PROVE  Lapses(t)'
    BY DEF IInv, TokenInv
  <2>2. Lapses(t) /\ t.exp \in Nat /\ t.tv \in 1..version
    BY <2>1 DEF IInv, TypeOK, TokenInv
  <2>3. CASE t.tv < version
    BY <1>0, <2>2, <2>3 DEF Lapses
  <2>4. CASE t.tv = version
    BY <1>0, <2>2, <2>4, TimeAssumption DEF Lapses
  <2>5. QED
    BY <1>0, <2>2, <2>3, <2>4
<1>3. \A t \in tokens : t.tv \in 1..version'
  BY <1>0 DEF IInv, TypeOK
<1>4. QED
  BY <1>1, <1>2, <1>3

(* What was granted stays so. *)
LEMMA GrantKept ==
  ASSUME IInv, Versions, UNCHANGED <<clock, granted>>, tokens \subseteq tokens'
  PROVE  GrantInv'
<1>1. SUFFICES ASSUME granted # None, ~granted.prod,
                      granted.token.tv < version'
               PROVE  granted.time <= ended'[granted.token.tv]
  BY DEF GrantInv, IInv
<1>2. /\ granted.token.tv \in 1..version
      /\ granted.time \in 0..clock
      /\ granted.token.tv < version =>
           granted.time <= ended[granted.token.tv]
  BY <1>1 DEF GrantInv, IInv, TypeOK
<1>3. CASE granted.token.tv < version
  BY <1>2, <1>3, VersionsStep DEF IInv, TypeOK
<1>4. CASE granted.token.tv = version
  BY <1>2, <1>4, <1>1, VersionsStep DEF IInv, TypeOK
<1>5. QED
  BY <1>2, <1>3, <1>4 DEF IInv, TypeOK

(* A request that is answered, or goes on to sign, leaves the others be. *)
LEMMA Answered ==
  ASSUME IInv, NEW r \in Request, Answer(r), Versions,
         UNCHANGED <<clock, config>>
  PROVE  RequestInv'
<1>1. /\ pc' \in [Request -> {"idle", "signing", "done"}]
      /\ signing' = [q \in Request |-> signing'[q]]
  BY DEF Answer, IInv, RequestInv
<1>2. ASSUME NEW q \in Request
      PROVE  IF pc'[q] = "signing" THEN Signs(signing[q])'
                                   ELSE signing'[q] = None
  <2>1. CASE q = r
    BY <2>1 DEF Answer, IInv, RequestInv
  <2>2. CASE q # r
    <3>1. pc'[q] = pc[q] /\ signing'[q] = signing[q]
      BY <2>2 DEF Answer, IInv, RequestInv
    <3>2. CASE pc[q] = "signing"
      <4>1. ASSUME NEW s, s = signing[q] PROVE Signs(s)'
        BY <3>2, <4>1, SignsKept DEF IInv, RequestInv
      <4>2. QED
        BY <3>1, <3>2, <4>1 DEF Signs, Up
    <3>3. CASE pc[q] # "signing"
      BY <3>1, <3>3 DEF IInv, RequestInv
    <3>4. QED
      BY <3>2, <3>3
  <2>3. QED
    BY <2>1, <2>2
<1>3. QED
  BY <1>1, <1>2 DEF RequestInv

-----------------------------------------------------------------------------
(* The steps of the fleet. *)

LEMMA DeployStep ==
  ASSUME IInv, Deploy
  PROVE  IInv'
<1> USE DEF Deploy, sessions, requests
<1>1. TypeOK'
  BY BoundAssumption DEF IInv, TypeOK, Up
<1>2. FleetInv' /\ EndedInv'
  BY DEF IInv, FleetInv, EndedInv, Up
<1>3. RequestInv'
  BY DEF IInv, RequestInv, Signs, Up
<1>4. TokenInv' /\ GrantInv'
  BY DEF IInv, TokenInv, Lapses, GrantInv
<1>5. QED
  BY <1>1, <1>2, <1>3, <1>4 DEF IInv

LEMMA BootStep ==
  ASSUME IInv, NEW p \in Pod, Boot(p)
  PROVE  IInv'
<1> USE DEF Boot, sessions, requests
<1>1. \A q \in Pod : /\ Up(q) => config'[q] = config[q]
                     /\ q # p => config'[q] = config[q]
                     /\ q = p => config'[q] = deployed
  BY DEF IInv, TypeOK, Up
<1>2. RequestInv'
  BY <1>1, NoneAssumption DEF IInv, RequestInv, Signs, Signings, Up
<1>3. TypeOK'
  BY <1>2 DEF IInv, TypeOK, RequestInv, Signs, Up
<1>4. FleetInv'
  BY <1>1 DEF IInv, TypeOK, FleetInv, Up, ProdChecks
<1>5. EndedInv' /\ TokenInv' /\ GrantInv'
  BY DEF IInv, EndedInv, TokenInv, Lapses, GrantInv
<1>6. QED
  BY <1>2, <1>3, <1>4, <1>5 DEF IInv

LEMMA StopStep ==
  ASSUME IInv, NEW p \in Pod, Stop(p)
  PROVE  IInv'
<1> USE DEF Stop, sessions
<1>1. \A q \in Pod : config'[q] = IF q = p THEN None ELSE config[q]
  BY DEF IInv, TypeOK
<1>2. RequestInv'
  <2>1. ASSUME NEW r \in Request
        PROVE  pc'[r] # "signing" => signing'[r] = None
    BY DEF IInv, RequestInv
  <2>2. /\ pc' \in [Request -> {"idle", "signing", "done"}]
        /\ signing' = [r \in Request |-> signing'[r]]
    BY DEF IInv, RequestInv
  <2>3. ASSUME NEW r \in Request, pc'[r] = "signing" PROVE Signs(signing[r])'
    BY <1>1, <2>3, NoneAssumption DEF IInv, RequestInv, Signs, Signings, Up
  <2>4. \A r \in Request : pc'[r] = "signing" => signing'[r] = signing[r]
    BY DEF IInv, RequestInv
  <2>5. QED
    BY <2>1, <2>2, <2>3, <2>4 DEF RequestInv
<1>3. TypeOK'
  BY <1>2 DEF IInv, TypeOK, RequestInv, Signs, Up
<1>4. FleetInv'
  BY <1>1 DEF IInv, FleetInv, Up, ProdChecks
<1>5. EndedInv' /\ TokenInv' /\ GrantInv'
  BY DEF IInv, EndedInv, TokenInv, Lapses, GrantInv
<1>6. QED
  BY <1>2, <1>3, <1>4, <1>5 DEF IInv

LEMMA FetchStep ==
  ASSUME IInv, NEW p \in Pod, FetchJwks(p)
  PROVE  IInv'
<1> USE DEF FetchJwks, sessions, requests
<1>1. TypeOK' /\ FleetInv' /\ EndedInv'
  BY DEF IInv, TypeOK, FleetInv, EndedInv, Up
<1>2. RequestInv'
  BY DEF IInv, RequestInv, Signs, Up
<1>3. TokenInv' /\ GrantInv'
  BY DEF IInv, TokenInv, Lapses, GrantInv
<1>4. QED
  BY <1>1, <1>2, <1>3 DEF IInv

(* Time passes only as long as everyone who signs is in time. *)
LEMMA TickStep ==
  ASSUME IInv, Tick
  PROVE  IInv'
<1> USE DEF Tick, fleet, sessions, requests
<1>1. clock \in Nat /\ clock' = clock + 1 /\ {AccessTtl, IssueTime} \subseteq Nat
  BY TimeAssumption DEF IInv, TypeOK
<1>2. RequestInv'
  <2>1. ASSUME NEW r \in Request, pc[r] = "signing"
        PROVE  /\ signing[r].since \in 0..clock'
               /\ clock' <= signing[r].since + IssueTime
    BY <1>1, <2>1 DEF IInv, RequestInv, Signs
  <2>2. QED
    BY <2>1 DEF IInv, RequestInv, Signs, Up
<1>3. TypeOK'
  BY <1>1, <1>2 DEF IInv, TypeOK, RequestInv, Signs, Up
<1>4. FleetInv' /\ EndedInv'
  BY <1>1 DEF IInv, TypeOK, FleetInv, EndedInv, Up
<1>5. TokenInv'
  BY <1>1 DEF IInv, TypeOK, TokenInv, Lapses
<1>6. GrantInv'
  BY <1>1 DEF IInv, GrantInv
<1>7. QED
  BY <1>2, <1>3, <1>4, <1>5, <1>6 DEF IInv

-----------------------------------------------------------------------------
(* The steps of requests. *)

(* What was read now, of a version that is current, is in time. *)
LEMMA Opened ==
  ASSUME IInv, NEW r \in Request, NEW p \in Pod, NEW password \in Passwords,
         Up(p), HasKey(p), Sign(r, p, version, password),
         UNCHANGED <<clock, fleet, version, ended>>
  PROVE  RequestInv'
<1>1. ASSUME NEW s, s = [pod |-> p, tv |-> version, since |-> clock,
                         opened |-> password]
      PROVE  Signs(s)'
  BY <1>1, TimeAssumption DEF IInv, TypeOK, Signs, Signings, Up, HasKey, fleet
<1>2. ASSUME NEW q \in Request, NEW s, s = signing[q], pc[q] = "signing"
      PROVE  Signs(s)'
  BY <1>2 DEF IInv, RequestInv, Signs, Up, fleet
<1>3. /\ pc' \in [Request -> {"idle", "signing", "done"}]
      /\ signing' = [q \in Request |-> signing'[q]]
      /\ pc'[r] = "signing"
      /\ signing'[r] = [pod |-> p, tv |-> version, since |-> clock,
                        opened |-> password]
      /\ \A q \in Request \ {r} : pc'[q] = pc[q] /\ signing'[q] = signing[q]
  BY DEF IInv, RequestInv, Sign
<1>4. ASSUME NEW q \in Request
      PROVE  IF pc'[q] = "signing" THEN Signs(signing[q])'
                                   ELSE signing'[q] = None
  <2>1. CASE q = r
    BY <1>1, <1>3, <2>1 DEF Signs, Up
  <2>2. CASE q # r /\ pc[q] = "signing"
    BY <1>2, <1>3, <2>2 DEF Signs, Up
  <2>3. CASE q # r /\ pc[q] # "signing"
    BY <1>3, <2>3 DEF IInv, RequestInv
  <2>4. QED
    BY <2>1, <2>2, <2>3
<1>5. QED
  BY <1>3, <1>4 DEF RequestInv

(* The other conjuncts, where no token is added. *)
LEMMA Unissued ==
  ASSUME IInv, Versions, RequestInv', GrantInv', used' \subseteq tokens,
         UNCHANGED <<clock, fleet, tokens>>
  PROVE  IInv'
<1>1. TypeOK'
  BY TokensKept, VersionsStep DEF IInv, TypeOK, RequestInv, Signs, Up, fleet
<1>2. FleetInv'
  BY DEF IInv, FleetInv, Up, ProdChecks, fleet
<1>3. QED
  BY <1>1, <1>2, TokensKept DEF IInv

LEMMA LoginStep ==
  ASSUME IInv, NEW r \in Request, NEW p \in Pod, Login(r, p)
  PROVE  IInv'
<1>1. PICK password \in Passwords :
        IF VerifyPassword(p, password) /\ HasKey(p)
        THEN Sign(r, p, version, password) ELSE Answer(r)
  BY DEF Login, Passwords
<1>2. UNCHANGED <<clock, fleet, sessions, granted>> /\ Up(p)
  BY DEF Login
<1>3. Versions /\ used' \subseteq tokens
  BY <1>2 DEF Versions, sessions, IInv, TypeOK
<1>4. RequestInv'
  BY <1>1, <1>2, <1>3, Opened, Answered DEF sessions, fleet
<1>5. QED
  BY <1>2, <1>3, <1>4, GrantKept, Unissued DEF sessions

LEMMA RefreshStep ==
  ASSUME IInv, NEW r \in Request, NEW p \in Pod, Refresh(r, p)
  PROVE  IInv'
<1> DEFINE accepted(t) == Decodes(p, t) /\ t.typ = "refresh" /\ t.tv = version
<1>1. UNCHANGED <<clock, fleet, tokens, granted>> /\ Up(p)
  BY DEF Refresh
<1>2. PICK t \in tokens :
        IF accepted(t) /\ t \notin used
        THEN /\ Sign(r, p, t.tv, t.opened)
             /\ used' = used \cup {t}
             /\ UNCHANGED <<version, ended>>
        ELSE /\ Answer(r)
             /\ IF accepted(t) THEN Supersede ELSE UNCHANGED <<version, ended>>
             /\ UNCHANGED used
  BY DEF Refresh
<1>3. CASE accepted(t) /\ t \notin used
  <2>1. RequestInv'
    BY <1>1, <1>2, <1>3, Opened DEF Decodes, IInv, TokenInv
  <2>2. QED
    BY <1>1, <1>2, <1>3, <2>1, GrantKept, Unissued DEF Versions, IInv, TypeOK
<1>4. CASE ~(accepted(t) /\ t \notin used)
  <2>1. Answer(r) /\ Versions /\ used' \subseteq tokens
    BY <1>2, <1>4 DEF Versions, IInv, TypeOK
  <2>2. QED
    BY <1>1, <2>1, Answered, GrantKept, Unissued DEF fleet
<1>5. QED
  BY <1>3, <1>4

(* A pair is signed at most IssueTime after its version was read. *)
LEMMA IssueStep ==
  ASSUME IInv, NEW r \in Request, Issue(r)
  PROVE  IInv'
<1> DEFINE a == Token(r, "access", AccessTtl)
           f == Token(r, "refresh", RefreshTtl)
<1>1. /\ tokens' = tokens \cup {a, f} /\ Answer(r)
      /\ UNCHANGED <<clock, fleet, version, ended, used, granted>>
  BY DEF Issue
<1>2. Signs(signing[r])
  BY DEF Issue, IInv, RequestInv
<1>3. Versions
  BY <1>1 DEF Versions
<1>4. ASSUME NEW t \in {a, f}
      PROVE  /\ t.typ \in {"access", "refresh"} /\ t.opened \in Passwords
             /\ t.tv = signing[r].tv /\ t.exp \in Nat
             /\ t.typ = "access" => t.exp = clock + AccessTtl
  BY <1>2, <1>4, TimeAssumption DEF Token, Signs, Signings, IInv, TypeOK
<1>5. RequestInv'
  BY <1>1, <1>3, Answered DEF fleet
<1>6. TypeOK'
  BY <1>1, <1>2, <1>4, <1>5 DEF IInv, TypeOK, RequestInv, Signs, Up, fleet
<1>7. TokenInv'
  <2>1. ASSUME NEW t \in {a, f}, t.typ = "access" PROVE Lapses(t)
    <3>1. signing[r].tv < version => ended[signing[r].tv] \in Nat
      BY <1>2 DEF IInv, TypeOK, Signs
    <3>2. clock \in Nat /\ {AccessTtl, IssueTime} \subseteq Nat
      BY TimeAssumption DEF IInv, TypeOK
    <3>3. QED
      BY <1>2, <1>4, <2>1, <3>1, <3>2 DEF Lapses, Signs
  <2>2. QED
    BY <1>1, <1>4, <2>1 DEF IInv, TokenInv, Lapses
<1>8. FleetInv' /\ EndedInv'
  BY <1>1 DEF IInv, FleetInv, EndedInv, Up, ProdChecks, fleet
<1>9. QED
  BY <1>1, <1>3, <1>5, <1>6, <1>7, <1>8, GrantKept DEF IInv

(* What a request that passes require_admin has shown.  In prod it came    *)
(* through the gateway: the hop proof is there, and the empty header of a  *)
(* caller inside the cluster is not the secret.                            *)
LEMMA Admitted ==
  ASSUME IInv, NEW p \in Pod, Up(p), NEW bearer \in tokens \cup {None},
         NEW gateway \in BOOLEAN, NEW header \in BOOLEAN,
         gateway => GatewayAccepts(bearer) /\ header,
         HopProof(p, IF gateway THEN GatewaySecret ELSE Blank),
         RequireAdmin(p, header, bearer)
  PROVE  /\ bearer \in tokens /\ bearer.typ = "access" /\ clock < bearer.exp
         /\ config[p].prod \in BOOLEAN
         /\ ~config[p].prod => bearer.tv = version
<1>1. /\ config[p] \in Settings /\ ProdChecks(config[p])
      /\ config[p].prod \in BOOLEAN
  BY SettingsAssumption DEF IInv, FleetInv
<1>2. clock \in Nat /\ \A t \in tokens : t.exp \in Nat
  BY DEF IInv, TypeOK
<1>3. CASE config[p].prod
  <2>1. gateway
    BY <1>1, <1>3, BlankAssumption DEF HopProof, ProdChecks
  <2>2. QED
    BY <1>1, <1>2, <1>3, <2>1 DEF GatewayAccepts
<1>4. CASE ~config[p].prod
  BY <1>1, <1>2, <1>4 DEF RequireAdmin, VerifySubject, Decodes
<1>5. QED
  BY <1>3, <1>4

LEMMA AdminStep ==
  ASSUME IInv, NEW r \in Request, NEW p \in Pod, Admin(r, p)
  PROVE  IInv'
<1>1. UNCHANGED <<clock, fleet, tokens, used>> /\ Up(p) /\ Answer(r)
  BY DEF Admin
<1>2. PICK bearer \in tokens \cup {None},
           gateway \in BOOLEAN, header \in BOOLEAN, logout \in BOOLEAN :
        /\ gateway => GatewayAccepts(bearer) /\ header
        /\ IF /\ HopProof(p, IF gateway THEN GatewaySecret ELSE Blank)
              /\ RequireAdmin(p, header, bearer)
           THEN /\ granted' =
                     [token |-> bearer, time |-> clock, prod |-> config[p].prod]
                /\ IF logout THEN Supersede ELSE UNCHANGED <<version, ended>>
           ELSE UNCHANGED <<granted, version, ended>>
  BY DEF Admin
<1>3. Versions /\ used' \subseteq tokens
  BY <1>1, <1>2 DEF Versions, IInv, TypeOK
<1>4. RequestInv'
  BY <1>1, <1>3, Answered DEF fleet
<1>5. GrantInv'
  <2>1. CASE /\ HopProof(p, IF gateway THEN GatewaySecret ELSE Blank)
             /\ RequireAdmin(p, header, bearer)
    <3>1. granted' = [token |-> bearer, time |-> clock, prod |-> config[p].prod]
      BY <1>2, <2>1
    <3>2. /\ bearer \in tokens /\ bearer.typ = "access" /\ clock < bearer.exp
          /\ config[p].prod \in BOOLEAN
          /\ ~config[p].prod => bearer.tv = version
      BY <1>1, <1>2, <2>1, Admitted
    <3>3. bearer.tv = version /\ version < version' => ended'[bearer.tv] = clock
      BY <1>3, VersionsStep DEF IInv, TypeOK
    <3>4. clock \in Nat
      BY DEF IInv, TypeOK
    <3>5. QED
      BY <1>1, <3>1, <3>2, <3>3, <3>4 DEF GrantInv
  <2>2. CASE ~(/\ HopProof(p, IF gateway THEN GatewaySecret ELSE Blank)
               /\ RequireAdmin(p, header, bearer))
    BY <1>1, <1>2, <1>3, <2>2, GrantKept
  <2>3. QED
    BY <2>1, <2>2
<1>6. QED
  BY <1>1, <1>3, <1>4, <1>5, Unissued

-----------------------------------------------------------------------------
(* Every step preserves the invariant. *)
LEMMA Step ==
  ASSUME IInv, [Next]_vars
  PROVE  IInv'
<1>1. CASE Deploy
  BY <1>1, DeployStep
<1>2. CASE Tick
  BY <1>2, TickStep
<1>3. ASSUME NEW p \in Pod, Boot(p) \/ Stop(p) \/ FetchJwks(p) PROVE IInv'
  BY <1>3, BootStep, StopStep, FetchStep
<1>4. ASSUME NEW r \in Request, Issue(r) PROVE IInv'
  BY <1>4, IssueStep
<1>5. ASSUME NEW r \in Request, NEW p \in Pod,
             Login(r, p) \/ Refresh(r, p) \/ Admin(r, p)
      PROVE  IInv'
  BY <1>5, LoginStep, RefreshStep, AdminStep
<1>6. CASE UNCHANGED vars
  <2> USE <1>6 DEF vars, fleet, sessions, requests
  <2>1. TypeOK' /\ FleetInv' /\ EndedInv'
    BY DEF IInv, TypeOK, FleetInv, EndedInv, Up
  <2>2. RequestInv'
    BY DEF IInv, RequestInv, Signs, Up
  <2>3. TokenInv' /\ GrantInv'
    BY DEF IInv, TokenInv, Lapses, GrantInv
  <2>4. QED
    BY <2>1, <2>2, <2>3 DEF IInv
<1>7. QED
  BY <1>1, <1>2, <1>3, <1>4, <1>5, <1>6 DEF Next

(* The strengthened invariant holds. *)
THEOREM Invariance == Spec => []IInv
BY InitInv, Step, PTL DEF Spec

(* Type correctness: tokens and signing requests carry versions that exist, *)
(* and only pods with a key sign.                                          *)
THEOREM TypeCorrect == Spec => []TypeOK
<1>1. IInv => TypeOK
  BY DEF IInv
<1>2. QED
  BY <1>1, Invariance, PTL

(* Whatever the pods run with, and whichever of them is asked, only the    *)
(* holder of an unexpired access token passes require_admin.               *)
THEOREM OnlyHolders == Spec => []AdmittedHoldsToken
<1>1. IInv => AdmittedHoldsToken
  BY DEF IInv, GrantInv, AdmittedHoldsToken
<1>2. QED
  BY <1>1, Invariance, PTL

(* In prod a token outlives its version by less than the access lifetime   *)
(* and the time it took to sign it; elsewhere it does not outlive it.      *)
THEOREM LagBounded == Spec => []RevocationLag
<1>1. ASSUME IInv PROVE RevocationLag
  <2>1. SUFFICES ASSUME granted # None, granted.token.tv < version
                 PROVE  IF granted.prod
                        THEN granted.time < ended[granted.token.tv]
                                              + AccessTtl + IssueTime
                        ELSE granted.time <= ended[granted.token.tv]
    BY DEF RevocationLag
  <2>2. /\ granted.token \in tokens /\ granted.time \in 0..clock
        /\ granted.time < granted.token.exp
        /\ granted.token.exp <= ended[granted.token.tv] + IssueTime + AccessTtl
        /\ ~granted.prod => granted.time <= ended[granted.token.tv]
    BY <1>1, <2>1 DEF IInv, GrantInv, TokenInv, Lapses
  <2>3. /\ ended[granted.token.tv] \in Nat /\ granted.token.exp \in Nat
        /\ clock \in Nat /\ {AccessTtl, IssueTime} \subseteq Nat
    <3>1. TypeOK
      BY <1>1 DEF IInv
    <3>2. /\ granted.token.tv \in 1..version /\ version \in Nat
          /\ granted.token.exp \in Nat /\ clock \in Nat
      BY <2>2, <3>1 DEF TypeOK
    <3>3. granted.token.tv \in 1..Len(ended)
      BY <2>1, <3>1, <3>2 DEF TypeOK
    <3>4. ended \in Seq(Nat)
      BY <3>1 DEF TypeOK
    <3>5. ended[granted.token.tv] \in Nat
      BY <3>3, <3>4
    <3>6. QED
      BY <3>2, <3>5, TimeAssumption
  <2>4. CASE granted.prod
    <3> DEFINE at  == granted.time
               exp == granted.token.exp
               off == ended[granted.token.tv]
    <3>1. /\ at \in Nat /\ exp \in Nat /\ off \in Nat
          /\ at < exp /\ exp <= off + IssueTime + AccessTtl
      BY <2>2, <2>3
    <3> HIDE DEF at, exp, off
    <3>2. at < off + AccessTtl + IssueTime
      BY <3>1, TimeAssumption
    <3>3. QED
      BY <2>4, <3>2 DEF at, off
  <2>5. QED
    BY <2>2, <2>4
<1>2. QED
  BY <1>1, Invariance, PTL
=============================================================================
