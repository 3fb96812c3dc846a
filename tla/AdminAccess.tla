----------------------------- MODULE AdminAccess -----------------------------
(***************************************************************************)
(* Who gets past require_admin, over time: the settings each pod booted    *)
(* with (app/core/config), the keys it signs and verifies with             *)
(* (app/core/security), the middleware in front of it (app/server.py), and *)
(* the token versions that logout and reuse detection move on.             *)
(*                                                                         *)
(* The operators may deploy new settings at any time; a pod runs with      *)
(* those it read when it booted (ConfigLoader keeps them), so pods of two  *)
(* deployments serve side by side.  In prod a pod trusts the gateway,      *)
(* which verifies access tokens with the public key it has fetched; other  *)
(* pods verify the token themselves.                                       *)
(*                                                                         *)
(* The transactions of login, refresh and logout are single steps here:    *)
(* their statements interleave in AuthTokens, which proves what is assumed *)
(* of them.  What is not one step is the time between the commit a token   *)
(* rests on, or the version it carries, and the moment it is signed.       *)
(***************************************************************************)
EXTENDS Naturals, Sequences

CONSTANTS
  Request,        \* HTTP requests; each one runs once
  Pod,            \* processes, each with its own settings
  Settings,       \* what the operators may deploy, one of these at a time
  RsaKeys,        \* values of JWT_PRIVATE_KEY_PEM that parse as RSA keys
  LongSecrets,    \* gateway secrets of at least 32 characters
  GatewaySecret,  \* what the gateway stamps in X-Gateway-Auth
  Blank,          \* the empty string
  None,           \* no settings, no token, no key
  AccessTtl,      \* JWT_ACCESS_EXPIRE_MINUTES
  RefreshTtl,     \* JWT_REFRESH_EXPIRE_MINUTES
  IssueTime,      \* longest time from reading a version to signing with it
  MaxClock,       \* bound on the clock
  MaxDeploys      \* bound on the changes of settings

ASSUME SettingsAssumption ==
  \A s \in Settings : /\ DOMAIN s = {"prod", "password", "key", "kid", "gateway"}
                       /\ s.prod \in BOOLEAN
ASSUME NoneAssumption  == None \notin Settings /\ None \notin RsaKeys
ASSUME BlankAssumption == Blank \notin RsaKeys \cup LongSecrets \cup {GatewaySecret}
ASSUME TimeAssumption  == {AccessTtl, RefreshTtl, IssueTime} \subseteq Nat
ASSUME BoundAssumption == {MaxClock, MaxDeploys} \subseteq Nat

VARIABLES
  clock,
  deployed,  \* the settings the operators want, and how often they changed
  deploys,
  config,    \* the settings each pod runs with, None while it is down
  jwks,      \* the key the gateway has fetched, and its kid
  version,   \* admins.token_version
  ended,     \* when each earlier version was superseded
  tokens,    \* tokens in the hands of clients
  used,      \* refresh tokens already exchanged
  pc,        \* where each request is
  signing,   \* the tokens it is about to sign: the pod, the version and when
             \* it was read, the password the session was opened with
  granted    \* history: what the last request to pass require_admin had

fleet    == <<deployed, deploys, config, jwks>>
sessions == <<version, ended, tokens, used>>
requests == <<pc, signing, granted>>
vars     == <<clock, fleet, sessions, requests>>

Init ==
  /\ clock = 0
  /\ deployed \in Settings /\ deploys = 0
  /\ config = [p \in Pod |-> None]
  /\ jwks = None
  /\ version = 1 /\ ended = <<>>
  /\ tokens = {} /\ used = {}
  /\ pc = [r \in Request |-> "idle"]
  /\ signing = [r \in Request |-> None]
  /\ granted = None

Up(p) == config[p] # None

-----------------------------------------------------------------------------
(* Settings *)

(* Mutant of ProdChecks: the gateway secret is not checked. *)
ProdChecksNoSecret(s) ==
  s.prod => s.key \in RsaKeys /\ s.kid # Blank

(* _prod_checks: outside prod nothing is checked at boot. *)
ProdChecks(s) ==
  s.prod => /\ s.key \in RsaKeys
            /\ s.kid # Blank
            /\ s.gateway \in LongSecrets

(* Operators replace the ConfigMap or the Secret. *)
Deploy ==
  /\ deploys < MaxDeploys
  /\ deploys' = deploys + 1
  /\ deployed' \in Settings
  /\ UNCHANGED <<clock, config, jwks, sessions, requests>>

(* A process starts with what is deployed, unless the validator raises. *)
Boot(p) ==
  /\ ~Up(p)
  /\ ProdChecks(deployed)
  /\ config' = [config EXCEPT ![p] = deployed]
  /\ UNCHANGED <<clock, deployed, deploys, jwks, sessions, requests>>

(* It ends, by a rollout or a crash, and its requests with it. *)
Stop(p) ==
  /\ Up(p)
  /\ config' = [config EXCEPT ![p] = None]
  /\ LET cut == {r \in Request : pc[r] = "signing" /\ signing[r].pod = p}
     IN  /\ pc' = [r \in Request |-> IF r \in cut THEN "done" ELSE pc[r]]
         /\ signing' = [r \in Request |-> IF r \in cut THEN None
                                                        ELSE signing[r]]
  /\ UNCHANGED <<clock, deployed, deploys, jwks, sessions, granted>>

(* Mutant of HasKey: whatever the PEM is, it is not rejected. *)
HasKeyUnread(p) == Up(p)

(* private_key raises when the PEM is blank or is no RSA key. *)
HasKey(p) == config[p].key \in RsaKeys

(* The gateway fetches the key set of some pod: one key, with its kid. *)
FetchJwks(p) ==
  /\ Up(p) /\ HasKey(p)
  /\ jwks' = [kid |-> config[p].kid, key |-> config[p].key]
  /\ UNCHANGED <<clock, deployed, deploys, config, sessions, requests>>

-----------------------------------------------------------------------------
(* Tokens *)

(* _issue: signed with the key of the pod, valid from now on. *)
Token(r, typ, ttl) ==
  LET cfg == config[signing[r].pod]
  IN  [typ |-> typ, tv |-> signing[r].tv, exp |-> clock + ttl, jti |-> r,
       key |-> cfg.key, kid |-> cfg.kid, opened |-> signing[r].opened]

(* decode_token, with the key of the pod that reads the token. *)
Decodes(p, t) == HasKey(p) /\ t.key = config[p].key /\ t.exp > clock

(* Another version becomes the current one. *)
Supersede == version' = version + 1 /\ ended' = Append(ended, clock)

(* The request goes on to sign tokens of version tv, or is answered. *)
Sign(r, p, tv, password) ==
  /\ pc' = [pc EXCEPT ![r] = "signing"]
  /\ signing' = [signing EXCEPT ![r] =
       [pod |-> p, tv |-> tv, since |-> clock, opened |-> password]]
Answer(r) == pc' = [pc EXCEPT ![r] = "done"] /\ signing' = [signing EXCEPT ![r] = None]

-----------------------------------------------------------------------------
(* verify_password: nothing matches an empty hash. *)
VerifyPassword(p, password) ==
  config[p].password # Blank /\ password = config[p].password

(* POST /auth/login.  The password is compared with the pod's setting,     *)
(* never with the stored row, which the first login has written.           *)
Login(r, p) ==
  /\ pc[r] = "idle" /\ Up(p)
  /\ \E password \in {s.password : s \in Settings} :
       IF VerifyPassword(p, password) /\ HasKey(p)
       THEN Sign(r, p, version, password)
       ELSE Answer(r)
  /\ UNCHANGED <<clock, fleet, sessions, granted>>

(* POST /auth/refresh: a token of the current version is exchanged once; a *)
(* second time it is a replay, and ends every session.                     *)
Refresh(r, p) ==
  /\ pc[r] = "idle" /\ Up(p)
  /\ \E t \in tokens :
       LET accepted == Decodes(p, t) /\ t.typ = "refresh" /\ t.tv = version
       IN  IF accepted /\ t \notin used
           THEN /\ Sign(r, p, t.tv, t.opened)
                /\ used' = used \cup {t}
                /\ UNCHANGED <<version, ended>>
           ELSE /\ Answer(r)
                /\ IF accepted THEN Supersede ELSE UNCHANGED <<version, ended>>
                /\ UNCHANGED used
  /\ UNCHANGED <<clock, fleet, tokens, granted>>

(* The pair is signed.  A client need not use it: the answer may be lost. *)
Issue(r) ==
  /\ pc[r] = "signing"
  /\ tokens' = tokens \cup {Token(r, "access", AccessTtl),
                            Token(r, "refresh", RefreshTtl)}
  /\ Answer(r)
  /\ UNCHANGED <<clock, fleet, version, ended, used, granted>>

-----------------------------------------------------------------------------
(* Admin endpoints *)

(* init_middleware and GatewaySharedSecretMiddleware: only in prod, and    *)
(* not when the secret is empty.                                           *)
HopProof(p, supplied) ==
  config[p].prod /\ config[p].gateway # Blank => supplied = config[p].gateway

(* The gateway stamps X-User-ID for a bearer of an access token that its   *)
(* key verifies.                                                           *)
GatewayAccepts(t) ==
  /\ t # None /\ jwks # None
  /\ t.typ = "access" /\ t.exp > clock
  /\ t.kid = jwks.kid /\ t.key = jwks.key

(* Mutant of VerifySubject: the version is not compared. *)
VerifySubjectAnyVersion(p, t) == t # None /\ Decodes(p, t) /\ t.typ = "access"

(* decode_token and _verify_subject. *)
VerifySubject(p, t) ==
  t # None /\ Decodes(p, t) /\ t.typ = "access" /\ t.tv = version

(* require_admin: in prod the header counts, elsewhere the bearer token. *)
RequireAdmin(p, header, bearer) ==
  IF config[p].prod THEN header ELSE VerifySubject(p, bearer)

(* A request to an admin endpoint, logout among them, with some token or   *)
(* none: through the gateway, or from inside the cluster with whatever     *)
(* headers its caller sets.                                                *)
Admin(r, p) ==
  /\ pc[r] = "idle" /\ Up(p)
  /\ \E bearer \in tokens \cup {None}, gateway, header, logout \in BOOLEAN :
       /\ gateway => GatewayAccepts(bearer) /\ header
       /\ IF /\ HopProof(p, IF gateway THEN GatewaySecret ELSE Blank)
             /\ RequireAdmin(p, header, bearer)
          THEN /\ granted' =
                    [token |-> bearer, time |-> clock, prod |-> config[p].prod]
               /\ IF logout THEN Supersede ELSE UNCHANGED <<version, ended>>
          ELSE UNCHANGED <<granted, version, ended>>
  /\ Answer(r)
  /\ UNCHANGED <<clock, fleet, tokens, used>>

-----------------------------------------------------------------------------
(* Time passes, but statement_timeout ends a transaction that would keep a *)
(* request from signing for longer than IssueTime.                         *)
Tick ==
  /\ clock < MaxClock
  /\ \A r \in Request : pc[r] = "signing" => clock < signing[r].since + IssueTime
  /\ clock' = clock + 1
  /\ UNCHANGED <<fleet, sessions, requests>>

Next ==
  \/ Deploy \/ Tick
  \/ \E p \in Pod : Boot(p) \/ Stop(p) \/ FetchJwks(p)
  \/ \E r \in Request : Issue(r)
  \/ \E r \in Request, p \in Pod : Login(r, p) \/ Refresh(r, p) \/ Admin(r, p)

Spec == Init /\ [][Next]_vars

-----------------------------------------------------------------------------
(* Types: a version has an end exactly when it is not the current one, and *)
(* only pods with a key come to sign.                                      *)
TypeOK ==
  /\ clock \in Nat /\ version \in Nat /\ deploys \in Nat
  /\ deployed \in Settings /\ config \in [Pod -> Settings \cup {None}]
  /\ ended \in Seq(Nat) /\ version = Len(ended) + 1
  /\ used \subseteq tokens
  /\ \A t \in tokens : /\ t.typ \in {"access", "refresh"}
                       /\ t.exp \in Nat /\ t.tv \in 1..version
  /\ pc \in [Request -> {"idle", "signing", "done"}]
  /\ \A r \in Request :
       IF pc[r] = "signing"
       THEN /\ Up(signing[r].pod) /\ config[signing[r].pod].key \in RsaKeys
            /\ signing[r].tv \in 1..version /\ signing[r].since \in 0..clock
       ELSE signing[r] = None

(* Whoever passes require_admin holds an access token that is still valid, *)
(* on every pod of a rollout and whatever reaches it: in prod the header   *)
(* is believed only because the boot checks leave no pod without a hop     *)
(* proof (app/server.py, _check_prod_gateway_secret).                      *)
AdmittedHoldsToken ==
  granted # None =>
    /\ granted.token \in tokens /\ granted.token.typ = "access"
    /\ granted.time < granted.token.exp

(* A token outlives its version by less than the access lifetime and the   *)
(* time between reading a version and signing with it, where the header is *)
(* trusted (require_admin: "revocation lags by the access TTL"); where the *)
(* version is read, not at all.                                            *)
RevocationLag ==
  granted # None =>
    LET tv == granted.token.tv
    IN  tv < version =>
          IF granted.prod THEN granted.time < ended[tv] + AccessTtl + IssueTime
                          ELSE granted.time <= ended[tv]

(* api/v1/auth.py:90 "The refresh token must still match the current       *)
(* `admins.token_version` (logout / password change invalidates both)": a  *)
(* pod that runs with a new password exchanges no token of a session that  *)
(* was opened with the old one.                                            *)
PasswordChangeEndsSessions ==
  \A r \in Request :
    pc[r] = "signing" =>
      signing[r].opened = config[signing[r].pod].password
=============================================================================
