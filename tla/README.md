# A verification project for blog_be

blog_be is a FastAPI service over PostgreSQL for one administrator's blog: posts,
tags, page content and an admin session of JWT access and refresh tokens. This
directory holds TLA+ models of it, the TLC runs that check them and proofs that
TLAPS checks. Source paths below are relative to `src/`.

## 1. The system

| component | state | operations | what is hard |
|---|---|---|---|
| Admin sessions (`api/v1/auth.py`, `app/admin`) | tables `admins` (token_version) and `refresh_tokens` (jti, status, expiry) | login, refresh, logout | statements of concurrent transactions interleave; kill against rotation; replay against retry |
| `require_admin` (`app/core/security/auth.py`) | none of its own: reads the token and the admin row (local) or a header (prod) | called before every admin endpoint | checked before the endpoint's transaction begins; tokens that outlive their version |
| Gateway trust, configuration (`app/server.py`, `app/core/config`) | settings, fixed when a process starts | middleware stack per ENV, checks at start | pods of two deployments side by side; a combination that leaves a check out |
| Keys, JWKS, passwords (`app/core/security`) | one cached key per process | sign, publish, compare | rotation by restart, a gateway that has fetched the other key |
| Post writes (`app/post`, `api/v1/posts.py`) | tables `posts`, `post_tags` | create, update (also renames), publish, delete | check-then-act on slugs, autoflush, writes computed from what was loaded |
| Tags (`app/tag`) | table `tags` | `ensure` within create and update | two requests introduce the same tag |
| Reads (`app/post/infrastructure`, `app/tag/application`, `app/core/pagination.py`) | none | lists, search, nav, tags, tag detail | one answer out of several statements; paging arithmetic; ties |
| Site content (`app/content`) | table `site_contents` | get, upsert | the last writer wins, each answered with its own write |
| Request scope (`app/core/db`, `SQLAlchemyMiddleware`) | session per request, transaction, connection pool per worker | bind, begin or join, commit, rollback, remove | a read autobegins; who commits; connections kept during the response |
| Bootstrap and shutdown (`app/core/db/session.py`, lifespan, `main.py`) | schema, the phase of each worker | `create_all` by each worker, drain, cancel, dispose | workers race; requests in flight |
| Login rate limiter (`app/server.py`) | a list of times per peer, per process | dispatch | off-by-one at the window, refused attempts, restarts |
| Deployment (`k8s/`) | pods, workers, connections | rollout, scaling | connection budget and deadlines |

The endpoints share nothing in memory but the limiter's table and the connection
pool; they interact through PostgreSQL, at its default READ COMMITTED level.
`require_admin` and the endpoint share the request's session; creation and
update call `TagRepository.ensure` inside their own transaction. The full list
of hazards, each at its line, with the properties that answer to it, is in
`PROJECT.json`.

## 2. Modules

| module | models |
|---|---|
| `AuthTokens` | login, refresh and logout, statement by statement |
| `SessionLedger` | what they promise: an abstract ledger of tokens and sessions |
| `AdminAccess` | who passes `require_admin`: settings, keys, gateway, versions, time |
| `PostStore` | create, update, publish, delete and `ensure`, statement by statement |
| `PostCatalogue` | what they promise: each request takes effect once, cell by cell |
| `PostReads` | lists, search, nav, tags and tag detail, with the admin writing in between |
| `ContentStore` | GET and PUT of page content, statement by statement |
| `ContentRegister` | what they promise: a register for each key |
| `RequestScope` | session, transaction and connection of each request of a worker |
| `ServiceLifecycle` | `RequestScope` inside workers that boot, drain, are killed and start again |
| `RateLimiter` | `LoginRateLimitMiddleware` |
| `...Proofs` | the theorems about the module named |
| `MC...` | the instances TLC checks |

How they compose: `ServiceLifecycle` extends `RequestScope` and takes its steps;
`AuthTokens` implements `SessionLedger`, `PostStore` implements `PostCatalogue`
and `ContentStore` implements `ContentRegister`, each through an INSTANCE whose
substitution is the refinement mapping. `AdminAccess` takes login, refresh and
logout as single steps: that their statements, interleaved, have the effect of
such steps is what `AuthTokens` shows. `RequestScope` stands for the transactions
of every endpoint, the others for what the statements do.

### The database, as the models see it

One SQL statement is one step. A SELECT reads what is committed when it runs. A
row or key that an open transaction has written stays locked until that
transaction ends; another statement that writes it waits and then sees what was
committed (an UPDATE re-evaluates its WHERE, an INSERT fails on the key, ON
CONFLICT DO NOTHING does nothing). Pending writes become visible at commit, all
at once. Any statement may fail, and a wait may end in a lock timeout
(`DB_LOCK_TIMEOUT_MS`) or by the deadlock detector; both roll back.

### AuthTokens

A request runs through program labels named after the statements of the code:
a login through `upsert`, `read`, `record`, `commit`; a refresh through `check`,
`claim` and either `record`, `commit` or `lookup`, `bump`, `revoke`, `revoking`;
a logout through the last three. `version`, `status` and `tv` are the columns;
`bump` and `mark` the pending writes, which are also the row locks. The revoking
UPDATE takes its snapshot in one step (`Revoke`) and reaches row after row
(`RevokeRow`), so a rotation can insert a row behind it. `now()` is the start of
the transaction: whether the presented row had expired is fixed (`late`) when the
transaction begins. `Fresh` draws a jti for a token; symmetry of the unused ones
is broken by taking a fixed unused one, since nothing else tells them apart.
`family`, `killed` and `replay` are history: no action reads them to decide.

There is one subject, the configured administrator; any other is refused before
a table is read. A login with a wrong password touches no table.

### AdminAccess

A pod runs with the settings that were deployed when it started (`config`);
operators may deploy others (`Deploy`), so pods of two deployments serve side by
side, with different keys, passwords, gateway secrets or environments. `Boot`
has the checks of `Config` (`ProdChecks`), which exist in prod only.
`FetchJwks` is the gateway's, whenever it likes, from any pod. `Admin` is a
request to an admin endpoint, through the gateway or from inside the cluster
with headers its caller chooses; `HopProof` and `RequireAdmin` are the
middleware and the dependency in front of it. The gateway itself is external: it
is modelled from what `app/server.py` and `require_admin` expect of it.

What is not a single step is the time between the commit or the read a token
rests on and its signature (`signing`, `Issue`): that is where a logout can come
between. `Tick` lets no request take longer than `IssueTime` there, as
`statement_timeout` and the lock timeout do in the code. Versions that ended keep
the time of their end (`ended`), and `granted` remembers how the last request
got in: both are history.

### PostStore

The labels are the statements that SQLAlchemy issues. `update` is the one to
read: `load` (the row) and `selectin` (its tags) fix what the unit of work
compares with; if tags are given and columns have changed, the SELECT in
`ensure` autoflushes the changed columns first (`early`); `tag` inserts missing
tags one by one, in the order of the payload; `row` and `links` are the flush of
the rest (updated_at is written whenever tags are); a rename asks `taken` and
writes the key last. An UPDATE that finds no row is StaleDataError (`stale`), a
taken key IntegrityError (`duplicate`). Whether deleting fewer `post_tags` rows
than expected raises depends on the driver's row counts: both outcomes are
possible. A DELETE that finds no post is only a warning, and its commit then
changes nothing, whatever is at the slug by that time. Text columns are one
value; `status` and `date` are kept because `publish` writes them; `birth` (who
created the row) is history. The slug of a creation and the tags are those after
`slugify` and `normalize_tag`.

`PostCatalogue` promises cells one by one, because the code promises no more: of
two concurrent edits each may win some columns and some tags. Its `Miss` is the
moment at which a deletion finds its slug empty, after which it may be answered
with success without touching what is created there later.

### ContentStore

A PUT is one transaction: upsert, which waits for another writer of the row, a
read of the row for the response, and COMMIT, whose outcome may be lost. Keys
and bodies that validation refuses are in the instance too.

### PostReads

`PostReads` starts from every choice of posts and runs one read, with a bounded
number of arbitrary commits (`Write`) between its statements. Sort orders, the
filters by tag, kind and status, the nav conditions, the search score, offset
and `hasNext` are the code's. A query's ORDER BY is a set of pairs (`Pairs`), the
n-th row the one with n - 1 others before it (`Ordered`), LIMIT 1 the one before
all others (`First`): definitions without recursion, so that they can be reasoned
about.

### RequestScope and ServiceLifecycle

A request also names the session context id that the middleware draws for it, as
`async_scoped_session` indexes its registry by it. `Execute` autobegins and
takes a connection; `Enter` is `@Transactional`'s choice between join and begin
(and the error of `session.begin()` inside a transaction); `Cleanup` is the
middleware's finally. A commit whose answer is lost with the connection is told
as `lost`, which the client cannot tell from another 500. The production path,
where `require_admin` reads no row, is the path of a request without `verify`.

`ServiceLifecycle` starts workers over a new or an old schema. `create_all`
looks for every table (`CheckTable`), then creates those it has found missing
(`CreateTable`); a worker that finds one created meanwhile fails to start and is
started again. At SIGTERM a worker drains; after `GRACEFUL_SHUTDOWN_SECONDS` its
tasks are cancelled and the engine is disposed without waiting for them. A
cancelled task may have sent its COMMIT. `Kill` is SIGKILL or a crash. The
orderly stop of another worker touches nothing shared, so only that of `Me`, the
worker whose requests are modelled, is there.

### RateLimiter

One step per dispatch, since nothing is awaited between reading and writing the
list. The list comprehension that prunes it is `KeepAt`: the elements at the
positions that pass, in their order.

## 3. Runs

| run | constants | shows |
|---|---|---|
| `AuthSessions` | 4 requests, 4 tokens, 1 expiry | rotation is single-use; killed families stay dead; replays are punished; waits never cycle; the tables implement `SessionLedger`; every request is answered |
| `AuthReuseKill` | 5 requests, 3 tokens | finding: a replay can end a later session |
| `Access` | 3 requests, 2 pods, 6 settings, clock to 3, access lifetime 2, refresh 3, issue time 1, 1 deployment | only a valid access token is admitted; one of an ended version only for the documented lag |
| `PasswordChange` | 2 requests, 1 pod, the same settings | finding: sessions survive a changed password hash |
| `PostEdits` | 3 requests of 7 kinds, 2 slugs, 3 tags | links have both ends; edits implement `PostCatalogue`; deadlocks end, every request is answered |
| `PostConflict`, `PostTagRace`, `PostRetag` | 2 requests | findings: 500 for a taken slug, 500 for a shared new tag, merged tag lists |
| `PostReads` | 4 slugs, pages of 1 and 2, MaxPage 3, 6 filters, 1 write | walks are whole, nav is adjacent and never reflexive, the list of tags and tag detail agree |
| `Content` | 3 requests, one valid and one refused key, three bodies, one refused | PUTs and GETs are those of a register and end |
| `Scope` | 2 requests of any kind, 1 connection, 2 workers, 2 tables, 1 stop or kill | acknowledged is durable, refused leaves nothing, no leak, nobody waits for a connection for ever, no worker serves without its tables, all come up, every stop ends |
| `RateLimit` | 2 peers, limit 2, window 3, 5 ticks | the window holds, only a full window refuses |

**Bounds.** Requests run once, so their number bounds everything else; a run may
stop when all are answered, hence `CHECK_DEADLOCK FALSE` everywhere (waiting in
a cycle is caught by `NoDeadlock` and `EveryRequestEnds`). Four requests give the
session protocol a login, two refreshes of one token and a logout or another
login, in any order and overlap; for more requests there are the theorems. The
two values of `Prod` differ in who may start a logout only, and with four
requests reach the same states. `MaxExpired` bounds expiries: one is enough to
have an expired and a live token of the same family.

In `Access` three requests are a login, whoever ends its version, and one that
comes with the old token; lifetimes longer than the issue time, and a clock that
passes both, give tokens that are alive, dead, and alive after their version. One
deployment is enough for every pair of settings, in either order.

The interesting cases of posts are pairs (check against insert, flush against
flush) and one more actor between them: three. The two creations of `PostEdits`
are at the slug of the existing post and at that of the rename, so a slug can be
freed and taken again under a transaction that has read it. A session wrongly
shared, a connection leaked or one kept by a slow client needs two requests, and
a lost race in `create_all` two workers and two tables. Four posts with pages of
one and two give full, partial and empty last pages, and `MaxPage = 3` with pages
of one a list longer than the API can page through. Five ticks let a window of
three slide, fill again and expire.

Symmetry is used over requests, pods and peers in runs without liveness, whose
properties and initial predicates do not distinguish them.

**Fairness.** `AuthTokens!FairSpec`, `PostStore!FairSpec` and
`ContentStore!FairSpec` assume that the event loop and the database run a
statement that can run (weak fairness). That a request arrives is not assumed in
the first two. A wait is assumed to end by `lock_timeout`, which the engine sets
on every connection (`app/core/db/session.py:39-57`), and nothing is assumed
about failures. `RequestScope!FairSpec` and `LifeSpec` assume the same of
statements and of the pool's timeout, and nothing of clients: `Respond` has no
fairness, so a client may hold its connection for ever. `LifeSpec` assumes in
addition that what is down is started (uvicorn's supervisor, Kubernetes), that
the graceful timeout fires (`main.py` sets it), and that cancelled tasks run to
their end; not that anything is ever stopped.

**Findings.** Five disagreements between code and documents or tests, each shown
by a run expected to violate its property, are described in `PROJECT.json`.

## 4. Proofs

Eight modules. Every invariant and every action property of a passing run is a
theorem, and every refinement is one up to its fairness. The assumptions are the
named ASSUMEs of the modules proved about; there is no bound on requests, tokens,
slugs, pods, workers, tables, peers, pages, writes or lifetimes.

**`AuthTokensProofs`**: `TypeCorrect`, `RotationSingleUse`, `KillFinal`,
`LocksNeverCycle`, `ReplayPunished` (an action property) and `Implementation`
(every step of `AuthTokens` is one of `SessionLedger` or leaves it unchanged).
None is inductive alone. `IInv` adds: tokens are recorded once and carry a
version not above the current one (`TokenInv`); a killed family carries versions
below the current one, or the pending bump of a live transaction (`KillInv`); at
most one transaction holds the admin row or a token row (`LockInv`), and what it
has pending matches its label (`MarkInv`, `PhaseInv`); a request's presented
token (`PresentInv`), the version it has read (`VersionInv`) and what a replay
has seen (`ReplayInv`) stay true of the tables while others commit. A family
whose kill a rotation overtakes is dead because the rotation recorded its token
with the version it checked, below the one the kill commits: that is the step
that `KillFinal` and `Implementation` turn on.

**`AdminAccessProofs`**: `TypeCorrect`, `OnlyHolders` and `LagBounded`. The lag
is about a request admitted now; the invariant follows its token back. A request
that signs has read its version while it was the current one and at most
`IssueTime` ago (`RequestInv`); so an access token expires at most `AccessTtl +
IssueTime` after its version ended (`TokenInv`); so whoever is admitted with it
is in time (`GrantInv`). `FleetInv` keeps the checks at start for as long as a
process runs: without it the header of prod proves nothing.

**`PostStoreProofs`**: `TypeCorrect` and `LinksKeepEnds`. `EditInv` adds which
request can be at which label (`JobInv`), that locks are exclusive (`LockInv`),
that a tag a request is about to link is committed, inserted by its own
transaction or still to be inserted (`TagInv`), and that what a request has
found of a row it wrote stays true until it commits (`RowInv`): the row of an
update is there, the slug of a creation or a rename is free.

**`PostCatalogueProofs`**: `Implementation`. On `EditInv`, a commit is a
`Create`, `Amend`, `Withdraw` or `Overtaken`, a rollback a `Refuse`, the DELETE
that finds nothing a `Miss`; every other statement changes nothing the catalogue
sees. `RowInv` is what keeps one post from replacing another at its slug.

**`ContentStoreProofs`**: `TypeCorrect` and `Implementation` (the safety part of
`ContentRegister`). A row has one writer from `Upsert` to `Commit`
(`OneWriter`), so what a PUT reads back and commits is its own body
(`Progress`).

**`ServiceLifecycleProofs`**: `LifeTypeCorrect`, `SchemaBeforeServing`,
`Acknowledged`, `Refused` and `NoLeak`. `ScopeInv` says that nobody ever joins:
whoever comes to `Enter` has no transaction open, since `require_admin` has
rolled back its own; so a transaction carries the writes of the request that
opened it and of no other. The lemmas are about the steps of `RequestScope`;
`ServiceLifecycle` takes them inside a worker, and adds its own steps and what a
booting worker knows: the tables before `next` are committed or on its list
(`BootInv`), nobody creates what another transaction has created (`Apart`), and
a worker that does not run has no request (`Quiet`).

**`PostReadsProofs`**: `TypeCorrect`, `WalkAlwaysWhole`, `NavAlwaysAdjacent`,
`NavNeverSelfHolds` and `DetailAlwaysAgrees`, for any finite set of slugs, any
rows (ties included), page size and last page. The first part is about queries.
Under a strict total order on a finite set every element has its own number of
elements before it, and these numbers are all of 0 to the set's size less one
(`PlaceTaken`, an injection between sets of one size): so ORDER BY lists every
row once (`OrderedProperties`) and LIMIT 1 has one answer (`FirstUnique`). That
each ORDER BY is such an order (`BeforeIsOrder`, `NewerIsOrder`) is where the
slug as last key is needed. Then the invariant: what a walk has received is the
list up to the offset of the page it asks for next (`WalkInv`), which a page
extends to the following offset or to the end (`SliceAppends`); nav's answers are
the first rows of its two queries (`NavInv`), which are the post's neighbours
(`Adjacent`); the three readings of a tag count one set (`DetailInv`). While
something is written only `TypeOK` and `NavNeverSelf` are promised.

**`RateLimiterProofs`**: `TypeCorrect`, `LimitAlwaysHolds` and `RefusalsAreDue`
(an action property). `IInv` relates a peer's list to the history of its logins
(`Faithful`): the list is the end of the history, what comes before it has left
the window, and both are in order of time, since the clock is monotonic. So the
filter cuts a prefix (`RecentIsTail`), a login is admitted only if the one Limit
places back has left the window, and a full list is the whole window.

**Model-checked only.** Liveness, which this prover does not reach:
`EveryRequestEnds`, `NobodyStarves`, `WorkersComeUp`, `DrainEnds`, and the
fairness of `ContentRegister`. The findings are counterexamples of TLC.

## 5. Not modelled

* **bcrypt, JWT encoding and signatures**: a password matches or does not, a
  token is as good as the key it was signed with.
* **The layering of env files**, logging, CORS, security and cache headers, and
  the response schemas: no state the properties speak of.
* **`views` and timestamps**: nothing reads `views` to decide; of `updated_at`
  only that it makes a tagging write its row. Under concurrent PUTs `updated_at`
  of content may go back, since `now()` is the start of the transaction.
* **The standalone session** (`app/core/db/standalone_session.py`): a decorator
  that nothing in the repository uses. The **seed module** that the README and
  the seed job run is not in the repository.
* **`slugify` and `normalize_tag`**: slugs and tags are what they return. A title
  of punctuation alone has the empty slug, and such a post no route reaches: one
  deterministic case, better left to a test.
* **The connection budget** of `k8s/configmap.yaml`: whether the connections of
  terminating pods exceed it depends on how fast a rollout goes, which the
  manifests leave to the cluster.

Left of the plan: timestamps in the post modules should something come to depend
on their order.

## 6. How to run

    tlc -workers 2 -config AuthSessions.cfg MCAuthTokens
    tlapm AuthTokensProofs.tla

Each run's module and configuration are in `PROJECT.json`; the longest takes two
to three minutes. Definitions under a comment "Mutant of X" are plausible bugs
of X: putting one in the place of X makes the property named with it in
`PROJECT.json` fail.
