------------------------------ MODULE PostStore ------------------------------
(***************************************************************************)
(* The admin's writes to posts and tags (PostService, PostRepository,      *)
(* TagRepository.ensure), run by concurrent requests over PostgreSQL at    *)
(* READ COMMITTED.  One step is one SQL statement, in the order the code   *)
(* and SQLAlchemy's autoflush issue them:                                  *)
(*                                                                         *)
(*  - every SELECT of a @Transactional method first flushes what the       *)
(*    method has changed so far; the rest is flushed at commit;            *)
(*  - a flush writes only the columns whose value differs from the one     *)
(*    loaded, and adds and removes post_tags rows by the difference with   *)
(*    the tags loaded;                                                     *)
(*  - a statement waits for the rows and keys that another open            *)
(*    transaction has written, then sees what that one committed;          *)
(*  - an UPDATE that finds no row raises StaleDataError ("stale"), a taken *)
(*    key IntegrityError ("duplicate"), a lock or statement timeout or a   *)
(*    lost connection "aborted": the client of each gets a 500.            *)
(***************************************************************************)
EXTENDS Naturals, Sequences, SequencesExt

CONSTANTS
  Request,   \* HTTP requests; each one runs once
  Id,        \* post slugs
  Tag,       \* normalized tag names
  Text,      \* values of a post's text columns
  Jobs,      \* what the requests may ask for
  Seeds,     \* posts that exist at the start
  SeedTags,  \* their tags
  Absent     \* "no row", "not asked for"

Values == [text |-> Text, status |-> {"draft", "published"},
           date |-> {"past", "today"}]

(* What a payload asks for; set holds the columns it assigns. *)
IsJob(b) ==
  /\ b.op \in {"create", "update", "publish", "delete"}
  /\ b.id \in Id /\ b.to \in Id \cup {Absent}
  /\ b.tags = Absent \/ b.tags \in Seq(Tag)
  /\ \A c \in DOMAIN b.set : c \in DOMAIN Values /\ b.set[c] \in Values[c]
  /\ b.op = "create" => b.tags # Absent /\ "text" \in DOMAIN b.set
  /\ b.op \in {"publish", "delete"} => DOMAIN b.set = {} /\ b.tags = Absent
  /\ b.op # "update" => b.to = Absent

(* A row of posts; birth, who created it, is history. *)
Row == [birth : Request \cup Id, text : Text \cup {Absent},
        status : Values.status, date : Values.date]

ASSUME AbsentAssumption ==
  Absent \notin Id \cup Tag \cup Text \cup Request \cup Jobs \cup Row
ASSUME JobsAssumption == \A b \in Jobs : IsJob(b)
ASSUME SeedsAssumption == Seeds \subseteq Id /\ SeedTags \subseteq Tag

VARIABLES
  posts,     \* committed row of each slug
  links,     \* committed post_tags: the tags of each slug
  tags,      \* committed tags
  pc,        \* the next statement of each request, or its outcome
  job,       \* what the request asks for
  seen,      \* the row and the tags it has loaded
  missing,   \* tags it has still to insert
  held       \* rows and keys its transaction has written

tables == <<posts, links, tags>>
locals == <<job, seen, missing>>
vars   == <<tables, pc, locals, held>>

Outcomes == {"ok", "notfound", "conflict", "duplicate", "stale", "aborted"}

PostKey(i)     == {<<"post", i>>}
LinkKeys(i, T) == {<<"link", i, t>> : t \in T}
TagKey(t)      == {<<"tag", t>>}
Wrote(r, key)  == key \subseteq held[r]

Merge(row, set) ==
  [c \in DOMAIN row |-> IF c \in DOMAIN set THEN set[c] ELSE row[c]]

Blank == [birth |-> Absent, text |-> Absent, status |-> "draft", date |-> "past"]
NoRow == [row |-> Absent, tags |-> {}]

(* The unit of work of an update: what differs from what was loaded. *)
Assigned(r) == IF job[r].op = "publish"
               THEN [status |-> "published", date |-> "today"]
               ELSE job[r].set
Changed(r)  == {c \in DOMAIN Assigned(r) : Assigned(r)[c] # seen[r].row[c]}
Dirty(r)    == [c \in Changed(r) |-> Assigned(r)[c]]
Retags(r)   == job[r].tags # Absent
Names(r)    == ToSet(job[r].tags)
Renames(r)  == job[r].to # Absent /\ job[r].to # job[r].id
NewLinks(r) == IF Retags(r) THEN Names(r) \ seen[r].tags ELSE {}
OldLinks(r) == IF Retags(r) THEN seen[r].tags \ Names(r) ELSE {}

Init ==
  /\ posts = [i \in Id |-> IF i \in Seeds
                           THEN Merge(Blank, [birth |-> i]) ELSE Absent]
  /\ links = [i \in Id |-> IF i \in Seeds THEN SeedTags ELSE {}]
  /\ tags = SeedTags
  /\ pc = [r \in Request |-> "idle"]
  /\ job = [r \in Request |-> Absent]
  /\ seen = [r \in Request |-> NoRow]
  /\ missing = [r \in Request |-> {}]
  /\ held = [r \in Request |-> {}]

At(r, label)   == pc[r] = label
Goto(r, label) == pc' = [pc EXCEPT ![r] = label]
Lock(r, L)     == held' = [held EXCEPT ![r] = @ \cup L]

(* Mutant of End: the connection goes back to the pool mid-transaction. *)
EndKeepsLocks(r, outcome) ==
  /\ Goto(r, outcome)
  /\ UNCHANGED <<locals, held>>

(* COMMIT or ROLLBACK: the locks go, the client gets its answer. *)
End(r, outcome) ==
  /\ Goto(r, outcome)
  /\ held' = [held EXCEPT ![r] = {}]
  /\ seen' = [seen EXCEPT ![r] = NoRow]
  /\ missing' = [missing EXCEPT ![r] = {}]
  /\ UNCHANGED job

Rollback(r, outcome) == End(r, outcome) /\ UNCHANGED tables

(* dict.fromkeys: the missing tag that is named first is inserted first. *)
NextTags(r) ==
  LET s == job[r].tags
  IN  {s[k] : k \in {k \in DOMAIN s : /\ s[k] \in missing[r]
                                     /\ \A l \in 1..k-1 : s[l] \notin missing[r]}}

(* The rows and keys the next statement writes, hence waits for. *)
Needs(r) ==
  LET i == job[r].id
  IN  CASE pc[r] = "tag"    -> UNION {TagKey(t) : t \in NextTags(r)}
        [] pc[r] \in {"early", "row", "insert"} -> PostKey(i)
        [] pc[r] = "unlink" -> LinkKeys(i, seen[r].tags)
        [] pc[r] = "links"  -> LinkKeys(i, NewLinks(r) \cup OldLinks(r))
        [] pc[r] = "drop"   -> PostKey(i) \cup LinkKeys(i, Tag)
        [] pc[r] = "rename" -> PostKey(i) \cup PostKey(job[r].to)
                               \cup LinkKeys(i, Tag)
        [] OTHER -> {}

Waiting(r) == \E q \in Request \ {r} : held[q] \cap Needs(r) # {}

(* A statement runs when the keys it writes are free. *)
Runs(r, label) == At(r, label) /\ ~Waiting(r)

-----------------------------------------------------------------------------
(* The request arrives, past require_admin. *)

Arrive(r) ==
  /\ At(r, "idle")
  /\ \E b \in Jobs :
       /\ job' = [job EXCEPT ![r] = b]
       /\ Goto(r, IF b.op = "create" THEN "exists" ELSE "load")
  /\ UNCHANGED <<tables, seen, missing, held>>

(* ensure returns at once when there are no names. *)
TagsOr(r, label) == IF Retags(r) /\ Names(r) # {} THEN "ensure" ELSE label

(* exists: a taken slug is a 409. *)
Exists(r) ==
  /\ At(r, "exists")
  /\ IF posts[job[r].id] # Absent
     THEN Rollback(r, "conflict")
     ELSE Goto(r, TagsOr(r, "insert")) /\ UNCHANGED <<tables, locals, held>>

(* get_by_id: the row, *)
Load(r) ==
  /\ At(r, "load")
  /\ IF posts[job[r].id] = Absent
     THEN Rollback(r, "notfound")
     ELSE /\ seen' = [seen EXCEPT ![r].row = posts[job[r].id]]
          /\ Goto(r, "selectin")
          /\ UNCHANGED <<tables, job, missing, held>>

(* then, in a statement of its own, its tags. *)
LoadTags(r) ==
  /\ At(r, "selectin")
  /\ seen' = [seen EXCEPT ![r].tags = links[job[r].id]]
  /\ LET next == TagsOr(r, "row")
     IN  Goto(r, IF job[r].op = "delete" THEN "unlink"
                 ELSE IF next = "ensure" /\ Changed(r) # {} THEN "early"
                 ELSE next)
  /\ UNCHANGED <<tables, job, missing, held>>

-----------------------------------------------------------------------------
(* Tags: TagRepository.ensure, shared by creation and update *)

AfterTags(r) == IF job[r].op = "create" THEN "insert" ELSE "row"

AfterEnsure(r, new) ==
  /\ missing' = [missing EXCEPT ![r] = new]
  /\ Goto(r, IF new = {} THEN AfterTags(r) ELSE "tag")
  /\ UNCHANGED <<tables, job, seen, held>>

(* Mutant of Ensure: only the first name is created. *)
EnsureFirstOnly(r) == At(r, "ensure") /\ AfterEnsure(r, {job[r].tags[1]} \ tags)

(* get_many: SELECT the tags that exist; the others are to be inserted. *)
Ensure(r) == At(r, "ensure") /\ AfterEnsure(r, Names(r) \ tags)

(* INSERT of the missing tags, row after row. *)
InsertTag(r) ==
  /\ Runs(r, "tag")
  /\ \E t \in NextTags(r) :
       IF t \in tags
       THEN Rollback(r, "duplicate")
       ELSE /\ Lock(r, TagKey(t))
            /\ missing' = [missing EXCEPT ![r] = @ \ {t}]
            /\ Goto(r, IF missing[r] = {t} THEN AfterTags(r) ELSE "tag")
            /\ UNCHANGED <<tables, job, seen>>

-----------------------------------------------------------------------------
(* The flushes of create, update and publish *)

(* add: INSERT INTO posts, then its post_tags rows. *)
InsertPost(r) ==
  /\ Runs(r, "insert")
  /\ IF posts[job[r].id] # Absent
     THEN Rollback(r, "duplicate")
     ELSE /\ Lock(r, PostKey(job[r].id))
          /\ Goto(r, "commit")
          /\ UNCHANGED <<tables, locals>>

(* UPDATE posts: the changed columns; after ensure, updated_at too. *)
UpdateRow(r, next) ==
  IF posts[job[r].id] = Absent
  THEN Rollback(r, "stale")
  ELSE /\ Lock(r, PostKey(job[r].id))
       /\ Goto(r, next)
       /\ UNCHANGED <<tables, locals>>

(* The autoflush of ensure's SELECT: post.tags is not assigned yet. *)
FlushEarly(r) == Runs(r, "early") /\ UpdateRow(r, "ensure")

AfterLinks(r) == IF Renames(r) THEN "taken" ELSE "commit"

FlushRow(r) ==
  /\ At(r, "row")
  /\ IF Retags(r) \/ Changed(r) # {}
     THEN ~Waiting(r) /\ UpdateRow(r, IF Retags(r) THEN "links" ELSE AfterLinks(r))
     ELSE Goto(r, AfterLinks(r)) /\ UNCHANGED <<tables, locals, held>>

(* DELETE FROM and INSERT INTO post_tags.  Whether a DELETE that finds     *)
(* fewer rows than it names is an error depends on the driver.             *)
FlushLinks(r) ==
  /\ Runs(r, "links")
  /\ LET i == job[r].id
     IN  \/ ~(OldLinks(r) \subseteq links[i]) /\ Rollback(r, "stale")
         \/ NewLinks(r) \cap links[i] # {} /\ Rollback(r, "duplicate")
         \/ /\ NewLinks(r) \cap links[i] = {}
            /\ Lock(r, LinkKeys(i, NewLinks(r) \cup (OldLinks(r) \cap links[i])))
            /\ Goto(r, AfterLinks(r))
            /\ UNCHANGED <<tables, locals>>

(* exists(new_id), then UPDATE posts SET id at the flush of the commit. *)
Taken(r) ==
  /\ At(r, "taken")
  /\ IF posts[job[r].to] # Absent
     THEN Rollback(r, "conflict")
     ELSE Goto(r, "rename") /\ UNCHANGED <<tables, locals, held>>

Rename(r) ==
  /\ Runs(r, "rename")
  /\ CASE posts[job[r].id] = Absent -> Rollback(r, "stale")
       [] posts[job[r].id] # Absent /\ posts[job[r].to] # Absent ->
            Rollback(r, "duplicate")
       [] OTHER -> /\ Lock(r, PostKey(job[r].id) \cup PostKey(job[r].to)
                              \cup LinkKeys(job[r].id, links[job[r].id]))
                   /\ Goto(r, "commit")
                   /\ UNCHANGED <<tables, locals>>

-----------------------------------------------------------------------------
(* Deletion: the tags loaded, then the post; post_tags cascades *)

Unlink(r) ==
  /\ Runs(r, "unlink")
  /\ \/ ~(seen[r].tags \subseteq links[job[r].id]) /\ Rollback(r, "stale")
     \/ /\ Lock(r, LinkKeys(job[r].id, seen[r].tags \cap links[job[r].id]))
        /\ Goto(r, "drop")
        /\ UNCHANGED <<tables, locals>>

(* A DELETE that finds no post only warns; one that does takes its links. *)
Drop(r) ==
  /\ Runs(r, "drop")
  /\ LET i == job[r].id
     IN  Lock(r, IF posts[i] = Absent THEN {}
                 ELSE PostKey(i) \cup LinkKeys(i, links[i]))
  /\ Goto(r, "commit")
  /\ UNCHANGED <<tables, locals>>

-----------------------------------------------------------------------------
(* COMMIT *)

InsertedTags(r) == {t \in Tag : Wrote(r, TagKey(t))}

CommitCreate(r) ==
  /\ At(r, "commit") /\ job[r].op = "create"
  /\ posts' = [posts EXCEPT ![job[r].id] =
                 Merge(Merge(Blank, job[r].set), [birth |-> r])]
  /\ links' = [links EXCEPT ![job[r].id] = Names(r)]
  /\ tags' = tags \cup InsertedTags(r)
  /\ End(r, "ok")

(* Mutant of CommitUpdate: the UPDATE names every column. *)
CommitWholeRow(r) ==
  /\ At(r, "commit") /\ job[r].op \in {"update", "publish"}
  /\ LET i == job[r].id
         j == IF Renames(r) THEN job[r].to ELSE i
     IN  IF Wrote(r, PostKey(i))
         THEN /\ posts' = [posts EXCEPT ![i] = Absent,
                                        ![j] = Merge(seen[r].row, Dirty(r))]
              /\ links' = [links EXCEPT ![i] = {},
                             ![j] = (links[i] \ OldLinks(r)) \cup NewLinks(r)]
         ELSE UNCHANGED <<posts, links>>
  /\ tags' = tags \cup InsertedTags(r)
  /\ End(r, "ok")

CommitUpdate(r) ==
  /\ At(r, "commit") /\ job[r].op \in {"update", "publish"}
  /\ LET i == job[r].id
         j == IF Renames(r) THEN job[r].to ELSE i
     IN  IF Wrote(r, PostKey(i))
         THEN /\ posts' = [posts EXCEPT ![i] = Absent,
                                        ![j] = Merge(posts[i], Dirty(r))]
              /\ links' = [links EXCEPT ![i] = {},
                             ![j] = (links[i] \ OldLinks(r)) \cup NewLinks(r)]
         ELSE UNCHANGED <<posts, links>>
  /\ tags' = tags \cup InsertedTags(r)
  /\ End(r, "ok")

(* Mutant of CommitDelete: the slug is emptied, whatever is there by now. *)
CommitDeleteSlug(r) ==
  /\ At(r, "commit") /\ job[r].op = "delete"
  /\ posts' = [posts EXCEPT ![job[r].id] = Absent]
  /\ links' = [links EXCEPT ![job[r].id] = {}]
  /\ End(r, "ok")
  /\ UNCHANGED tags

(* A post that was not there when it was deleted may be there by now. *)
CommitDelete(r) ==
  /\ At(r, "commit") /\ job[r].op = "delete"
  /\ IF Wrote(r, PostKey(job[r].id))
     THEN /\ posts' = [posts EXCEPT ![job[r].id] = Absent]
          /\ links' = [links EXCEPT ![job[r].id] = {}]
     ELSE UNCHANGED <<posts, links>>
  /\ End(r, "ok")
  /\ UNCHANGED tags

-----------------------------------------------------------------------------
(* Timeouts and failures *)

(* Mutant of LockTimeout: lock_timeout = 0, so a wait has no end. *)
LockTimeoutNever(r) == Waiting(r) /\ FALSE /\ UNCHANGED vars

(* lock_timeout (or the deadlock detector) ends a wait. *)
LockTimeout(r) == Waiting(r) /\ Rollback(r, "aborted")

(* Any statement may fail, or the client's connection be lost. *)
Fail(r) == pc[r] \notin Outcomes \cup {"idle"} /\ Rollback(r, "aborted")

Statement(r) ==
  \/ Exists(r) \/ Load(r) \/ LoadTags(r) \/ Ensure(r) \/ InsertTag(r)
  \/ InsertPost(r) \/ FlushEarly(r) \/ FlushRow(r) \/ FlushLinks(r)
  \/ Taken(r) \/ Rename(r) \/ Unlink(r) \/ Drop(r)
  \/ CommitCreate(r) \/ CommitUpdate(r) \/ CommitDelete(r)

Next == \E r \in Request :
  Arrive(r) \/ Statement(r) \/ LockTimeout(r) \/ Fail(r)

Spec == Init /\ [][Next]_vars

(* The server runs every statement the database lets it run, and a wait    *)
(* lasts at most DB_LOCK_TIMEOUT_MS.                                       *)
FairSpec == Spec /\ \A r \in Request :
  WF_vars(Statement(r)) /\ WF_vars(LockTimeout(r))

-----------------------------------------------------------------------------
(* Types: a committed row has values of its columns, a loaded row is one   *)
(* that was committed, only a request that has arrived has a job, and only *)
(* one in progress holds locks.                                            *)
Labels == {"idle", "exists", "load", "selectin", "early", "ensure", "tag",
           "insert", "row", "links", "taken", "rename", "unlink", "drop",
           "commit"}
Keys == UNION ({PostKey(i) : i \in Id} \cup {TagKey(t) : t \in Tag}
               \cup {LinkKeys(i, Tag) : i \in Id})
TypeOK ==
  /\ posts \in [Id -> Row \cup {Absent}]
  /\ links \in [Id -> SUBSET Tag]
  /\ tags \subseteq Tag
  /\ pc \in [Request -> Labels \cup Outcomes]
  /\ \A r \in Request : job[r] = Absent <=> pc[r] = "idle"
  /\ \A r \in Request :
       seen[r].row \in Row \cup {Absent} /\ seen[r].tags \subseteq Tag
  /\ missing \in [Request -> SUBSET Tag]
  /\ held \in [Request -> SUBSET Keys]
  /\ \A r \in Request : pc[r] \in Outcomes \cup {"idle"} => held[r] = {}

(* Every post_tags row joins a post and a tag that exist, whatever         *)
(* creations, renames, deletions and taggings overlap: what the foreign    *)
(* keys of post_tags require and TagRepository.ensure is called for.       *)
LinksHaveEnds ==
  /\ \A i \in Id : posts[i] = Absent => links[i] = {}
  /\ UNION {links[i] : i \in Id} \subseteq tags

Missed(r) ==
  /\ pc[r] = "commit" /\ job[r].op = "delete"
  /\ ~Wrote(r, PostKey(job[r].id))

(* Every write of the post endpoints is one atomic effect of one request,  *)
(* cell by cell as it asked for: PostCatalogue.                            *)
Catalogue == INSTANCE PostCatalogue WITH
  asked  <- job,
  answer <- [r \in Request |-> IF pc[r] \in Outcomes THEN pc[r] ELSE "none"],
  missed <- {r \in Request : Missed(r)}
ImplementsCatalogue == Catalogue!Spec

(* Every request that arrives is answered, though ensure and delete take   *)
(* locks in no common order: a wait ends with lock_timeout at the latest.  *)
EveryRequestEnds ==
  \A r \in Request : pc[r] # "idle" ~> pc[r] \in Outcomes

-----------------------------------------------------------------------------
(* Statements of the tests and comments that the code does not keep        *)

(* test_create_slug_conflict_409: creating a post whose slug is taken is   *)
(* answered with 409 SLUG_CONFLICT, never with a 500 for the key.          *)
CreateConflictIs409 ==
  [][\A r \in Request : At(r, "insert") => pc'[r] # "duplicate"]_vars

(* TagRepository.ensure's docstring: Tag rows for every name, creating any *)
(* that are missing; a tag that another request creates is no error.       *)
EnsureReturnsTags ==
  [][\A r \in Request : At(r, "tag") => pc'[r] # "duplicate"]_vars

(* test_patch_replaces_tags: an accepted PATCH of the tags leaves the post *)
(* with exactly the tags it names.                                         *)
PatchReplacesTags ==
  [][\A r \in Request :
       /\ At(r, "commit") /\ pc'[r] = "ok"
       /\ job[r].op = "update" /\ Retags(r)
       => \E i \in Id : posts'[i] # Absent /\ links'[i] = Names(r)]_vars
=============================================================================
