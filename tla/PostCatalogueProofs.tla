-------------------------- MODULE PostCatalogueProofs --------------------------
(* PostStore implements PostCatalogue, for any slugs, tags, requests and   *)
(* payloads: a commit is the effect of one request, a rollback a refusal,  *)
(* and nothing else shows, except a DELETE that finds its post gone.       *)
EXTENDS PostStoreProofs

(* What PostCatalogue sees of the requests. *)
Answered == [r \in Request |-> IF pc[r] \in Outcomes THEN pc[r] ELSE "none"]
Misses   == {r \in Request : Missed(r)}
catvars  == <<posts, links, job, Answered, Misses>>

LEMMA StillSilent ==
  ASSUME EditInv, NEW r \in Request, Only(r), UNCHANGED <<tables, job>>,
         pc[r] \notin Outcomes, pc'[r] \notin Outcomes, Missed(r)' <=> Missed(r)
  PROVE  UNCHANGED catvars
<1>1. \A q \in Request \ {r} : pc'[q] = pc[q] /\ (Missed(q)' <=> Missed(q))
  BY DEF Only, Missed, Wrote
<1>2. Answered' = Answered /\ Misses' = Misses
  BY <1>1 DEF Answered, Misses
<1>3. QED
  BY <1>2 DEF catvars, tables

(* The end of a transaction is the answer to its request. *)
LEMMA Answering ==
  ASSUME EditInv, NEW r \in Request, NEW o \in Outcomes, End(r, o),
         pc[r] \notin Outcomes \cup {"idle"}
  PROVE  /\ Answered' = [Answered EXCEPT ![r] = o] /\ Misses' = Misses \ {r}
         /\ job' = job /\ job[r] # Absent /\ Answered[r] = "none"
         /\ job[r].op \in {"create", "update", "publish", "delete"}
<1>1. /\ pc' = [pc EXCEPT ![r] = o] /\ held' = [held EXCEPT ![r] = {}]
      /\ job' = job /\ pc \in [Request -> Labels \cup Outcomes]
      /\ held \in [Request -> SUBSET Keys]
  BY DEF End, Goto, EditInv, Typed
<1>2. Answered' = [Answered EXCEPT ![r] = o] /\ Answered[r] = "none"
  BY <1>1 DEF Answered
<1>3. ~Missed(r)' /\ \A q \in Request \ {r} : Missed(q)' <=> Missed(q)
  BY <1>1 DEF Missed, Wrote, Outcomes
<1>4. Misses' = Misses \ {r}
  BY <1>3 DEF Misses
<1>5. job[r] # Absent /\ job[r].op \in {"create", "update", "publish", "delete"}
  BY JobFacts DEF EditInv, JobInv, IsJob
<1>6. QED
  BY <1>1, <1>2, <1>4, <1>5

(* Every rollback is a refusal. *)
LEMMA RefuseInCatalogue ==
  ASSUME EditInv, NEW r \in Request, NEW o \in Outcomes \ {"ok"}, Rollback(r, o),
         pc[r] \notin Outcomes \cup {"idle"}
  PROVE  Catalogue!Next
<1>1. End(r, o) /\ UNCHANGED <<posts, links>>
  BY DEF Rollback, tables
<1>2. /\ Answered' = [Answered EXCEPT ![r] = o] /\ Misses' = Misses \ {r}
      /\ job' = job /\ job[r] # Absent /\ Answered[r] = "none"
      /\ job[r].op \in {"create", "update", "publish", "delete"}
  BY <1>1, Answering
<1>3. Catalogue!Refuse(r)
  BY <1>1, <1>2 DEF Catalogue!Refuse, Catalogue!Open, Catalogue!Says,
     Answered, Misses, Outcomes
<1>4. QED
  BY <1>3 DEF Catalogue!Next

-----------------------------------------------------------------------------
(* A statement before the commit fails, or shows in no table. *)

Quiet(r, l) ==
  /\ Goto(r, l) /\ UNCHANGED <<tables, job>>
  /\ \A q \in Request \ {r} : held'[q] = held[q] /\ seen'[q] = seen[q]
                              /\ missing'[q] = missing[q]

Fails(r) == \E o \in Outcomes \ {"ok"} : Rollback(r, o)

LEMMA StatementEffect ==
  ASSUME EditInv, NEW r \in Request, Statement(r),
         ~CommitCreate(r), ~CommitUpdate(r), ~CommitDelete(r), ~Drop(r)
  PROVE  /\ pc[r] \notin Outcomes \cup {"idle", "commit"}
         /\ Fails(r) \/ \E l \in Labels : /\ Quiet(r, l)
                                          /\ l = "commit" => job[r].op # "delete"
<1> USE DEF Quiet, Lock, locals
<1>1. ASSUME NEW o \in Outcomes \ {"ok"}, Rollback(r, o) PROVE Fails(r)
  BY <1>1 DEF Fails
<1>2. /\ "conflict" \in Outcomes \ {"ok"} /\ "notfound" \in Outcomes \ {"ok"}
      /\ "duplicate" \in Outcomes \ {"ok"} /\ "stale" \in Outcomes \ {"ok"}
  BY DEF Outcomes
<1>3. pc[r] \in {"early", "row", "links", "taken", "rename"} =>
        job[r].op \in {"update", "publish"}
  BY DEF EditInv, JobInv
<1>4. DOMAIN held = Request /\ DOMAIN seen = Request /\ DOMAIN missing = Request
  BY DEF EditInv, Typed
<1>5. CASE Exists(r)
  BY <1>1, <1>2, <1>5 DEF Exists, At, TagsOr, Labels, Outcomes
<1>6. CASE Load(r)
  BY <1>1, <1>2, <1>4, <1>6 DEF Load, At, Labels, Outcomes
<1>7. CASE LoadTags(r)
  <2>1. PICK l \in {"unlink", "early", "ensure", "row"} : Goto(r, l)
    BY <1>7 DEF LoadTags, TagsOr
  <2>2. QED
    BY <1>4, <1>7, <2>1 DEF LoadTags, At, Labels, Outcomes
<1>8. CASE Ensure(r)
  BY <1>4, <1>8 DEF Ensure, AfterEnsure, AfterTags, At, Labels, Outcomes
<1>9. CASE InsertTag(r)
  BY <1>1, <1>2, <1>4, <1>9 DEF InsertTag, AfterTags, Runs, At, Labels, Outcomes
<1>10. CASE InsertPost(r)
  <2>1. job[r].op = "create"
    BY <1>10 DEF InsertPost, Runs, At, EditInv, JobInv
  <2>2. QED
    BY <1>1, <1>2, <1>4, <1>10, <2>1 DEF InsertPost, Runs, At, Labels, Outcomes
<1>11. CASE FlushEarly(r)
  BY <1>1, <1>2, <1>4, <1>11 DEF FlushEarly, UpdateRow, Runs, At, Labels, Outcomes
<1>12. CASE FlushRow(r)
  <2>1. PICK l \in {"links", "taken", "commit"} :
          \/ UpdateRow(r, l)
          \/ Goto(r, l) /\ UNCHANGED <<tables, locals, held>>
    <3> DEFINE next == AfterLinks(r)
    <3>1. next \in {"taken", "commit"}
      BY DEF AfterLinks
    <3>2. \/ UpdateRow(r, IF Retags(r) THEN "links" ELSE next)
          \/ Goto(r, next) /\ UNCHANGED <<tables, locals, held>>
      BY <1>12 DEF FlushRow
    <3>3. QED
      BY <3>1, <3>2
  <2>2. QED
    BY <1>1, <1>2, <1>3, <1>4, <1>12, <2>1 DEF FlushRow, UpdateRow, At, Labels, Outcomes
<1>13. CASE FlushLinks(r)
  BY <1>1, <1>2, <1>3, <1>4, <1>13
     DEF FlushLinks, AfterLinks, Runs, At, Labels, Outcomes
<1>14. CASE Taken(r)
  BY <1>1, <1>2, <1>14 DEF Taken, At, Labels, Outcomes
<1>15. CASE Rename(r)
  BY <1>1, <1>2, <1>3, <1>4, <1>15 DEF Rename, Runs, At, Labels, Outcomes
<1>16. CASE Unlink(r)
  BY <1>1, <1>2, <1>4, <1>16 DEF Unlink, Runs, At, Labels, Outcomes
<1>17. QED
  BY <1>5, <1>6, <1>7, <1>8, <1>9, <1>10, <1>11, <1>12, <1>13, <1>14, <1>15, <1>16
     DEF Statement

(* So it is a refusal or nothing. *)
LEMMA StatementInCatalogue ==
  ASSUME EditInv, NEW r \in Request, Statement(r),
         ~CommitCreate(r), ~CommitUpdate(r), ~CommitDelete(r), ~Drop(r)
  PROVE  Catalogue!Next \/ UNCHANGED catvars
<1>1. pc[r] \notin Outcomes \cup {"idle", "commit"}
  BY StatementEffect
<1>2. CASE Fails(r)
  BY <1>1, <1>2, RefuseInCatalogue DEF Fails
<1>3. CASE ~Fails(r)
  <2>1. PICK l \in Labels : Quiet(r, l) /\ (l = "commit" => job[r].op # "delete")
    BY <1>3, StatementEffect
  <2>2. Only(r) /\ pc'[r] = l
    BY <2>1 DEF Quiet, Goto, Only, EditInv, Typed
  <2>3. ~Missed(r) /\ ~Missed(r)'
    BY <1>1, <2>1, <2>2 DEF Missed, Quiet
  <2>4. pc'[r] \notin Outcomes
    BY <2>2 DEF Labels, Outcomes
  <2>5. QED
    BY <1>1, <2>1, <2>2, <2>3, <2>4, StillSilent DEF Quiet
<1>4. QED
  BY <1>2, <1>3

(* A DELETE that finds no post has missed it, whatever comes there later. *)
LEMMA DropInCatalogue ==
  ASSUME EditInv, NEW r \in Request, Drop(r)
  PROVE  Catalogue!Next \/ UNCHANGED catvars
<1> DEFINE i == job[r].id
           L == IF posts[i] = Absent THEN {} ELSE PostKey(i) \cup LinkKeys(i, links[i])
<1>1. /\ pc[r] = "drop" /\ job[r].op = "delete" /\ i \in Id /\ job[r] # Absent
      /\ Lock(r, L) /\ Goto(r, "commit") /\ UNCHANGED <<tables, locals>>
  BY JobFacts DEF Drop, Runs, At, EditInv, JobInv
<1>2. Only(r) /\ pc'[r] = "commit" /\ held'[r] = held[r] \cup L /\ job' = job
  BY <1>1 DEF Lock, Goto, Only, locals, EditInv, Typed
<1>3. ~Missed(r) /\ pc[r] \notin Outcomes /\ pc'[r] \notin Outcomes
  BY <1>1, <1>2 DEF Missed, Outcomes
<1>4. CASE ~Missed(r)'
  BY <1>1, <1>2, <1>3, <1>4, StillSilent
<1>5. CASE Missed(r)'
  <2>1. posts[i] = Absent
    BY <1>1, <1>2, <1>5 DEF Missed, Wrote
  <2>2. \A q \in Request \ {r} : pc'[q] = pc[q] /\ (Missed(q)' <=> Missed(q))
    BY <1>2 DEF Only, Missed, Wrote
  <2>3. Answered' = Answered /\ Answered[r] = "none" /\ Misses' = Misses \cup {r}
    BY <1>3, <1>5, <2>2 DEF Answered, Misses
  <2>4. Catalogue!Miss(r)
    BY <1>1, <2>1, <2>3 DEF Catalogue!Miss, Catalogue!Open, Answered, Misses,
       tables, locals
  <2>5. QED
    BY <2>4 DEF Catalogue!Next
<1>6. QED
  BY <1>4, <1>5

-----------------------------------------------------------------------------
(* The commits *)

LEMMA CreateInCatalogue ==
  ASSUME EditInv, NEW r \in Request, CommitCreate(r)
  PROVE  Catalogue!Next
<1> DEFINE i   == job[r].id
           row == Merge(Merge(Blank, job[r].set), [birth |-> r])
<1>1. /\ pc[r] = "commit" /\ End(r, "ok") /\ job[r].op = "create" /\ i \in Id
      /\ IsJob(job[r]) /\ posts[i] = Absent
      /\ posts' = [posts EXCEPT ![i] = row]
      /\ links' = [links EXCEPT ![i] = Names(r)]
  BY JobFacts DEF CommitCreate, At, EditInv, RowInv
<1>2. /\ Answered' = [Answered EXCEPT ![r] = "ok"] /\ Misses' = Misses \ {r}
      /\ job' = job /\ job[r] # Absent /\ Answered[r] = "none"
  BY <1>1, Answering DEF Outcomes
<1>3. posts'[i] = row /\ posts'[i] # Absent
  BY <1>1, CreatedRow, AbsentAssumption DEF EditInv, Typed
<1>4. row.birth = r /\ \A c \in DOMAIN job[r].set : row[c] = job[r].set[c]
  <2>1. \A c \in DOMAIN job[r].set : c \in {"text", "status", "date"}
    BY <1>1 DEF IsJob, Values
  <2>2. \A c \in {"text", "status", "date"} :
          row[c] = IF c \in DOMAIN job[r].set THEN job[r].set[c] ELSE Blank[c]
    BY DEF Merge, Blank
  <2>3. row.birth = r
    BY DEF Merge, Blank
  <2>4. QED
    BY <2>1, <2>2, <2>3
<1>5. Catalogue!Open(r, {"create"}) /\ Catalogue!Says(r, "ok")
  BY <1>1, <1>2 DEF Catalogue!Open, Catalogue!Says, Answered, Misses
<1>6. Catalogue!Create(r)
  BY <1>1, <1>3, <1>4, <1>5 DEF Catalogue!Create, Names, ToSet, Catalogue!ToSet
<1>7. QED
  BY <1>6 DEF Catalogue!Next

LEMMA AmendInCatalogue ==
  ASSUME EditInv, NEW r \in Request, CommitUpdate(r)
  PROVE  Catalogue!Next
<1> DEFINE i   == job[r].id
           j   == IF job[r].to = Absent THEN i ELSE job[r].to
           row == Merge(posts[i], Dirty(r))
           T   == (links[i] \ OldLinks(r)) \cup NewLinks(r)
<1>1. /\ pc[r] = "commit" /\ End(r, "ok") /\ i \in Id /\ j \in Id
      /\ IsJob(job[r]) /\ job[r].op \in {"update", "publish"}
      /\ j = IF Renames(r) THEN job[r].to ELSE i
  BY JobFacts DEF CommitUpdate, At, IsJob, Renames
<1>2. /\ Answered' = [Answered EXCEPT ![r] = "ok"] /\ Misses' = Misses \ {r}
      /\ job' = job /\ job[r] # Absent /\ Answered[r] = "none"
  BY <1>1, Answering DEF Outcomes
<1>3. j # i => Wrote(r, PostKey(i)) /\ posts[j] = Absent
  BY <1>1 DEF EditInv, RowInv, Wrote, Renames
<1>4. Catalogue!Open(r, {"update", "publish"}) /\ Catalogue!Says(r, "ok")
  BY <1>1, <1>2 DEF Catalogue!Open, Catalogue!Says, Answered, Misses
<1>5. CASE Wrote(r, PostKey(i))
  <2>1. /\ posts' = [posts EXCEPT ![i] = Absent, ![j] = row]
        /\ links' = [links EXCEPT ![i] = {}, ![j] = T]
    BY <1>1, <1>5 DEF CommitUpdate
  <2>2. posts[i] \in Row /\ posts[i] # Absent
    BY <1>1, <1>5 DEF EditInv, RowInv, Typed, Wrote
  <2>3. /\ DOMAIN posts[i] = {"birth", "text", "status", "date"}
        /\ DOMAIN row = {"birth", "text", "status", "date"}
    BY <2>2 DEF Row, Merge
  <2>4. \A c \in DOMAIN Assigned(r) : c \in {"text", "status", "date"}
    BY <1>1 DEF IsJob, Assigned, Values
  <2>5. \A c \in DOMAIN row :
          \/ row[c] = posts[i][c]
          \/ c \in DOMAIN Assigned(r) /\ row[c] = Assigned(r)[c]
    <3>1. \A c \in DOMAIN row :
            row[c] = IF c \in DOMAIN Dirty(r) THEN Dirty(r)[c] ELSE posts[i][c]
      BY <2>3 DEF Merge
    <3>2. \A c \in DOMAIN Dirty(r) :
            c \in DOMAIN Assigned(r) /\ Dirty(r)[c] = Assigned(r)[c]
      BY DEF Dirty, Changed
    <3>3. QED
      BY <3>1, <3>2
  <2>6. row.birth = posts[i].birth
    BY <2>3, <2>4 DEF Merge, Dirty, Changed
  <2>7. Catalogue!Moved(r, posts[i], row)
    BY <1>1, <2>5, <2>6 DEF Catalogue!Moved, Assigned
  <2>8. Catalogue!Retagged(r, links[i], T)
    <3>1. CASE job[r].tags = Absent
      <4>1. T = links[i]
        BY <3>1 DEF NewLinks, OldLinks, Retags
      <4>2. QED
        BY <3>1, <4>1 DEF Catalogue!Retagged
    <3>2. CASE job[r].tags # Absent
      <4>1. links[i] \cap Names(r) \subseteq T /\ T \subseteq links[i] \cup Names(r)
        BY <3>2 DEF NewLinks, OldLinks, Retags
      <4>2. QED
        BY <3>2, <4>1 DEF Catalogue!Retagged, Names, ToSet, Catalogue!ToSet
    <3>3. QED
      BY <3>1, <3>2
  <2>9. posts'[j] = row /\ links'[j] = T
    BY <1>1, <2>1 DEF EditInv, Typed
  <2>10. row # Absent
    BY <1>1, <2>2, AmendedRow, AbsentAssumption
  <2>11. Catalogue!Amend(r)
    BY <1>3, <1>4, <2>1, <2>2, <2>7, <2>8, <2>9, <2>10 DEF Catalogue!Amend
  <2>12. QED
    BY <2>11 DEF Catalogue!Next
<1>6. CASE ~Wrote(r, PostKey(i))
  <2>1. UNCHANGED <<posts, links>> /\ j = i
    BY <1>3, <1>6 DEF CommitUpdate
  <2>2. posts = [posts EXCEPT ![i] = Absent, ![i] = posts[i]]
    BY <1>1 DEF EditInv, Typed
  <2>3. links = [links EXCEPT ![i] = {}, ![i] = links[i]]
    BY <1>1 DEF EditInv, Typed
  <2>4. Catalogue!Moved(r, posts[i], posts[i]) /\ Catalogue!Retagged(r, links[i], links[i])
    BY DEF Catalogue!Moved, Catalogue!Retagged
  <2>5. Catalogue!Amend(r)
    BY <1>4, <2>1, <2>2, <2>3, <2>4 DEF Catalogue!Amend
  <2>6. QED
    BY <2>5 DEF Catalogue!Next
<1>7. QED
  BY <1>5, <1>6

LEMMA WithdrawInCatalogue ==
  ASSUME EditInv, NEW r \in Request, CommitDelete(r)
  PROVE  Catalogue!Next
<1>1. /\ pc[r] = "commit" /\ End(r, "ok") /\ job[r].op = "delete"
      /\ IF Wrote(r, PostKey(job[r].id))
         THEN /\ posts' = [posts EXCEPT ![job[r].id] = Absent]
              /\ links' = [links EXCEPT ![job[r].id] = {}]
         ELSE UNCHANGED <<posts, links>>
  BY DEF CommitDelete, At
<1>2. /\ Answered' = [Answered EXCEPT ![r] = "ok"] /\ Misses' = Misses \ {r}
      /\ job' = job /\ job[r] # Absent /\ Answered[r] = "none"
  BY <1>1, Answering DEF Outcomes
<1>3. Catalogue!Open(r, {"delete"}) /\ Catalogue!Says(r, "ok")
  BY <1>1, <1>2 DEF Catalogue!Open, Catalogue!Says, Answered, Misses
<1>4. r \in Misses <=> ~Wrote(r, PostKey(job[r].id))
  BY <1>1 DEF Misses, Missed
<1>5. Catalogue!Withdraw(r) \/ Catalogue!Overtaken(r)
  BY <1>1, <1>3, <1>4 DEF Catalogue!Withdraw, Catalogue!Overtaken, Misses
<1>6. QED
  BY <1>5 DEF Catalogue!Next

-----------------------------------------------------------------------------
LEMMA ArriveInCatalogue ==
  ASSUME EditInv, NEW r \in Request, Arrive(r)
  PROVE  Catalogue!Next
<1>1. PICK b \in Jobs :
        /\ job' = [job EXCEPT ![r] = b]
        /\ Goto(r, IF b.op = "create" THEN "exists" ELSE "load")
  BY DEF Arrive
<1>2. UNCHANGED <<tables, seen, missing, held>> /\ pc[r] = "idle" /\ job[r] = Absent
  BY DEF Arrive, At, EditInv, JobInv
<1>3. pc'[r] \in {"exists", "load"} /\ \A q \in Request \ {r} : pc'[q] = pc[q] /\ job'[q] = job[q]
  BY <1>1 DEF Goto, EditInv, Typed
<1>4. Answered' = Answered
  BY <1>2, <1>3 DEF Answered, Outcomes
<1>5. ~Missed(r)' /\ ~Missed(r) /\ \A q \in Request \ {r} : Missed(q)' <=> Missed(q)
  BY <1>2, <1>3 DEF Missed, Wrote
<1>6. Misses' = Misses
  BY <1>5 DEF Misses
<1>7. Catalogue!Ask(r)
  BY <1>1, <1>2, <1>4, <1>6 DEF Catalogue!Ask, Answered, Misses, tables
<1>8. QED
  BY <1>7 DEF Catalogue!Next

LEMMA NextInCatalogue ==
  ASSUME EditInv, [Next]_vars
  PROVE  Catalogue!Next \/ UNCHANGED catvars
<1>1. ASSUME NEW r \in Request, LockTimeout(r) \/ Fail(r)
      PROVE  Catalogue!Next
  <2>1. pc[r] \notin Outcomes \cup {"idle"} /\ Rollback(r, "aborted")
    BY <1>1 DEF LockTimeout, Fail, Waiting, Needs, Outcomes
  <2>2. QED
    BY <2>1, RefuseInCatalogue DEF Outcomes
<1>2. ASSUME NEW r \in Request, Statement(r)
      PROVE  Catalogue!Next \/ UNCHANGED catvars
  BY <1>2, StatementInCatalogue, DropInCatalogue, CreateInCatalogue,
     AmendInCatalogue, WithdrawInCatalogue
<1>3. CASE UNCHANGED vars
  BY <1>3 DEF vars, tables, locals, catvars, Answered, Misses, Missed, Wrote
<1>4. QED
  BY <1>1, <1>2, <1>3, ArriveInCatalogue DEF Next

(* Whatever requests overlap, fail or wait, the committed posts and tags    *)
(* change as PostCatalogue says (PostService, PostRepository).              *)
THEOREM Implementation == Spec => ImplementsCatalogue
<1>1. Init => Catalogue!Init
  BY InitInv DEF Init, Catalogue!Init, EditInv, LinksHaveEnds, Missed, Outcomes
<1>2. EditInv /\ [Next]_vars => [Catalogue!Next]_catvars
  BY NextInCatalogue
<1>3. QED
  BY <1>1, <1>2, Invariance, PTL
     DEF Spec, ImplementsCatalogue, Catalogue!Spec, catvars, Answered, Misses
=============================================================================
