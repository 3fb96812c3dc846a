--------------------------- MODULE PostStoreProofs ---------------------------
(* Theorems about PostStore, for any slugs, tags, requests and payloads. *)
EXTENDS PostStore, TLAPS

(***************************************************************************)
(* The inductive invariant.  LinksHaveEnds is about committed rows; that   *)
(* commits keep it rests on what each request knows of the rows it is      *)
(* about to write, and the locks that keep that true.                      *)
(***************************************************************************)

Typed ==
  /\ posts \in [Id -> Row \cup {Absent}] /\ links \in [Id -> SUBSET Tag]
  /\ tags \subseteq Tag
  /\ pc \in [Request -> Labels \cup Outcomes]
  /\ job \in [Request -> Jobs \cup {Absent}]
  /\ DOMAIN seen = Request
  /\ \A r \in Request :
       seen[r].row \in Row \cup {Absent} /\ seen[r].tags \subseteq Tag
  /\ missing \in [Request -> SUBSET Tag]
  /\ held \in [Request -> SUBSET Keys]

(* Which request runs which statement. *)
JobInv(r) ==
  /\ job[r] = Absent <=> pc[r] = "idle"
  /\ pc[r] \in {"exists", "insert"} => job[r].op = "create"
  /\ pc[r] \in {"load", "selectin"} => job[r].op # "create"
  /\ pc[r] \in {"row", "links", "taken", "rename"} =>
       job[r].op \in {"update", "publish"}
  /\ pc[r] \in {"taken", "rename"} => Renames(r)
  /\ pc[r] \in {"unlink", "drop"} => job[r].op = "delete"
  /\ pc[r] = "early" => job[r].op = "update" /\ Retags(r)
  /\ pc[r] \in {"ensure", "tag"} => job[r].op \in {"create", "update"} /\ Retags(r)
  /\ pc[r] \in Outcomes \cup {"idle"} => held[r] = {}

(* The row an update has written is there until it commits, and the slug   *)
(* that a creation or a rename has written is free until it commits.       *)
RowInv(r) ==
  /\ /\ pc[r] # "idle" /\ job[r].op \in {"update", "publish"}
     /\ PostKey(job[r].id) \subseteq held[r]
     => posts[job[r].id] # Absent
  /\ pc[r] = "commit" /\ job[r].op = "create" =>
       PostKey(job[r].id) \subseteq held[r] /\ posts[job[r].id] = Absent
  /\ pc[r] = "commit" /\ job[r].op \in {"update", "publish"} /\ Renames(r) =>
       /\ PostKey(job[r].id) \cup PostKey(job[r].to) \subseteq held[r]
       /\ posts[job[r].to] = Absent

(* A tag that a request links exists, or it has inserted it. *)
TagInv(r) ==
  /\ pc[r] = "tag" => Names(r) \subseteq tags \cup InsertedTags(r) \cup missing[r]
  /\ pc[r] \in {"insert", "row", "links", "taken", "rename", "commit"} /\ Retags(r) =>
       Names(r) \subseteq tags \cup InsertedTags(r)

(* A row or key has been written by one open transaction at most. *)
LockInv == \A q, r \in Request : q # r => held[q] \cap held[r] = {}

EditInv == /\ Typed /\ LockInv /\ LinksHaveEnds
           /\ \A r \in Request : JobInv(r) /\ RowInv(r) /\ TagInv(r)

LEMMA EditImplies ==
  ASSUME EditInv
  PROVE  TypeOK /\ LinksHaveEnds
BY DEF EditInv, Typed, JobInv, TypeOK

(* What a payload is. *)
LEMMA JobFacts ==
  ASSUME EditInv, NEW r \in Request, pc[r] # "idle"
  PROVE  /\ job[r] \in Jobs /\ IsJob(job[r]) /\ job[r].id \in Id
         /\ Retags(r) => Names(r) \subseteq Tag
         /\ job[r].op \in {"publish", "delete"} => ~Retags(r)
         /\ job[r].op = "create" => Retags(r)
         /\ Renames(r) => job[r].to \in Id
<1>1. job[r] \in Jobs
  BY DEF EditInv, Typed, JobInv
<1>2. IsJob(job[r])
  BY <1>1, JobsAssumption
<1>3. QED
  BY <1>1, <1>2 DEF IsJob, Retags, Names, Renames, ToSet

LEMMA InitInv ==
  ASSUME Init
  PROVE  EditInv
<1>1. \A i \in Seeds : Merge(Blank, [birth |-> i]) \in Row
  BY SeedsAssumption DEF Merge, Blank, Row, Values
<1>2. Typed
  BY <1>1, SeedsAssumption DEF Init, Typed, NoRow, Labels
<1>3. LinksHaveEnds
  BY <1>1, AbsentAssumption DEF Init, LinksHaveEnds
<1>4. LockInv /\ \A r \in Request : JobInv(r) /\ RowInv(r) /\ TagInv(r)
  BY DEF Init, LockInv, JobInv, RowInv, TagInv, Outcomes
<1>5. QED
  BY <1>2, <1>3, <1>4 DEF EditInv

(* Changed columns make a row of a row. *)
LEMMA MergeRow ==
  ASSUME NEW row \in Row, NEW set,
         \A c \in DOMAIN set : c \in DOMAIN Values /\ set[c] \in Values[c]
  PROVE  Merge(row, set) \in Row
<1> DEFINE cell(c) == IF c \in DOMAIN set THEN set[c] ELSE row[c]
<1>1. DOMAIN row = {"birth", "text", "status", "date"}
  BY DEF Row
<1>2. Merge(row, set) = [birth |-> cell("birth"), text |-> cell("text"),
                         status |-> cell("status"), date |-> cell("date")]
  BY <1>1 DEF Merge
<1>3. /\ row["birth"] \in Request \cup Id /\ row["text"] \in Text \cup {Absent}
      /\ row["status"] \in Values.status /\ row["date"] \in Values.date
  BY DEF Row
<1>4. /\ Values["text"] = Text /\ Values["status"] = Values.status
      /\ Values["date"] = Values.date /\ DOMAIN Values = {"text", "status", "date"}
  BY DEF Values
<1>5. /\ cell("birth") \in Request \cup Id /\ cell("text") \in Text \cup {Absent}
      /\ cell("status") \in Values.status /\ cell("date") \in Values.date
  BY <1>3, <1>4
<1>6. QED
  BY <1>2, <1>5 DEF Row

-----------------------------------------------------------------------------
(* A step of r leaves alone what belongs to other requests. *)
Only(r) ==
  \A q \in Request \ {r} :
    /\ pc'[q] = pc[q] /\ job'[q] = job[q] /\ seen'[q] = seen[q]
    /\ missing'[q] = missing[q] /\ held'[q] = held[q]

LEMMA OthersKept ==
  ASSUME EditInv, NEW r \in Request, Only(r), tags \subseteq tags',
         \A q \in Request \ {r}, i \in Id :
           PostKey(i) \subseteq held[q] => posts'[i] = posts[i]
  PROVE  \A q \in Request \ {r} : JobInv(q)' /\ RowInv(q)' /\ TagInv(q)'
<1> SUFFICES ASSUME NEW q \in Request \ {r}
             PROVE  JobInv(q)' /\ RowInv(q)' /\ TagInv(q)'
  OBVIOUS
<1>1. JobInv(q)'
  BY DEF EditInv, JobInv, Only, Retags, Renames
<1>2. RowInv(q)'
  BY JobFacts DEF EditInv, RowInv, Only, Renames
<1>3. TagInv(q)'
  BY DEF EditInv, TagInv, Only, Names, Retags, InsertedTags, Wrote
<1>4. QED
  BY <1>1, <1>2, <1>3

(* Statements before the commit leave the tables as they are. *)
LEMMA TablesKept ==
  ASSUME EditInv, NEW r \in Request, Only(r), UNCHANGED tables, Typed',
         JobInv(r)', RowInv(r)', TagInv(r)',
         \A q \in Request \ {r} : held'[r] \cap held[q] = {}
  PROVE  EditInv'
<1>1. \A q \in Request \ {r} : JobInv(q)' /\ RowInv(q)' /\ TagInv(q)'
  BY OthersKept DEF tables
<1>2. LockInv'
  BY DEF EditInv, LockInv, Only
<1>3. LinksHaveEnds'
  BY DEF EditInv, LinksHaveEnds, tables
<1>4. QED
  BY <1>1, <1>2, <1>3 DEF EditInv

(* The end of a transaction, whatever it commits. *)
LEMMA Ended ==
  ASSUME EditInv, NEW r \in Request, NEW o \in Outcomes, End(r, o), pc[r] # "idle",
         posts' \in [Id -> Row \cup {Absent}], links' \in [Id -> SUBSET Tag],
         tags' \subseteq Tag
  PROVE  /\ Only(r) /\ Typed' /\ LockInv'
         /\ JobInv(r)' /\ RowInv(r)' /\ TagInv(r)'
<1> USE DEF End, Goto, NoRow
<1>1. Only(r)
  BY DEF EditInv, Typed, Only
<1>2. Typed'
  BY DEF EditInv, Typed
<1>3. LockInv'
  BY <1>1 DEF EditInv, Typed, LockInv, Only
<1>4. pc'[r] = o /\ held'[r] = {} /\ job'[r] = job[r] /\ job[r] # Absent
  BY DEF EditInv, Typed, JobInv
<1>5. QED
  BY <1>1, <1>2, <1>3, <1>4 DEF JobInv, RowInv, TagInv, PostKey, Outcomes

LEMMA RollbackStep ==
  ASSUME EditInv, NEW r \in Request, NEW o \in Outcomes, Rollback(r, o),
         pc[r] # "idle"
  PROVE  EditInv'
<1>1. UNCHANGED tables /\ End(r, o)
  BY DEF Rollback
<1>2. /\ posts' \in [Id -> Row \cup {Absent}] /\ links' \in [Id -> SUBSET Tag]
      /\ tags' \subseteq Tag
  BY <1>1 DEF tables, EditInv, Typed
<1>3. held'[r] = {}
  BY <1>1 DEF End, EditInv, Typed
<1>4. QED
  BY <1>1, <1>2, <1>3, Ended, TablesKept

-----------------------------------------------------------------------------
(* Statements that read. *)

LEMMA Moved ==
  ASSUME EditInv, NEW r \in Request, NEW label \in Labels \ {"idle"}, Goto(r, label),
         pc[r] # "idle", UNCHANGED <<tables, locals, held>>,
         label = "commit" => job[r].op \in {"update", "publish"} /\ ~Renames(r)
  PROVE  /\ Only(r) /\ Typed' /\ pc'[r] = label /\ RowInv(r)'
         /\ \A q \in Request \ {r} : held'[r] \cap held[q] = {}
<1>1. Only(r) /\ Typed' /\ pc'[r] = label
  BY DEF EditInv, Typed, Only, Goto, tables, locals
<1>2. RowInv(r)'
  BY <1>1 DEF EditInv, RowInv, Renames, tables, locals
<1>3. QED
  BY <1>1, <1>2 DEF EditInv, LockInv

LEMMA ArriveStep ==
  ASSUME EditInv, NEW r \in Request, Arrive(r)
  PROVE  EditInv'
<1>1. PICK b \in Jobs :
        /\ job' = [job EXCEPT ![r] = b]
        /\ Goto(r, IF b.op = "create" THEN "exists" ELSE "load")
  BY DEF Arrive
<1>2. UNCHANGED <<tables, seen, missing, held>> /\ pc[r] = "idle" /\ held[r] = {}
  BY DEF Arrive, At, EditInv, JobInv
<1>3. /\ job'[r] = b /\ b # Absent
      /\ pc'[r] = IF b.op = "create" THEN "exists" ELSE "load"
  BY <1>1, AbsentAssumption DEF Goto, EditInv, Typed
<1>4. Only(r) /\ Typed'
  BY <1>1, <1>2 DEF EditInv, Typed, Only, Goto, tables, Labels
<1>5. JobInv(r)' /\ RowInv(r)' /\ TagInv(r)'
  BY <1>2, <1>3 DEF JobInv, RowInv, TagInv, PostKey, Outcomes
<1>6. QED
  BY <1>2, <1>4, <1>5, TablesKept

LEMMA ExistsStep ==
  ASSUME EditInv, NEW r \in Request, Exists(r)
  PROVE  EditInv'
<1>1. pc[r] = "exists" /\ job[r].op = "create"
  BY DEF Exists, At, EditInv, JobInv
<1>2. CASE posts[job[r].id] # Absent
  BY <1>1, <1>2, RollbackStep DEF Exists, Outcomes
<1>3. CASE posts[job[r].id] = Absent
  <2>1. Goto(r, TagsOr(r, "insert")) /\ UNCHANGED <<tables, locals, held>>
    BY <1>3 DEF Exists
  <2>2. TagsOr(r, "insert") \in {"ensure", "insert"}
    BY DEF TagsOr
  <2>3. /\ Only(r) /\ Typed' /\ pc'[r] = TagsOr(r, "insert") /\ RowInv(r)'
        /\ \A q \in Request \ {r} : held'[r] \cap held[q] = {}
    BY <1>1, <2>1, <2>2, Moved DEF Labels
  <2>4. JobInv(r)'
    BY <1>1, <2>1, <2>2, <2>3 DEF EditInv, JobInv, TagsOr, Retags, locals, Outcomes
  <2>5. TagInv(r)'
    BY <1>1, <2>1, <2>2, <2>3 DEF TagInv, TagsOr, Retags, Names, locals
  <2>6. QED
    BY <2>1, <2>3, <2>4, <2>5, TablesKept
<1>4. QED
  BY <1>2, <1>3

LEMMA LoadStep ==
  ASSUME EditInv, NEW r \in Request, Load(r)
  PROVE  EditInv'
<1>1. pc[r] = "load" /\ job[r].op # "create" /\ job[r].id \in Id
  BY JobFacts DEF Load, At, EditInv, JobInv
<1>2. CASE posts[job[r].id] = Absent
  BY <1>1, <1>2, RollbackStep DEF Load, Outcomes
<1>3. CASE posts[job[r].id] # Absent
  <2>1. /\ seen' = [seen EXCEPT ![r].row = posts[job[r].id]]
        /\ Goto(r, "selectin") /\ UNCHANGED <<tables, job, missing, held>>
    BY <1>3 DEF Load
  <2>2. Only(r) /\ Typed' /\ pc'[r] = "selectin"
    BY <1>1, <2>1 DEF EditInv, Typed, Only, Goto, tables, Labels
  <2>3. JobInv(r)' /\ RowInv(r)' /\ TagInv(r)'
    BY <1>1, <2>1, <2>2 DEF EditInv, JobInv, RowInv, TagInv, tables, Outcomes
  <2>4. \A q \in Request \ {r} : held'[r] \cap held[q] = {}
    BY <2>1 DEF EditInv, LockInv
  <2>5. QED
    BY <2>1, <2>2, <2>3, <2>4, TablesKept
<1>4. QED
  BY <1>2, <1>3

LEMMA LoadTagsStep ==
  ASSUME EditInv, NEW r \in Request, LoadTags(r)
  PROVE  EditInv'
<1> DEFINE next  == TagsOr(r, "row")
           label == IF job[r].op = "delete" THEN "unlink"
                    ELSE IF next = "ensure" /\ Changed(r)' # {} THEN "early"
                    ELSE next
<1>1. /\ pc[r] = "selectin" /\ job[r].op # "create" /\ job[r].id \in Id
      /\ job[r].op \in {"create", "update", "publish", "delete"}
      /\ job[r].op \in {"publish", "delete"} => ~Retags(r)
  BY JobFacts DEF LoadTags, At, EditInv, JobInv, IsJob
<1>2. /\ seen' = [seen EXCEPT ![r].tags = links[job[r].id]]
      /\ UNCHANGED <<tables, job, missing, held>>
  BY DEF LoadTags
<1>3. PICK l \in {"unlink", "early", "ensure", "row"} :
        /\ Goto(r, l)
        /\ l = "unlink" <=> job[r].op = "delete"
        /\ l \in {"early", "ensure"} => Retags(r)
        /\ l = "row" => ~Retags(r) \/ Names(r) = {}
  BY <1>1 DEF LoadTags, TagsOr
<1>4. Only(r) /\ Typed' /\ pc'[r] = l
  BY <1>1, <1>2, <1>3 DEF EditInv, Typed, Only, Goto, tables, Labels
<1>5. JobInv(r)'
  BY <1>1, <1>2, <1>3, <1>4 DEF EditInv, JobInv, Retags, Outcomes
<1>6. RowInv(r)' /\ TagInv(r)'
  BY <1>1, <1>2, <1>3, <1>4 DEF EditInv, RowInv, TagInv, Retags, Names, tables
<1>7. \A q \in Request \ {r} : held'[r] \cap held[q] = {}
  BY <1>2 DEF EditInv, LockInv
<1>8. QED
  BY <1>2, <1>4, <1>5, <1>6, <1>7, TablesKept

LEMMA EnsureStep ==
  ASSUME EditInv, NEW r \in Request, Ensure(r)
  PROVE  EditInv'
<1> DEFINE new == Names(r) \ tags
<1>1. /\ pc[r] = "ensure" /\ Retags(r) /\ Names(r) \subseteq Tag
      /\ job[r].op \in {"create", "update"}
  BY JobFacts DEF Ensure, At, EditInv, JobInv
<1>2. /\ missing' = [missing EXCEPT ![r] = new]
      /\ Goto(r, IF new = {} THEN AfterTags(r) ELSE "tag")
      /\ UNCHANGED <<tables, job, seen, held>>
  BY DEF Ensure, AfterEnsure
<1>3. AfterTags(r) = IF job[r].op = "create" THEN "insert" ELSE "row"
  BY DEF AfterTags
<1>4. /\ Only(r) /\ Typed' /\ missing'[r] = new
      /\ pc'[r] = IF new = {} THEN AfterTags(r) ELSE "tag"
  BY <1>1, <1>2, <1>3 DEF EditInv, Typed, Only, Goto, tables, Labels
<1>5. JobInv(r)'
  BY <1>1, <1>2, <1>3, <1>4 DEF EditInv, JobInv, Retags, Outcomes
<1>6. RowInv(r)'
  BY <1>1, <1>2, <1>3, <1>4 DEF EditInv, RowInv, tables
<1>7. TagInv(r)'
  BY <1>1, <1>2, <1>3, <1>4 DEF TagInv, Names, tables
<1>8. \A q \in Request \ {r} : held'[r] \cap held[q] = {}
  BY <1>2 DEF EditInv, LockInv
<1>9. QED
  BY <1>2, <1>4, <1>5, <1>6, <1>7, <1>8, TablesKept

LEMMA TakenStep ==
  ASSUME EditInv, NEW r \in Request, Taken(r)
  PROVE  EditInv'
<1>1. pc[r] = "taken" /\ job[r].op \in {"update", "publish"}
  BY DEF Taken, At, EditInv, JobInv
<1>2. CASE posts[job[r].to] # Absent
  BY <1>1, <1>2, RollbackStep DEF Taken, Outcomes
<1>3. CASE posts[job[r].to] = Absent
  <2>1. Goto(r, "rename") /\ UNCHANGED <<tables, locals, held>>
    BY <1>3 DEF Taken
  <2>2. /\ Only(r) /\ Typed' /\ pc'[r] = "rename" /\ RowInv(r)'
        /\ \A q \in Request \ {r} : held'[r] \cap held[q] = {}
    BY <1>1, <2>1, Moved DEF Labels
  <2>3. JobInv(r)' /\ TagInv(r)'
    BY <1>1, <2>1, <2>2 DEF EditInv, JobInv, TagInv, Retags, Renames, Names,
       InsertedTags, Wrote, locals, tables, Outcomes
  <2>4. QED
    BY <2>1, <2>2, <2>3, TablesKept
<1>4. QED
  BY <1>2, <1>3

-----------------------------------------------------------------------------
(* Statements that write: what they write was free. *)

LEMMA Free ==
  ASSUME NEW r \in Request, ~Waiting(r), NEW L, L \subseteq Needs(r)
  PROVE  \A q \in Request \ {r} : L \cap held[q] = {}
BY DEF Waiting

LEMMA Locked ==
  ASSUME EditInv, NEW r \in Request, pc[r] # "idle",
         NEW L \in SUBSET Keys, \A q \in Request \ {r} : L \cap held[q] = {},
         Lock(r, L), NEW label \in Labels \ {"idle"}, Goto(r, label),
         UNCHANGED <<tables, job, seen>>, missing' \in [Request -> SUBSET Tag],
         \A q \in Request \ {r} : missing'[q] = missing[q]
  PROVE  /\ Only(r) /\ Typed' /\ pc'[r] = label
         /\ held'[r] = held[r] \cup L
         /\ InsertedTags(r) \subseteq InsertedTags(r)'
         /\ \A q \in Request \ {r} : held'[r] \cap held[q] = {}
<1>1. held'[r] = held[r] \cup L /\ pc'[r] = label
  BY DEF EditInv, Typed, Lock, Goto
<1>2. Only(r) /\ Typed'
  BY DEF EditInv, Typed, Only, Lock, Goto, tables
<1>3. InsertedTags(r) \subseteq InsertedTags(r)'
  BY <1>1 DEF InsertedTags, Wrote
<1>4. \A q \in Request \ {r} : held'[r] \cap held[q] = {}
  BY <1>1 DEF EditInv, LockInv
<1>5. QED
  BY <1>1, <1>2, <1>3, <1>4

(* Keys are told apart by their kind. *)
LEMMA KeyKinds ==
  ASSUME NEW i \in Id
  PROVE  /\ PostKey(i) \subseteq Keys
         /\ \A T \in SUBSET Tag : LinkKeys(i, T) \subseteq Keys
         /\ \A t \in Tag : TagKey(t) \subseteq Keys
         /\ \A t \in Tag : PostKey(i) \cap TagKey(t) = {}
         /\ \A j \in Id, T \in SUBSET Tag : PostKey(i) \cap LinkKeys(j, T) = {}
<1>1. /\ PostKey(i) \subseteq Keys
      /\ LinkKeys(i, Tag) \subseteq Keys
      /\ \A t \in Tag : TagKey(t) \subseteq Keys
  BY DEF Keys
<1>2. \A T \in SUBSET Tag : LinkKeys(i, T) \subseteq LinkKeys(i, Tag)
  BY DEF LinkKeys
<1>3. /\ \A t \in Tag : PostKey(i) \cap TagKey(t) = {}
      /\ \A j \in Id, T \in SUBSET Tag : PostKey(i) \cap LinkKeys(j, T) = {}
  BY DEF PostKey, TagKey, LinkKeys
<1>4. QED
  BY <1>1, <1>2, <1>3

LEMMA InsertTagStep ==
  ASSUME EditInv, NEW r \in Request, InsertTag(r)
  PROVE  EditInv'
<1>1. /\ pc[r] = "tag" /\ ~Waiting(r) /\ Retags(r) /\ job[r].id \in Id
      /\ Names(r) \subseteq Tag /\ job[r].op \in {"create", "update"}
      /\ missing[r] \subseteq Tag
  BY JobFacts DEF InsertTag, Runs, At, EditInv, JobInv, Typed
<1>2. PICK t \in NextTags(r) :
        IF t \in tags
        THEN Rollback(r, "duplicate")
        ELSE /\ Lock(r, TagKey(t))
             /\ missing' = [missing EXCEPT ![r] = @ \ {t}]
             /\ Goto(r, IF missing[r] = {t} THEN AfterTags(r) ELSE "tag")
             /\ UNCHANGED <<tables, job, seen>>
  BY DEF InsertTag
<1>3. t \in missing[r]
  BY DEF NextTags
<1>4. CASE t \in tags
  BY <1>1, <1>2, <1>4, RollbackStep DEF Outcomes
<1>5. CASE t \notin tags
  <2> DEFINE label == IF missing[r] = {t} THEN AfterTags(r) ELSE "tag"
  <2>1. /\ Lock(r, TagKey(t)) /\ missing' = [missing EXCEPT ![r] = @ \ {t}]
        /\ Goto(r, label) /\ UNCHANGED <<tables, job, seen>>
    BY <1>2, <1>5
  <2>2. AfterTags(r) = IF job[r].op = "create" THEN "insert" ELSE "row"
    BY DEF AfterTags
  <2>3. label \in Labels \ {"idle"}
    BY <2>2 DEF Labels
  <2>4. \A q \in Request \ {r} : TagKey(t) \cap held[q] = {}
    <3>1. TagKey(t) \subseteq Needs(r)
      BY <1>1, <1>2 DEF Needs
    <3>2. QED
      BY <1>1, <3>1, Free
  <2>5. /\ missing' \in [Request -> SUBSET Tag] /\ missing'[r] = missing[r] \ {t}
        /\ \A q \in Request \ {r} : missing'[q] = missing[q]
    BY <2>1 DEF EditInv, Typed
  <2>6. TagKey(t) \in SUBSET Keys
    BY <1>1, <1>3, KeyKinds
  <2>7. /\ Only(r) /\ Typed' /\ pc'[r] = label
        /\ held'[r] = held[r] \cup TagKey(t)
        /\ InsertedTags(r) \subseteq InsertedTags(r)'
        /\ \A q \in Request \ {r} : held'[r] \cap held[q] = {}
    BY <1>1, <2>1, <2>3, <2>4, <2>5, <2>6, Locked
  <2>8. JobInv(r)'
    BY <1>1, <2>1, <2>2, <2>7 DEF EditInv, JobInv, Retags, Outcomes
  <2>9. RowInv(r)'
    <3>1. PostKey(job[r].id) \cap TagKey(t) = {}
      BY <1>1, <1>3, KeyKinds
    <3>2. QED
      BY <1>1, <2>1, <2>2, <2>7, <3>1 DEF EditInv, RowInv, tables, PostKey
  <2>10. TagInv(r)'
    <3>1. t \in InsertedTags(r)'
      BY <1>1, <1>3, <2>7 DEF InsertedTags, Wrote
    <3>2. Names(r)' = Names(r) /\ tags' = tags
      BY <2>1 DEF Names, tables
    <3>3. Names(r) \subseteq tags \cup InsertedTags(r) \cup missing[r]
      BY <1>1 DEF EditInv, TagInv
    <3>4. QED
      BY <1>1, <2>2, <2>5, <2>7, <3>1, <3>2, <3>3 DEF TagInv
  <2>11. QED
    BY <2>1, <2>7, <2>8, <2>9, <2>10, TablesKept
<1>6. QED
  BY <1>4, <1>5

LEMMA InsertPostStep ==
  ASSUME EditInv, NEW r \in Request, InsertPost(r)
  PROVE  EditInv'
<1>1. /\ pc[r] = "insert" /\ ~Waiting(r) /\ job[r].op = "create"
      /\ job[r].id \in Id
  BY JobFacts DEF InsertPost, Runs, At, EditInv, JobInv
<1>2. CASE posts[job[r].id] # Absent
  BY <1>1, <1>2, RollbackStep DEF InsertPost, Outcomes
<1>3. CASE posts[job[r].id] = Absent
  <2>1. /\ Lock(r, PostKey(job[r].id)) /\ Goto(r, "commit")
        /\ UNCHANGED <<tables, locals>>
    BY <1>3 DEF InsertPost
  <2>2. \A q \in Request \ {r} : PostKey(job[r].id) \cap held[q] = {}
    <3>1. PostKey(job[r].id) \subseteq Needs(r)
      BY <1>1 DEF Needs
    <3>2. QED
      BY <1>1, <3>1, Free
  <2>3. /\ Only(r) /\ Typed' /\ pc'[r] = "commit"
        /\ InsertedTags(r) \subseteq InsertedTags(r)'
        /\ held'[r] = held[r] \cup PostKey(job[r].id)
        /\ \A q \in Request \ {r} : held'[r] \cap held[q] = {}
    BY <1>1, <2>1, <2>2, KeyKinds, Locked DEF Labels, EditInv, Typed, locals
  <2>4. JobInv(r)' /\ RowInv(r)'
    BY <1>1, <1>3, <2>1, <2>3 DEF EditInv, JobInv, RowInv, locals, tables, Outcomes
  <2>5. TagInv(r)'
    BY <1>1, <2>1, <2>3 DEF EditInv, TagInv, Names, Retags, locals, tables
  <2>6. QED
    BY <2>1, <2>3, <2>4, <2>5, TablesKept
<1>4. QED
  BY <1>2, <1>3

(* The row an update writes is there, or the update fails. *)
LEMMA UpdateRowStep ==
  ASSUME EditInv, NEW r \in Request, ~Waiting(r), pc[r] \in {"early", "row"},
         NEW label \in {"ensure", "links", "taken", "commit"}, UpdateRow(r, label),
         label = "ensure" <=> pc[r] = "early", label = "links" => Retags(r),
         label = "taken" => Renames(r), label = "commit" => ~Renames(r)
  PROVE  EditInv'
<1>1. job[r].op \in {"update", "publish"} /\ job[r].id \in Id
  BY JobFacts DEF EditInv, JobInv
<1>2. CASE posts[job[r].id] = Absent
  BY <1>2, RollbackStep DEF UpdateRow, Outcomes
<1>3. CASE posts[job[r].id] # Absent
  <2>1. /\ Lock(r, PostKey(job[r].id)) /\ Goto(r, label)
        /\ UNCHANGED <<tables, locals>>
    BY <1>3 DEF UpdateRow
  <2>2. \A q \in Request \ {r} : PostKey(job[r].id) \cap held[q] = {}
    <3>1. PostKey(job[r].id) \subseteq Needs(r)
      BY DEF Needs
    <3>2. QED
      BY <3>1, Free
  <2>3. /\ Only(r) /\ Typed' /\ pc'[r] = label
        /\ InsertedTags(r) \subseteq InsertedTags(r)'
        /\ held'[r] = held[r] \cup PostKey(job[r].id)
        /\ \A q \in Request \ {r} : held'[r] \cap held[q] = {}
    BY <1>1, <2>1, <2>2, KeyKinds, Locked DEF Labels, EditInv, Typed, locals
  <2>4. JobInv(r)'
    BY <1>1, <2>1, <2>3 DEF EditInv, JobInv, Retags, Renames, locals, Outcomes
  <2>5. RowInv(r)'
    BY <1>1, <1>3, <2>1, <2>3 DEF RowInv, Renames, locals, tables
  <2>6. TagInv(r)'
    BY <2>1, <2>3 DEF EditInv, TagInv, Names, Retags, locals, tables
  <2>7. QED
    BY <2>1, <2>3, <2>4, <2>5, <2>6, TablesKept
<1>4. QED
  BY <1>2, <1>3

LEMMA FlushRowStep ==
  ASSUME EditInv, NEW r \in Request, FlushRow(r)
  PROVE  EditInv'
<1>1. pc[r] = "row" /\ job[r].op \in {"update", "publish"}
  BY DEF FlushRow, At, EditInv, JobInv
<1>2. AfterLinks(r) = IF Renames(r) THEN "taken" ELSE "commit"
  BY DEF AfterLinks
<1>3. CASE Retags(r) \/ Changed(r) # {}
  BY <1>1, <1>2, <1>3, UpdateRowStep DEF FlushRow
<1>4. CASE ~(Retags(r) \/ Changed(r) # {})
  <2>1. Goto(r, AfterLinks(r)) /\ UNCHANGED <<tables, locals, held>> /\ ~Retags(r)
    BY <1>4 DEF FlushRow
  <2>2. /\ Only(r) /\ Typed' /\ pc'[r] = AfterLinks(r) /\ RowInv(r)'
        /\ \A q \in Request \ {r} : held'[r] \cap held[q] = {}
    BY <1>1, <1>2, <2>1, Moved DEF Labels
  <2>3. JobInv(r)' /\ TagInv(r)'
    BY <1>1, <1>2, <2>1, <2>2 DEF EditInv, JobInv, TagInv, Retags, Renames,
       locals, Outcomes
  <2>4. QED
    BY <2>1, <2>2, <2>3, TablesKept
<1>5. QED
  BY <1>3, <1>4

LEMMA FlushLinksStep ==
  ASSUME EditInv, NEW r \in Request, FlushLinks(r)
  PROVE  EditInv'
<1> DEFINE T == NewLinks(r) \cup (OldLinks(r) \cap links[job[r].id])
           L == LinkKeys(job[r].id, T)
<1>1. /\ pc[r] = "links" /\ ~Waiting(r) /\ job[r].op \in {"update", "publish"}
      /\ job[r].id \in Id
      /\ Retags(r) => Names(r) \subseteq Tag
  BY JobFacts DEF FlushLinks, Runs, At, EditInv, JobInv
<1>2. ASSUME NEW o \in Outcomes, Rollback(r, o) PROVE EditInv'
  BY <1>1, <1>2, RollbackStep
<1>3. ASSUME Lock(r, L), Goto(r, AfterLinks(r)), UNCHANGED <<tables, locals>>
      PROVE  EditInv'
  <2>1. AfterLinks(r) = IF Renames(r) THEN "taken" ELSE "commit"
    BY DEF AfterLinks
  <2>2. T \in SUBSET Tag
    <3>1. links[job[r].id] \in SUBSET Tag
      BY <1>1 DEF EditInv, Typed
    <3>2. NewLinks(r) \subseteq Tag
      BY <1>1 DEF NewLinks
    <3>3. QED
      BY <3>1, <3>2
  <2>3. L \subseteq Needs(r)
    BY <1>1 DEF Needs, LinkKeys
  <2>4. \A q \in Request \ {r} : L \cap held[q] = {}
    BY <1>1, <2>3, Free
  <2>5. L \in SUBSET Keys /\ PostKey(job[r].id) \cap L = {}
    <3>1. LinkKeys(job[r].id, T) \subseteq Keys
      BY <1>1, <2>2, KeyKinds
    <3>2. PostKey(job[r].id) \cap LinkKeys(job[r].id, T) = {}
      BY <1>1, <2>2, KeyKinds
    <3>3. QED
      BY <3>1, <3>2
  <2>6. /\ Only(r) /\ Typed' /\ pc'[r] = AfterLinks(r) /\ held'[r] = held[r] \cup L
        /\ InsertedTags(r) \subseteq InsertedTags(r)'
        /\ \A q \in Request \ {r} : held'[r] \cap held[q] = {}
    BY <1>1, <1>3, <2>1, <2>4, <2>5, Locked DEF Labels, EditInv, Typed, locals
  <2>7. JobInv(r)'
    BY <1>1, <1>3, <2>1, <2>6 DEF EditInv, JobInv, Renames, locals, Outcomes
  <2>8. RowInv(r)'
    BY <1>1, <1>3, <2>1, <2>5, <2>6 DEF EditInv, RowInv, Renames, locals, tables, PostKey
  <2>9. TagInv(r)'
    BY <1>1, <1>3, <2>1, <2>6 DEF EditInv, TagInv, Names, Retags, locals, tables
  <2>10. QED
    BY <1>3, <2>6, <2>7, <2>8, <2>9, TablesKept
<1>4. QED
  BY <1>2, <1>3 DEF FlushLinks, Outcomes

LEMMA RenameStep ==
  ASSUME EditInv, NEW r \in Request, Rename(r)
  PROVE  EditInv'
<1> DEFINE L == PostKey(job[r].id) \cup PostKey(job[r].to)
                  \cup LinkKeys(job[r].id, links[job[r].id])
<1>1. /\ pc[r] = "rename" /\ ~Waiting(r) /\ job[r].op \in {"update", "publish"}
      /\ job[r].id \in Id /\ job[r].to \in Id
  BY JobFacts DEF Rename, Runs, At, EditInv, JobInv
<1>2. ASSUME NEW o \in Outcomes, Rollback(r, o) PROVE EditInv'
  BY <1>1, <1>2, RollbackStep
<1>3. ASSUME posts[job[r].id] # Absent, posts[job[r].to] = Absent, Lock(r, L), Goto(r, "commit"),
             UNCHANGED <<tables, locals>>
      PROVE  EditInv'
  <2>1. links[job[r].id] \in SUBSET Tag
    BY <1>1 DEF EditInv, Typed
  <2>2. L \subseteq Needs(r)
    BY <1>1, <2>1 DEF Needs, LinkKeys
  <2>3. \A q \in Request \ {r} : L \cap held[q] = {}
    BY <1>1, <2>2, Free
  <2>4. L \in SUBSET Keys
    <3>1. PostKey(job[r].id) \subseteq Keys /\ PostKey(job[r].to) \subseteq Keys
      BY <1>1, KeyKinds
    <3>2. LinkKeys(job[r].id, links[job[r].id]) \subseteq Keys
      BY <1>1, <2>1, KeyKinds
    <3>3. QED
      BY <3>1, <3>2
  <2>5. /\ Only(r) /\ Typed' /\ pc'[r] = "commit"
        /\ InsertedTags(r) \subseteq InsertedTags(r)' /\ held'[r] = held[r] \cup L
        /\ \A q \in Request \ {r} : held'[r] \cap held[q] = {}
    BY <1>1, <1>3, <2>3, <2>4, Locked DEF Labels, EditInv, Typed, locals
  <2>6. JobInv(r)' /\ RowInv(r)'
    BY <1>1, <1>3, <2>5 DEF EditInv, JobInv, RowInv, Renames, locals, tables, Outcomes
  <2>7. TagInv(r)'
    BY <1>1, <1>3, <2>5 DEF EditInv, TagInv, Names, Retags, locals, tables
  <2>8. QED
    BY <1>3, <2>5, <2>6, <2>7, TablesKept
<1>4. QED
  BY <1>2, <1>3 DEF Rename, Outcomes

LEMMA DeleteStep ==
  ASSUME EditInv, NEW r \in Request, Unlink(r) \/ Drop(r)
  PROVE  EditInv'
<1>1. /\ pc[r] \in {"unlink", "drop"} /\ ~Waiting(r) /\ job[r].op = "delete"
      /\ job[r].id \in Id /\ ~Retags(r)
  BY JobFacts DEF Unlink, Drop, Runs, At, EditInv, JobInv
<1>2. ASSUME Rollback(r, "stale") PROVE EditInv'
  BY <1>1, <1>2, RollbackStep DEF Outcomes
<1>3. ASSUME NEW L \in SUBSET Keys, L \subseteq Needs(r), Lock(r, L),
             NEW label \in {"drop", "commit"}, Goto(r, label),
             UNCHANGED <<tables, locals>>
      PROVE  EditInv'
  <2>1. \A q \in Request \ {r} : L \cap held[q] = {}
    BY <1>1, <1>3, Free
  <2>2. /\ Only(r) /\ Typed' /\ pc'[r] = label
        /\ \A q \in Request \ {r} : held'[r] \cap held[q] = {}
    BY <1>1, <1>3, <2>1, Locked DEF Labels, EditInv, Typed, locals
  <2>3. JobInv(r)' /\ RowInv(r)' /\ TagInv(r)'
    BY <1>1, <1>3, <2>2 DEF EditInv, JobInv, RowInv, TagInv, Retags, locals,
       Outcomes
  <2>4. QED
    BY <1>3, <2>2, <2>3, TablesKept
<1>4. CASE Unlink(r)
  <2> DEFINE L == LinkKeys(job[r].id, seen[r].tags \cap links[job[r].id])
  <2>1. seen[r].tags \cap links[job[r].id] \in SUBSET Tag
    BY DEF EditInv, Typed
  <2>2. L \in SUBSET Keys
    BY <1>1, <2>1, KeyKinds
  <2>3. L \subseteq Needs(r)
    BY <1>4 DEF Unlink, Runs, At, Needs, LinkKeys
  <2>4. QED
    BY <1>2, <1>3, <1>4, <2>2, <2>3 DEF Unlink
<1>5. CASE Drop(r)
  <2> DEFINE T == links[job[r].id]
             L == IF posts[job[r].id] = Absent THEN {}
                  ELSE PostKey(job[r].id) \cup LinkKeys(job[r].id, T)
  <2>1. L \in SUBSET Keys
    <3>1. T \in SUBSET Tag
      BY <1>1 DEF EditInv, Typed
    <3>2. PostKey(job[r].id) \subseteq Keys
      BY <1>1, KeyKinds
    <3>3. LinkKeys(job[r].id, T) \subseteq Keys
      BY <1>1, <3>1, KeyKinds
    <3>4. QED
      BY <3>2, <3>3
  <2>2. L \subseteq Needs(r)
    <3>1. LinkKeys(job[r].id, T) \subseteq LinkKeys(job[r].id, Tag)
      BY <1>1 DEF LinkKeys, EditInv, Typed
    <3>2. QED
      BY <1>5, <3>1 DEF Drop, Runs, At, Needs
  <2>3. QED
    BY <1>3, <1>5, <2>1, <2>2 DEF Drop
<1>6. QED
  BY <1>4, <1>5

-----------------------------------------------------------------------------
(* COMMIT: the one who writes a row has locked it. *)

(* The commit of r changes only rows that r alone has written. *)
LEMMA Committed ==
  ASSUME EditInv, NEW r \in Request, pc[r] # "idle", End(r, "ok"),
         posts' \in [Id -> Row \cup {Absent}], links' \in [Id -> SUBSET Tag],
         tags \subseteq tags', tags' \subseteq Tag, LinksHaveEnds',
         \A i \in Id : posts'[i] # posts[i] => Wrote(r, PostKey(i))
  PROVE  EditInv'
<1>1. /\ Only(r) /\ Typed' /\ LockInv'
      /\ JobInv(r)' /\ RowInv(r)' /\ TagInv(r)'
  BY Ended DEF Outcomes
<1>2. \A q \in Request \ {r}, i \in Id :
        PostKey(i) \subseteq held[q] => posts'[i] = posts[i]
  BY DEF EditInv, LockInv, Wrote, PostKey
<1>3. \A q \in Request \ {r} : JobInv(q)' /\ RowInv(q)' /\ TagInv(q)'
  BY <1>1, <1>2, OthersKept
<1>4. QED
  BY <1>1, <1>3 DEF EditInv

(* What is committed is a row. *)
LEMMA CreatedRow ==
  ASSUME NEW r \in Request, IsJob(job[r])
  PROVE  Merge(Merge(Blank, job[r].set), [birth |-> r]) \in Row
<1> DEFINE set == job[r].set
           row == Merge(Merge(Blank, set), [birth |-> r])
           col(c) == IF c \in DOMAIN set THEN set[c] ELSE Blank[c]
<1>1. \A c \in DOMAIN set : c \in DOMAIN Values /\ set[c] \in Values[c]
  BY DEF IsJob
<1>2. /\ DOMAIN Values = {"text", "status", "date"} /\ Values["text"] = Text
      /\ Values["status"] = Values.status /\ Values["date"] = Values.date
      /\ "draft" \in Values.status /\ "past" \in Values.date
  BY DEF Values
<1>3. /\ DOMAIN Blank = {"birth", "text", "status", "date"}
      /\ Blank["text"] = Absent /\ Blank["status"] = "draft" /\ Blank["date"] = "past"
  BY DEF Blank
<1>4. /\ col("text") \in Text \cup {Absent} /\ col("status") \in Values.status
      /\ col("date") \in Values.date
  BY <1>1, <1>2, <1>3
<1>5. Merge(Blank, set) = [c \in {"birth", "text", "status", "date"} |-> col(c)]
  BY <1>3 DEF Merge
<1>6. row = [birth |-> r, text |-> col("text"), status |-> col("status"),
             date |-> col("date")]
  BY <1>5 DEF Merge
<1>7. QED
  BY <1>4, <1>6 DEF Row

LEMMA AmendedRow ==
  ASSUME NEW r \in Request, IsJob(job[r]), job[r].op \in {"update", "publish"},
         NEW row \in Row
  PROVE  Merge(row, Dirty(r)) \in Row
<1>1. \A c \in DOMAIN Assigned(r) : c \in DOMAIN Values /\ Assigned(r)[c] \in Values[c]
  BY DEF IsJob, Assigned, Values
<1>2. \A c \in DOMAIN Dirty(r) : c \in DOMAIN Values /\ Dirty(r)[c] \in Values[c]
  BY <1>1 DEF Dirty, Changed
<1>3. QED
  BY <1>2, MergeRow

LEMMA CommitCreateStep ==
  ASSUME EditInv, NEW r \in Request, CommitCreate(r)
  PROVE  EditInv'
<1> DEFINE i   == job[r].id
           row == Merge(Merge(Blank, job[r].set), [birth |-> r])
<1>1. /\ pc[r] = "commit" /\ End(r, "ok") /\ Retags(r) /\ i \in Id
      /\ Names(r) \in SUBSET Tag /\ IsJob(job[r])
      /\ posts' = [posts EXCEPT ![i] = row]
      /\ links' = [links EXCEPT ![i] = Names(r)]
      /\ tags' = tags \cup InsertedTags(r)
  BY JobFacts DEF CommitCreate, At
<1>2. row \in Row
  BY <1>1, CreatedRow
<1>3. row # Absent
  BY <1>2, AbsentAssumption
<1>4. Names(r) \subseteq tags' /\ tags' \subseteq Tag /\ tags \subseteq tags'
  BY <1>1 DEF EditInv, TagInv, Typed, InsertedTags
<1>5. /\ posts' \in [Id -> Row \cup {Absent}] /\ links' \in [Id -> SUBSET Tag]
      /\ posts'[i] = row /\ links'[i] = Names(r)
      /\ \A j \in Id \ {i} : posts'[j] = posts[j] /\ links'[j] = links[j]
  BY <1>1, <1>2 DEF EditInv, Typed
<1>6. LinksHaveEnds'
  BY <1>1, <1>3, <1>4, <1>5 DEF EditInv, LinksHaveEnds
<1>7. \A k \in Id : posts'[k] # posts[k] => Wrote(r, PostKey(k))
  BY <1>1, <1>5 DEF CommitCreate, EditInv, RowInv, Wrote
<1>8. QED
  BY <1>1, <1>4, <1>5, <1>6, <1>7, Committed

LEMMA CommitUpdateStep ==
  ASSUME EditInv, NEW r \in Request, CommitUpdate(r)
  PROVE  EditInv'
<1> DEFINE i   == job[r].id
           j   == IF Renames(r) THEN job[r].to ELSE i
           row == Merge(posts[i], Dirty(r))
           T   == (links[i] \ OldLinks(r)) \cup NewLinks(r)
<1>1. /\ pc[r] = "commit" /\ End(r, "ok") /\ i \in Id /\ j \in Id
      /\ IsJob(job[r]) /\ job[r].op \in {"update", "publish"}
      /\ tags' = tags \cup InsertedTags(r)
  BY JobFacts DEF CommitUpdate, At
<1>2. tags \subseteq tags' /\ tags' \subseteq Tag
  BY <1>1 DEF EditInv, Typed, InsertedTags
<1>3. CASE Wrote(r, PostKey(i))
  <2>1. /\ posts' = [posts EXCEPT ![i] = Absent, ![j] = row]
        /\ links' = [links EXCEPT ![i] = {}, ![j] = T]
    BY <1>3 DEF CommitUpdate
  <2>2. posts[i] \in Row
    BY <1>1, <1>3 DEF EditInv, RowInv, Typed, Wrote
  <2>3. row \in Row /\ row # Absent
    BY <1>1, <2>2, AmendedRow, AbsentAssumption
  <2>4. T \subseteq tags'
    <3>1. links[i] \subseteq tags
      BY <1>1 DEF EditInv, LinksHaveEnds
    <3>2. NewLinks(r) \subseteq tags'
      BY <1>1 DEF EditInv, TagInv, NewLinks
    <3>3. QED
      BY <1>2, <3>1, <3>2
  <2>5. /\ posts' \in [Id -> Row \cup {Absent}] /\ links' \in [Id -> SUBSET Tag]
        /\ posts'[j] = row /\ links'[j] = T
        /\ i # j => posts'[i] = Absent /\ links'[i] = {}
        /\ \A k \in Id \ {i, j} : posts'[k] = posts[k] /\ links'[k] = links[k]
    BY <1>1, <1>2, <2>1, <2>3, <2>4 DEF EditInv, Typed
  <2>6. LinksHaveEnds'
    BY <1>1, <1>2, <2>3, <2>4, <2>5 DEF EditInv, LinksHaveEnds
  <2>7. \A k \in Id : posts'[k] # posts[k] => Wrote(r, PostKey(k))
    <3>1. Wrote(r, PostKey(j))
      BY <1>1, <1>3 DEF EditInv, RowInv, Wrote
    <3>2. QED
      BY <1>3, <2>5, <3>1
  <2>8. QED
    BY <1>1, <1>2, <2>5, <2>6, <2>7, Committed
<1>4. CASE ~Wrote(r, PostKey(i))
  <2>1. UNCHANGED <<posts, links>>
    BY <1>4 DEF CommitUpdate
  <2>2. LinksHaveEnds'
    BY <1>2, <2>1 DEF EditInv, LinksHaveEnds
  <2>3. posts' \in [Id -> Row \cup {Absent}] /\ links' \in [Id -> SUBSET Tag]
    BY <2>1 DEF EditInv, Typed
  <2>4. QED
    BY <1>1, <1>2, <2>1, <2>2, <2>3, Committed
<1>5. QED
  BY <1>3, <1>4

LEMMA CommitDeleteStep ==
  ASSUME EditInv, NEW r \in Request, CommitDelete(r)
  PROVE  EditInv'
<1> DEFINE i == job[r].id
<1>1. /\ pc[r] = "commit" /\ End(r, "ok") /\ i \in Id /\ tags' = tags
      /\ tags' \subseteq Tag
  BY JobFacts DEF CommitDelete, At, EditInv, Typed
<1>2. CASE Wrote(r, PostKey(i))
  <2>1. /\ posts' = [posts EXCEPT ![i] = Absent]
        /\ links' = [links EXCEPT ![i] = {}]
    BY <1>2 DEF CommitDelete
  <2>2. /\ posts' \in [Id -> Row \cup {Absent}] /\ links' \in [Id -> SUBSET Tag]
        /\ links'[i] = {}
        /\ \A k \in Id \ {i} : posts'[k] = posts[k] /\ links'[k] = links[k]
    BY <1>1, <2>1 DEF EditInv, Typed
  <2>3. LinksHaveEnds'
    BY <1>1, <2>2 DEF EditInv, LinksHaveEnds
  <2>4. QED
    BY <1>1, <1>2, <2>2, <2>3, Committed
<1>3. CASE ~Wrote(r, PostKey(i))
  <2>1. UNCHANGED <<posts, links>>
    BY <1>3 DEF CommitDelete
  <2>2. posts' \in [Id -> Row \cup {Absent}] /\ links' \in [Id -> SUBSET Tag]
    BY <2>1 DEF EditInv, Typed
  <2>3. LinksHaveEnds'
    BY <1>1, <2>1 DEF EditInv, LinksHaveEnds
  <2>4. QED
    BY <1>1, <2>1, <2>2, <2>3, Committed
<1>4. QED
  BY <1>2, <1>3

-----------------------------------------------------------------------------
(* Every step, and the theorems. *)

LEMMA EditStep ==
  ASSUME EditInv, [Next]_vars
  PROVE  EditInv'
<1>1. ASSUME NEW r \in Request, LockTimeout(r) \/ Fail(r)
      PROVE  EditInv'
  <2>1. pc[r] # "idle"
    BY <1>1 DEF LockTimeout, Fail, Waiting, Needs
  <2>2. QED
    BY <1>1, <2>1, RollbackStep DEF LockTimeout, Fail, Outcomes
<1>2. ASSUME NEW r \in Request, FlushEarly(r)
      PROVE  EditInv'
  BY <1>2, UpdateRowStep DEF FlushEarly, Runs, At
<1>3. ASSUME NEW r \in Request, Statement(r)
      PROVE  EditInv'
  BY <1>2, <1>3, ExistsStep, LoadStep, LoadTagsStep, EnsureStep, InsertTagStep,
     InsertPostStep, FlushRowStep, FlushLinksStep, TakenStep, RenameStep,
     DeleteStep, CommitCreateStep, CommitUpdateStep, CommitDeleteStep
     DEF Statement
<1>4. CASE UNCHANGED vars
  BY <1>4 DEF vars, tables, locals, EditInv, Typed, LockInv, LinksHaveEnds,
     JobInv, RowInv, TagInv, Retags, Renames, Names, InsertedTags, Wrote
<1>5. QED
  BY <1>1, <1>3, <1>4, ArriveStep DEF Next

(* EditInv is inductive. *)
THEOREM Invariance == Spec => []EditInv
BY InitInv, EditStep, PTL DEF Spec

(* The types of the tables and of what requests hold in memory. *)
THEOREM TypeCorrect == Spec => []TypeOK
BY Invariance, EditImplies, PTL

(* No post_tags row loses its post or its tag, whatever creations, renames, *)
(* deletions and taggings overlap (PostRepository, TagRepository.ensure).   *)
THEOREM LinksKeepEnds == Spec => []LinksHaveEnds
BY Invariance, EditImplies, PTL
=============================================================================
