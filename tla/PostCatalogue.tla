---------------------------- MODULE PostCatalogue ----------------------------
(***************************************************************************)
(* What the admin's post endpoints promise, with no transactions in it: a  *)
(* request takes effect at once or not at all, and an effect moves each    *)
(* cell of a post (a column, or the presence of one tag) to what the       *)
(* request asked for or leaves it alone.  Nothing else ever changes: no    *)
(* post replaces another, none is duplicated or half-written.  The cells   *)
(* are promised one by one, since the code promises no more: of two        *)
(* concurrent edits each may win some of them.                             *)
(***************************************************************************)
EXTENDS SequencesExt

CONSTANTS Request, Id, Tag, Absent, Jobs

VARIABLES
  posts,   \* the post at each slug
  links,   \* the tags of the post at each slug
  asked,   \* what each request wants
  answer,  \* what it was told
  missed   \* deletions that came when there was nothing at their slug

Open(r, ops) == asked[r] # Absent /\ asked[r].op \in ops /\ answer[r] = "none"
Says(r, word) ==
  /\ answer' = [answer EXCEPT ![r] = word] /\ missed' = missed \ {r}
  /\ UNCHANGED asked

Init ==
  /\ \A i \in Id : posts[i] = Absent => links[i] = {}
  /\ asked = [r \in Request |-> Absent]
  /\ answer = [r \in Request |-> "none"]
  /\ missed = {}

Ask(r) ==
  /\ asked[r] = Absent
  /\ \E b \in Jobs : asked' = [asked EXCEPT ![r] = b]
  /\ UNCHANGED <<posts, links, answer, missed>>

Refuse(r) ==
  /\ Open(r, {"create", "update", "publish", "delete"})
  /\ \E word \in {"notfound", "conflict", "duplicate", "stale", "aborted"} :
       Says(r, word)
  /\ UNCHANGED <<posts, links>>

Create(r) ==
  /\ Open(r, {"create"})
  /\ LET i == asked[r].id
     IN  /\ posts[i] = Absent /\ posts'[i] # Absent
         /\ posts'[i].birth = r
         /\ \A c \in DOMAIN asked[r].set : posts'[i][c] = asked[r].set[c]
         /\ posts' = [posts EXCEPT ![i] = posts'[i]]
         /\ links' = [links EXCEPT ![i] = ToSet(asked[r].tags)]
  /\ Says(r, "ok")

(* A column ends as it was or as asked. *)
Moved(r, old, new) ==
  /\ new.birth = old.birth
  /\ \A c \in DOMAIN new :
       new[c] # old[c] =>
         \/ asked[r].op = "publish" /\ new[c] \in {"published", "today"}
         \/ asked[r].op = "update" /\ c \in DOMAIN asked[r].set
                                   /\ new[c] = asked[r].set[c]

(* A tag that was asked for is not removed; no other one is added. *)
Retagged(r, old, new) ==
  IF asked[r].tags = Absent
  THEN new = old
  ELSE LET names == ToSet(asked[r].tags)
       IN  old \cap names \subseteq new /\ new \subseteq old \cup names

Amend(r) ==
  /\ Open(r, {"update", "publish"})
  /\ LET i == asked[r].id
         j == IF asked[r].to = Absent THEN i ELSE asked[r].to
     IN  IF posts[i] = Absent
         THEN UNCHANGED <<posts, links>>
         ELSE /\ j # i => posts[j] = Absent
              /\ posts'[j] # Absent /\ Moved(r, posts[i], posts'[j])
              /\ Retagged(r, links[i], links'[j])
              /\ posts' = [posts EXCEPT ![i] = Absent, ![j] = posts'[j]]
              /\ links' = [links EXCEPT ![i] = {}, ![j] = links'[j]]
  /\ Says(r, "ok")

(* The post is deleted, or was found to be gone. *)
Withdraw(r) ==
  /\ Open(r, {"delete"}) /\ r \notin missed
  /\ posts' = [posts EXCEPT ![asked[r].id] = Absent]
  /\ links' = [links EXCEPT ![asked[r].id] = {}]
  /\ Says(r, "ok")

Miss(r) ==
  /\ Open(r, {"delete"}) /\ posts[asked[r].id] = Absent
  /\ missed' = missed \cup {r}
  /\ UNCHANGED <<posts, links, asked, answer>>

Overtaken(r) ==
  /\ r \in missed /\ Open(r, {"delete"})
  /\ UNCHANGED <<posts, links>>
  /\ Says(r, "ok")

Next == \E r \in Request :
  \/ Ask(r) \/ Refuse(r)
  \/ Create(r) \/ Amend(r) \/ Withdraw(r) \/ Miss(r) \/ Overtaken(r)

Spec == Init /\ [][Next]_<<posts, links, asked, answer, missed>>
=============================================================================
