------------------------------ MODULE PostReads ------------------------------
(***************************************************************************)
(* The read side of the blog (PostRepository, TagRepository, the list,     *)
(* search, nav and tag endpoints).  A response is put together from        *)
(* several SELECTs, each of which sees what is committed when it runs:     *)
(*                                                                         *)
(*  - a list or search page is a count, then the items; a client walks the *)
(*    pages while hasNext holds, and page numbers stop at MAX_PAGE;        *)
(*  - nav is the post, then the older neighbour, then the newer one;       *)
(*  - a client that lists the tags, with their counts, and opens one gets  *)
(*    the tag, then its count, then its posts.                             *)
(*                                                                         *)
(* The admin may write between any two statements.  Slugs are numbers, in  *)
(* the order of the column's collation.                                    *)
(***************************************************************************)
EXTENDS Integers, SequencesExt

CONSTANTS
  Id,         \* slugs
  Rows,       \* rows a post may have
  Filters,    \* query parameters of the lists
  PageSizes,  \* pageSize of the client, one of these
  MaxPage,    \* MAX_PAGE
  MaxWrites,  \* bound on the writes during a read
  Absent      \* no post, no neighbour

Kinds    == {"essay", "note", "guide", "compare"}
Statuses == {"published", "draft", "scheduled"}

(* tagged: it carries the tag asked for; hits: the columns that contain    *)
(* the search text.                                                        *)
Row == [date : Nat, featured : BOOLEAN, status : Statuses, kind : Kinds,
        updated : Nat, tagged : BOOLEAN,
        hits : SUBSET {"title", "excerpt", "content"}]

(* tag, kind and status of a list; any of them may be missing. *)
Filter == [tag : BOOLEAN, kind : Kinds \cup {Absent},
           status : Statuses \cup {Absent}]

ASSUME IdAssumption == Id \subseteq Nat /\ IsFiniteSet(Id) /\ Absent \notin Id
ASSUME RowsAssumption == Rows \subseteq Row /\ Absent \notin Rows
ASSUME FiltersAssumption == Filters \subseteq Filter
ASSUME PageAssumption == PageSizes \subseteq 1..100 /\ MaxPage \in Nat \ {0}
ASSUME WritesAssumption == MaxWrites \in Nat

VARIABLES
  posts,    \* committed posts
  read,     \* what is being read: op, and the filter of a list
  step,     \* the next statement
  size,     \* walk: the page size
  page,     \* walk: the page asked for
  listed,   \* detail: the count the list of tags has shown
  total,    \* walk, detail: the count read
  items,    \* walk, detail: the slugs received so far
  post,     \* nav: the post
  prev,     \* nav: the older neighbour
  next,     \* nav: the newer neighbour
  writes    \* writes since the read began

answer == <<page, listed, total, items, post, prev, next>>
vars   == <<posts, read, step, size, answer, writes>>

(* The public list has no status parameter; search has no filter at all.   *)
NoFilter == [tag |-> FALSE, kind |-> Absent, status |-> Absent]
Lists ==
  [op : {"admin"}, filter : Filters]
    \cup [op : {"public"}, filter : {f \in Filters : f.status = Absent}]
    \cup [op : {"search"}, filter : {NoFilter}]
Reads == Lists \cup [op : {"nav", "detail"}, filter : {NoFilter}]

Init ==
  /\ posts \in [Id -> Rows \cup {Absent}]
  /\ read \in Reads
  /\ step = "start"
  /\ size \in IF read \in Lists THEN PageSizes ELSE {1}
  /\ page = 1 /\ listed = 0 /\ total = 0 /\ items = <<>>
  /\ post = Absent /\ prev = Absent /\ next = Absent
  /\ writes = 0

-----------------------------------------------------------------------------
(* The WHERE clause and the ORDER BY of each list *)

Published == {i \in Id : posts[i] # Absent /\ posts[i].status = "published"}

Passes(i, f) ==
  /\ f.tag => posts[i].tagged
  /\ f.kind \in {Absent, posts[i].kind}
  /\ f.status \in {Absent, posts[i].status}

Matching(list) ==
  CASE list.op = "admin"  -> {i \in Id : posts[i] # Absent /\ Passes(i, list.filter)}
    [] list.op = "public" -> {i \in Published : Passes(i, list.filter)}
    [] list.op = "search" -> {i \in Published : posts[i].hits # {}}

Tagged == {i \in Published : posts[i].tagged}

Weight == [title |-> 3, excerpt |-> 2, content |-> 1]
Score(hits) == LET w(c) == IF c \in hits THEN Weight[c] ELSE 0
               IN  w("title") + w("excerpt") + w("content")

(* Sort keys, descending; equal keys are in order of slug. *)
Keys(list, i) ==
  LET p == posts[i]
  IN  CASE list.op = "admin"  -> <<p.updated, 0>>
        [] list.op = "search" -> <<Score(p.hits), p.date>>
        [] list.op = "public" -> <<IF p.featured THEN 1 ELSE 0, p.date>>

Before(list, i, j) ==
  LET k == Keys(list, i)
      l == Keys(list, j)
  IN  \/ k[1] > l[1]
      \/ k[1] = l[1] /\ k[2] > l[2]
      \/ k = l /\ i < j

(* DESC(date), id: the order of nav and of a tag's posts. *)
Newer(i, j) == \/ posts[i].date > posts[j].date
               \/ posts[i].date = posts[j].date /\ i < j

(* The pairs of S of which op puts the first before the second. *)
Pairs(S, op(_, _)) == {e \in S \X S : op(e[1], e[2])}

(* ORDER BY: the n-th of S is the one with n - 1 others before it. *)
Ordered(S, R) ==
  [n \in 1..Cardinality(S) |->
     CHOOSE i \in S : Cardinality({j \in S : <<j, i>> \in R}) = n - 1]

Sorted(list) ==
  LET S == Matching(list)
  IN  Ordered(S, Pairs(S, LAMBDA i, j : Before(list, i, j)))

(* Mutant of Slice: OFFSET counted from page instead of page - 1. *)
SliceFromPage(s) ==
  SubSeq(s, page * size + 1,
            IF Len(s) < (page + 1) * size THEN Len(s) ELSE (page + 1) * size)

(* OFFSET (page - 1) * page_size LIMIT page_size *)
Slice(s) ==
  SubSeq(s, (page - 1) * size + 1,
            IF Len(s) < page * size THEN Len(s) ELSE page * size)

HasNext == page * size < total

-----------------------------------------------------------------------------
(* A walk through the pages of a list *)

CountAll ==
  /\ read \in Lists /\ step = "start"
  /\ total' = Cardinality(Matching(read))
  /\ step' = "items"
  /\ UNCHANGED <<posts, read, size, page, listed, items, post, prev, next, writes>>

(* Mutant of Items: no upper bound on page. *)
ItemsAnyPage ==
  /\ read \in Lists /\ step = "items"
  /\ items' = items \o Slice(Sorted(read))
  /\ IF HasNext
     THEN page' = page + 1 /\ step' = "start"
     ELSE step' = "done" /\ UNCHANGED page
  /\ UNCHANGED <<posts, read, size, listed, total, post, prev, next, writes>>

(* The client asks for the next page, unless it would be a 422. *)
Items ==
  /\ read \in Lists /\ step = "items"
  /\ items' = items \o Slice(Sorted(read))
  /\ IF HasNext /\ page < MaxPage
     THEN page' = page + 1 /\ step' = "start"
     ELSE step' = "done" /\ UNCHANGED page
  /\ UNCHANGED <<posts, read, size, listed, total, post, prev, next, writes>>

-----------------------------------------------------------------------------
(* get_nav *)

(* The post, or a 404. *)
NavPost ==
  /\ read.op = "nav" /\ step = "start"
  /\ \E i \in Id :
       IF i \in Published
       THEN post' = [id |-> i, date |-> posts[i].date] /\ step' = "prev"
       ELSE step' = "notfound" /\ UNCHANGED post
  /\ UNCHANGED <<posts, read, size, page, listed, total, items, prev, next, writes>>

(* Mutant of Others: without Post.id != post.id. *)
OthersAndSelf == Published

Others == Published \ {post.id}

(* LIMIT 1 *)
First(S, R) ==
  IF S = {} THEN Absent ELSE CHOOSE i \in S : \A j \in S \ {i} : <<i, j>> \in R

NavPrev ==
  /\ step = "prev"
  /\ LET older == {i \in Others : \/ posts[i].date < post.date
                                  \/ posts[i].date = post.date /\ i > post.id}
     IN  prev' = First(older, Pairs(older, Newer))
  /\ step' = "next"
  /\ UNCHANGED <<posts, read, size, page, listed, total, items, post, next, writes>>

(* Mutant of NavNext: ordered as NavPrev is. *)
NavNextSameOrder ==
  /\ step = "next"
  /\ LET newer == {i \in Others : \/ posts[i].date > post.date
                                  \/ posts[i].date = post.date /\ i < post.id}
     IN  next' = First(newer, Pairs(newer, Newer))
  /\ step' = "done"
  /\ UNCHANGED <<posts, read, size, page, listed, total, items, post, prev, writes>>

NavNext ==
  /\ step = "next"
  /\ LET newer == {i \in Others : \/ posts[i].date > post.date
                                  \/ posts[i].date = post.date /\ i < post.id}
     IN  next' = First(newer, Pairs(newer, LAMBDA i, j : Newer(j, i)))
  /\ step' = "done"
  /\ UNCHANGED <<posts, read, size, page, listed, total, items, post, prev, writes>>

-----------------------------------------------------------------------------
(* The list of tags, then get_detail of one of them *)

(* Mutant of TagList: count() of the rows of the outer joins. *)
TagListRows ==
  /\ read.op = "detail" /\ step = "start"
  /\ listed' = Cardinality({i \in Id : posts[i] # Absent /\ posts[i].tagged})
  /\ step' = "count"
  /\ UNCHANGED <<posts, read, size, page, total, items, post, prev, next, writes>>

(* list_with_counts joins each tag with its links, and each link with its  *)
(* post if that is published; count(Post.id) skips those without one.      *)
TagList ==
  /\ read.op = "detail" /\ step = "start"
  /\ LET links     == {i \in Id : posts[i] # Absent /\ posts[i].tagged}
         joined[i \in links] == IF i \in Published THEN i ELSE Absent
     IN  listed' = Cardinality({i \in links : joined[i] # Absent})
  /\ step' = "count"
  /\ UNCHANGED <<posts, read, size, page, total, items, post, prev, next, writes>>

TagCount ==
  /\ step = "count"
  /\ total' = Cardinality(Tagged)
  /\ step' = "posts"
  /\ UNCHANGED <<posts, read, size, page, listed, items, post, prev, next, writes>>

TagPosts ==
  /\ step = "posts"
  /\ items' = Ordered(Tagged, Pairs(Tagged, Newer))
  /\ step' = "done"
  /\ UNCHANGED <<posts, read, size, page, listed, total, post, prev, next, writes>>

-----------------------------------------------------------------------------
(* A commit of the admin's *)
Write ==
  /\ writes < MaxWrites /\ step \notin {"done", "notfound"}
  /\ writes' = writes + 1
  /\ \E i \in Id, row \in Rows \cup {Absent} : posts' = [posts EXCEPT ![i] = row]
  /\ UNCHANGED <<read, step, size, answer>>

Next ==
  \/ CountAll \/ Items
  \/ NavPost \/ NavPrev \/ NavNext
  \/ TagList \/ TagCount \/ TagPosts
  \/ Write

Spec == Init /\ [][Next]_vars

-----------------------------------------------------------------------------
Done  == step = "done"
Quiet == writes = 0

(* Types: the slugs received are slugs, and the page asked for is one the  *)
(* API accepts.                                                            *)
TypeOK ==
  /\ posts \in [Id -> Rows \cup {Absent}]
  /\ page \in 1..MaxPage /\ total \in Nat /\ items \in Seq(Id)
  /\ {prev, next} \subseteq Id \cup {Absent}
  /\ step \in {"start", "items", "prev", "next", "count", "posts", "done", "notfound"}

(* Following hasNext through an unchanging list yields every post of the   *)
(* list exactly once (offset, limit, count and tie-break agree), unless it *)
(* goes past the last page the API accepts.                                *)
WalkIsWhole ==
  Done /\ Quiet /\ read \in Lists =>
    /\ IsInjective(items)
    /\ \/ ToSet(items) = Matching(read)
       \/ Len(items) = MaxPage * size /\ ToSet(items) \subseteq Matching(read)

(* The two neighbours nav finds, with one condition and one order each,    *)
(* are those of the post in the list of published posts by date, and       *)
(* absent only at its ends: its docstring's DESC(date), ASC(id).           *)
Chronological == Ordered(Published, Pairs(Published, Newer))
NavIsAdjacent ==
  Done /\ Quiet /\ read.op = "nav" =>
    LET at   == CHOOSE k \in DOMAIN Chronological : Chronological[k] = post.id
        s(k) == IF k \in DOMAIN Chronological THEN Chronological[k] ELSE Absent
    IN  prev = s(at + 1) /\ next = s(at - 1)

(* A post is never its own neighbour, even when its date is changed while  *)
(* the three statements run.                                               *)
NavNeverSelf == read.op = "nav" /\ post # Absent => post.id \notin {prev, next}

(* The count shown with a tag, in the list of tags (an outer join) and in  *)
(* its detail (an inner one), is the number of posts shown with it.        *)
DetailAgrees ==
  Done /\ Quiet /\ read.op = "detail" => listed = total /\ total = Len(items)
=============================================================================
