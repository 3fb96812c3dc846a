-------------------------- MODULE PostReadsProofs --------------------------
(***************************************************************************)
(* Theorems about PostReads: for any slugs, rows, filters, page sizes, any *)
(* last page and any number of writes.                                     *)
(*                                                                         *)
(* What the statements of a read see while nothing is written is one list, *)
(* ordered by a strict total order, so that the n-th row of it is well     *)
(* defined: the pages are cut from it at consecutive offsets, and the      *)
(* neighbours of a post are the entries beside its own.                    *)
(***************************************************************************)
EXTENDS PostReads, FiniteSetTheorems, SequenceTheorems, TLAPS

OlderThan(p) ==
  {i \in Published \ {p.id} : \/ posts[i].date < p.date
                              \/ posts[i].date = p.date /\ i > p.id}
NewerThan(p) ==
  {i \in Published \ {p.id} : \/ posts[i].date > p.date
                              \/ posts[i].date = p.date /\ i < p.id}
LatestOf(S)   == First(S, Pairs(S, Newer))
EarliestOf(S) == First(S, Pairs(S, LAMBDA i, j : Newer(j, i)))

Typed ==
  /\ posts \in [Id -> Rows \cup {Absent}]
  /\ read \in Reads
  /\ size \in Nat \ {0} /\ page \in 1..MaxPage /\ writes \in Nat
  /\ total \in Nat /\ items \in Seq(Id)
  /\ prev \in Id \cup {Absent} /\ next \in Id \cup {Absent}

(* The statements of each kind of read. *)
StepInv ==
  /\ read \in Lists => step \in {"start", "items", "done"}
  /\ read.op = "nav" => step \in {"start", "notfound", "prev", "next", "done"}
  /\ read.op = "detail" => step \in {"start", "count", "posts", "done"}

(* What has been received is what comes before the offset of the next page.*)
WalkInv ==
  Quiet /\ read \in Lists =>
    LET s == Sorted(read)
        n == Len(s)
    IN  /\ step # "done" => /\ (page - 1) * size <= n
                            /\ items = SubSeq(s, 1, (page - 1) * size)
        /\ step = "items" => total = n
        /\ step = "done" => \/ items = s
                            \/ /\ MaxPage * size <= n
                               /\ items = SubSeq(s, 1, MaxPage * size)

(* nav remembers the post as it was, and excludes it by its slug. *)
NavInv ==
  read.op = "nav" =>
    /\ step \in {"start", "notfound"} => post = Absent
    /\ step \in {"prev", "next", "done"} =>
         post \in [id : Id, date : Nat] /\ post.id \notin {prev, next}
    /\ step \in {"prev", "next"} => next = Absent
    /\ step \in {"start", "prev"} => prev = Absent /\ next = Absent
    /\ Quiet /\ step \in {"prev", "next", "done"} =>
         post.id \in Published /\ posts[post.id].date = post.date
    /\ Quiet /\ step \in {"next", "done"} => prev = LatestOf(OlderThan(post))
    /\ Quiet /\ step = "done" => next = EarliestOf(NewerThan(post))

DetailInv ==
  Quiet /\ read.op = "detail" =>
    /\ step \in {"count", "posts", "done"} => listed = Cardinality(Tagged)
    /\ step \in {"posts", "done"} => total = Cardinality(Tagged)
    /\ step = "done" => Len(items) = Cardinality(Tagged)

IInv == Typed /\ StepInv /\ WalkInv /\ NavInv /\ DetailInv

-----------------------------------------------------------------------------
(* ORDER BY and LIMIT 1 under a strict total order *)

IsOrder(R, S) ==
  /\ \A i \in S : <<i, i>> \notin R
  /\ \A i, j, k \in S : <<i, j>> \in R /\ <<j, k>> \in R => <<i, k>> \in R
  /\ \A i, j \in S : i # j => <<i, j>> \in R \/ <<j, i>> \in R

Below(S, R, i) == {j \in S : <<j, i>> \in R}

(* An element has fewer elements before it than any that comes later. *)
LEMMA BelowGrows ==
  ASSUME NEW S, NEW R, IsFiniteSet(S), IsOrder(R, S),
         NEW i \in S, NEW k \in S, <<i, k>> \in R
  PROVE  /\ IsFiniteSet(Below(S, R, i)) /\ IsFiniteSet(Below(S, R, k))
         /\ Cardinality(Below(S, R, i)) < Cardinality(Below(S, R, k))
<1> DEFINE I == Below(S, R, i)
           K == Below(S, R, k)
<1>1. I \in SUBSET S /\ K \in SUBSET S
  BY DEF Below
<1>2. IsFiniteSet(I) /\ IsFiniteSet(K)
  BY <1>1, FS_Subset
<1>3. I \in SUBSET K
  BY DEF Below, IsOrder
<1>4. i \in K /\ i \notin I
  BY DEF Below, IsOrder
<1>5. Cardinality(I) <= Cardinality(K) /\ Cardinality(I) # Cardinality(K)
  BY <1>2, <1>3, <1>4, FS_Subset
<1>6. Cardinality(I) \in Nat /\ Cardinality(K) \in Nat
  BY <1>2, FS_CardinalityType
<1>7. QED BY <1>2, <1>5, <1>6

(* The number of elements before an element is its place, from 0. *)
LEMMA BelowType ==
  ASSUME NEW S, NEW R, IsFiniteSet(S), IsOrder(R, S), NEW i \in S
  PROVE  /\ Cardinality(Below(S, R, i)) \in 0..Cardinality(S) - 1
         /\ Cardinality(S) \in Nat \ {0}
<1>1. Below(S, R, i) \in SUBSET S /\ Below(S, R, i) # S
  BY DEF Below, IsOrder
<1>2. /\ IsFiniteSet(Below(S, R, i))
      /\ Cardinality(Below(S, R, i)) <= Cardinality(S)
      /\ Cardinality(Below(S, R, i)) # Cardinality(S)
  BY <1>1, FS_Subset
<1>3. Cardinality(Below(S, R, i)) \in Nat /\ Cardinality(S) \in Nat
  BY <1>2, FS_CardinalityType
<1>4. QED BY <1>2, <1>3

(* Every place is taken, by exactly one element. *)
LEMMA PlaceTaken ==
  ASSUME NEW S, NEW R, IsFiniteSet(S), IsOrder(R, S), NEW n \in 1..Cardinality(S)
  PROVE  \E i \in S : /\ Cardinality(Below(S, R, i)) = n - 1
                      /\ \A k \in S : Cardinality(Below(S, R, k)) = n - 1 => k = i
<1> DEFINE c == Cardinality(S)
           place == [i \in S |-> Cardinality(Below(S, R, i))]
<1>1. c \in Nat
  BY FS_CardinalityType
<1>2. place \in [S -> 0..c - 1]
  BY BelowType
<1>3. ASSUME NEW i \in S, NEW k \in S, i # k PROVE place[i] # place[k]
  <2>1. place[i] \in Nat /\ place[k] \in Nat
    BY <1>1, <1>2
  <2>2. CASE <<i, k>> \in R
    BY <2>1, <2>2, BelowGrows
  <2>3. CASE <<k, i>> \in R
    BY <2>1, <2>3, BelowGrows
  <2>4. QED BY <1>3, <2>2, <2>3 DEF IsOrder
<1>4. place \in Injection(S, 0..c - 1)
  BY <1>2, <1>3 DEF Injection, IsInjective
<1>5. IsFiniteSet(0..c - 1) /\ Cardinality(0..c - 1) = c
  <2>1. 0 \in Int /\ c - 1 \in Int
    BY <1>1
  <2>2. /\ IsFiniteSet(0..c - 1)
        /\ Cardinality(0..c - 1) = IF 0 > c - 1 THEN 0 ELSE c - 1 - 0 + 1
    BY <2>1, FS_Interval
  <2>3. CASE c = 0
    BY <2>2, <2>3
  <2>4. CASE c # 0
    BY <1>1, <2>2, <2>4
  <2>5. QED BY <2>3, <2>4
<1>6. place \in Surjection(S, 0..c - 1)
  BY <1>4, <1>5, FS_Injection
<1>7. PICK i \in S : place[i] = n - 1
  <2>1. n - 1 \in 0..c - 1
    BY <1>1
  <2>2. QED BY <1>6, <2>1 DEF Surjection
<1>8. QED BY <1>3, <1>7

(* ORDER BY lists every row once, each before the ones that follow it. *)
LEMMA OrderedProperties ==
  ASSUME NEW S, NEW R, IsFiniteSet(S), IsOrder(R, S)
  PROVE  /\ Ordered(S, R) \in Seq(S)
         /\ Cardinality(S) \in Nat
         /\ Len(Ordered(S, R)) = Cardinality(S)
         /\ DOMAIN Ordered(S, R) = 1..Cardinality(S)
         /\ \A m, n \in 1..Cardinality(S) :
              m < n => <<Ordered(S, R)[m], Ordered(S, R)[n]>> \in R
         /\ \A i \in S : \E n \in 1..Cardinality(S) : Ordered(S, R)[n] = i
<1> DEFINE c == Cardinality(S)
           s == Ordered(S, R)
<1>1. c \in Nat
  BY FS_CardinalityType
<1>2. ASSUME NEW n \in 1..c
      PROVE  s[n] \in S /\ Cardinality(Below(S, R, s[n])) = n - 1
  <2>1. s[n] = CHOOSE i \in S : Cardinality(Below(S, R, i)) = n - 1
    BY DEF Ordered, Below
  <2>2. \E i \in S : Cardinality(Below(S, R, i)) = n - 1
    BY PlaceTaken
  <2>3. QED BY <2>1, <2>2
<1>3. s \in [1..c -> S] /\ DOMAIN s = 1..c
  BY <1>2 DEF Ordered
<1>4. s \in Seq(S) /\ Len(s) = c
  BY <1>1, <1>3
<1>5. ASSUME NEW m \in 1..c, NEW n \in 1..c, m < n
      PROVE  <<s[m], s[n]>> \in R
  <2>1. s[m] # s[n]
    BY <1>2, <1>5
  <2>2. CASE <<s[n], s[m]>> \in R
    <3>1. Cardinality(Below(S, R, s[n])) < Cardinality(Below(S, R, s[m]))
      BY <1>2, <2>2, BelowGrows
    <3>2. QED BY <1>2, <1>5, <3>1
  <2>3. QED BY <1>2, <2>1, <2>2 DEF IsOrder
<1>6. ASSUME NEW i \in S PROVE \E n \in 1..c : s[n] = i
  <2> DEFINE n == Cardinality(Below(S, R, i)) + 1
  <2>1. n \in 1..c /\ Cardinality(Below(S, R, i)) = n - 1
    BY <1>1, BelowType
  <2>2. s[n] = i
    <3> HIDE DEF n
    <3>1. s[n] \in S /\ Cardinality(Below(S, R, s[n])) = n - 1
      BY <1>2, <2>1
    <3>2. QED BY <2>1, <3>1, PlaceTaken
  <2>3. QED BY <2>1, <2>2
<1>7. QED BY <1>1, <1>3, <1>4, <1>5, <1>6

(* LIMIT 1 yields the row that comes before all others. *)
LEMMA FirstUnique ==
  ASSUME NEW S, NEW R, IsOrder(R, S),
         NEW i \in S, \A j \in S \ {i} : <<i, j>> \in R
  PROVE  First(S, R) = i
<1>1. First(S, R) = CHOOSE k \in S : \A j \in S \ {k} : <<k, j>> \in R
  BY DEF First
<1>2. ASSUME NEW k \in S, \A j \in S \ {k} : <<k, j>> \in R
      PROVE  k = i
  BY <1>2 DEF IsOrder
<1>3. QED BY <1>1, <1>2

LEMMA FirstProperties ==
  ASSUME NEW S, NEW R, IsFiniteSet(S), IsOrder(R, S)
  PROVE  First(S, R) \in S \cup {Absent}
<1>1. CASE S = {}
  BY <1>1 DEF First
<1>2. CASE S # {}
  <2> DEFINE c == Cardinality(S)
             s == Ordered(S, R)
  <2>1. PICK k \in S : TRUE
    BY <1>2
  <2>2. c \in Nat /\ 1 \in 1..c /\ s[1] \in S
    BY <2>1, BelowType, OrderedProperties
  <2>3. ASSUME NEW j \in S \ {s[1]} PROVE <<s[1], j>> \in R
    <3>1. PICK n \in 1..c : s[n] = j
      BY OrderedProperties
    <3>2. 1 < n
      BY <2>2, <3>1
    <3>3. QED BY <2>2, <3>1, <3>2, OrderedProperties
  <2>4. First(S, R) = s[1]
    BY <2>2, <2>3, FirstUnique
  <2>5. QED BY <2>2, <2>4
<1>3. QED BY <1>1, <1>2

-----------------------------------------------------------------------------
(* The orders of the lists and of nav *)

PostsTyped == posts \in [Id -> Rows \cup {Absent}]

LEMMA RowType ==
  ASSUME PostsTyped, NEW i \in Id, posts[i] # Absent
  PROVE  /\ posts[i] \in Row
         /\ posts[i].date \in Nat /\ posts[i].updated \in Nat
BY RowsAssumption DEF PostsTyped, Row

LEMMA PublishedType ==
  ASSUME PostsTyped, NEW S \in SUBSET Published
  PROVE  /\ S \subseteq Id /\ IsFiniteSet(S)
         /\ \A i \in S : i \in Nat /\ posts[i].date \in Nat
<1>1. S \in SUBSET Id /\ \A i \in S : posts[i] # Absent
  BY DEF Published
<1>2. \A i \in S : posts[i].date \in Nat
  BY <1>1, RowType
<1>3. QED BY <1>1, <1>2, IdAssumption, FS_Subset

(* DESC(date), ASC(id) is a strict total order, and so is its converse. *)
LEMMA NewerIsOrder ==
  ASSUME PostsTyped, NEW S \in SUBSET Published
  PROVE  /\ IsOrder(Pairs(S, Newer), S)
         /\ IsOrder(Pairs(S, LAMBDA i, j : Newer(j, i)), S)
<1>1. \A i \in S : i \in Nat /\ posts[i].date \in Nat
  BY PublishedType
<1>2. ASSUME NEW i \in S, NEW j \in S
      PROVE  /\ <<i, j>> \in Pairs(S, Newer) <=> Newer(i, j)
             /\ <<i, j>> \in Pairs(S, LAMBDA k, l : Newer(l, k)) <=> Newer(j, i)
  BY DEF Pairs
<1>3. ASSUME NEW i \in S PROVE ~ Newer(i, i)
  BY <1>1 DEF Newer
<1>4. ASSUME NEW i \in S, NEW j \in S, NEW k \in S, Newer(i, j), Newer(j, k)
      PROVE  Newer(i, k)
  BY <1>1, <1>4 DEF Newer
<1>5. ASSUME NEW i \in S, NEW j \in S, i # j
      PROVE  Newer(i, j) \/ Newer(j, i)
  BY <1>1, <1>5 DEF Newer
<1>6. IsOrder(Pairs(S, Newer), S)
  BY <1>2, <1>3, <1>4, <1>5 DEF IsOrder
<1>7. IsOrder(Pairs(S, LAMBDA i, j : Newer(j, i)), S)
  BY <1>2, <1>3, <1>4, <1>5 DEF IsOrder
<1>8. QED BY <1>6, <1>7

LEMMA ListOps ==
  ASSUME NEW list \in Lists
  PROVE  list.op \in {"admin", "public", "search"}
BY DEF Lists

LEMMA MatchingType ==
  ASSUME PostsTyped, NEW list \in Lists
  PROVE  /\ Matching(list) \in SUBSET Id /\ IsFiniteSet(Matching(list))
         /\ \A i \in Matching(list) : posts[i] # Absent /\ posts[i] \in Row
<1>1. Matching(list) \in SUBSET Id /\ \A i \in Matching(list) : posts[i] # Absent
  BY ListOps DEF Matching, Published
<1>2. QED BY <1>1, IdAssumption, FS_Subset, RowType

LEMMA KeysType ==
  ASSUME NEW list \in Lists, NEW i \in Id, posts[i] \in Row
  PROVE  /\ Keys(list, i)[1] \in Nat /\ Keys(list, i)[2] \in Nat
         /\ Keys(list, i) = <<Keys(list, i)[1], Keys(list, i)[2]>>
<1>1. /\ posts[i].date \in Nat /\ posts[i].updated \in Nat
      /\ Score(posts[i].hits) \in Nat
  BY DEF Row, Score, Weight
<1>2. CASE list.op = "admin"
  BY <1>1, <1>2 DEF Keys
<1>3. CASE list.op = "search"
  BY <1>1, <1>3 DEF Keys
<1>4. CASE list.op = "public"
  BY <1>1, <1>4 DEF Keys
<1>5. QED BY <1>2, <1>3, <1>4, ListOps

(* Each list has two descending keys and the slug to break ties. *)
LEMMA BeforeIsOrder ==
  ASSUME PostsTyped, NEW list \in Lists
  PROVE  IsOrder(Pairs(Matching(list), LAMBDA i, j : Before(list, i, j)), Matching(list))
<1> DEFINE S == Matching(list)
           k(i) == Keys(list, i)
<1>1. ASSUME NEW i \in S
      PROVE  i \in Nat /\ k(i)[1] \in Nat /\ k(i)[2] \in Nat /\ k(i) = <<k(i)[1], k(i)[2]>>
  BY MatchingType, KeysType, IdAssumption
<1>2. ASSUME NEW i \in S, NEW j \in S
      PROVE  Before(list, i, j) <=> \/ k(i)[1] > k(j)[1]
                                    \/ k(i)[1] = k(j)[1] /\ k(i)[2] > k(j)[2]
                                    \/ k(i)[1] = k(j)[1] /\ k(i)[2] = k(j)[2] /\ i < j
  <2>1. k(i) = k(j) <=> k(i)[1] = k(j)[1] /\ k(i)[2] = k(j)[2]
    BY <1>1
  <2>2. QED BY <2>1 DEF Before
<1>3. ASSUME NEW i \in S, NEW j \in S
      PROVE  <<i, j>> \in Pairs(S, LAMBDA l, m : Before(list, l, m)) <=> Before(list, i, j)
  BY DEF Pairs
<1> HIDE DEF k, S
<1>4. ASSUME NEW i \in S PROVE ~ Before(list, i, i)
  BY <1>1, <1>2
<1>5. ASSUME NEW i \in S, NEW j \in S, NEW l \in S, Before(list, i, j), Before(list, j, l)
      PROVE  Before(list, i, l)
  BY <1>1, <1>2, <1>5
<1>6. ASSUME NEW i \in S, NEW j \in S, i # j
      PROVE  Before(list, i, j) \/ Before(list, j, i)
  BY <1>1, <1>2, <1>6
<1>7. IsOrder(Pairs(S, LAMBDA i, j : Before(list, i, j)), S)
  BY <1>3, <1>4, <1>5, <1>6 DEF IsOrder
<1>8. QED BY <1>7 DEF S

(* A list is all of its rows, each once. *)
LEMMA SortedProperties ==
  ASSUME PostsTyped, NEW list \in Lists
  PROVE  /\ Sorted(list) \in Seq(Id)
         /\ Len(Sorted(list)) = Cardinality(Matching(list))
         /\ Len(Sorted(list)) \in Nat
         /\ DOMAIN Sorted(list) = 1..Len(Sorted(list))
         /\ \A n \in 1..Len(Sorted(list)) : Sorted(list)[n] \in Matching(list)
         /\ \A m, n \in 1..Len(Sorted(list)) :
              m # n => Sorted(list)[m] # Sorted(list)[n]
         /\ \A i \in Matching(list) : \E n \in 1..Len(Sorted(list)) : Sorted(list)[n] = i
<1> DEFINE S == Matching(list)
           R == Pairs(S, LAMBDA i, j : Before(list, i, j))
           s == Ordered(S, R)
<1>1. Sorted(list) = s
  BY DEF Sorted
<1>2. S \in SUBSET Id /\ IsFiniteSet(S) /\ IsOrder(R, S)
  BY MatchingType, BeforeIsOrder
<1> HIDE DEF R, S
<1>3. /\ s \in Seq(S) /\ Len(s) = Cardinality(S) /\ Cardinality(S) \in Nat
      /\ DOMAIN s = 1..Cardinality(S)
      /\ \A m, n \in 1..Cardinality(S) : m < n => <<s[m], s[n]>> \in R
      /\ \A i \in S : \E n \in 1..Cardinality(S) : s[n] = i
  BY <1>2, OrderedProperties
<1> HIDE DEF s
<1>4. s \in Seq(Id)
  BY <1>2, <1>3, SeqMonotonic
<1>5. \A n \in 1..Len(s) : s[n] \in S
  BY <1>3
<1>6. ASSUME NEW m \in 1..Len(s), NEW n \in 1..Len(s), m # n PROVE s[m] # s[n]
  <2>1. m < n \/ n < m
    BY <1>3, <1>6
  <2>2. <<s[m], s[n]>> \in R \/ <<s[n], s[m]>> \in R
    BY <1>3, <2>1
  <2>3. QED BY <1>2, <1>5, <2>2 DEF IsOrder
<1>7. QED BY <1>1, <1>3, <1>4, <1>5, <1>6 DEF S

-----------------------------------------------------------------------------
(* The inductive invariant: one lemma per kind of read *)

LEMMA ReadOps ==
  ASSUME read \in Reads
  PROVE  /\ read \in Lists => read.op \notin {"nav", "detail"}
         /\ read \notin Lists => read.op \in {"nav", "detail"}
BY DEF Reads, Lists

LEMMA InitInvariant == Init => IInv
<1> SUFFICES ASSUME Init PROVE IInv
  OBVIOUS
<1>1. size \in Nat \ {0} /\ page = 1 /\ 1 \in 1..MaxPage
  BY PageAssumption DEF Init
<1>2. Typed /\ StepInv
  BY <1>1 DEF Init, Typed, StepInv
<1>3. WalkInv
  <2> SUFFICES ASSUME read \in Lists PROVE WalkInv
    BY DEF WalkInv
  <2>1. (page - 1) * size = 0
    BY <1>1
  <2>2. SubSeq(Sorted(read), 1, 0) = <<>>
    BY SubSeqEmpty
  <2>3. Len(Sorted(read)) \in Nat
    BY <1>2, SortedProperties DEF Typed, PostsTyped
  <2>4. step = "start" /\ items = <<>>
    BY DEF Init
  <2>5. QED BY <2>1, <2>2, <2>3, <2>4 DEF WalkInv
<1>4. NavInv /\ DetailInv
  BY DEF Init, NavInv, DetailInv
<1>5. QED BY <1>2, <1>3, <1>4 DEF IInv

(* What the statements see is the same until something is written. *)
LEMMA SameLists ==
  ASSUME UNCHANGED <<posts, read>>
  PROVE  Sorted(read)' = Sorted(read)
BY DEF Sorted, Matching, Published, Passes, Pairs, Ordered, Before, Keys

LEMMA SamePublished ==
  ASSUME UNCHANGED posts
  PROVE  Published' = Published /\ Tagged' = Tagged
BY DEF Published, Tagged

LEMMA SameNeighbours ==
  ASSUME UNCHANGED <<posts, post>>
  PROVE  /\ LatestOf(OlderThan(post))' = LatestOf(OlderThan(post))
         /\ EarliestOf(NewerThan(post))' = EarliestOf(NewerThan(post))
BY DEF LatestOf, EarliestOf, OlderThan, NewerThan, Published, Pairs, First, Newer

LEMMA WriteInvariant == IInv /\ Write => IInv'
<1> SUFFICES ASSUME IInv, Write PROVE IInv'
  OBVIOUS
<1>1. /\ writes \in Nat /\ writes' = writes + 1
      /\ UNCHANGED <<read, step, size, answer>>
  BY DEF IInv, Typed, Write
<1>2. UNCHANGED <<read, step, size, page, listed, total, items, post, prev, next>>
  BY <1>1 DEF answer
<1>3. posts' \in [Id -> Rows \cup {Absent}]
  BY DEF IInv, Typed, Write
<1>4. writes' \in Nat /\ ~ Quiet'
  BY <1>1 DEF Quiet
<1>5. Typed' /\ StepInv'
  BY <1>2, <1>3, <1>4 DEF IInv, Typed, StepInv
<1>6. WalkInv' /\ DetailInv'
  BY <1>4 DEF WalkInv, DetailInv
<1>7. NavInv'
  BY <1>2, <1>4 DEF IInv, NavInv
<1>8. QED BY <1>5, <1>6, <1>7 DEF IInv

LEMMA CountAllInvariant == IInv /\ CountAll => IInv'
<1> SUFFICES ASSUME IInv, CountAll PROVE IInv'
  OBVIOUS
<1>1. /\ read \in Lists /\ step = "start" /\ step' = "items"
      /\ total' = Cardinality(Matching(read))
      /\ UNCHANGED <<posts, read, size, page, listed, items, post, prev, next, writes>>
  BY DEF CountAll
<1>2. PostsTyped
  BY DEF IInv, Typed, PostsTyped
<1>3. total' = Len(Sorted(read)) /\ total' \in Nat
  BY <1>1, <1>2, SortedProperties
<1>4. read.op \notin {"nav", "detail"}
  BY <1>1, ReadOps DEF IInv, Typed
<1>5. Typed' /\ StepInv' /\ NavInv' /\ DetailInv'
  BY <1>1, <1>3, <1>4 DEF IInv, Typed, StepInv, NavInv, DetailInv
<1>6. WalkInv'
  <2> SUFFICES ASSUME Quiet' PROVE WalkInv'
    BY DEF WalkInv
  <2>1. Quiet
    BY <1>1 DEF Quiet
  <2>2. /\ (page - 1) * size <= Len(Sorted(read))
        /\ items = SubSeq(Sorted(read), 1, (page - 1) * size)
    BY <1>1, <2>1 DEF IInv, WalkInv
  <2>3. QED BY <1>1, <1>3, <2>2, SameLists DEF WalkInv
<1>7. QED BY <1>5, <1>6 DEF IInv

(* A page is the stretch of the list from its offset to the next one's, or *)
(* to the end of the list.                                                 *)
LEMMA SliceAppends ==
  ASSUME NEW S, NEW s \in Seq(S), page \in Nat \ {0}, size \in Nat \ {0},
         (page - 1) * size <= Len(s)
  PROVE  /\ Len(s) < page * size =>
              SubSeq(s, 1, (page - 1) * size) \o Slice(s) = s
         /\ page * size <= Len(s) =>
              SubSeq(s, 1, (page - 1) * size) \o Slice(s) = SubSeq(s, 1, page * size)
         /\ page * size \in Nat
<1> DEFINE k == (page - 1) * size
           l == page * size
           n == Len(s)
<1>1. k \in Nat /\ l \in Nat /\ l = k + size /\ n \in Nat
  <2>1. page - 1 \in Nat
    OBVIOUS
  <2>2. (page - 1) * size \in Nat /\ page * size \in Nat
    BY <2>1
  <2>3. page * size = (page - 1) * size + size
    OBVIOUS
  <2>4. QED BY <2>2, <2>3
<1>2. k <= n
  OBVIOUS
<1>3. Slice(s) = SubSeq(s, k + 1, IF n < l THEN n ELSE l)
  BY DEF Slice
<1> HIDE DEF k, l, n
<1>4. ASSUME n < l PROVE SubSeq(s, 1, k) \o Slice(s) = s
  <2>1. Slice(s) = SubSeq(s, k + 1, n)
    BY <1>3, <1>4
  <2>2. 1 \in 1..Len(s)+1 /\ k \in 1-1..Len(s) /\ n \in k..Len(s)
    BY <1>1, <1>2 DEF n
  <2>3. SubSeq(s, 1, k) \o SubSeq(s, k + 1, n) = SubSeq(s, 1, n)
    BY <2>2, ConcatAdjacentSubSeq
  <2>4. SubSeq(s, 1, n) = s
    BY SubSeqFull DEF n
  <2>5. QED BY <2>1, <2>3, <2>4
<1>5. ASSUME l <= n PROVE SubSeq(s, 1, k) \o Slice(s) = SubSeq(s, 1, l)
  <2>1. Slice(s) = SubSeq(s, k + 1, l)
    BY <1>1, <1>3, <1>5
  <2>2. 1 \in 1..Len(s)+1 /\ k \in 1-1..Len(s) /\ l \in k..Len(s)
    BY <1>1, <1>2, <1>5 DEF n
  <2>3. SubSeq(s, 1, k) \o SubSeq(s, k + 1, l) = SubSeq(s, 1, l)
    BY <2>2, ConcatAdjacentSubSeq
  <2>4. QED BY <2>1, <2>3
<1>6. QED BY <1>1, <1>4, <1>5 DEF k, l, n

LEMMA SliceType ==
  ASSUME NEW S, NEW s \in Seq(S), page \in Nat \ {0}, size \in Nat \ {0}
  PROVE  Slice(s) \in Seq(S)
<1> DEFINE m == (page - 1) * size + 1
           n == IF Len(s) < page * size THEN Len(s) ELSE page * size
<1>1. m \in Nat \ {0} /\ n \in Nat /\ n <= Len(s)
  <2>1. page - 1 \in Nat
    OBVIOUS
  <2>2. (page - 1) * size \in Nat /\ page * size \in Nat
    BY <2>1
  <2>3. QED BY <2>2
<1>2. Slice(s) = SubSeq(s, m, n)
  BY DEF Slice
<1> HIDE DEF m, n
<1>3. \A i \in m..n : s[i] \in S
  <2>1. \A i \in m..n : i \in 1..Len(s)
    BY <1>1
  <2>2. QED BY <2>1, ElementOfSeq
<1>4. m \in Int /\ n \in Int
  BY <1>1
<1>5. QED BY <1>2, <1>3, <1>4, SubSeqProperties

LEMMA ItemsInvariant == IInv /\ Items => IInv'
<1> SUFFICES ASSUME IInv, Items PROVE IInv'
  OBVIOUS
<1> DEFINE s == Sorted(read)
<1>1. /\ read \in Lists /\ step = "items" /\ items' = items \o Slice(s)
      /\ UNCHANGED <<posts, read, size, listed, total, post, prev, next, writes>>
  BY DEF Items
<1>2. /\ HasNext /\ page < MaxPage => page' = page + 1 /\ step' = "start"
      /\ ~ (HasNext /\ page < MaxPage) => step' = "done" /\ page' = page
  BY DEF Items
<1>3. PostsTyped
  BY DEF IInv, Typed, PostsTyped
<1>4. s \in Seq(Id) /\ Len(s) \in Nat
  BY <1>1, <1>3, SortedProperties
<1>5. /\ page \in Nat \ {0} /\ size \in Nat \ {0} /\ page \in 1..MaxPage
      /\ MaxPage \in Nat \ {0} /\ total \in Nat /\ items \in Seq(Id)
  BY PageAssumption DEF IInv, Typed
<1>6. read.op \notin {"nav", "detail"}
  BY <1>1, ReadOps DEF IInv, Typed
<1>7. page' \in 1..MaxPage /\ step' \in {"start", "done"}
  BY <1>2, <1>5
<1> HIDE DEF s
<1>8. items' \in Seq(Id)
  BY <1>1, <1>4, <1>5, SliceType, ConcatProperties
<1>9. Typed' /\ StepInv' /\ NavInv' /\ DetailInv'
  BY <1>1, <1>6, <1>7, <1>8 DEF IInv, Typed, StepInv, NavInv, DetailInv
<1>10. WalkInv'
  <2> SUFFICES ASSUME Quiet' PROVE WalkInv'
    BY DEF WalkInv
  <2>1. Quiet
    BY <1>1 DEF Quiet
  <2>2. /\ (page - 1) * size <= Len(s)
        /\ items = SubSeq(s, 1, (page - 1) * size)
        /\ total = Len(s)
    BY <1>1, <2>1 DEF IInv, WalkInv, s
  <2>3. /\ Len(s) < page * size => items' = s
        /\ page * size <= Len(s) => items' = SubSeq(s, 1, page * size)
        /\ page * size \in Nat
    BY <1>1, <1>4, <1>5, <2>2, SliceAppends
  <2>4. s' = s
    BY <1>1, SameLists DEF s
  <2>5. CASE HasNext /\ page < MaxPage
    <3>1. page * size <= Len(s)
      BY <1>4, <2>2, <2>3, <2>5 DEF HasNext
    <3>2. page' - 1 = page /\ size' = size /\ step' = "start"
      BY <1>1, <1>2, <1>5, <2>5
    <3>3. /\ (page' - 1) * size' <= Len(s')
          /\ items' = SubSeq(s', 1, (page' - 1) * size')
      BY <2>3, <2>4, <3>1, <3>2
    <3>4. QED BY <3>2, <3>3 DEF WalkInv, s
  <2>6. CASE ~ HasNext
    <3>1. Len(s) <= page * size /\ step' = "done"
      BY <1>2, <1>4, <2>2, <2>3, <2>6 DEF HasNext
    <3>2. items' = s
      <4>1. CASE Len(s) < page * size
        BY <2>3, <4>1
      <4>2. CASE Len(s) = page * size
        BY <1>4, <2>3, <4>2, SubSeqFull
      <4>3. QED BY <1>4, <2>3, <3>1, <4>1, <4>2
    <3>3. QED BY <2>4, <3>1, <3>2 DEF WalkInv, s
  <2>7. CASE HasNext /\ ~ (page < MaxPage)
    <3>1. page = MaxPage /\ step' = "done" /\ size' = size
      BY <1>1, <1>2, <1>5, <2>7
    <3>2. page * size <= Len(s)
      BY <1>4, <2>2, <2>3, <2>7 DEF HasNext
    <3>3. MaxPage * size' <= Len(s') /\ items' = SubSeq(s', 1, MaxPage * size')
      BY <2>3, <2>4, <3>1, <3>2
    <3>4. QED BY <3>1, <3>3 DEF WalkInv, s
  <2>8. QED BY <2>5, <2>6, <2>7
<1>11. QED BY <1>9, <1>10 DEF IInv

LEMMA NavSets ==
  ASSUME NEW p
  PROVE  OlderThan(p) \in SUBSET Published /\ NewerThan(p) \in SUBSET Published
BY DEF OlderThan, NewerThan

(* Whatever nav answers is a slug among those it asked for, or nothing. *)
LEMMA NeighbourType ==
  ASSUME PostsTyped, NEW S \in SUBSET Published
  PROVE  LatestOf(S) \in S \cup {Absent} /\ EarliestOf(S) \in S \cup {Absent}
BY PublishedType, NewerIsOrder, FirstProperties DEF LatestOf, EarliestOf

LEMMA NavOps ==
  ASSUME IInv
  PROVE  /\ step \in {"prev", "next"} => read.op = "nav"
         /\ step \in {"count", "posts"} => read.op = "detail"
         /\ read.op \in {"nav", "detail"} => read \notin Lists
BY ReadOps DEF IInv, Typed, StepInv

LEMMA NavPostInvariant == IInv /\ NavPost => IInv'
<1> SUFFICES ASSUME IInv, NavPost PROVE IInv'
  OBVIOUS
<1>1. /\ read.op = "nav" /\ step = "start"
      /\ UNCHANGED <<posts, read, size, page, listed, total, items, prev, next, writes>>
  BY DEF NavPost
<1>2. PICK i \in Id :
        IF i \in Published
        THEN post' = [id |-> i, date |-> posts[i].date] /\ step' = "prev"
        ELSE step' = "notfound" /\ UNCHANGED post
  BY DEF NavPost
<1>3. PostsTyped /\ read \notin Lists
  BY <1>1, NavOps DEF IInv, Typed, PostsTyped
<1>4. prev = Absent /\ next = Absent /\ post = Absent
  BY <1>1 DEF IInv, NavInv
<1>5. Typed' /\ StepInv' /\ WalkInv' /\ DetailInv'
  BY <1>1, <1>2, <1>3 DEF IInv, Typed, StepInv, WalkInv, DetailInv
<1>6. NavInv'
  <2>1. CASE i \in Published
    <3>1. posts[i].date \in Nat
      BY <1>3, <2>1, RowType DEF Published
    <3>2. /\ post' \in [id : Id, date : Nat] /\ post'.id = i /\ post'.date = posts[i].date
          /\ step' = "prev"
      BY <1>2, <2>1, <3>1
    <3>3. i # Absent
      BY IdAssumption
    <3>4. i \in Published'
      BY <1>1, <2>1, SamePublished
    <3>5. QED BY <1>1, <1>4, <3>2, <3>3, <3>4 DEF NavInv
  <2>2. CASE i \notin Published
    BY <1>1, <1>2, <1>4, <2>2 DEF NavInv
  <2>3. QED BY <2>1, <2>2
<1>7. QED BY <1>5, <1>6 DEF IInv

LEMMA NavPrevInvariant == IInv /\ NavPrev => IInv'
<1> SUFFICES ASSUME IInv, NavPrev PROVE IInv'
  OBVIOUS
<1>1. /\ step = "prev" /\ step' = "next"
      /\ UNCHANGED <<posts, read, size, page, listed, total, items, post, next, writes>>
  BY DEF NavPrev
<1>2. prev' = LatestOf(OlderThan(post))
  BY DEF NavPrev, Others, LatestOf, OlderThan
<1>3. PostsTyped /\ read.op = "nav" /\ read \notin Lists
  BY <1>1, NavOps DEF IInv, Typed, PostsTyped
<1>4. /\ post \in [id : Id, date : Nat] /\ next = Absent
      /\ Quiet => post.id \in Published /\ posts[post.id].date = post.date
  BY <1>1, <1>3 DEF IInv, NavInv
<1>5. prev' \in OlderThan(post) \cup {Absent}
  BY <1>2, <1>3, NavSets, NeighbourType
<1>6. prev' \in Id \cup {Absent} /\ post.id \notin {prev', next}
  BY <1>4, <1>5, IdAssumption DEF OlderThan, Published
<1>7. Typed' /\ StepInv' /\ WalkInv' /\ DetailInv'
  BY <1>1, <1>3, <1>6 DEF IInv, Typed, StepInv, WalkInv, DetailInv
<1>8. NavInv'
  <2>1. Published' = Published /\ LatestOf(OlderThan(post))' = LatestOf(OlderThan(post))
    BY <1>1, SamePublished, SameNeighbours
  <2>2. Quiet' <=> Quiet
    BY <1>1 DEF Quiet
  <2>3. QED BY <1>1, <1>2, <1>4, <1>6, <2>1, <2>2 DEF NavInv
<1>9. QED BY <1>7, <1>8 DEF IInv

LEMMA NavNextInvariant == IInv /\ NavNext => IInv'
<1> SUFFICES ASSUME IInv, NavNext PROVE IInv'
  OBVIOUS
<1>1. /\ step = "next" /\ step' = "done"
      /\ UNCHANGED <<posts, read, size, page, listed, total, items, post, prev, writes>>
  BY DEF NavNext
<1>2. next' = EarliestOf(NewerThan(post))
  BY DEF NavNext, Others, EarliestOf, NewerThan
<1>3. PostsTyped /\ read.op = "nav" /\ read \notin Lists
  BY <1>1, NavOps DEF IInv, Typed, PostsTyped
<1>4. /\ post \in [id : Id, date : Nat] /\ post.id \notin {prev, next}
      /\ Quiet => /\ post.id \in Published /\ posts[post.id].date = post.date
                  /\ prev = LatestOf(OlderThan(post))
  BY <1>1, <1>3 DEF IInv, NavInv
<1>5. next' \in NewerThan(post) \cup {Absent}
  BY <1>2, <1>3, NavSets, NeighbourType
<1>6. next' \in Id \cup {Absent} /\ post.id \notin {prev, next'}
  BY <1>4, <1>5, IdAssumption DEF NewerThan, Published
<1>7. Typed' /\ StepInv' /\ WalkInv' /\ DetailInv'
  BY <1>1, <1>3, <1>6 DEF IInv, Typed, StepInv, WalkInv, DetailInv
<1>8. NavInv'
  <2>1. /\ Published' = Published
        /\ LatestOf(OlderThan(post))' = LatestOf(OlderThan(post))
        /\ EarliestOf(NewerThan(post))' = EarliestOf(NewerThan(post))
    BY <1>1, SamePublished, SameNeighbours
  <2>2. Quiet' <=> Quiet
    BY <1>1 DEF Quiet
  <2>3. QED BY <1>1, <1>2, <1>4, <1>6, <2>1, <2>2 DEF NavInv
<1>9. QED BY <1>7, <1>8 DEF IInv

LEMMA TaggedType ==
  ASSUME PostsTyped
  PROVE  /\ Tagged \in SUBSET Published /\ Tagged \subseteq Id
         /\ IsFiniteSet(Tagged) /\ Cardinality(Tagged) \in Nat
BY PublishedType, FS_CardinalityType DEF Tagged

LEMMA TagListInvariant == IInv /\ TagList => IInv'
<1> SUFFICES ASSUME IInv, TagList PROVE IInv'
  OBVIOUS
<1> DEFINE links == {i \in Id : posts[i] # Absent /\ posts[i].tagged}
           joined == [i \in links |-> IF i \in Published THEN i ELSE Absent]
<1>1. /\ read.op = "detail" /\ step = "start" /\ step' = "count"
      /\ listed' = Cardinality({i \in links : joined[i] # Absent})
      /\ UNCHANGED <<posts, read, size, page, total, items, post, prev, next, writes>>
  BY DEF TagList
<1>2. {i \in links : joined[i] # Absent} = Tagged
  <2>1. ASSUME NEW i \in links PROVE joined[i] # Absent <=> i \in Published
    BY IdAssumption
  <2>2. Tagged = {i \in links : i \in Published}
    BY DEF Tagged, Published
  <2>3. QED BY <2>1, <2>2
<1>3. listed' = Cardinality(Tagged)
  BY <1>1, <1>2
<1>4. read \notin Lists
  BY <1>1, NavOps
<1>5. Typed' /\ StepInv' /\ WalkInv' /\ NavInv'
  BY <1>1, <1>4 DEF IInv, Typed, StepInv, WalkInv, NavInv
<1>6. DetailInv'
  BY <1>1, <1>3, SamePublished DEF DetailInv
<1>7. QED BY <1>5, <1>6 DEF IInv

LEMMA TagCountInvariant == IInv /\ TagCount => IInv'
<1> SUFFICES ASSUME IInv, TagCount PROVE IInv'
  OBVIOUS
<1>1. /\ step = "count" /\ step' = "posts" /\ total' = Cardinality(Tagged)
      /\ UNCHANGED <<posts, read, size, page, listed, items, post, prev, next, writes>>
  BY DEF TagCount
<1>2. PostsTyped /\ read.op = "detail" /\ read \notin Lists
  BY <1>1, NavOps DEF IInv, Typed, PostsTyped
<1>3. total' \in Nat
  BY <1>1, <1>2, TaggedType
<1>4. Typed' /\ StepInv' /\ WalkInv' /\ NavInv'
  BY <1>1, <1>2, <1>3 DEF IInv, Typed, StepInv, WalkInv, NavInv
<1>5. DetailInv'
  BY <1>1, <1>2, SamePublished DEF IInv, DetailInv, Quiet
<1>6. QED BY <1>4, <1>5 DEF IInv

LEMMA TagPostsInvariant == IInv /\ TagPosts => IInv'
<1> SUFFICES ASSUME IInv, TagPosts PROVE IInv'
  OBVIOUS
<1>1. /\ step = "posts" /\ step' = "done"
      /\ items' = Ordered(Tagged, Pairs(Tagged, Newer))
      /\ UNCHANGED <<posts, read, size, page, listed, total, post, prev, next, writes>>
  BY DEF TagPosts
<1>2. PostsTyped /\ read.op = "detail" /\ read \notin Lists
  BY <1>1, NavOps DEF IInv, Typed, PostsTyped
<1>3. Tagged \in SUBSET Published /\ Tagged \subseteq Id /\ IsFiniteSet(Tagged)
  BY <1>2, TaggedType
<1>4. items' \in Seq(Tagged) /\ Len(items') = Cardinality(Tagged)
  BY <1>1, <1>2, <1>3, NewerIsOrder, OrderedProperties
<1>5. items' \in Seq(Id)
  BY <1>3, <1>4, SeqMonotonic
<1>6. Typed' /\ StepInv' /\ WalkInv' /\ NavInv'
  BY <1>1, <1>2, <1>5 DEF IInv, Typed, StepInv, WalkInv, NavInv
<1>7. DetailInv'
  BY <1>1, <1>2, <1>4, SamePublished DEF IInv, DetailInv, Quiet
<1>8. QED BY <1>6, <1>7 DEF IInv

LEMMA StutterInvariant == IInv /\ UNCHANGED vars => IInv'
<1> SUFFICES ASSUME IInv, UNCHANGED vars PROVE IInv'
  OBVIOUS
<1>1. UNCHANGED <<posts, read, step, size, page, listed, total, items, post, prev,
                  next, writes>>
  BY DEF vars, answer
<1>2. /\ Sorted(read)' = Sorted(read)
      /\ Published' = Published /\ Tagged' = Tagged
      /\ LatestOf(OlderThan(post))' = LatestOf(OlderThan(post))
      /\ EarliestOf(NewerThan(post))' = EarliestOf(NewerThan(post))
  BY <1>1, SameLists, SamePublished, SameNeighbours
<1>3. Typed' /\ StepInv'
  BY <1>1 DEF IInv, Typed, StepInv
<1>4. WalkInv' /\ DetailInv'
  BY <1>1, <1>2 DEF IInv, WalkInv, DetailInv, Quiet
<1>5. NavInv'
  BY <1>1, <1>2 DEF IInv, NavInv, Quiet
<1>6. QED BY <1>3, <1>4, <1>5 DEF IInv

THEOREM Invariant == Spec => []IInv
<1>1. IInv /\ [Next]_vars => IInv'
  BY CountAllInvariant, ItemsInvariant, NavPostInvariant, NavPrevInvariant,
     NavNextInvariant, TagListInvariant, TagCountInvariant, TagPostsInvariant,
     WriteInvariant, StutterInvariant DEF Next
<1>2. QED BY <1>1, InitInvariant, PTL DEF Spec

-----------------------------------------------------------------------------
(* The properties *)

(* Types hold: a slug received is a slug and a page asked for is accepted, *)
(* whatever is written between the statements of a read.                   *)
THEOREM TypeCorrect == Spec => []TypeOK
<1>1. IInv => TypeOK
  <2> SUFFICES ASSUME IInv PROVE TypeOK
    OBVIOUS
  <2>1. step \in {"start", "items", "prev", "next", "count", "posts", "done", "notfound"}
    BY ReadOps DEF IInv, Typed, StepInv
  <2>2. QED BY <2>1 DEF IInv, Typed, TypeOK
<1>2. QED BY <1>1, Invariant, PTL

(* nav never shows a post beside itself: its own slug is excluded by each  *)
(* of the two queries, and it does not change while they run.              *)
THEOREM NavNeverSelfHolds == Spec => []NavNeverSelf
<1>1. IInv => NavNeverSelf
  BY DEF IInv, StepInv, NavInv, NavNeverSelf
<1>2. QED BY <1>1, Invariant, PTL

(* The two counts of a tag and the list of its posts agree when nothing is *)
(* written between the three queries.                                      *)
THEOREM DetailAlwaysAgrees == Spec => []DetailAgrees
<1>1. IInv => DetailAgrees
  BY DEF IInv, DetailInv, DetailAgrees, Done
<1>2. QED BY <1>1, Invariant, PTL

(* What has been received at the end of a walk is the list, or as much of  *)
(* it as MAX_PAGE pages hold.                                              *)
LEMMA WalkEnds ==
  ASSUME IInv, Done, Quiet, read \in Lists
  PROVE  /\ IsInjective(items)
         /\ \/ ToSet(items) = Matching(read)
            \/ /\ Len(items) = MaxPage * size
               /\ ToSet(items) \subseteq Matching(read)
<1> DEFINE s == Sorted(read)
           n == Len(s)
           S == Matching(read)
<1>1. PostsTyped
  BY DEF IInv, Typed, PostsTyped
<1>2. /\ s \in Seq(Id) /\ n \in Nat /\ DOMAIN s = 1..n
      /\ \A k \in 1..n : s[k] \in S
      /\ \A k, l \in 1..n : k # l => s[k] # s[l]
      /\ \A i \in S : \E k \in 1..n : s[k] = i
  BY <1>1, SortedProperties
<1>3. \/ items = s
      \/ MaxPage * size <= n /\ items = SubSeq(s, 1, MaxPage * size)
  BY DEF IInv, WalkInv, Done
<1>4. MaxPage * size \in Nat \ {0}
  <2>1. MaxPage \in Nat \ {0} /\ size \in Nat \ {0}
    BY PageAssumption DEF IInv, Typed
  <2>2. QED BY <2>1
<1> DEFINE m == MaxPage * size
<1> HIDE DEF s, S, m
<1>5. CASE items = s
  <2>1. IsInjective(items)
    BY <1>2, <1>5 DEF IsInjective
  <2>2. ToSet(items) = S
    BY <1>2, <1>5 DEF ToSet
  <2>3. QED BY <2>1, <2>2 DEF S
<1>6. CASE m <= n /\ items = SubSeq(s, 1, m)
  <2>1. m \in Nat \ {0} /\ m <= n
    BY <1>4, <1>6 DEF m
  <2>2. 1 \in Int /\ m \in Int /\ \A k \in 1..m : k \in 1..n
    BY <1>2, <2>1
  <2>3. \A k \in 1..m : s[k] \in Id
    BY <1>2, <2>2, ElementOfSeq
  <2>4. /\ items \in Seq(Id) /\ Len(items) = m
        /\ \A k \in 1..m : items[k] = s[k]
    BY <1>6, <2>1, <2>2, <2>3, SubSeqProperties
  <2>5. DOMAIN items = 1..m
    BY <2>4
  <2>6. IsInjective(items)
    BY <1>2, <2>2, <2>4, <2>5 DEF IsInjective
  <2>7. ToSet(items) \subseteq S
    BY <1>2, <2>2, <2>4, <2>5 DEF ToSet
  <2>8. QED BY <2>4, <2>6, <2>7 DEF S, m
<1>7. QED BY <1>3, <1>5, <1>6 DEF m

(* Following hasNext through an unchanging list yields all of it, once.    *)
THEOREM WalkAlwaysWhole == Spec => []WalkIsWhole
<1>1. IInv => WalkIsWhole
  BY WalkEnds DEF WalkIsWhole
<1>2. QED BY <1>1, Invariant, PTL

(* The entries beside a post's own are the first ones nav's queries find.  *)
LEMMA Adjacent ==
  ASSUME PostsTyped, NEW p \in [id : Id, date : Nat],
         p.id \in Published, posts[p.id].date = p.date,
         NEW at \in DOMAIN Chronological, Chronological[at] = p.id
  PROVE  /\ LatestOf(OlderThan(p))
               = IF at + 1 \in DOMAIN Chronological THEN Chronological[at + 1] ELSE Absent
         /\ EarliestOf(NewerThan(p))
               = IF at - 1 \in DOMAIN Chronological THEN Chronological[at - 1] ELSE Absent
<1> DEFINE S == Published
           s == Chronological
           n == Cardinality(S)
<1>1. S \in SUBSET Published /\ IsFiniteSet(S) /\ IsOrder(Pairs(S, Newer), S)
  BY PublishedType, NewerIsOrder
<1>2. s = Ordered(S, Pairs(S, Newer))
  BY DEF Chronological
<1>3. /\ n \in Nat /\ DOMAIN s = 1..n
      /\ \A i \in S : \E k \in 1..n : s[k] = i
      /\ s \in Seq(S) /\ Len(s) = n
      /\ \A k, l \in 1..n : k < l => <<s[k], s[l]>> \in Pairs(S, Newer)
  BY <1>1, <1>2, OrderedProperties
<1>4. \A k \in 1..n : s[k] \in S
  BY <1>3
<1>5. \A k, l \in 1..n : k < l => Newer(s[k], s[l])
  BY <1>3 DEF Pairs
<1>6. at \in 1..n /\ s[at] = p.id
  BY <1>3
<1>7. \A i \in S : i \in Nat /\ posts[i].date \in Nat
  BY PublishedType
<1> HIDE DEF s, n, S
<1>8. ASSUME NEW i \in S
      PROVE  /\ i \in OlderThan(p) <=> Newer(p.id, i)
             /\ i \in NewerThan(p) <=> Newer(i, p.id)
  <2>1. p.id \in Nat /\ p.date \in Nat /\ i \in Nat /\ posts[i].date \in Nat
    BY <1>4, <1>6, <1>7
  <2>2. QED BY <2>1 DEF OlderThan, NewerThan, Newer, S
<1>9. ASSUME NEW k \in 1..n, NEW l \in 1..n
      PROVE  Newer(s[k], s[l]) <=> k < l
  <2>1. /\ s[k] \in Nat /\ posts[s[k]].date \in Nat
        /\ s[l] \in Nat /\ posts[s[l]].date \in Nat
    BY <1>4, <1>7
  <2>2. CASE k < l
    BY <1>5, <2>2
  <2>3. CASE k = l
    BY <2>1, <2>3 DEF Newer
  <2>4. CASE l < k
    <3>1. Newer(s[l], s[k])
      BY <1>5, <2>4
    <3>2. ~ Newer(s[k], s[l])
      BY <2>1, <3>1 DEF Newer
    <3>3. QED BY <1>3, <2>4, <3>2
  <2>5. QED BY <1>3, <2>2, <2>3, <2>4
<1>10. ASSUME NEW k \in 1..n
       PROVE  /\ s[k] \in OlderThan(p) <=> at < k
              /\ s[k] \in NewerThan(p) <=> k < at
  BY <1>4, <1>6, <1>8, <1>9
<1>11. OlderThan(p) \subseteq S /\ NewerThan(p) \subseteq S
  BY NavSets DEF S
<1>12. LatestOf(OlderThan(p)) = IF at + 1 \in 1..n THEN s[at + 1] ELSE Absent
  <2> DEFINE T == OlderThan(p)
  <2>1. CASE at + 1 \in 1..n
    <3>1. s[at + 1] \in T
      BY <1>3, <1>6, <1>10, <2>1
    <3>2. ASSUME NEW j \in T \ {s[at + 1]}
          PROVE  <<s[at + 1], j>> \in Pairs(T, Newer)
      <4>1. PICK l \in 1..n : s[l] = j
        BY <1>3, <1>11
      <4>2. at < l /\ l # at + 1
        BY <1>10, <4>1
      <4>3. at + 1 < l
        BY <1>3, <1>6, <4>2
      <4>4. Newer(s[at + 1], j)
        BY <1>9, <2>1, <4>1, <4>3
      <4>5. QED BY <3>1, <4>4 DEF Pairs
    <3>3. IsOrder(Pairs(T, Newer), T)
      BY NavSets, NewerIsOrder
    <3>4. First(T, Pairs(T, Newer)) = s[at + 1]
      BY <3>1, <3>2, <3>3, FirstUnique
    <3>5. QED BY <2>1, <3>4 DEF LatestOf
  <2>2. CASE at + 1 \notin 1..n
    <3>1. T = {}
      <4>1. ASSUME NEW j \in T PROVE FALSE
        <5>1. PICK l \in 1..n : s[l] = j
          BY <1>3, <1>11
        <5>2. at < l
          BY <1>10, <5>1
        <5>3. QED BY <1>3, <1>6, <2>2, <5>2
      <4>2. QED BY <4>1
    <3>2. QED BY <2>2, <3>1 DEF LatestOf, First
  <2>3. QED BY <2>1, <2>2
<1>13. EarliestOf(NewerThan(p)) = IF at - 1 \in 1..n THEN s[at - 1] ELSE Absent
  <2> DEFINE T == NewerThan(p)
             R == Pairs(T, LAMBDA i, j : Newer(j, i))
  <2>1. CASE at - 1 \in 1..n
    <3>1. s[at - 1] \in T
      BY <1>3, <1>6, <1>10, <2>1
    <3>2. ASSUME NEW j \in T \ {s[at - 1]}
          PROVE  <<s[at - 1], j>> \in R
      <4>1. PICK l \in 1..n : s[l] = j
        BY <1>3, <1>11
      <4>2. l < at /\ l # at - 1
        BY <1>10, <4>1
      <4>3. l < at - 1
        BY <1>3, <1>6, <4>2
      <4>4. Newer(j, s[at - 1])
        BY <1>9, <2>1, <4>1, <4>3
      <4>5. QED BY <3>1, <4>4 DEF Pairs
    <3>3. IsOrder(R, T)
      BY NavSets, NewerIsOrder
    <3> HIDE DEF R, T
    <3>4. First(T, R) = s[at - 1]
      BY <3>1, <3>2, <3>3, FirstUnique
    <3>5. QED BY <2>1, <3>4 DEF EarliestOf, R, T
  <2>2. CASE at - 1 \notin 1..n
    <3>1. T = {}
      <4>1. ASSUME NEW j \in T PROVE FALSE
        <5>1. PICK l \in 1..n : s[l] = j
          BY <1>3, <1>11
        <5>2. l < at
          BY <1>10, <5>1
        <5>3. QED BY <1>3, <1>6, <2>2, <5>2
      <4>2. QED BY <4>1
    <3>2. QED BY <2>2, <3>1 DEF EarliestOf, First
  <2>3. QED BY <2>1, <2>2
<1>14. QED BY <1>3, <1>12, <1>13 DEF s

(* nav answers the post's neighbours in the list of published posts by     *)
(* date, and nothing only at the ends of that list.                        *)
THEOREM NavAlwaysAdjacent == Spec => []NavIsAdjacent
<1>1. IInv => NavIsAdjacent
  <2> SUFFICES ASSUME IInv, Done, Quiet, read.op = "nav" PROVE NavIsAdjacent
    BY DEF NavIsAdjacent
  <2>1. PostsTyped
    BY DEF IInv, Typed, PostsTyped
  <2>2. /\ post \in [id : Id, date : Nat]
        /\ post.id \in Published /\ posts[post.id].date = post.date
        /\ prev = LatestOf(OlderThan(post)) /\ next = EarliestOf(NewerThan(post))
    BY DEF IInv, NavInv, Done
  <2> DEFINE at == CHOOSE k \in DOMAIN Chronological : Chronological[k] = post.id
  <2>3. \E k \in DOMAIN Chronological : Chronological[k] = post.id
    <3>1. /\ Published \in SUBSET Published /\ IsFiniteSet(Published)
          /\ IsOrder(Pairs(Published, Newer), Published)
      BY <2>1, PublishedType, NewerIsOrder
    <3>2. /\ DOMAIN Chronological = 1..Cardinality(Published)
          /\ \E k \in 1..Cardinality(Published) : Chronological[k] = post.id
      BY <2>2, <3>1, OrderedProperties DEF Chronological
    <3>3. QED BY <3>2
  <2>4. at \in DOMAIN Chronological /\ Chronological[at] = post.id
    BY <2>3
  <2> HIDE DEF at
  <2>5. /\ prev = IF at + 1 \in DOMAIN Chronological THEN Chronological[at + 1] ELSE Absent
        /\ next = IF at - 1 \in DOMAIN Chronological THEN Chronological[at - 1] ELSE Absent
    BY <2>1, <2>2, <2>4, Adjacent
  <2>6. QED BY <2>5 DEF NavIsAdjacent, at
<1>2. QED BY <1>1, Invariant, PTL

=============================================================================
