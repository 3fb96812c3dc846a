---------------------------- MODULE MCPostStore ----------------------------
(* Instances of PostStore for TLC: what the concurrent requests ask for.   *)
EXTENDS PostStore

CONSTANTS a, b, x, y, p, q, u   \* slugs, texts, tags

Make(i, t) == [op |-> "create", id |-> i, set |-> [text |-> x], tags |-> t,
               to |-> Absent]
Patch(i, s, t, j) == [op |-> "update", id |-> i, set |-> s, tags |-> t, to |-> j]
Publish(i) == [op |-> "publish", id |-> i, set |-> <<>>, tags |-> Absent,
               to |-> Absent]
Delete(i)  == [op |-> "delete", id |-> i, set |-> <<>>, tags |-> Absent,
               to |-> Absent]

(* Edits, a rename, a publication and the deletion of a post, and the      *)
(* creation of one at the slug it is renamed to.  Two of them bring the    *)
(* same new tags in opposite orders.                                       *)
EditJobs == {Make(b, <<q, u, q>>), Make(a, <<>>),
             Patch(a, [text |-> x, status |-> "draft"], <<u, q>>, Absent),
             Patch(a, [text |-> y], <<>>, Absent),
             Patch(a, <<>>, Absent, b), Publish(a), Delete(a)}

(* Two requests for the same tag, and two for the same slug.               *)
ClashJobs == {Make(a, <<p>>), Make(b, <<p>>), Make(a, <<>>)}

(* Two PATCHes of the tags of one post. *)
RetagJobs == {Patch(a, <<>>, <<p>>, Absent), Patch(a, <<>>, <<q>>, Absent)}
=============================================================================
