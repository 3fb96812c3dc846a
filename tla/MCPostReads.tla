---------------------------- MODULE MCPostReads ----------------------------
(* An instance of PostReads for TLC: rows that tie and differ in each key  *)
(* and pass and fail each filter.                                          *)
EXTENDS PostReads

Published_(d, f, k, h) ==
  [date |-> d, featured |-> f, status |-> "published", kind |-> k,
   updated |-> d, tagged |-> h # {}, hits |-> h]

MCRows == {Published_(1, FALSE, "essay", {}),
           Published_(1, TRUE, "note", {"content"}),
           Published_(2, FALSE, "note", {"title"}),
           Published_(2, FALSE, "essay", {"excerpt", "content"}),
           [Published_(2, TRUE, "note", {"title"}) EXCEPT !.status = "draft"]}

MCFilters ==
  {NoFilter, [NoFilter EXCEPT !.tag = TRUE], [NoFilter EXCEPT !.kind = "note"],
   [NoFilter EXCEPT !.tag = TRUE, !.kind = "essay"],
   [NoFilter EXCEPT !.status = "draft"],
   [NoFilter EXCEPT !.status = "published", !.kind = "note"]}
=============================================================================
