CONSTANTS
  Request = {r1, r2}
  a = a
  b = b
  x = x
  y = y
  p = p
  q = q
  u = u
  Id = {a, b}
  Tag = {p, q, u}
  Text = {x, y}
  Jobs <- RetagJobs
  Seeds = {a}
  SeedTags = {}
  Absent = Absent
SPECIFICATION Spec
PROPERTY PatchReplacesTags
CHECK_DEADLOCK FALSE
