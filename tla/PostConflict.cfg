CONSTANTS
  Request = {r1, r2}
  a = a
  b = b
  x = x
  y = y
  p = p
  q = q
  u = u
  Id = {a, b}
  Tag = {p, q, u}
  Text = {x, y}
  Jobs <- ClashJobs
  Seeds = {}
  SeedTags = {}
  Absent = Absent
SPECIFICATION Spec
PROPERTY CreateConflictIs409
CHECK_DEADLOCK FALSE
