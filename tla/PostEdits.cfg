CONSTANTS
  Request = {r1, r2, r3}
  a = a
  b = b
  x = x
  y = y
  p = p
  q = q
  u = u
  Id = {a, b}
  Tag = {p, q, u}
  Text = {x, y}
  Jobs <- EditJobs
  Seeds = {a}
  SeedTags = {p}
  Absent = Absent
SPECIFICATION FairSpec
INVARIANTS TypeOK LinksHaveEnds
PROPERTIES ImplementsCatalogue EveryRequestEnds
CHECK_DEADLOCK FALSE
