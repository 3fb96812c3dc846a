CONSTANTS
  Id = {1, 2, 3, 4}
  Rows <- MCRows
  Filters <- MCFilters
  PageSizes = {1, 2}
  MaxPage = 3
  MaxWrites = 1
  Absent = Absent
SPECIFICATION Spec
INVARIANTS TypeOK WalkIsWhole NavIsAdjacent NavNeverSelf DetailAgrees
CHECK_DEADLOCK FALSE
