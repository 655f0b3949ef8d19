SPECIFICATION Spec
CONSTANTS
  Threads = {t1, t2}
  Entities = {e1}
  MaxId = 1
  LargeIds = {}
  s = s
  l = l
  Values = {s, l, empty}
  Empty = empty
  LongValues = {l}
  Inodes = {i1, i2, i3}
  None = None
  Requests <- FileRequests
  Disciplined = FALSE
  Signals = TRUE
SYMMETRY Interchangeable
INVARIANTS TypeOK EmptyForAReason TornOnlyByOverlap
