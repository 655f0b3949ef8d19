SPECIFICATION FairSpec
CONSTANTS
  Threads = {t1, t2}
  Entities = {e1}
  MaxId = 2
  LargeIds = {9}
  s = s
  l = l
  Values = {s, empty}
  Empty = empty
  LongValues = {}
  Inodes = {i1, i2, i3}
  None = None
  Requests <- AtomicRequests
  Disciplined = TRUE
  Signals = FALSE
PROPERTIES ImplementsCrudStore Answered PostNeverOverwrites
