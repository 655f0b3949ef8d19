SPECIFICATION FairSpec
CONSTANTS
  Threads = {t1, t2}
  Targets = {sample, readonly, unreadable, missing, picture}
  Documents = {sample, readonly, unreadable, missing}
  Existing = {sample, readonly, unreadable}
  Readable = {sample, readonly}
  Writable = {sample}
  Lines = 1
  Inodes = {i1, i2, i3}
  None = None
  Signals = TRUE
INVARIANTS TypeOK WholeWhenAlone NoLeftovers LeftoversNotServed
PROPERTY Answered
