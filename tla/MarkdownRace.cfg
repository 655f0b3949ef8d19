SPECIFICATION FairSpec
CONSTANTS
  Threads = {t1, t2}
  Targets = {sample}
  Documents = {sample}
  Existing = {sample}
  Readable = {sample}
  Writable = {sample}
  Lines = 2
  Inodes = {i1, i2, i3}
  None = None
  Signals = FALSE
INVARIANT AlwaysRendered
