SPECIFICATION FairSpec
CONSTANTS
  Threads = {t1, t2}
  Sessions = {s1, s2, s3}
  Nobody = Nobody
  Scripts <- AnyScripts
  MaxReplies = 1
  MaxOpen = 1
  MaxClients = 1
PROPERTIES Released KeepsListening
CHECK_DEADLOCK FALSE
