SPECIFICATION Spec
CONSTANTS
  Threads = {t1, t2}
  Sessions = {s1, s2, s3, s4}
  Nobody = Nobody
  Scripts <- AnyScripts
  MaxReplies = 3
  MaxOpen = 2
  MaxClients = 3
SYMMETRY Interchangeable
INVARIANTS TypeOK OneHolder OneListener RepliesBounded
CHECK_DEADLOCK FALSE
