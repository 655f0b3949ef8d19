SPECIFICATION Spec
CONSTANTS
  Requests <- Posts
  Texts <- OneBody
  MaxLength = 14
  Memories <- MemoryZero
  MaxReads = 3
  Deep <- Shallow
INVARIANT BodyStored
CHECK_DEADLOCK FALSE
