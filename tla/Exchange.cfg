SPECIFICATION Spec
CONSTANTS
  Requests <- Asked
  Texts <- TestedTexts
  MaxLength = 14
  Memories <- AnyMemory
  MaxReads = 3
  Deep = {TRUE, FALSE}
INVARIANTS HandlerRuns EchoIsReceived BodyKept SubstrInRange
CHECK_DEADLOCK FALSE
