SPECIFICATION Spec
CONSTANT Texts <- TestedTexts
INVARIANTS AcceptedIffConfig DerailsOnlyOnBraces NothingLost HasWords SoundIsRead PortAsWritten
CHECK_DEADLOCK FALSE
