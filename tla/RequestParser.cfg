SPECIFICATION Spec
CONSTANT Inputs <- TestedInputs
INVARIANTS GoodIffRequest BadIffHopeless HasHeader RequestKept
CHECK_DEADLOCK FALSE
