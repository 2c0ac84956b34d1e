\* Every halfword; seven second halves after a 32-bit first half.
\* A behaviour is one fetch and dispatch, so it ends after one step.
CONSTANTS
    Second <- MCSecond

SPECIFICATION Spec

INVARIANT RequiredDispatched
CHECK_DEADLOCK FALSE
