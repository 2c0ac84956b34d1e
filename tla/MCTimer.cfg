CONSTANTS
    WordBits = 3
    WriteValues <- MCWriteValues

SPECIFICATION Spec

INVARIANT TimerTypeOK
INVARIANT OverflowPeriod
PROPERTY UpdateEventRecurs
