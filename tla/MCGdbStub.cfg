CONSTANTS
    b1 = b1
    b2 = b2
    b3 = b3
    pcOther = pcOther
    Other <- pcOther
    BpAddrs <- MCBpAddrs
    MaxBreakpoints = 2
    MaxCorrupt = 1
    CorruptStreams = {"toStub", "toGdb"}

SPECIFICATION Spec

INVARIANT RspTypeOK
INVARIANT NoUnsolicitedReply
PROPERTY RequestAnsweredIntact
PROPERTY ImplementsBreakpointSet

\* A corrupted stop reply of 'c' is lost for good: GDB waits for a stop
\* reply without a timeout, and the stub waits for the next command.
CHECK_DEADLOCK FALSE
