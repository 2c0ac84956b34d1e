CONSTANTS
    b1 = b1
    b2 = b2
    b3 = b3
    pcOther = pcOther
    Other <- pcOther
    BpAddrs <- MCBpAddrs
    MaxBreakpoints = 1
    MaxCorrupt = 1
    \* Only commands are corrupted, so the counter-example is the NACK of
    \* rsp_recv_packet followed by the close of the session.
    CorruptStreams = {"toStub"}

SPECIFICATION Spec

PROPERTY RequestAnswered

\* A closed session ends the behaviour: the stub no longer reads, and GDB
\* has given the connection up.
CHECK_DEADLOCK FALSE
