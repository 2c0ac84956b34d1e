CONSTANTS
    c1 = c1
    EXC_RETURN = EXC_RETURN
    EXC_RETURN_THREAD_MSP <- EXC_RETURN
    Flash <- MCFlash
    SramSize <- MCSramSize
    Irqs <- MCIrqs
    WordBits = 3
    RxBufferSize = 2
    Chars <- MCChars
    MaxBreakpoints = 2
    BreakAddrs <- MCBreakAddrs
    EnabledIrqs <- MCIrqs
    IrqPriority <- EqualPriority

SPECIFICATION Spec

INVARIANT SimTypeOK
INVARIANT ActiveIsNested
PROPERTY FrameRoundTrip
PROPERTY PendingIrqTaken
