CONSTANTS
    a = a
    b = b
    RxBufferSize = 3
    Chars <- MCChars
    TxPolling = TRUE
    SrWriteValues <- MCSrWriteValues
    Cr1WriteValues <- MCCr1WriteValues

SPECIFICATION Spec
CONSTRAINT OutBound

INVARIANT UartTypeOK
INVARIANT RxneMeansData
PROPERTY ImplementsUartFifo
