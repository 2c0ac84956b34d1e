CONSTANTS
    FlashSize = 8
    SramSize = 4
    FlashImage <- MCFlashImage
    Data0 <- MCData0
    Bases <- MCBases
    Offsets <- MCOffsets
    SpWindow <- MCSpWindow
    Imm5s = {0, 1}
    Imm8s = {0, 1}
    Imm7s = {1}
    PcValues <- MCPcValues

SPECIFICATION Spec

PROPERTY ImplementsByteBus

VIEW MCView
