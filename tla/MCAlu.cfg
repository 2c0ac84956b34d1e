\* 4-bit words: shift amounts 0..15 reach below, at and above the width.
CONSTANTS
    AluBits = 4
    BranchPc = 256
    Regs <- MCRegs
    BranchOffsets <- MCBranchOffsets

SPECIFICATION Spec

INVARIANTS
    AddWithCarryAgrees
    ShiftsAgree
    CompareSelectsBranch
