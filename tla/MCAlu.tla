------------------------------- MODULE MCAlu --------------------------------
(* Two low registers, so that every handler is checked with its operand   *)
(* registers distinct and aliased; branch offsets at zero, one, the       *)
(* largest forward and the largest backward 8-bit displacement, and -1.   *)
EXTENDS Alu

MCRegs          == {0, 1}
MCBranchOffsets == {0, 1, 127, 128, 255}
=============================================================================
