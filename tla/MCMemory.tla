------------------------------ MODULE MCMemory ------------------------------
(* Model-checking instance of Memory: an 8-byte Flash and a 4-byte SRAM, *)
(* so that every size fits at SRAM offset 0 and straddles the end from   *)
(* offsets 1 to 3.  r1 starts one byte below SRAM and r2 is 1 or 2; the *)
(* immediate forms reach SRAM offsets 0 to 3 and the byte below it;      *)
(* ADR (run in the Flash alias and in Flash) and ADD Rd, SP move r1 into *)
(* Flash and SRAM.  The bytes of r0 and of the image are 0x00, 0x80 and  *)
(* 0xFF: LDRSB and LDRSH see the least negative and the most negative    *)
(* sign-bit patterns next to zero.                                       *)
EXTENDS Memory

MCFlashImage == [k \in 0 .. 7 |-> <<128, 255, 0, 128, 0, 128, 255, 0>>[k + 1]]
MCData0      == {Wd(128, 65408)}                     \* 0xFF800080
MCBases      == {SRAM_BASE - 1}
MCOffsets    == {1, 2}
MCSpWindow   == {SRAM_BASE, SRAM_BASE + 4}
MCPcValues   == {0, FLASH_BASE}

(* States that differ only in the access history acc are the same state  *)
(* of the program: no action reads acc, only sets it.                    *)
MCView == <<r, sram>>
=============================================================================
