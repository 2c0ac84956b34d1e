------------------------------- MODULE ByteBus -------------------------------
(***************************************************************************)
(* What the memory system promises the core (spec sections 4.1 and 4.2):  *)
(* a byte-addressed, little-endian address space in which Flash appears   *)
(* at 0 and at FLASH_BASE and SRAM at SRAM_BASE.  A load of 1, 2 or 4     *)
(* bytes lying wholly inside one memory returns their value, zero- or     *)
(* sign-extended to 32 bits, and any other load returns 0; a store lying  *)
(* wholly inside SRAM sets exactly its bytes to the low bytes of the      *)
(* register, and any other store changes nothing.                         *)
(*                                                                         *)
(* acc is the access the core made: its kind, address, size and whether  *)
(* the load is signed.  The core's data register r0 is its four bytes,    *)
(* least significant first.                                               *)
(***************************************************************************)
EXTENDS Integers

CONSTANTS FlashSize, SramSize, FlashImage, Data0

FLASH_BASE == 134217728    \* 0x08000000
SRAM_BASE  == 536870912    \* 0x20000000

SramBytes == SRAM_BASE .. SRAM_BASE + SramSize - 1

VARIABLES mem, r0, acc

NoAccess == [kind |-> "none", addr |-> 0, size |-> 0, signed |-> FALSE]

Init == mem = [a \in SramBytes |-> 0] /\ r0 \in Data0 /\ acc = NoAccess

(* The s bytes from a lie inside the memory at [base, base + size). *)
Within(a, s, base, size) == a >= base /\ a + s <= base + size

Readable(a, s) ==
    \/ Within(a, s, 0, FlashSize)
    \/ Within(a, s, FLASH_BASE, FlashSize)
    \/ Within(a, s, SRAM_BASE, SramSize)

ByteAt(a) ==
    CASE a \in SramBytes -> mem[a]
      [] a < FlashSize   -> FlashImage[a]
      [] OTHER           -> FlashImage[a - FLASH_BASE]

(* The register after a load of the s bytes from a: those bytes, least   *)
(* significant first, then copies of the sign bit (signed) or zeros.       *)
Fill(a, s, signed) == IF signed /\ ByteAt(a + s - 1) >= 128 THEN 255 ELSE 0

LoadedBytes(a, s, signed) ==
    [k \in 0 .. 3 |-> IF k < s THEN ByteAt(a + k) ELSE Fill(a, s, signed)]

Load ==
    /\ acc'.kind = "load"
    /\ r0' = IF Readable(acc'.addr, acc'.size)
             THEN LoadedBytes(acc'.addr, acc'.size, acc'.signed)
             ELSE [k \in 0 .. 3 |-> 0]
    /\ mem' = mem

Store ==
    /\ acc'.kind = "store"
    /\ mem' = IF Within(acc'.addr, acc'.size, SRAM_BASE, SramSize)
              THEN [a \in SramBytes |->
                      IF a - acc'.addr \in 0 .. acc'.size - 1
                      THEN r0[a - acc'.addr] ELSE mem[a]]
              ELSE mem
    /\ r0' = r0

Next == Load \/ Store

Spec == Init /\ [][Next]_<<mem, r0, acc>>

=============================================================================
