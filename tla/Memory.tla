------------------------------- MODULE Memory -------------------------------
(***************************************************************************)
(* Byte-level memory, bus routing and the core's load, store and address  *)
(* instructions (src/unnamed/part_013 memory.c, src/src/bus/bus.c,         *)
(* src/src/core/core.h formats 7 to 13).                                   *)
(*                                                                         *)
(* Flash and SRAM are the byte arrays of memory.c, of FlashSize and       *)
(* SramSize bytes; the region table is the one simulator_init registers    *)
(* (Flash alias at 0, Flash at FLASH_BASE, SRAM at SRAM_BASE).  The        *)
(* peripherals behind TIM2 and USART1 are left to Machine: no address an  *)
(* instruction here forms reaches them.                                    *)
(*                                                                         *)
(* Registers.  r0 is the data register every load writes and every store  *)
(* reads; r1 is the base register Rn (written by ADR and ADD Rd, SP);     *)
(* r2 the offset register Rm; SP the stack pointer.  Words are 32-bit      *)
(* unsigned integers.  TLC's integers stop at 2^31 - 1, so a data word,   *)
(* which a sign extension fills up to bit 31, is the pair of its 16-bit   *)
(* halves [lo, hi]; an address stays an integer, and every address the    *)
(* instructions here form is below 2^31, so the uint32_t wrap of an       *)
(* address sum is never reached.                                           *)
(***************************************************************************)
EXTENDS Integers, Sequences, Bitwise

CONSTANTS
    FlashSize,     \* FLASH_SIZE in bytes (64 KiB in the code)
    SramSize,      \* SRAM_SIZE in bytes (20 KiB in the code)
    FlashImage,    \* the loaded binary: [0 .. FlashSize - 1 -> byte]
    Data0,         \* initial values of r0
    Bases,         \* initial values of r1
    Offsets,       \* values of r2
    SpWindow,      \* the values SP may take (bounds ADD/SUB SP)
    Imm5s,         \* imm5 fields of formats 9 and 10
    Imm8s,         \* imm8 fields of formats 11 and 12
    Imm7s,         \* imm7 fields of format 13
    PcValues       \* addresses ADR executes at

FLASH_BASE == 134217728    \* 0x08000000
SRAM_BASE  == 536870912    \* 0x20000000
BUS_MAX_REGIONS == 16

SP == 13
RegIdx == {0, 1, 2, SP}

(* A 32-bit word as its low and high halfwords. *)
Word == [lo: 0 .. 65535, hi: 0 .. 65535]
Wd(lo, hi) == [lo |-> lo, hi |-> hi]

-----------------------------------------------------------------------------
(***************************************************************************)
(* memory.c                                                                *)
(***************************************************************************)

(* read_le: the bytes from offset, least significant first, or'ed into   *)
(* place (bytes 2 and 3, shifted by 16 and 24, land in the high half).    *)
ReadLE(base, offset, size) ==
    CASE size = 1 -> Wd(base[offset], 0)
      [] size = 2 -> Wd(base[offset] | (base[offset + 1] * 2^8), 0)
      [] size = 4 -> Wd(base[offset] | (base[offset + 1] * 2^8),
                        base[offset + 2] | (base[offset + 3] * 2^8))
      [] OTHER    -> Wd(0, 0)

(* write_le: byte k is (uint8_t)(value >> 8k). *)
WriteLE(base, offset, value, size) ==
    CASE size = 1 -> [base EXCEPT ![offset] = value.lo % 256]
      [] size = 2 -> [base EXCEPT ![offset] = value.lo % 256,
                                  ![offset + 1] = (value.lo \div 2^8) % 256]
      [] size = 4 -> [base EXCEPT ![offset] = value.lo % 256,
                                  ![offset + 1] = (value.lo \div 2^8) % 256,
                                  ![offset + 2] = value.hi % 256,
                                  ![offset + 3] = (value.hi \div 2^8) % 256]
      [] OTHER    -> base

MemoryFlashRead(offset, size) ==
    IF offset + size > FlashSize THEN Wd(0, 0) ELSE ReadLE(FlashImage, offset, size)

(* Mutation: the bound test is >= instead of >. *)
MemorySramReadOffByOne(sram, offset, size) ==
    IF offset + size >= SramSize THEN Wd(0, 0) ELSE ReadLE(sram, offset, size)

(* memory_sram_read: an access past the end reads 0, silently. *)
MemorySramRead(sram, offset, size) ==
    IF offset + size > SramSize THEN Wd(0, 0) ELSE ReadLE(sram, offset, size)

(* memory_sram_write: an access past the end is refused whole. *)
MemorySramWrite(sram, offset, value, size) ==
    IF offset + size > SramSize
    THEN [sram |-> sram, status |-> "INVALID_ADDRESS"]
    ELSE [sram |-> WriteLE(sram, offset, value, size), status |-> "OK"]

(* memory_flash_write refuses every write. *)
MemoryFlashWrite(sram) == [sram |-> sram, status |-> "ERROR"]

-----------------------------------------------------------------------------
(***************************************************************************)
(* bus.c, with the regions simulator_init registers                        *)
(***************************************************************************)

(* bus_register_region: appended in order; the 17th is refused. *)
BusRegisterRegion(bus, base, size, dev) ==
    IF Len(bus) >= BUS_MAX_REGIONS THEN bus
    ELSE Append(bus, [base |-> base, size |-> size, dev |-> dev])

Regions ==
    BusRegisterRegion(BusRegisterRegion(BusRegisterRegion(<<>>,
        0, FlashSize, "flash"), FLASH_BASE, FlashSize, "flash"), SRAM_BASE, SramSize, "sram")

(* find_region: the first region with base <= addr < base + size, the    *)
(* 0 when none.                                                            *)
Contains(r, addr) == addr >= r.base /\ addr < r.base + r.size

FindRegion(addr) ==
    LET hits == {k \in 1 .. Len(Regions) : Contains(Regions[k], addr)}
    IN  IF hits = {} THEN 0 ELSE CHOOSE k \in hits : \A j \in hits : k <= j

(* bus_read: the region's read at the offset from its base; unmapped     *)
(* reads 0.                                                                *)
BusRead(sram, addr, size) ==
    LET k == FindRegion(addr)
    IN  IF k = 0 THEN Wd(0, 0)
        ELSE IF Regions[k].dev = "flash"
             THEN MemoryFlashRead(addr - Regions[k].base, size)
             ELSE MemorySramRead(sram, addr - Regions[k].base, size)

(* bus_write: the region's write; unmapped is INVALID_ADDRESS. *)
BusWrite(sram, addr, value, size) ==
    LET k == FindRegion(addr)
    IN  IF k = 0 THEN [sram |-> sram, status |-> "INVALID_ADDRESS"]
        ELSE IF Regions[k].dev = "flash"
             THEN MemoryFlashWrite(sram)
             ELSE MemorySramWrite(sram, addr - Regions[k].base, value, size)

-----------------------------------------------------------------------------
(***************************************************************************)
(* The core's load, store and address instructions (core.h formats 7-13). *)
(* bus_write's Status is dropped by every store, as in the code.          *)
(***************************************************************************)
VARIABLES
    r,       \* the registers of RegIdx
    sram,    \* Memory.sram, by offset
    acc      \* history: the last access, [kind, addr, size, signed]

vars == <<r, sram, acc>>

NoAccess == [kind |-> "none", addr |-> 0, size |-> 0, signed |-> FALSE]

(* memory_init clears both arrays; core_reset loads SP from the vector *)
(* table, here any value of SpWindow.                                    *)
Init ==
    /\ \E d \in Data0, b \in Bases, o \in Offsets, sp \in SpWindow :
          r = [j \in RegIdx |-> CASE j = 0 -> d [] j = 1 -> b [] j = 2 -> o [] j = SP -> sp]
    /\ sram = [o \in 0 .. SramSize - 1 |-> 0]
    /\ acc = NoAccess

(* (uint32_t)(int32_t)(int8_t)b and (int16_t)h: the sign fills bits 8 or *)
(* 16 to 31.                                                              *)
Sext8(b)  == IF b >= 128 THEN Wd(b + 65280, 65535) ELSE Wd(b, 0)
Sext16(h) == IF h >= 32768 THEN Wd(h, 65535) ELSE Wd(h, 0)

Loaded(addr, size, signed, v) ==
    /\ r' = [r EXCEPT ![0] = v]
    /\ acc' = [kind |-> "load", addr |-> addr, size |-> size, signed |-> signed]
    /\ UNCHANGED sram

Stored(addr, v, size) ==
    /\ sram' = BusWrite(sram, addr, v, size).sram
    /\ acc' = [kind |-> "store", addr |-> addr, size |-> size, signed |-> FALSE]
    /\ UNCHANGED r

(* Format 7/8: address R(rn) + R(rm). *)
RegAddr == r[1] + r[2]

StrReg   == Stored(RegAddr, r[0], 4)
StrhReg  == Stored(RegAddr, Wd(r[0].lo, 0), 2)        \* R(rd) & 0xFFFF
StrbReg  == Stored(RegAddr, Wd(r[0].lo % 2^8, 0), 1)   \* R(rd) & 0xFF
LdrReg   == Loaded(RegAddr, 4, FALSE, BusRead(sram, RegAddr, 4))
LdrhReg  == Loaded(RegAddr, 2, FALSE, BusRead(sram, RegAddr, 2))
LdrbReg  == Loaded(RegAddr, 1, FALSE, BusRead(sram, RegAddr, 1))
LdrsbReg == Loaded(RegAddr, 1, TRUE, Sext8(BusRead(sram, RegAddr, 1).lo % 2^8))
LdrshReg == Loaded(RegAddr, 2, TRUE, Sext16(BusRead(sram, RegAddr, 2).lo))

(* Formats 9 and 10: address R(rn) + (imm5 << 2), + imm5, + (imm5 << 1). *)
StrImm(i)  == Stored(r[1] + i * 4, r[0], 4)
LdrImm(i)  == Loaded(r[1] + i * 4, 4, FALSE, BusRead(sram, r[1] + i * 4, 4))
StrbImm(i) == Stored(r[1] + i, Wd(r[0].lo % 2^8, 0), 1)
LdrbImm(i) == Loaded(r[1] + i, 1, FALSE, BusRead(sram, r[1] + i, 1))
StrhImm(i) == Stored(r[1] + i * 2, Wd(r[0].lo, 0), 2)
LdrhImm(i) == Loaded(r[1] + i * 2, 2, FALSE, BusRead(sram, r[1] + i * 2, 2))

(* Format 11: address SP + (imm8 << 2). *)
StrSp(i) == Stored(r[SP] + i * 4, r[0], 4)
LdrSp(i) == Loaded(r[SP] + i * 4, 4, FALSE, BusRead(sram, r[SP] + i * 4, 4))

(* Format 12: ADR is ((PC + 4) & ~3) + (imm8 << 2); ADD Rd, SP, imm8. *)
Adr(pc, i) ==
    LET base == pc + 4
    IN  /\ r' = [r EXCEPT ![1] = (base - (base % 4)) + i * 4]
        /\ UNCHANGED <<sram, acc>>

AddSpImmRd(i) == r' = [r EXCEPT ![1] = r[SP] + i * 4] /\ UNCHANGED <<sram, acc>>

(* Format 13: SP -= imm7 << 2 when bit 7 is set, else SP += imm7 << 2. *)
AdjustSp(i, sub) ==
    LET sp == IF sub THEN r[SP] - i * 4 ELSE r[SP] + i * 4
    IN  /\ sp \in SpWindow
        /\ r' = [r EXCEPT ![SP] = sp]
        /\ UNCHANGED <<sram, acc>>

Next ==
    \/ StrReg \/ StrhReg \/ StrbReg \/ LdrReg \/ LdrhReg \/ LdrbReg \/ LdrsbReg \/ LdrshReg
    \/ \E i \in Imm5s : StrImm(i) \/ LdrImm(i) \/ StrbImm(i) \/ LdrbImm(i)
                        \/ StrhImm(i) \/ LdrhImm(i)
    \/ \E i \in Imm8s : StrSp(i) \/ LdrSp(i) \/ AddSpImmRd(i) \/ \E pc \in PcValues : Adr(pc, i)
    \/ \E i \in Imm7s, sub \in BOOLEAN : AdjustSp(i, sub)

Spec == Init /\ [][Next]_vars

-----------------------------------------------------------------------------
(* Every load and store the core makes behaves as ByteBus says: a store   *)
(* inside SRAM sets exactly its bytes, little-endian, and any other store *)
(* (past SRAM's end, into Flash, to an unmapped address) changes         *)
(* nothing; a load inside one memory returns its bytes, zero- or sign-    *)
(* extended, and any other load returns 0.  It is about read_le/write_le, *)
(* the offset + size checks of memory.c, find_region's first match, and   *)
(* the masks and casts of the STRB/STRH/LDRSB/LDRSH handlers, over        *)
(* interleavings of overlapping accesses of different sizes.              *)
Bytes(w) == [k \in 0 .. 3 |-> CASE k = 0 -> w.lo % 256 [] k = 1 -> w.lo \div 256
                                [] k = 2 -> w.hi % 256 [] k = 3 -> w.hi \div 256]

Abstract == INSTANCE ByteBus WITH mem <- [a \in SRAM_BASE .. SRAM_BASE + SramSize - 1 |->
                                             sram[a - SRAM_BASE]],
                                   r0 <- Bytes(r[0]), Data0 <- {Bytes(w) : w \in Data0}

ImplementsByteBus == Abstract!Spec

=============================================================================
