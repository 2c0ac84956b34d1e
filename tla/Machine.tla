------------------------------- MODULE Machine ------------------------------
(***************************************************************************)
(* Memory, bus and Cortex-M3 core of the emulator, as operators over the  *)
(* machine record                                                          *)
(*   [core, sram, nvic, tim, uart]                                         *)
(* (src/unnamed/part_013 memory.c, src/src/bus/bus.c, src/src/core/core.h *)
(* core.c).  The bus routes an access to the first registered region that *)
(* contains it, in simulator_init's registration order: Flash alias at 0, *)
(* Flash at 0x08000000, SRAM at 0x20000000, TIM2, USART1.                 *)
(*                                                                         *)
(* Abstractions.                                                           *)
(*  - Flash is the constant Flash: a function from Flash offsets to the   *)
(*    decoded instruction at that halfword, or to a [op |-> "WORD"]      *)
(*    literal.  Decoding (the mask/pattern table) is assumed done: an      *)
(*    instruction is a record naming its handler and operands.            *)
(*  - SRAM is word-addressed over its first SramSize bytes; every access  *)
(*    the modelled instructions make is a 4-byte aligned word.            *)
(*  - A register or memory word holds a small integer, an address, or the *)
(*    model value EXC_RETURN_THREAD_MSP (0xFFFFFFF9, beyond TLC's         *)
(*    integers); IS_EXC_RETURN holds exactly for that value.              *)
(*  - xPSR holds the NZCV nibble (bits 31..28, N = 8, Z = 4, C = 2,       *)
(*    V = 1); the other bits are never written by the code.               *)
(*  - The cycle counter is left out: nothing reads it.                    *)
(***************************************************************************)
EXTENDS Naturals, Sequences, SequencesExt

CONSTANTS
    Flash,                  \* flash contents: offset -> instruction or literal
    SramSize,               \* SRAM_SIZE in bytes (20 KiB in the code)
    Irqs,                   \* modelled NVIC lines, containing TIM2 and USART1
    WordBits,               \* TIM2 register width (see Timer)
    RxBufferSize,           \* UART_RX_BUFFER_SIZE (see Uart)
    Chars,                  \* bytes the host sends to USART1
    EXC_RETURN_THREAD_MSP   \* model value for 0xFFFFFFF9

N == INSTANCE Nvic WITH Prios <- {0}, ReprioritiseActive <- FALSE,
                        nvic <- 0, nest <- <<>>
T == INSTANCE Timer WITH WriteValues <- {0},
                         tim <- 0, irqPending <- FALSE, sinceWrap <- 0, aligned <- TRUE
U == INSTANCE Uart WITH TxPolling <- TRUE, SrWriteValues <- {}, Cr1WriteValues <- {},
                        uart <- 0, irqPending <- FALSE, out <- <<>>

FLASH_BASE  == 134217728    \* 0x08000000
FLASH_SIZE  == 65536        \* 64 KiB
SRAM_BASE   == 536870912    \* 0x20000000
TIM2_BASE   == 1073741824   \* 0x40000000
TIM2_SIZE   == 1024
USART1_BASE == 1073821696   \* 0x40013800
USART1_SIZE == 1024
TIM2_IRQ    == 28
USART1_IRQ  == 37

SP == 13
LR == 14
PC == 15

IS_EXC_RETURN(v) == v = EXC_RETURN_THREAD_MSP

(* Bit 0 of an address: the Thumb bit, cleared on every write to PC. *)
ClearBit0(a) == a - (a % 2)
SetBit0(a)   == IF a % 2 = 0 THEN a + 1 ELSE a

SramAddrs == {SRAM_BASE + 4 * k : k \in 0 .. (SramSize \div 4 - 1)}

-----------------------------------------------------------------------------
(***************************************************************************)
(* Memory (memory.c) and the bus (bus.c).                                 *)
(***************************************************************************)

(* memory_flash_read of a word: a literal's value, 0 for anything else or *)
(* past the end of Flash.                                                  *)
FlashRead(off) ==
    IF off \in DOMAIN Flash /\ Flash[off].op = "WORD" THEN Flash[off].val ELSE 0

(* memory_reset clears SRAM (Flash is kept). *)
MemoryReset == [a \in SramAddrs |-> 0]

InRegion(addr, base, size) == addr >= base /\ addr < base + size

(* The offset + size <= SRAM_SIZE check of memory_sram_read and write.   *)
SramFits(addr) == addr - SRAM_BASE + 4 <= SramSize

(* bus_read of a 4-byte word: the first region containing addr, or 0 for *)
(* an unmapped address.  A read of USART1 DR changes the UART, so the     *)
(* result carries the machine after the access.                           *)
BusRead(m, addr) ==
    CASE InRegion(addr, 0, FLASH_SIZE) ->
             [m |-> m, val |-> FlashRead(addr)]
      [] InRegion(addr, FLASH_BASE, FLASH_SIZE) ->
             [m |-> m, val |-> FlashRead(addr - FLASH_BASE)]
      [] InRegion(addr, SRAM_BASE, SramSize) ->
             [m |-> m, val |-> IF SramFits(addr) THEN m.sram[addr] ELSE 0]
      [] InRegion(addr, TIM2_BASE, TIM2_SIZE) ->
             [m |-> m, val |-> T!TimerRead(m.tim, addr - TIM2_BASE)]
      [] InRegion(addr, USART1_BASE, USART1_SIZE) ->
             LET r == U!UartRead(m.uart, addr - USART1_BASE)
             IN  [m |-> [m EXCEPT !.uart = r.uart], val |-> r.data]
      [] OTHER -> [m |-> m, val |-> 0]

(* bus_write of a 4-byte word, returning the callee's Status: Flash       *)
(* refuses every write, SRAM refuses a word past its end, an unmapped      *)
(* address is INVALID_ADDRESS.                                             *)
BusWrite(m, addr, v) ==
    CASE InRegion(addr, 0, FLASH_SIZE) \/ InRegion(addr, FLASH_BASE, FLASH_SIZE) ->
             [m |-> m, status |-> "ERROR"]
      [] InRegion(addr, SRAM_BASE, SramSize) ->
             IF SramFits(addr)
             THEN [m |-> [m EXCEPT !.sram[addr] = v], status |-> "OK"]
             ELSE [m |-> m, status |-> "INVALID_ADDRESS"]
      [] InRegion(addr, TIM2_BASE, TIM2_SIZE) ->
             LET r == T!TimerWrite(m.tim, addr - TIM2_BASE, v)
             IN  [m |-> [m EXCEPT !.tim = r.tim], status |-> r.status]
      [] InRegion(addr, USART1_BASE, USART1_SIZE) ->
             LET r == U!UartWrite(m.uart, addr - USART1_BASE, v)
             IN  [m |-> [m EXCEPT !.uart = r.uart], status |-> r.status]
      [] OTHER -> [m |-> m, status |-> "INVALID_ADDRESS"]

(* Every caller in core.c drops the Status of bus_write. *)
Store(m, addr, v) == BusWrite(m, addr, v).m

-----------------------------------------------------------------------------
(***************************************************************************)
(* The core (core.c).                                                     *)
(***************************************************************************)

R(m, i) == m.core.r[i]
SetR(m, i, v) == [m EXCEPT !.core.r[i] = v]

(* A load the core makes through the bus, keeping the bus side effect. *)
Load(m, addr) == BusRead(m, addr).val

(* Consecutive words written, or read, from addr upwards. *)
RECURSIVE StoreWords(_, _, _)
StoreWords(m, addr, vals) ==
    IF vals = <<>> THEN m
    ELSE StoreWords(Store(m, addr, Head(vals)), addr + 4, Tail(vals))

LoadWords(m, addr, n) == [k \in 1 .. n |-> Load(m, addr + 4 * (k - 1))]

(* update_nz on the NZCV nibble: Z from the result, C and V kept.  N is   *)
(* bit 31 of the result, which no value of this model sets.               *)
UpdateNZ(x, v) == (x % 4) + (IF v = 0 THEN 4 ELSE 0)

(* The exception frame in stacking order: R0-R3, R12, LR, PC, xPSR. *)
FrameOf(m) ==
    <<R(m, 0), R(m, 1), R(m, 2), R(m, 3), R(m, 12), R(m, LR), R(m, PC), m.core.xpsr>>

Ctx(m) == [frame |-> FrameOf(m), sp |-> R(m, SP)]

(* enter_exception: stack the frame (bus_write results ignored), set LR  *)
(* to EXC_RETURN, jump to the vector, acknowledge the IRQ and record it.  *)
Acknowledged(m, irq) ==
    [m EXCEPT !.nvic = N!NvicAcknowledge(m.nvic, irq), !.core.current_irq = irq + 1]

VectorTo(m, irq) == Acknowledged(SetR(m, PC, ClearBit0(Load(m, (16 + irq) * 4))), irq)

EnterException(m, irq) ==
    LET sp == R(m, SP) - 32
    IN  VectorTo(SetR(StoreWords(SetR(m, SP, sp), sp, FrameOf(m)), LR, EXC_RETURN_THREAD_MSP),
                 irq)

(* exit_exception: unstack the eight words at SP, SP += 32, complete the *)
(* IRQ recorded in current_irq if any, and clear current_irq.             *)
(* Mutation: exit_exception does not call nvic_complete. *)
UnstackedNoComplete(m, w) ==
    [m EXCEPT !.core.r = [@ EXCEPT ![0] = w[1], ![1] = w[2], ![2] = w[3], ![3] = w[4],
                                   ![12] = w[5], ![LR] = w[6], ![PC] = w[7],
                                   ![SP] = R(m, SP) + 32],
              !.core.xpsr = w[8], !.core.current_irq = 0]

(* Mutation: SP advances by 28, a frame without xPSR. *)
UnstackedShortFrame(m, w) ==
    LET m1 == [m EXCEPT !.core.r = [@ EXCEPT ![0] = w[1], ![1] = w[2], ![2] = w[3],
                                             ![3] = w[4], ![12] = w[5], ![LR] = w[6],
                                             ![PC] = w[7], ![SP] = R(m, SP) + 28],
                        !.core.xpsr = w[8]]
        m2 == IF m.core.current_irq > 0
              THEN [m1 EXCEPT !.nvic = N!NvicComplete(m1.nvic, m.core.current_irq - 1)]
              ELSE m1
    IN  [m2 EXCEPT !.core.current_irq = 0]

(* The registers restored from the unstacked words w. *)
Unstacked(m, w) ==
    LET f  == R(m, SP)
        m1 == [m EXCEPT !.core.r = [@ EXCEPT ![0] = w[1], ![1] = w[2], ![2] = w[3],
                                             ![3] = w[4], ![12] = w[5], ![LR] = w[6],
                                             ![PC] = w[7], ![SP] = f + 32],
                        !.core.xpsr = w[8]]
        m2 == IF m.core.current_irq > 0
              THEN [m1 EXCEPT !.nvic = N!NvicComplete(m1.nvic, m.core.current_irq - 1)]
              ELSE m1
    IN  [m2 EXCEPT !.core.current_irq = 0]

ExitException(m) == Unstacked(m, LoadWords(m, R(m, SP), 8))

(* A handler's outcome: the machine, its Status, whether it wrote PC     *)
(* (pc_written), and whether it returned from an exception.               *)
Done(m, pcw)   == [m |-> m, status |-> "OK", pcw |-> pcw, exited |-> FALSE]
Returned(m)    == [m |-> ExitException(m), status |-> "OK", pcw |-> TRUE, exited |-> TRUE]

ExecMovImm(m, i) == Done([SetR(m, i.rd, i.imm) EXCEPT !.core.xpsr = UpdateNZ(@, i.imm)], FALSE)

(* A load's result r written to Rd. *)
Loaded(r, rd) == Done(SetR(r.m, rd, r.val), FALSE)

ExecLdrPc(m, i) ==
    LET base == (R(m, PC) + 4) - ((R(m, PC) + 4) % 4)
    IN  Loaded(BusRead(m, base + 4 * i.imm8), i.rd)

ExecStrImm(m, i) == Done(Store(m, R(m, i.rn) + 4 * i.imm5, R(m, i.rd)), FALSE)

ExecLdrImm(m, i) == Loaded(BusRead(m, R(m, i.rn) + 4 * i.imm5), i.rd)

ExecB(m, i) == Done(SetR(m, PC, R(m, PC) + 4 + i.off), TRUE)

ExecBx(m, i) ==
    IF IS_EXC_RETURN(R(m, i.rm)) THEN Returned(m)
    ELSE Done(SetR(m, PC, ClearBit0(R(m, i.rm))), TRUE)

(* Mutation: BL returns to PC + 2, as if it were a 16-bit instruction. *)
ExecBlShort(m, i) ==
    Done(SetR(SetR(m, LR, SetBit0(R(m, PC) + 2)), PC, R(m, PC) + 4 + i.off), TRUE)

(* The BL branch of execute_32bit. *)
ExecBl(m, i) ==
    Done(SetR(SetR(m, LR, SetBit0(R(m, PC) + 4)), PC, R(m, PC) + 4 + i.off), TRUE)

(* PUSH {regs, LR?}: SP drops first, then the registers in ascending      *)
(* order and LR are written upwards from the new SP.                      *)
ExecPush(m, i) ==
    LET vals == [k \in 1 .. Cardinality(i.regs) |-> R(m, SetToSortSeq(i.regs, <)[k])]
                \o (IF i.lr THEN <<R(m, LR)>> ELSE <<>>)
        sp   == R(m, SP) - 4 * Len(vals)
    IN  Done(StoreWords(SetR(m, SP, sp), sp, vals), FALSE)

(* POP {regs, PC?}: an EXC_RETURN value popped into PC sets SP past it   *)
(* and returns from the exception.                                        *)
PopRegs(m, rl, w) ==
    [m EXCEPT !.core.r = [j \in DOMAIN @ |->
                 IF \E k \in DOMAIN rl : rl[k] = j
                 THEN w[CHOOSE k \in DOMAIN rl : rl[k] = j] ELSE @[j]]]

(* After the registers: PC from the word at addr, if the list has it. *)
PopPc(m, i, addr, val) ==
    CASE ~i.pc               -> Done(SetR(m, SP, addr), FALSE)
      [] IS_EXC_RETURN(val)  -> Returned(SetR(m, SP, addr + 4))
      [] OTHER               -> Done(SetR(SetR(m, PC, ClearBit0(val)), SP, addr + 4), TRUE)

PopWith(m, i, rl) ==
    LET addr == R(m, SP) + 4 * Len(rl)
    IN  PopPc(PopRegs(m, rl, LoadWords(m, R(m, SP), Len(rl))), i, addr, Load(m, addr))

ExecPop(m, i) == PopWith(m, i, SetToSortSeq(i.regs, <))

(* The dispatch of core_step; an encoding no table entry matches is      *)
(* INVALID_INSTRUCTION and leaves the state unchanged.                    *)
Execute(m, i) ==
    CASE i.op = "MOV_IMM" -> ExecMovImm(m, i)
      [] i.op = "LDR_PC"  -> ExecLdrPc(m, i)
      [] i.op = "STR_IMM" -> ExecStrImm(m, i)
      [] i.op = "LDR_IMM" -> ExecLdrImm(m, i)
      [] i.op = "B"       -> ExecB(m, i)
      [] i.op = "BX"      -> ExecBx(m, i)
      [] i.op = "BL"      -> ExecBl(m, i)
      [] i.op = "PUSH"    -> ExecPush(m, i)
      [] i.op = "POP"     -> ExecPop(m, i)
      [] i.op = "NOP"     -> Done(m, FALSE)
      [] OTHER            -> [m |-> m, status |-> "INVALID_INSTRUCTION", pcw |-> FALSE,
                              exited |-> FALSE]

(* The halfword fetched at PC, through the Flash alias or Flash region. *)
FlashOffset(pc) == IF pc < FLASH_SIZE THEN pc ELSE pc - FLASH_BASE
Fetch(m) == Flash[FlashOffset(R(m, PC))]

(* core_step once the handler returned e and PC has advanced (m1): on a  *)
(* non-Ok Status stop there, otherwise take the selected IRQ.  Besides    *)
(* the Status the result reports, for the properties, the context an     *)
(* exception return restored and the IRQ entered with the context it      *)
(* stacked.                                                               *)
CoreFinish(m, e, m1, sel) ==
    IF e.status # "OK"
    THEN [m |-> e.m, status |-> e.status, exited |-> FALSE, restored |-> Ctx(m),
          entered |-> FALSE, irq |-> 0, saved |-> Ctx(m)]
    ELSE [m |-> IF sel.found THEN EnterException(m1, sel.irq) ELSE m1,
          status |-> "OK", exited |-> e.exited, restored |-> Ctx(e.m),
          entered |-> sel.found, irq |-> sel.irq, saved |-> Ctx(m1)]

(* PC advances by the instruction size unless the handler wrote it. *)
Advanced(e, size) == IF e.pcw THEN e.m ELSE SetR(e.m, PC, R(e.m, PC) + size)

CoreAfter(m, e, m1) == CoreFinish(m, e, m1, N!NvicGetPendingIrq(m1.nvic))

CoreExecuted(m, e, size) == CoreAfter(m, e, Advanced(e, size))

(* core_step: fetch, execute, advance, interrupt check. *)
CoreStep(m) ==
    CoreExecuted(m, Execute(m, Fetch(m)), IF Fetch(m).op = "BL" THEN 4 ELSE 2)

(* core_reset: registers cleared, SP and PC from vector words 0 and 1. *)
CoreReset ==
    [r |-> [j \in 0 .. 15 |-> CASE j = SP -> FlashRead(0)
                               [] j = PC -> ClearBit0(FlashRead(4))
                               [] OTHER  -> 0],
     xpsr |-> 0, current_irq |-> 0]


=============================================================================
