-------------------------------- MODULE Uart --------------------------------
(***************************************************************************)
(* USART1 (src/src/peripherals/uart/uart.c, uart.h).                       *)
(*                                                                         *)
(* UartState is a record; uart_reset, uart_read, uart_write,               *)
(* uart_incoming_char and uart_tick are operators over it.  Operators that *)
(* also return a value (a read's data, a write's Status) or call out of    *)
(* the UART (nvic_set_pending, the output callback) return a record whose  *)
(* uart field is the new state.  Received and transmitted bytes are model  *)
(* values from Chars; the byte 0 of a zeroed buffer is 0.                  *)
(***************************************************************************)
EXTENDS Naturals, Sequences, Bitwise

CONSTANTS
    RxBufferSize,   \* UART_RX_BUFFER_SIZE (16 in the code)
    Chars           \* bytes that arrive or are transmitted

ASSUME RxBufferSize \in Nat \ {0}

UART_SR_OFFSET  == 0
UART_DR_OFFSET  == 4
UART_BRR_OFFSET == 8
UART_CR1_OFFSET == 12

UART_SR_TXE  == 128     \* bit 7
UART_SR_TC   == 64      \* bit 6
UART_SR_RXNE == 32      \* bit 5

UART_CR1_UE     == 8192 \* bit 13
UART_CR1_TXEIE  == 128
UART_CR1_RXNEIE == 32

Byte == Chars \cup {0}
BufIndex == 0 .. (RxBufferSize - 1)

IsUartRecord(r) ==
    r \in [sr: 0 .. 255, cr1: Nat, brr: Nat, tx_pending: BOOLEAN,
           tx_char: Byte \cup (0 .. 255), rx_buffer: [BufIndex -> Byte],
           rx_head: BufIndex, rx_tail: BufIndex, rx_count: 0 .. RxBufferSize]

HasBits(w, mask) == (w & mask) = mask

(* uart_init / uart_reset: zeroed, TX ready. *)
UartReset ==
    [sr |-> UART_SR_TXE | UART_SR_TC, cr1 |-> 0, brr |-> 0, tx_pending |-> FALSE,
     tx_char |-> 0, rx_buffer |-> [k \in BufIndex |-> 0],
     rx_head |-> 0, rx_tail |-> 0, rx_count |-> 0]

(* Mutation: RXNE is left set when the last byte is read. *)
UartReadDRKeepRxne(u) ==
    IF u.rx_count > 0
    THEN [uart |-> [u EXCEPT !.rx_tail  = (u.rx_tail + 1) % RxBufferSize,
                             !.rx_count = u.rx_count - 1],
          data |-> u.rx_buffer[u.rx_tail]]
    ELSE [uart |-> u, data |-> 0]

(* Reading DR: dequeue one byte if any; RXNE clears when the FIFO empties. *)
UartReadDR(u) ==
    IF u.rx_count > 0
    THEN LET v == [u EXCEPT !.rx_tail  = (u.rx_tail + 1) % RxBufferSize,
                            !.rx_count = u.rx_count - 1]
         IN  [uart |-> IF v.rx_count = 0
                       THEN [v EXCEPT !.sr = v.sr & (255 - UART_SR_RXNE)]
                       ELSE v,
              data |-> u.rx_buffer[u.rx_tail]]
    ELSE [uart |-> u, data |-> 0]

(* uart_read. *)
UartRead(u, off) ==
    CASE off = UART_SR_OFFSET  -> [uart |-> u, data |-> u.sr]
      [] off = UART_DR_OFFSET  -> UartReadDR(u)
      [] off = UART_BRR_OFFSET -> [uart |-> u, data |-> u.brr]
      [] off = UART_CR1_OFFSET -> [uart |-> u, data |-> u.cr1]
      [] OTHER                 -> [uart |-> u, data |-> 0]

(* The (uint8_t)(value & 0xFF) of a DR write; a byte of Chars stands  *)
(* for itself.                                                            *)
LowByte(v) == IF v \in Nat THEN v % 256 ELSE v

(* Writing DR: latched only when UE is set; clears TXE and TC. *)
UartWriteDR(u, c) ==
    IF HasBits(u.cr1, UART_CR1_UE)
    THEN [u EXCEPT !.tx_char = LowByte(c), !.tx_pending = TRUE,
                   !.sr = u.sr & (255 - (UART_SR_TXE | UART_SR_TC))]
    ELSE u

(* uart_write: SR is write-AND, BRR and CR1 are stored, others fail. *)
UartWrite(u, off, v) ==
    CASE off = UART_SR_OFFSET  -> [uart |-> [u EXCEPT !.sr = u.sr & v], status |-> "OK"]
      [] off = UART_DR_OFFSET  -> [uart |-> UartWriteDR(u, v), status |-> "OK"]
      [] off = UART_BRR_OFFSET -> [uart |-> [u EXCEPT !.brr = v], status |-> "OK"]
      [] off = UART_CR1_OFFSET -> [uart |-> [u EXCEPT !.cr1 = v], status |-> "OK"]
      [] OTHER                 -> [uart |-> u, status |-> "ERROR"]

(* Mutation: no overflow check; a byte is stored even in a full ring. *)
UartIncomingCharNoLimit(u, c) ==
    [uart |-> [u EXCEPT !.rx_buffer[u.rx_head] = c,
                        !.rx_head  = (u.rx_head + 1) % RxBufferSize,
                        !.rx_count = u.rx_count + 1,
                        !.sr = u.sr | UART_SR_RXNE],
     raise |-> HasBits(u.cr1, UART_CR1_RXNEIE | UART_CR1_UE)]

(* uart_incoming_char: drop on a full buffer; otherwise enqueue, set RXNE *)
(* and raise the IRQ if RXNEIE and UE are both set.                       *)
UartIncomingChar(u, c) ==
    IF u.rx_count >= RxBufferSize
    THEN [uart |-> u, raise |-> FALSE]
    ELSE [uart |-> [u EXCEPT !.rx_buffer[u.rx_head] = c,
                             !.rx_head  = (u.rx_head + 1) % RxBufferSize,
                             !.rx_count = u.rx_count + 1,
                             !.sr = u.sr | UART_SR_RXNE],
          raise |-> HasBits(u.cr1, UART_CR1_RXNEIE | UART_CR1_UE)]

(* Mutation: tx_pending is not cleared, so the byte is sent again. *)
UartTickKeepPending(u) ==
    IF ~u.tx_pending
    THEN [uart |-> u, out |-> <<>>, raise |-> FALSE]
    ELSE [uart |-> [u EXCEPT !.sr = u.sr | UART_SR_TXE | UART_SR_TC],
          out |-> <<u.tx_char>>,
          raise |-> HasBits(u.cr1, UART_CR1_TXEIE | UART_CR1_UE)]

(* uart_tick: completes a pending transmission, handing the latched byte *)
(* to the output callback (out), and raises the IRQ if TXEIE and UE.      *)
UartTick(u) ==
    IF ~u.tx_pending
    THEN [uart |-> u, out |-> <<>>, raise |-> FALSE]
    ELSE [uart |-> [u EXCEPT !.tx_pending = FALSE,
                             !.sr = u.sr | UART_SR_TXE | UART_SR_TC],
          out |-> <<u.tx_char>>,
          raise |-> HasBits(u.cr1, UART_CR1_TXEIE | UART_CR1_UE)]

(* The bytes in the receive ring, oldest first. *)
RxContents(u) ==
    [k \in 1 .. u.rx_count |-> u.rx_buffer[(u.rx_tail + k - 1) % RxBufferSize]]

-----------------------------------------------------------------------------
(***************************************************************************)
(* USART1 on its own.  The host feeds bytes (uart_incoming_char); the     *)
(* firmware reads and writes registers over the bus; the simulator ticks  *)
(* the UART once per step; the core takes the IRQ.  irqPending stands for *)
(* NVIC.pending[USART1_IRQ] and out for the bytes handed to the output    *)
(* callback.  TxPolling says whether the firmware writes DR only after    *)
(* reading SR.TXE set, the way a polling driver does.                     *)
(***************************************************************************)
CONSTANTS
    TxPolling,      \* does the firmware wait for TXE before writing DR?
    SrWriteValues,  \* words the firmware writes to SR
    Cr1WriteValues  \* words the firmware writes to CR1

VARIABLES uart, irqPending, out

vars == <<uart, irqPending, out>>

Init ==
    /\ uart = UartReset
    /\ irqPending = FALSE
    /\ out = <<>>

IncomingChar(c) ==
    LET r == UartIncomingChar(uart, c)
    IN  /\ uart' = r.uart
        /\ irqPending' = (irqPending \/ r.raise)
        /\ UNCHANGED out

(* A firmware load from a UART register (only DR changes state). *)
ReadReg(off) ==
    /\ uart' = UartRead(uart, off).uart
    /\ UNCHANGED <<irqPending, out>>

WriteValues(off) ==
    CASE off = UART_SR_OFFSET  -> SrWriteValues
      [] off = UART_DR_OFFSET  -> Chars
      [] off = UART_CR1_OFFSET -> Cr1WriteValues
      [] OTHER                 -> {0}

WriteReg(off, v) ==
    /\ off = UART_DR_OFFSET /\ TxPolling => HasBits(uart.sr, UART_SR_TXE)
    /\ uart' = UartWrite(uart, off, v).uart
    /\ UNCHANGED <<irqPending, out>>

Tick ==
    LET r == UartTick(uart)
    IN  /\ uart' = r.uart
        /\ irqPending' = (irqPending \/ r.raise)
        /\ out' = out \o r.out

TakeIrq ==
    /\ irqPending
    /\ irqPending' = FALSE
    /\ UNCHANGED <<uart, out>>

Reset ==
    /\ uart' = UartReset
    /\ irqPending' = FALSE
    /\ UNCHANGED out

UartOffsets == {UART_SR_OFFSET, UART_DR_OFFSET, UART_BRR_OFFSET, UART_CR1_OFFSET, 16}

Next ==
    \/ \E c \in Chars : IncomingChar(c)
    \/ \E off \in UartOffsets : ReadReg(off)
    \/ \E off \in UartOffsets : \E v \in WriteValues(off) : WriteReg(off, v)
    \/ Tick
    \/ TakeIrq
    \/ Reset

Spec == Init /\ [][Next]_vars

-----------------------------------------------------------------------------
UartTypeOK ==
    /\ IsUartRecord(uart)
    /\ irqPending \in BOOLEAN
    /\ out \in Seq(Chars)

(* RXNE is never set over an empty receive ring: uart_read clears it when *)
(* the last byte is dequeued, and no other path sets it without           *)
(* enqueueing, whatever order arrivals, reads, SR writes and resets take. *)
RxneMeansData ==
    HasBits(uart.sr, UART_SR_RXNE) => uart.rx_count > 0

(* The UART implements UartFifo: the ring buffer (head, tail, count,      *)
(* wrap-around) delivers arrivals to DR reads in order, dropping only on  *)
(* a full ring, and the TX latch hands every accepted DR byte to the      *)
(* output callback once, in order.                                        *)
Fifo == INSTANCE UartFifo WITH
            Capacity <- RxBufferSize,
            rxq <- RxContents(uart),
            txq <- IF uart.tx_pending THEN <<uart.tx_char>> ELSE <<>>,
            out <- out

ImplementsUartFifo == Fifo!Spec

=============================================================================
