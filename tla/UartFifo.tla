------------------------------ MODULE UartFifo ------------------------------
(***************************************************************************)
(* What USART1 promises its two sides (spec sections 4.6 and 8): bytes    *)
(* from the host are delivered to firmware reads of DR in arrival order,  *)
(* through a buffer of Capacity bytes that drops arrivals when full; and  *)
(* bytes the firmware writes to DR reach the output callback in the order *)
(* written, each exactly once.                                             *)
(***************************************************************************)
EXTENDS Naturals, Sequences

CONSTANTS Capacity, Chars

VARIABLES
    rxq,    \* received, not yet read by the firmware
    txq,    \* accepted from the firmware, not yet transmitted
    out     \* transmitted

vars == <<rxq, txq, out>>

Init ==
    /\ rxq = <<>>
    /\ txq = <<>>
    /\ out = <<>>

(* An arrival is kept when there is room and dropped otherwise. *)
Receive(c) ==
    /\ rxq' = IF Len(rxq) < Capacity THEN Append(rxq, c) ELSE rxq
    /\ UNCHANGED <<txq, out>>

Consume ==
    /\ rxq # <<>>
    /\ rxq' = Tail(rxq)
    /\ UNCHANGED <<txq, out>>

Send(c) ==
    /\ txq' = Append(txq, c)
    /\ UNCHANGED <<rxq, out>>

Emit ==
    /\ txq # <<>>
    /\ out' = Append(out, Head(txq))
    /\ txq' = Tail(txq)
    /\ UNCHANGED rxq

(* A reset discards both buffers; what was transmitted stays transmitted. *)
Reset ==
    /\ rxq' = <<>>
    /\ txq' = <<>>
    /\ UNCHANGED out

Next ==
    \/ \E c \in Chars : Receive(c) \/ Send(c)
    \/ Consume
    \/ Emit
    \/ Reset

Spec == Init /\ [][Next]_vars

=============================================================================
