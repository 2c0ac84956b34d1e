-------------------------------- MODULE MCUart ------------------------------
(* Model-checking instance of Uart: a 3-byte ring so that wrap-around and  *)
(* the full-ring drop both occur within a few arrivals.                   *)
EXTENDS Uart

CONSTANTS a, b

MCChars == {a, b}

(* SR writes that keep everything, clear RXNE, clear TC, and clear all.   *)
MCSrWriteValues == {255, 255 - UART_SR_RXNE, 255 - UART_SR_TC, 0}

(* CR1: disabled, UE with RXNEIE, UE with TXEIE and RXNEIE. *)
MCCr1WriteValues == {0, UART_CR1_UE + UART_CR1_RXNEIE,
                     UART_CR1_UE + UART_CR1_RXNEIE + UART_CR1_TXEIE}

(* out grows without bound; the bound keeps the check finite. *)
MaxOut == 3
OutBound == Len(out) <= MaxOut
=============================================================================
