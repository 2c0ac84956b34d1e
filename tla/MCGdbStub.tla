------------------------------ MODULE MCGdbStub -----------------------------
(* Model-checking instance of GdbStub: three breakpoint addresses and a  *)
(* list of two slots, so that Z0 is refused on a full list, a z0 removes *)
(* an entry that is not the last, and a continue can stop on a           *)
(* breakpoint; the configs allow at most one corrupted packet.           *)
EXTENDS GdbStub
CONSTANTS b1, b2, b3, pcOther
MCBpAddrs == {b1, b2, b3}
=============================================================================
