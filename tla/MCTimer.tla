------------------------------- MODULE MCTimer ------------------------------
(* Model-checking instance of Timer: 3-bit registers (ARR resets to 7)    *)
(* and writes of 0, 1 and 2, so PSC and ARR range over the small periods  *)
(* and CEN, UIE and UIF are each set and cleared.                          *)
EXTENDS Timer

MCWriteValues == {0, 1, 2}

=============================================================================
