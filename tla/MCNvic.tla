------------------------------- MODULE MCNvic -------------------------------
(* Model-checking instance of Nvic: three lines (TIM2 = 28, USART1 = 37   *)
(* and a low line 3 that wins ties) and three programmable priorities.   *)
EXTENDS Nvic

MCIrqs  == {3, 28, 37}
MCPrios == {0, 1, 2}
=============================================================================
