----------------------------- MODULE MCSimulator ----------------------------
(***************************************************************************)
(* Model-checking instance of Simulator, running a small firmware image  *)
(* written for it (decoded instructions, Flash offsets in hex comments).  *)
(*                                                                         *)
(* Thread code at 0x100 programs TIM2 (ARR = 7, DIER.UIE, CR1.CEN) and    *)
(* USART1 (CR1 = UE | RXNEIE) through the bus, then loops.  The TIM2      *)
(* handler clears SR.UIF and returns with BX LR.  The USART1 handler      *)
(* pushes LR, calls a subroutine that reads one byte from DR, and returns *)
(* with POP {PC}.  The layout follows the integration test: vector table  *)
(* at 0, Thumb bit set in every vector.                                   *)
(***************************************************************************)
EXTENDS Simulator, TLC

CONSTANTS c1, EXC_RETURN

MCChars == {c1}
MCIrqs  == {TIM2_IRQ, USART1_IRQ}
MCSramSize == 80

Ins(op, fields) == [op |-> op] @@ fields
Word(v) == [op |-> "WORD", val |-> v]

MCFlash ==
    (* vector table: initial SP, reset, TIM2 (16 + 28), USART1 (16 + 37) *)
       (0   :> Word(SRAM_BASE + MCSramSize))
    @@ (4   :> Word(FLASH_BASE + 257))                                      \* 0x08000101
    @@ (176 :> Word(FLASH_BASE + 321))                                      \* 0x08000141
    @@ (212 :> Word(FLASH_BASE + 353))                                      \* 0x08000161
    (* thread code *)
    @@ (256 :> Ins("LDR_PC",  [rd |-> 1, imm8 |-> 7]))                      \* 0x100 LDR R1, =TIM2
    @@ (258 :> Ins("MOV_IMM", [rd |-> 0, imm |-> 7]))                       \* 0x102 MOVS R0, #7
    @@ (260 :> Ins("STR_IMM", [rd |-> 0, rn |-> 1, imm5 |-> 11]))           \* 0x104 STR R0, [R1, #ARR]
    @@ (262 :> Ins("MOV_IMM", [rd |-> 0, imm |-> 1]))                       \* 0x106 MOVS R0, #1
    @@ (264 :> Ins("STR_IMM", [rd |-> 0, rn |-> 1, imm5 |-> 3]))            \* 0x108 STR R0, [R1, #DIER]
    @@ (266 :> Ins("STR_IMM", [rd |-> 0, rn |-> 1, imm5 |-> 0]))            \* 0x10A STR R0, [R1, #CR1]
    @@ (268 :> Ins("LDR_PC",  [rd |-> 2, imm8 |-> 5]))                      \* 0x10C LDR R2, =USART1
    @@ (270 :> Ins("LDR_PC",  [rd |-> 0, imm8 |-> 6]))                      \* 0x10E LDR R0, =UE|RXNEIE
    @@ (272 :> Ins("STR_IMM", [rd |-> 0, rn |-> 2, imm5 |-> 3]))            \* 0x110 STR R0, [R2, #CR1]
    @@ (274 :> Ins("MOV_IMM", [rd |-> 0, imm |-> 1]))                       \* 0x112 loop: MOVS R0, #1
    @@ (276 :> Ins("MOV_IMM", [rd |-> 0, imm |-> 0]))                       \* 0x114 MOVS R0, #0
    @@ (278 :> Ins("B",       [off |-> -8]))                                \* 0x116 B loop
    @@ (288 :> Word(TIM2_BASE))                                             \* 0x120
    @@ (292 :> Word(USART1_BASE))                                           \* 0x124
    @@ (296 :> Word(8224))                                                  \* 0x128 UE | RXNEIE
    (* TIM2 handler *)
    @@ (320 :> Ins("LDR_PC",  [rd |-> 1, imm8 |-> 1]))                      \* 0x140 LDR R1, =TIM2
    @@ (322 :> Ins("MOV_IMM", [rd |-> 0, imm |-> 0]))                       \* 0x142 MOVS R0, #0
    @@ (324 :> Ins("STR_IMM", [rd |-> 0, rn |-> 1, imm5 |-> 4]))            \* 0x144 STR R0, [R1, #SR]
    @@ (326 :> Ins("BX",      [rm |-> LR]))                                 \* 0x146 BX LR
    @@ (328 :> Word(TIM2_BASE))                                             \* 0x148
    (* USART1 handler and its subroutine *)
    @@ (352 :> Ins("PUSH",    [regs |-> {}, lr |-> TRUE]))                  \* 0x160 PUSH {LR}
    @@ (354 :> Ins("BL",      [off |-> 10]))                                \* 0x162 BL rx_byte
    @@ (358 :> Ins("POP",     [regs |-> {}, pc |-> TRUE]))                  \* 0x166 POP {PC}
    @@ (368 :> Ins("LDR_PC",  [rd |-> 2, imm8 |-> 1]))                      \* 0x170 rx_byte: LDR R2, =USART1
    @@ (370 :> Ins("LDR_IMM", [rd |-> 3, rn |-> 2, imm5 |-> 1]))            \* 0x172 LDR R3, [R2, #DR]
    @@ (372 :> Ins("BX",      [rm |-> LR]))                                 \* 0x174 BX LR
    @@ (376 :> Word(USART1_BASE))                                           \* 0x178

(* Breakpoints on the thread loop and on the TIM2 handler's return. *)
MCBreakAddrs == {FLASH_BASE + 274, FLASH_BASE + 326}

(* Both lines at the default priority 0, as the integration test leaves  *)
(* them; and TIM2 less urgent than USART1, so that USART1 preempts.       *)
EqualPriority  == [i \in MCIrqs |-> 0]
NestedPriority == [i \in MCIrqs |-> IF i = TIM2_IRQ THEN 1 ELSE 0]

(* The same image with a wrong literal in the TIM2 handler: its pointer *)
(* to TIM2 holds the Flash base, so the handler's STR to SR goes to Flash, *)
(* which refuses every write.                                              *)
MCFaultFlash == [MCFlash EXCEPT ![328] = Word(FLASH_BASE)]

=============================================================================
