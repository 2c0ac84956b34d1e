------------------------------ MODULE Simulator -----------------------------
(***************************************************************************)
(* The simulator (src/src/simulator/simulator.h, simulator.c): the        *)
(* machine of module Machine, the breakpoint list of module Debugger, and *)
(* the halted flag, driven by simulator_step and by the host between      *)
(* steps (the CLI of ui.c, the GDB stub, or an embedding program such as  *)
(* the integration tests).                                                 *)
(*                                                                         *)
(* One Step is one whole simulator_step: tick TIM2, tick USART1 (the      *)
(* order simulator_init registers them), core_step with its interrupt     *)
(* check, halt on a non-Ok Status, then the breakpoint check on the new   *)
(* PC.  Nothing else runs while it does: the emulator is single-threaded. *)
(*                                                                         *)
(* Two history variables serve the properties only: frames, the           *)
(* exceptions the core has entered and not yet returned from, innermost   *)
(* last, each with the context it stacked; and retired, what the last     *)
(* step's exception return restored (<<>> if it returned from none).      *)
(***************************************************************************)
EXTENDS Machine

CONSTANTS
    MaxBreakpoints,   \* DEBUGGER_MAX_BREAKPOINTS (64 in the code)
    BreakAddrs,       \* addresses the host sets breakpoints at
    EnabledIrqs,      \* lines the embedding program enables with nvic_enable_irq
    IrqPriority       \* the priority it gives each line with nvic_set_priority

ASSUME EnabledIrqs \subseteq Irqs /\ IrqPriority \in [Irqs -> 0 .. 254]

D == INSTANCE Debugger

VARIABLES m, bps, halted, frames, retired

vars == <<m, bps, halted, frames, retired>>

(* simulator_reset (peripheral resets, nvic_reset, memory_reset,         *)
(* core_reset, halted cleared) applied to the machine.                    *)
MachineReset(mm) ==
    [mm EXCEPT !.tim = T!TimerReset, !.uart = U!UartReset, !.nvic = N!NvicReset,
               !.sram = MemoryReset, !.core = CoreReset]

(* The state after simulator_init, simulator_load of the firmware (which *)
(* resets) and the embedding program's NVIC set-up: each line gets its   *)
(* priority and the enabled lines are enabled.                            *)
Init ==
    /\ m = [core |-> CoreReset, sram |-> MemoryReset,
            nvic |-> [N!NvicReset EXCEPT !.priority = IrqPriority,
                                         !.enabled = [i \in Irqs |-> i \in EnabledIrqs]],
            tim |-> T!TimerReset, uart |-> U!UartReset]
    /\ bps = <<>>
    /\ halted = FALSE
    /\ frames = <<>>
    /\ retired = <<>>

(* The two peripheral ticks at the head of simulator_step; each raises   *)
(* its line through nvic_set_pending.                                     *)
UartTicked(mm, ru) ==
    [mm EXCEPT !.uart = ru.uart,
               !.nvic = IF ru.raise THEN N!NvicSetPending(mm.nvic, USART1_IRQ) ELSE mm.nvic]

TimerTicked(mm) ==
    [mm EXCEPT !.tim = T!TimerTick(mm.tim),
               !.nvic = IF T!TimerTickRaises(mm.tim)
                        THEN N!NvicSetPending(mm.nvic, TIM2_IRQ) ELSE mm.nvic]

TickPeripheralsWith(mt) == UartTicked(mt, U!UartTick(mt.uart))

TickPeripherals(mm) == TickPeripheralsWith(TimerTicked(mm))

(* What simulator_step does once core_step returned c. *)
StepWith(c) ==
    LET f == IF c.exited /\ frames # <<>> THEN Front(frames) ELSE frames
    IN  /\ m' = c.m
        /\ halted' = (c.status # "OK" \/ D!DebuggerCheck(bps, R(c.m, PC)))
        /\ frames' = IF c.entered THEN Append(f, [irq |-> c.irq, ctx |-> c.saved]) ELSE f
        /\ retired' = IF c.exited THEN <<c.restored>> ELSE <<>>
        /\ UNCHANGED bps

(* simulator_step; a halted simulator returns HALTED and does nothing,   *)
(* so the step is not enabled.                                            *)
Step ==
    /\ ~halted
    /\ StepWith(CoreStep(TickPeripherals(m)))

(* uart_incoming_char from the host (CLI "uart" command). *)
IncomingChar(ch) ==
    LET r == U!UartIncomingChar(m.uart, ch)
    IN  /\ m' = [m EXCEPT !.uart = r.uart,
                          !.nvic = IF r.raise THEN N!NvicSetPending(m.nvic, USART1_IRQ)
                                   ELSE m.nvic]
        /\ UNCHANGED <<bps, halted, frames, retired>>

BreakAdd(a) ==
    /\ bps' = D!DebuggerAdd(bps, a)
    /\ UNCHANGED <<m, halted, frames, retired>>

BreakDelete(a) ==
    /\ bps' = D!DebuggerRemove(bps, a)
    /\ UNCHANGED <<m, halted, frames, retired>>

(* simulator_halt (CLI "stop", GDB interrupt). *)
Halt ==
    /\ halted' = TRUE
    /\ UNCHANGED <<m, bps, frames, retired>>

(* simulator_run clears halted before its loop of steps. *)
Run ==
    /\ halted
    /\ halted' = FALSE
    /\ UNCHANGED <<m, bps, frames, retired>>

(* simulator_reset (CLI "reset", GDB "monitor reset"). *)
Reset ==
    /\ m' = MachineReset(m)
    /\ halted' = FALSE
    /\ frames' = <<>>
    /\ retired' = <<>>
    /\ UNCHANGED bps

(* The embedding program enables a line again (after a reset cleared it). *)
EnableIrq(i) ==
    /\ m' = [m EXCEPT !.nvic = N!NvicEnableIrq(@, i)]
    /\ UNCHANGED <<bps, halted, frames, retired>>

Host ==
    \/ \E ch \in Chars : IncomingChar(ch)
    \/ \E a \in BreakAddrs : BreakAdd(a) \/ BreakDelete(a)
    \/ Halt
    \/ Run
    \/ Reset
    \/ \E i \in EnabledIrqs : EnableIrq(i)

Next == Step \/ Host

(***************************************************************************)
(* Weak fairness of Step: simulator_run's loop, and the GDB stub's        *)
(* continue, keep calling simulator_step until the simulator halts; the   *)
(* host is not assumed to do anything.  Step's only guard is ~halted, and *)
(* a step always changes the state (no instruction of the images checked  *)
(* branches to itself), so ENABLED <<Step>>_vars is ~halted and           *)
(* WF_vars(Step) is the formula below, which TLC evaluates without        *)
(* computing ENABLED over the whole core step.                            *)
(***************************************************************************)
StepFairness == <>[](~halted) => []<><<Step>>_vars

Spec == Init /\ [][Next]_vars /\ StepFairness

-----------------------------------------------------------------------------
(* Every instruction the core can reach is one of the image's decoded     *)
(* instructions, and SP stays inside SRAM: the modelled machine never     *)
(* leaves the part of the address space the model represents.             *)
InstrOps == {"MOV_IMM", "LDR_PC", "STR_IMM", "LDR_IMM", "B", "BX", "BL",
             "PUSH", "POP", "NOP"}

SimTypeOK ==
    /\ m.core.current_irq \in 0 .. N!NVIC_NUM_IRQ
    /\ m.core.xpsr \in 0 .. 15
    /\ N!IsNvicRecord(m.nvic)
    /\ T!IsTimerRecord(m.tim)
    /\ U!IsUartRecord(m.uart)
    /\ FlashOffset(R(m, PC)) \in DOMAIN Flash
    /\ Fetch(m).op \in InstrOps
    /\ R(m, SP) \in SRAM_BASE .. (SRAM_BASE + SramSize)
    /\ bps \in Seq(BreakAddrs)
    /\ halted \in BOOLEAN

ActiveLines == {i \in Irqs : m.nvic.active[i]}

(* Spec section 3: active[i] implies the core is executing in exception  *)
(* context for vector 16 + i.  The NVIC's active lines are exactly the    *)
(* exceptions entered and not yet returned from, however entries and     *)
(* returns (BX LR, POP {PC}) and resets interleave: enter_exception's    *)
(* nvic_acknowledge and exit_exception's nvic_complete(current_irq - 1)  *)
(* must pair up.                                                           *)
ActiveIsNested ==
    ActiveLines = {frames[k].irq : k \in DOMAIN frames}

(* Spec section 8, exception entry/exit roundtrip: an exception return   *)
(* restores exactly the R0-R3, R12, LR, PC, xPSR and SP that the matching *)
(* entry saved, across the handler's own stack use (PUSH/BL/POP) and the *)
(* stacking order of enter_exception against the unstacking order of     *)
(* exit_exception.                                                        *)
FrameRoundTrip ==
    [][retired' # <<>> /\ frames # <<>> => retired'[1] = Last(frames).ctx]_vars

(* A pending, enabled line is taken: while the simulator keeps running, *)
(* neither a more urgent line, a stale current_priority nor the core's    *)
(* return path leaves it waiting for ever.                                *)
PendingIrqTaken ==
    \A i \in EnabledIrqs :
        (m.nvic.pending[i] /\ m.nvic.enabled[i])
            ~> (m.nvic.active[i] \/ halted \/ ~m.nvic.enabled[i])



(* Whether the STR the core executes next is one the bus refuses: a word *)
(* to Flash, past the end of SRAM, to an unknown peripheral register, or  *)
(* to an unmapped address.                                                *)
StoreRefused(mm) ==
    LET i == Fetch(mm)
    IN  i.op = "STR_IMM" /\ BusWrite(mm, R(mm, i.rn) + 4 * i.imm5, R(mm, i.rd)).status # "OK"

(* Spec section 7, propagation policy: a non-Ok Status from a bus         *)
(* operation during instruction execution terminates the step, and the    *)
(* simulator halts on it.  About exec_str_imm, which calls bus_write and  *)
(* returns STATUS_OK whatever it returned.                                *)
RefusedStoreHalts ==
    [][Step /\ StoreRefused(TickPeripherals(m)) => halted']_vars


=============================================================================
