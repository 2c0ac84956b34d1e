------------------------------- MODULE Timer --------------------------------
(***************************************************************************)
(* TIM2 (src/src/peripherals/timer/timer.c, timer.h).                      *)
(*                                                                         *)
(* TimerState is a record; timer_reset, timer_read, timer_write and        *)
(* timer_tick are operators over it.  Registers are words of WordBits      *)
(* bits: the emulator's uint32_t arithmetic, scaled down, wraps modulo     *)
(* WordMod, and 0xFFFFFFFF (the reset value of ARR) is WordMod - 1.        *)
(* The NVIC back-reference is not state: timer_tick's call to              *)
(* nvic_set_pending is the Boolean TimerTickRaises, which the caller       *)
(* applies to its NVIC.                                                    *)
(***************************************************************************)
EXTENDS Naturals, Bitwise

CONSTANTS
    WordBits,     \* modelled register width (32 in the code)
    WriteValues   \* values the firmware or host writes to registers

WordMod == 2 ^ WordBits
Word    == 0 .. (WordMod - 1)
AllOnes == WordMod - 1

ASSUME WordBits \in 1 .. 8 /\ WriteValues \subseteq Word

TIM_CR1_OFFSET  == 0   \* 0x00
TIM_DIER_OFFSET == 12  \* 0x0C
TIM_SR_OFFSET   == 16  \* 0x10
TIM_CNT_OFFSET  == 36  \* 0x24
TIM_PSC_OFFSET  == 40  \* 0x28
TIM_ARR_OFFSET  == 44  \* 0x2C
TIM_CR1_CEN  == 1
TIM_DIER_UIE == 1
TIM_SR_UIF   == 1

TimerRegisterOffsets ==
    {TIM_CR1_OFFSET, TIM_DIER_OFFSET, TIM_SR_OFFSET,
     TIM_CNT_OFFSET, TIM_PSC_OFFSET, TIM_ARR_OFFSET}

IsTimerRecord(r) ==
    r \in [cr1: Word, dier: Word, sr: Word, cnt: Word, psc: Word, arr: Word,
     prescaler_counter: Word]

(* timer_init / timer_reset: zeros, except ARR = 0xFFFFFFFF. *)
TimerReset ==
    [cr1 |-> 0, dier |-> 0, sr |-> 0, cnt |-> 0, psc |-> 0, arr |-> AllOnes,
     prescaler_counter |-> 0]

(* timer_read: unknown offsets read as 0. *)
TimerRead(t, off) ==
    CASE off = TIM_CR1_OFFSET  -> t.cr1
      [] off = TIM_DIER_OFFSET -> t.dier
      [] off = TIM_SR_OFFSET   -> t.sr
      [] off = TIM_CNT_OFFSET  -> t.cnt
      [] off = TIM_PSC_OFFSET  -> t.psc
      [] off = TIM_ARR_OFFSET  -> t.arr
      [] OTHER                 -> 0

(* timer_write: SR is write-zero-to-clear; unknown offsets fail.  The    *)
(* result carries the new state and the returned Status.                 *)
TimerWrite(t, off, v) ==
    CASE off = TIM_CR1_OFFSET  -> [tim |-> [t EXCEPT !.cr1  = v], status |-> "OK"]
      [] off = TIM_DIER_OFFSET -> [tim |-> [t EXCEPT !.dier = v], status |-> "OK"]
      [] off = TIM_SR_OFFSET   -> [tim |-> [t EXCEPT !.sr   = t.sr & v], status |-> "OK"]
      [] off = TIM_CNT_OFFSET  -> [tim |-> [t EXCEPT !.cnt  = v], status |-> "OK"]
      [] off = TIM_PSC_OFFSET  -> [tim |-> [t EXCEPT !.psc  = v], status |-> "OK"]
      [] off = TIM_ARR_OFFSET  -> [tim |-> [t EXCEPT !.arr  = v], status |-> "OK"]
      [] OTHER                 -> [tim |-> t, status |-> "ERROR"]

Counting(t) == (t.cr1 & TIM_CR1_CEN) # 0

(* The prescaler counter after its increment, and whether it passed PSC. *)
NextPrescaler(t) == (t.prescaler_counter + 1) % WordMod
PrescalerPassed(t) == ~(NextPrescaler(t) <= t.psc)

(* Mutation: the overflow compare is CNT > ARR instead of CNT >= ARR. *)
OverflowsPastArr(t) ==
    /\ Counting(t)
    /\ PrescalerPassed(t)
    /\ (t.cnt + 1) % WordMod > t.arr
    /\ t.arr > 0

(* This tick increments CNT to ARR or beyond, with ARR > 0. *)
Overflows(t) ==
    /\ Counting(t)
    /\ PrescalerPassed(t)
    /\ (t.cnt + 1) % WordMod >= t.arr
    /\ t.arr > 0

(* Mutation: CNT incremented as an unbounded integer, not modulo 2^32. *)
TimerTickNoWrap(t) ==
    IF ~Counting(t) THEN t
    ELSE IF ~PrescalerPassed(t)
         THEN [t EXCEPT !.prescaler_counter = NextPrescaler(t)]
    ELSE IF Overflows(t)
         THEN [t EXCEPT !.prescaler_counter = 0, !.cnt = 0, !.sr = t.sr | TIM_SR_UIF]
    ELSE [t EXCEPT !.prescaler_counter = 0, !.cnt = t.cnt + 1]

(* timer_tick. *)
TimerTick(t) ==
    IF ~Counting(t) THEN t
    ELSE IF ~PrescalerPassed(t)
         THEN [t EXCEPT !.prescaler_counter = NextPrescaler(t)]
    ELSE IF Overflows(t)
         THEN [t EXCEPT !.prescaler_counter = 0, !.cnt = 0,
                        !.sr = t.sr | TIM_SR_UIF]
    ELSE [t EXCEPT !.prescaler_counter = 0, !.cnt = (t.cnt + 1) % WordMod]

(* The nvic_set_pending call at the end of timer_tick. *)
TimerTickRaises(t) ==
    Overflows(t) /\ (t.dier & TIM_DIER_UIE) # 0

-----------------------------------------------------------------------------
(***************************************************************************)
(* TIM2 on its own: the simulator ticks it once per step, and firmware or *)
(* the host writes its registers between ticks.  irqPending stands for    *)
(* NVIC.pending[TIM2_IRQ], which the core clears when it takes the IRQ.   *)
(*                                                                         *)
(* sinceWrap counts ticks since the last overflow and aligned records     *)
(* that no write to CNT, PSC or ARR has happened since then; both are     *)
(* history variables used only by the properties.                         *)
(***************************************************************************)
VARIABLES tim, irqPending, sinceWrap, aligned

vars == <<tim, irqPending, sinceWrap, aligned>>

Init ==
    /\ tim = TimerReset
    /\ irqPending = FALSE
    /\ sinceWrap = 0
    /\ aligned = TRUE

Tick ==
    /\ tim' = TimerTick(tim)
    /\ irqPending' = (irqPending \/ TimerTickRaises(tim))
    /\ IF Overflows(tim)
       THEN sinceWrap' = 0 /\ aligned' = TRUE
       ELSE /\ sinceWrap' = IF aligned /\ Counting(tim) THEN sinceWrap + 1 ELSE sinceWrap
            /\ UNCHANGED aligned

Write(off, v) ==
    /\ tim' = TimerWrite(tim, off, v).tim
    /\ aligned' = (aligned /\ off \notin {TIM_CNT_OFFSET, TIM_PSC_OFFSET, TIM_ARR_OFFSET})
    /\ sinceWrap' = IF aligned' THEN sinceWrap ELSE 0
    /\ UNCHANGED irqPending

(* The core acknowledges the IRQ (nvic_acknowledge clears pending). *)
TakeIrq ==
    /\ irqPending
    /\ irqPending' = FALSE
    /\ UNCHANGED <<tim, sinceWrap, aligned>>

(* simulator_reset calls timer_reset. *)
Reset ==
    /\ tim' = TimerReset
    /\ irqPending' = FALSE
    /\ sinceWrap' = 0
    /\ aligned' = TRUE

Next ==
    \/ Tick
    \/ \E off \in TimerRegisterOffsets \cup {4}, v \in WriteValues : Write(off, v)
    \/ TakeIrq
    \/ Reset

(* simulator_step calls timer_tick on every step, so a running simulator *)
(* keeps ticking TIM2.                                                    *)
Spec == Init /\ [][Next]_vars /\ WF_vars(Tick)

-----------------------------------------------------------------------------
TimerTypeOK ==
    /\ IsTimerRecord(tim)
    /\ irqPending \in BOOLEAN
    /\ sinceWrap \in Nat
    /\ aligned \in BOOLEAN

(* The overflow period (spec section 8): while the counter runs with       *)
(* PSC = p and ARR = N > 0, and no write has moved CNT, PSC or ARR since   *)
(* the last overflow, the ticks since that overflow are exactly            *)
(* CNT * (p + 1) + prescaler_counter and stay below (p + 1) * N, so the    *)
(* overflow (CNT back to 0, UIF set) comes exactly (p + 1) * N ticks       *)
(* after the previous one.  It is about the increment-and-compare order    *)
(* of timer_tick's prescaler and counter.                                  *)
OverflowPeriod ==
    aligned /\ tim.arr > 0 =>
        /\ sinceWrap = tim.cnt * (tim.psc + 1) + tim.prescaler_counter
        /\ sinceWrap < (tim.psc + 1) * tim.arr


(* The update event keeps coming: once the firmware and the host stop     *)
(* writing TIM2 and the counter runs with ARR > 0, timer_tick is again    *)
(* and again about to take its overflow branch (CNT to 0, UIF set, the    *)
(* IRQ raised when UIE is set).  It is about the prescaler and counter    *)
(* compares of timer_tick, and about PSC = 0xFFFFFFFF, where              *)
(* prescaler_counter wraps before it can pass PSC.                        *)
UpdateEventRecurs ==
    (<>[][Tick \/ TakeIrq]_vars /\ <>[](Counting(tim) /\ tim.arr > 0))
        => []<>Overflows(tim)

=============================================================================
