-------------------------------- MODULE Nvic --------------------------------
(***************************************************************************)
(* The Nested Vectored Interrupt Controller of the emulator               *)
(* (src/unnamed/part_011 nvic.h, src/unnamed/part_012 nvic.c).             *)
(*                                                                         *)
(* The C struct NVIC is a record; every nvic_* function is an operator    *)
(* from a record to a record, so that the composed Simulator module can   *)
(* apply them in the order simulator_step calls them.  The four parallel  *)
(* arrays are functions over the modelled IRQ lines Irqs.                 *)
(*                                                                         *)
(* The second half of the module is a specification of the NVIC on its    *)
(* own: peripherals and the host raise and configure lines, and a core    *)
(* client takes the selected IRQ and completes the innermost one, the way *)
(* an exception entry and return would.                                   *)
(***************************************************************************)
EXTENDS Naturals, Sequences, FiniteSets, SequencesExt

CONSTANTS
    Irqs,               \* modelled IRQ line numbers, a subset of 0..42
    Prios,              \* priority values the host may program
    ReprioritiseActive  \* may the host call nvic_set_priority on an active line?

NVIC_NUM_IRQ == 43
NoPriority   == 255     \* 0xFF: current_priority when nothing is active

ASSUME Irqs \subseteq 0 .. (NVIC_NUM_IRQ - 1) /\ Irqs # {}
ASSUME Prios \subseteq 0 .. 254
ASSUME ReprioritiseActive \in BOOLEAN

Priority == 0 .. 255

IsNvicRecord(r) ==
    r \in [pending: [Irqs -> BOOLEAN], active: [Irqs -> BOOLEAN],
     enabled: [Irqs -> BOOLEAN], priority: [Irqs -> Priority],
     current_priority: Priority]

(* Mutation: current_priority reset to 0x100, a value the field cannot hold. *)
NvicResetWidePriority ==
    [pending  |-> [i \in Irqs |-> FALSE], active  |-> [i \in Irqs |-> FALSE],
     enabled  |-> [i \in Irqs |-> FALSE], priority |-> [i \in Irqs |-> 0],
     current_priority |-> 256]

(* nvic_reset: all arrays cleared, no active interrupt. *)
NvicReset ==
    [pending  |-> [i \in Irqs |-> FALSE],
     active   |-> [i \in Irqs |-> FALSE],
     enabled  |-> [i \in Irqs |-> FALSE],
     priority |-> [i \in Irqs |-> 0],
     current_priority |-> NoPriority]

NvicSetPending(n, i)   == [n EXCEPT !.pending[i] = TRUE]
NvicClearPending(n, i) == [n EXCEPT !.pending[i] = FALSE]
NvicEnableIrq(n, i)    == [n EXCEPT !.enabled[i] = TRUE]
NvicDisableIrq(n, i)   == [n EXCEPT !.enabled[i] = FALSE]
NvicSetPriority(n, i, p) == [n EXCEPT !.priority[i] = p]

(* The loop order of nvic_get_pending_irq and nvic_complete: 0 .. 42. *)
IrqOrder == SetToSortSeq(Irqs, <)

(***************************************************************************)
(* nvic_get_pending_irq: one pass over the lines, keeping the best        *)
(* candidate so far; a line replaces it only with a strictly smaller      *)
(* priority value, starting from current_priority.                        *)
(***************************************************************************)
(* Mutation: the scan compares with <=, so ties go to the last line. *)
RECURSIVE ScanPendingTieLast(_, _, _)
ScanPendingTieLast(n, order, best) ==
    IF order = <<>> THEN best
    ELSE LET i == Head(order)
         IN  ScanPendingTieLast(n, Tail(order),
                IF n.pending[i] /\ n.enabled[i] /\ n.priority[i] <= best.prio
                THEN [found |-> TRUE, irq |-> i, prio |-> n.priority[i]]
                ELSE best)

RECURSIVE ScanPending(_, _, _)
ScanPending(n, order, best) ==
    IF order = <<>> THEN best
    ELSE LET i == Head(order)
         IN  ScanPending(n, Tail(order),
                IF n.pending[i] /\ n.enabled[i] /\ n.priority[i] < best.prio
                THEN [found |-> TRUE, irq |-> i, prio |-> n.priority[i]]
                ELSE best)

(* Mutation: the scan starts from 0xFF, not from current_priority. *)
NvicGetPendingIrqUnmasked(n) ==
    ScanPending(n, IrqOrder, [found |-> FALSE, irq |-> 0, prio |-> NoPriority])

NvicGetPendingIrq(n) ==
    ScanPending(n, IrqOrder,
                [found |-> FALSE, irq |-> 0, prio |-> n.current_priority])

(* nvic_acknowledge: the line becomes active and sets current_priority. *)
NvicAcknowledge(n, i) ==
    [n EXCEPT !.pending[i] = FALSE, !.active[i] = TRUE,
              !.current_priority = n.priority[i]]

(* The recomputation loop of nvic_complete. *)
RECURSIVE MinActivePriority(_, _, _)
MinActivePriority(n, order, cur) ==
    IF order = <<>> THEN cur
    ELSE LET i == Head(order)
         IN  MinActivePriority(n, Tail(order),
                IF n.active[i] /\ n.priority[i] < cur THEN n.priority[i] ELSE cur)

(* Mutation: complete resets current_priority to 0xFF, forgetting the      *)
(* exceptions still active below.                                           *)
NvicCompleteResetPriority(n, i) ==
    [n EXCEPT !.active[i] = FALSE, !.current_priority = NoPriority]

(* Mutation: complete leaves current_priority as it was. *)
NvicCompleteKeepPriority(n, i) == [n EXCEPT !.active[i] = FALSE]

(* nvic_complete: clear active, then recompute current_priority. *)
NvicComplete(n, i) ==
    LET m == [n EXCEPT !.active[i] = FALSE]
    IN  [m EXCEPT !.current_priority = MinActivePriority(m, IrqOrder, NoPriority)]

-----------------------------------------------------------------------------
(***************************************************************************)
(* Reference definitions the code is checked against.                     *)
(***************************************************************************)

ActiveSet(n) == {i \in Irqs : n.active[i]}

(* The candidates that may preempt, and the one the spec says is chosen: *)
(* lowest priority value, ties to the lowest line number.                 *)
Candidates(n) ==
    {i \in Irqs : n.pending[i] /\ n.enabled[i] /\ n.priority[i] < n.current_priority}

BestCandidate(n) ==
    CHOOSE i \in Candidates(n) :
        \A j \in Candidates(n) :
            \/ n.priority[i] < n.priority[j]
            \/ n.priority[i] = n.priority[j] /\ i <= j

(* The priority the spec says current_priority holds. *)
ExpectedPriority(n) ==
    IF ActiveSet(n) = {} THEN NoPriority
    ELSE CHOOSE p \in {n.priority[i] : i \in ActiveSet(n)} :
            \A i \in ActiveSet(n) : p <= n.priority[i]

-----------------------------------------------------------------------------
(***************************************************************************)
(* The NVIC with its clients.  nest is the core's nesting of taken        *)
(* exceptions, innermost last.                                            *)
(***************************************************************************)
VARIABLES nvic, nest

vars == <<nvic, nest>>

Init ==
    /\ nvic = NvicReset
    /\ nest = <<>>

(* A peripheral (timer overflow, UART event) or the host raises a line. *)
SetPending(i) ==
    /\ nvic' = NvicSetPending(nvic, i)
    /\ UNCHANGED nest

ClearPending(i) ==
    /\ nvic' = NvicClearPending(nvic, i)
    /\ UNCHANGED nest

EnableIrq(i) ==
    /\ nvic' = NvicEnableIrq(nvic, i)
    /\ UNCHANGED nest

DisableIrq(i) ==
    /\ nvic' = NvicDisableIrq(nvic, i)
    /\ UNCHANGED nest

(* The host programs a priority; whether it does so while the line is    *)
(* active is a property of the host, fixed by ReprioritiseActive.         *)
SetPriority(i, p) ==
    /\ ReprioritiseActive \/ ~nvic.active[i]
    /\ nvic' = NvicSetPriority(nvic, i, p)
    /\ UNCHANGED nest

(* core_step's interrupt check followed by enter_exception. *)
TakeIrq ==
    LET sel == NvicGetPendingIrq(nvic)
    IN  /\ sel.found
        /\ nvic' = NvicAcknowledge(nvic, sel.irq)
        /\ nest' = Append(nest, sel.irq)

(* exit_exception of the innermost exception. *)
ReturnIrq ==
    /\ nest # <<>>
    /\ nvic' = NvicComplete(nvic, Last(nest))
    /\ nest' = Front(nest)

(* simulator_reset: nvic_reset and core_reset. *)
Reset ==
    /\ nvic' = NvicReset
    /\ nest' = <<>>

Next ==
    \/ \E i \in Irqs : SetPending(i) \/ ClearPending(i)
    \/ \E i \in Irqs : EnableIrq(i) \/ DisableIrq(i)
    \/ \E i \in Irqs, p \in Prios : SetPriority(i, p)
    \/ TakeIrq
    \/ ReturnIrq
    \/ Reset

Spec == Init /\ [][Next]_vars

-----------------------------------------------------------------------------
NvicTypeOK ==
    /\ IsNvicRecord(nvic)
    /\ nest \in Seq(Irqs)

(* nvic_get_pending_irq's single pass picks exactly the line the spec      *)
(* selects: the most urgent enabled pending line that beats                *)
(* current_priority, ties going to the lowest line number.                 *)
SelectionIsBest ==
    LET sel == NvicGetPendingIrq(nvic)
    IN  /\ sel.found <=> Candidates(nvic) # {}
        /\ sel.found => sel.irq = BestCandidate(nvic)

(* Preemption only by strictly more urgent interrupts: along the core's    *)
(* nesting each exception has a smaller priority value than the one it     *)
(* interrupted, so an equal-priority line never nests (acknowledge,        *)
(* get_pending_irq and complete together).                                 *)
NestingByPriority ==
    \A k \in 1 .. (Len(nest) - 1) :
        nvic.priority[nest[k + 1]] < nvic.priority[nest[k]]

(* current_priority is the minimum priority over active lines, or 0xFF     *)
(* (spec section 3), after any sequence of acknowledge, complete and       *)
(* nvic_set_priority calls.                                                *)
CurrentPriorityIsMinActive ==
    nvic.current_priority = ExpectedPriority(nvic)

=============================================================================
