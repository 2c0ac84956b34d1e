------------------------------ MODULE Debugger ------------------------------
(***************************************************************************)
(* The breakpoint list (src/src/debugger/debugger.c, src/unnamed/part_010  *)
(* debugger.h).  The array and its count are a sequence of addresses;     *)
(* each debugger_* function is an operator on it.  The host's add and    *)
(* remove commands are GdbStub's Z0 and z0 handlers, where the list is    *)
(* shown to implement BreakpointSet.                                      *)
(***************************************************************************)
EXTENDS Naturals, Sequences, SequencesExt

CONSTANT MaxBreakpoints   \* DEBUGGER_MAX_BREAKPOINTS (64 in the code)

(* Mutation: the limit test is > instead of >=. *)
DebuggerAddOneOver(d, addr) ==
    IF addr \in ToSet(d) \/ Len(d) > MaxBreakpoints THEN d ELSE Append(d, addr)

(* debugger_add_breakpoint: an address already present is not added      *)
(* again; a full list refuses (returns -1) and is left unchanged.         *)
DebuggerAdd(d, addr) ==
    IF addr \in ToSet(d) \/ Len(d) >= MaxBreakpoints THEN d
    ELSE Append(d, addr)

(* Mutation: remove decrements the count without shifting, which drops *)
(* the last entry instead of the matching one.                              *)
DebuggerRemoveNoShift(d, addr) == IF addr \in ToSet(d) THEN Front(d) ELSE d

(* debugger_remove_breakpoint: the first match is removed and the later  *)
(* entries shift down; an absent address leaves the list (returns -1).    *)
DebuggerRemove(d, addr) == RemoveFirst(d, addr)

(* debugger_check: linear scan for pc. *)
DebuggerCheck(d, pc) == \E k \in 1 .. Len(d) : d[k] = pc

=============================================================================
