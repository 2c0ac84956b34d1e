---------------------------- MODULE BreakpointSet ----------------------------
(***************************************************************************)
(* What the debugger promises (spec section 4.8): a set of breakpoint     *)
(* addresses; add is idempotent up to Capacity, remove deletes.            *)
(***************************************************************************)
EXTENDS Naturals, FiniteSets

CONSTANTS Capacity, Addrs

VARIABLES bpset, request

Init == bpset = {} /\ request = <<"none">>

Add(a) ==
    /\ request' = <<"add", a>>
    /\ bpset' = IF a \in bpset \/ Cardinality(bpset) < Capacity
                THEN bpset \cup {a} ELSE bpset

Delete(a) == bpset' = bpset \ {a} /\ request' = <<"delete", a>>

Next == \E a \in Addrs : Add(a) \/ Delete(a)

Spec == Init /\ [][Next]_<<bpset, request>>

=============================================================================
