------------------------------- MODULE Latch -------------------------------
(***************************************************************************)
(* What a gate_guard promises to the threads that use it: it opens once    *)
(* AtLeast signals have been given or it is forced, never earlier; it      *)
(* stays open; and whoever waits at it then passes.                        *)
(***************************************************************************)
EXTENDS Naturals

CONSTANTS Waiters, AtLeast

VARIABLES
    count,   \* signals given (a force gives all that are missing)
    open,
    passed   \* the waiters whose wait() has returned

latchVars == <<count, open, passed>>

Init == count = 0 /\ open = FALSE /\ passed = {}

Signal == count' = count + 1 /\ UNCHANGED <<open, passed>>

\* extra signals are forgotten
Force == count' = AtLeast /\ UNCHANGED <<open, passed>>

Open == count >= AtLeast /\ open' = TRUE /\ UNCHANGED <<count, passed>>

Pass(w) ==
    /\ open
    /\ w \notin passed
    /\ passed' = passed \cup {w}
    /\ UNCHANGED <<count, open>>

Next == Signal \/ Force \/ Open \/ \E w \in Waiters : Pass(w)

Spec == Init /\ [][Next]_latchVars
=============================================================================
