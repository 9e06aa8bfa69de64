---------------------------- MODULE RelaxedQueue ----------------------------
(***************************************************************************)
(* What the frontend adapter's command queue promises                      *)
(* (MatrixFrontendAdapter in backend-matrix lib.rs): every command         *)
(* submitted is delivered at most once, and no command overtakes more than *)
(* K - 1 that still wait.  With K = 1 it is a first-in, first-out queue.   *)
(***************************************************************************)
EXTENDS Naturals, FiniteSets, Sequences

CONSTANT K      \* how many may be on their way at once

VARIABLES
    next,       \* the number of the next command submitted
    waiting,    \* commands submitted and neither delivered nor withdrawn
    delivered,  \* the commands delivered, in order
    open        \* is there still a receiver?

vars == <<next, waiting, delivered, open>>

Init == next = 1 /\ waiting = {} /\ delivered = <<>> /\ open = TRUE

Submit ==
    /\ next' = next + 1
    /\ waiting' = waiting \cup {next}
    /\ UNCHANGED <<delivered, open>>

\* A command is cancelled, or the caller who carried it gives up.
Withdraw(x) ==
    /\ x \in waiting
    /\ waiting' = waiting \ {x}
    /\ UNCHANGED <<next, delivered, open>>

Deliver(x) ==
    /\ open
    /\ x \in waiting
    /\ Cardinality({y \in waiting : y < x}) < K
    /\ waiting' = waiting \ {x}
    /\ delivered' = Append(delivered, x)
    /\ UNCHANGED <<next, open>>

Close ==
    /\ open
    /\ open' = FALSE
    /\ UNCHANGED <<next, waiting, delivered>>

Next ==
    \/ Submit
    \/ \E x \in waiting : Withdraw(x) \/ Deliver(x)
    \/ Close

Spec == Init /\ [][Next]_vars
=============================================================================
