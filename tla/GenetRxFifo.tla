---------------------------- MODULE GenetRxFifo -----------------------------
(* What a receive ring promises: the frames the hardware stores come out     *)
(* once each, in order; those with an error, and those for which there is no *)
(* memory, are dropped at that point.                                        *)
EXTENDS Integers, Sequences

CONSTANTS Good, Bad, None, Size

VARIABLES
    stored,     \* the frames stored and not yet taken
    up          \* what became of the frame taken last

vars == <<stored, up>>

Init == stored = <<>> /\ up = None

Store(f) ==
    /\ Len(stored) < Size
    /\ stored' = Append(stored, f)
    /\ UNCHANGED up

Take ==
    /\ stored # <<>>
    /\ stored' = Tail(stored)
    /\ up' \in (Good \cap {Head(stored)}) \cup {None}

\* The interface is closed.
Flush == stored' = <<>> /\ up' = None

Next == (\E f \in Good \cup Bad : Store(f)) \/ Take \/ Flush

Spec == Init /\ [][Next]_vars
=============================================================================
