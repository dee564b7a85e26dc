---------------------------- MODULE GenetTxFifo -----------------------------
(* What a transmit ring promises to the network stack: it is a queue of      *)
(* packets.  They are put on the wire one at a time, in the order in which   *)
(* ndo_start_xmit accepted them, and are given back only after that, in the  *)
(* same order.                                                               *)
EXTENDS Integers, Sequences

CONSTANTS Packets

VARIABLES
    accepted,   \* the packets accepted and not yet given back, oldest first
    sent        \* how many of them have been put on the wire

vars == <<accepted, sent>>

Init == accepted = <<>> /\ sent = 0

Accept(p) ==
    /\ \A i \in 1 .. Len(accepted) : accepted[i] # p
    /\ accepted' = Append(accepted, p)
    /\ UNCHANGED sent

Send ==
    /\ sent < Len(accepted)
    /\ sent' = sent + 1
    /\ UNCHANGED accepted

\* Completions are batched.
GiveBack(n) ==
    /\ n <= sent
    /\ accepted' = SubSeq(accepted, n + 1, Len(accepted))
    /\ sent' = sent - n

Next ==
    \/ \E p \in Packets : Accept(p)
    \/ Send
    \/ \E n \in 1 .. sent : GiveBack(n)

Spec == Init /\ [][Next]_vars
=============================================================================
