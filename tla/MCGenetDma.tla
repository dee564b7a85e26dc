----------------------------- MODULE MCGenetDma -----------------------------
(* A transmit ring and a receive ring of the GENET driver, side by side:      *)
(* bcmgenet_xmit and the TX poll share no state with the RX poll, so what one *)
(* ring does while the other rests is all it can do.  DmaInit picks the ring  *)
(* and, for the transmit ring, what may go wrong: nothing, a packet that is   *)
(* dropped for want of memory, or such packets with timeouts and reopenings.  *)
EXTENDS GenetTx, GenetRxRefinement, TLC

CONSTANTS s1, s2, b1, b2, b3, good1, bad

MCSkbs == {s1, s2}
MCBufs == {b1, b2, b3}
MCGood == {good1}
MCBad == {bad}
Symmetry == Permutations(MCSkbs) \cup Permutations(MCBufs)

VARIABLE part

MCFaultSets == {{}, {"tsb", "map"}, {"tsb", "timeout", "stop"}}

DmaInit ==
    /\ part \in {"tx", "rx"}
    /\ Init /\ RxInit
    /\ part = "rx" => faults = {}
    /\ part = "tx" => rx_cbs = (0 :> b1 @@ 1 :> b2)

Transmit == part = "tx" /\ Next /\ UNCHANGED <<part, rx_vars>>

Receive == part = "rx" /\ RxNext /\ UNCHANGED <<part, vars>>

DmaSpec == DmaInit /\ [][Transmit \/ Receive]_<<part, vars, rx_vars>>
=============================================================================
