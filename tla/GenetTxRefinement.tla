------------------------- MODULE GenetTxRefinement --------------------------
(* A transmit ring implements a queue of packets.                            *)
EXTENDS GenetTx, SequencesExt

\* The ring's slots in the order they are sent, from clean_ptr on.
InUse == [j \in 1 .. Outstanding |-> Wrap(clean_ptr + j - 1, Size)]

\* A packet is accepted until its last control block is reclaimed.
IsLast(i) == cbs[i] # None /\ last_cb[cbs[i]] = i

Accepted ==
    LET slots == SelectSeq(InUse, IsLast)
    IN  [j \in 1 .. Len(slots) |-> cbs[slots[j]]]

\* It is on the wire once the hardware has passed its last descriptor.
Sent == Len(SelectSeq(SubSeq(InUse, 1, Ready), IsLast))

Fifo == INSTANCE GenetTxFifo WITH
            Packets <- Skbs, accepted <- Accepted, sent <- Sent

(* Packets leave in the order bcmgenet_xmit accepted them, and none is freed *)
(* before the hardware has sent all of it.                                   *)
KeepsFifo == Fifo!Spec
=============================================================================
