------------------------- MODULE GenetRxRefinement --------------------------
(* A receive ring implements a queue of frames.                              *)
EXTENDS GenetRx, Sequences

\* What the filled slots hold, from read_ptr on.
Stored == [j \in 1 .. Filled |-> content[rx_cbs[RxWrap(read_ptr + j - 1, RxSize)]]]

Fifo == INSTANCE GenetRxFifo WITH None <- NoFrame, Size <- RxSize, stored <- Stored

(* Frames reach the stack in the order the hardware stored them, each once   *)
(* and with its own contents, and none with an error flag does.              *)
KeepsRxFifo == Fifo!Spec
=============================================================================
