----------------------------- MODULE MCGenetRings ---------------------------
(* The rings of the GENET driver: how they are laid out, and what a transmit  *)
(* and a receive ring do in the end, side by side.  They share no      *)
(* state; AllInit picks the part that moves.                                  *)
EXTENDS GenetRings

CONSTANTS s1, s2, b1, b2, b3, good1, None

VARIABLES part, prod_index, c_index, write_ptr, clean_ptr, free_bds, cbs, first_cb, last_cb,
          holder, txq, bql, more, tdma_prod, tdma_cons, tdma_read, stat, mask, napi, poll,
          enabling, rx_index, read_ptr, old_discards, missed, rx_cbs, owner, content, up, todo,
          work, rdma_prod, rdma_cons, rdma_write, discards, dropped, rx_due, rx_stat, rx_mask,
          rx_napi, rx_poll

\* The parameters of the four versions, bcmgenet_hw_params_v1 to _v4 ...
Versions == {
    [queues |-> 0, bds_per_q |-> 0, words_per_bd |-> 2],
    [queues |-> 4, bds_per_q |-> 32, words_per_bd |-> 2],
    [queues |-> 4, bds_per_q |-> 32, words_per_bd |-> 3],
    [queues |-> 0, bds_per_q |-> 0, words_per_bd |-> 3]}

\* ... and many that fit the table
Fitting ==
    {p \in [queues : 0 .. 4, bds_per_q : {0, 1, 31, 32, 63, 64, 85, 128, 255},
            words_per_bd : 2 .. 3] : p.queues * p.bds_per_q <= 256}

AllParams == Versions \cup Fitting

\* A ring of four descriptors, packets of one or two, indices modulo five
Tx == INSTANCE GenetTxRefinement WITH
          Size <- 4, MAX_SKB_FRAGS <- 1, IndexMod <- 5, Skbs <- {s1, s2}, MaxBql <- 5,
          FaultSets <- {{}}, faults <- {}, dog <- "idle"

\* A ring of two descriptors with a buffer to spare
Rx == INSTANCE GenetRx WITH
          RxSize <- 2, RxIndexMod <- 3, Budget <- 2, Bufs <- {b1, b2, b3}, Good <- {good1},
          Bad <- {}, NoFrame <- None, DiscardMax <- 1, DiscardClear <- 1, MaxDropped <- 0

tx_vars == <<prod_index, c_index, write_ptr, clean_ptr, free_bds, cbs, first_cb, last_cb,
             holder, txq, bql, more, tdma_prod, tdma_cons, tdma_read, stat, mask, napi, poll,
             enabling>>
rx_vars == <<rx_index, read_ptr, old_discards, missed, rx_cbs, owner, content, up, todo, work,
             rdma_prod, rdma_cons, rdma_write, discards, dropped, rx_due, rx_stat, rx_mask,
             rx_napi, rx_poll>>

AllInit ==
    /\ part \in {"layout", "tx", "rx"}
    /\ RingsInit /\ Tx!Init /\ Rx!RxInit
    /\ part # "layout" => params = [queues |-> 4, bds_per_q |-> 32, words_per_bd |-> 3]
    /\ part # "rx" => rx_cbs = [slot \in 0 .. 1 |-> IF slot = 0 THEN b1 ELSE b2]

AllNext ==
    /\ \/ part = "layout" /\ RingsNext /\ UNCHANGED <<tx_vars, rx_vars>>
       \/ part = "tx" /\ Tx!Next /\ UNCHANGED <<rings_vars, rx_vars>>
       \/ part = "rx" /\ Rx!RxNext /\ UNCHANGED <<rings_vars, tx_vars>>
    /\ UNCHANGED part

\* Nothing fair is enabled in the initial state of a ring, so one that rests is
\* free to.
AllSpec ==
    /\ AllInit /\ [][AllNext]_<<part, rings_vars, tx_vars, rx_vars>>
    /\ Tx!Fairness /\ Rx!RxFairness
-----------------------------------------------------------------------------
(* The transmit ring implements a queue of packets: they leave in the order   *)
(* bcmgenet_xmit accepted them and none is freed before it is sent.           *)
KeepsFifo == Tx!KeepsFifo

(* Packets are freed, stopped queues restarted and received frames taken in   *)
(* the end: no poll ends with something left to do and no interrupt to come   *)
(* (bcmgenet_tx_poll, bcmgenet_rx_poll, bcmgenet_isr1).                       *)
QueuesDrain == Tx!PacketsFreed /\ Tx!QueueRestarts /\ Rx!FramesTaken
=============================================================================
