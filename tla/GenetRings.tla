---------------------------- MODULE GenetRings ------------------------------
(* How the Linux driver divides a DMA engine's descriptors among its rings    *)
(* (bcmgenet.c): bcmgenet_init_tx_queues and bcmgenet_init_rx_queues, ring by *)
(* ring, from the parameters bcmgenet_set_hw_params picks for the version of  *)
(* the MAC.  The two loops divide alike; the receive one stops where no       *)
(* buffer can be allocated, after any number of rings.                        *)
EXTENDS Integers

CONSTANTS
    TOTAL_DESC,     \* 256
    Params          \* [queues, bds_per_q, words_per_bd]

ASSUME ParamsAssumption ==
    /\ TOTAL_DESC \in Nat
    /\ Params \subseteq [queues : Nat, bds_per_q : Nat, words_per_bd : Nat \ {0}]
    /\ \A p \in Params : p.queues * p.bds_per_q <= TOTAL_DESC

VARIABLES
    params,         \* priv->hw_params
    i, start, end,  \* of the loop
    rings,          \* the rings initialised: [first, last, size, from, upto]
    enabled         \* the rings of DMA_RING_CFG and DMA_CTRL

rings_vars == <<params, i, start, end, rings, enabled>>

Ring == [first : Int, last : Int, size : Int, from : Int, upto : Int]

RingsTypeOK ==
    /\ params \in Params
    /\ i \in 0 .. params.queues + 1
    /\ start \in 0 .. TOTAL_DESC /\ end \in Nat
    /\ rings \in [0 .. i - 1 -> Ring]
    /\ enabled \subseteq 0 .. params.queues

\* GENET_Q0_TX_BD_CNT and GENET_Q0_RX_BD_CNT
Q0Count(p) == TOTAL_DESC - p.queues * p.bds_per_q

RingsInit ==
    /\ params \in Params
    /\ i = 0 /\ start = 0 /\ end = Q0Count(params)
    /\ rings = [q \in 0 .. -1 |-> <<>>]
    /\ enabled = {}

M_MakeRing_Short(s, e) ==
    [first |-> s, last |-> e - 2, size |-> e - s,
     from |-> s * params.words_per_bd, upto |-> e * params.words_per_bd - 1]
M_MakeRing_Words(s, e) ==
    [first |-> s, last |-> e - 1, size |-> e - s,
     from |-> s * params.words_per_bd, upto |-> e * params.words_per_bd]
\* bcmgenet_init_tx_ring and bcmgenet_init_rx_ring: cb_ptr, end_ptr and size
\* of the control blocks, DMA_START_ADDR and DMA_END_ADDR of the descriptors
MakeRing(s, e) ==
    [first |-> s, last |-> e - 1, size |-> e - s,
     from |-> s * params.words_per_bd, upto |-> e * params.words_per_bd - 1]

\* Ring 0 and the priority rings
NumRings == params.queues + 1

InitRing ==
    /\ i < NumRings /\ enabled = {}
    /\ rings' = [q \in 0 .. i |-> IF q = i THEN MakeRing(start, end) ELSE rings[q]]
    /\ start' = end /\ end' = end + params.bds_per_q
    /\ i' = i + 1
    /\ UNCHANGED <<params, enabled>>

\* The rings are configured and enabled together, once all are initialised.
EnableRings ==
    /\ i = NumRings /\ enabled = {}
    /\ enabled' = 0 .. params.queues
    /\ UNCHANGED <<params, i, start, end, rings>>

RingsNext == InitRing \/ EnableRings

RingsSpec == RingsInit /\ [][RingsNext]_rings_vars
-----------------------------------------------------------------------------
Holds(q, d) == rings[q].first <= d /\ d <= rings[q].last

(* While the loop runs, and when the rings are enabled, every descriptor      *)
(* before start belongs to exactly one ring and none from start on to any:    *)
(* two rings never share a control block, and none is left without a ring.    *)
Tiled ==
    \A d \in 0 .. TOTAL_DESC - 1 :
        /\ d < start => \E q \in 0 .. i - 1 : Holds(q, d)
        /\ d >= start => \A q \in 0 .. i - 1 : ~Holds(q, d)
        /\ \A q, r \in 0 .. i - 1 : Holds(q, d) /\ Holds(r, d) => q = r

(* No ring reaches past the last descriptor, and the rings that are enabled   *)
(* leave no descriptor over.                                                  *)
WithinTable ==
    /\ \A q \in 0 .. i - 1 : rings[q].first >= 0 /\ rings[q].last < TOTAL_DESC
    /\ enabled # {} => start = TOTAL_DESC

(* The rings partition the descriptors.                                       *)
Partitioned == Tiled /\ WithinTable

(* The words the DMA engine is told to walk are those of the ring's own       *)
(* descriptors: the windows of two rings do not overlap.                      *)
WindowsApart ==
    \A q, r \in 0 .. i - 1 : q < r /\ rings[q].size > 0 => rings[q].upto < rings[r].from
=============================================================================
