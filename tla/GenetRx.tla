------------------------------ MODULE GenetRx -------------------------------
(* One receive ring of the Linux bcmgenet driver and the RDMA engine that    *)
(* fills it (resources/linux-genet-driver/bcmgenet.c).                       *)
(*                                                                           *)
(* Only the NAPI poll works on the driver's side of the ring; the hardware   *)
(* and the interrupt handler run at any time between its register accesses.  *)
(* Every slot always has a buffer: bcmgenet_rx_refill puts a new one in the  *)
(* ring before it takes a full one out, and recycles the full one if it      *)
(* cannot.  Slots count from ring->cb_ptr.                                   *)
EXTENDS Integers

CONSTANTS
    RxSize,         \* ring->size
    RxIndexMod,     \* DMA_P_INDEX_MASK + 1 and DMA_C_INDEX_MASK + 1
    Budget,         \* NAPI's budget for one poll
    Bufs,           \* skbs
    Good, Bad,      \* frames: to be delivered, and with an error flag
    NoFrame,        \* no frame
    DiscardMax,     \* DMA_P_INDEX_DISCARD_CNT_MASK
    DiscardClear,   \* 0xC000, where the driver clears the count
    MaxDropped      \* bound on the frames the hardware discards

ASSUME RxAssumption ==
    /\ RxSize \in Nat \ {0} /\ RxIndexMod \in Nat /\ RxSize < RxIndexMod
    /\ Budget \in Nat /\ MaxDropped \in Nat
    /\ DiscardMax \in Nat /\ DiscardClear \in Nat

VARIABLES
    rx_index, read_ptr, old_discards,
    missed,         \* stats64.missed
    rx_cbs,         \* rx_cbs[slot].skb
    owner,          \* of each skb: "free", "ring" or "stack"
    content,        \* the frame in each skb
    up,             \* the frame last given to napi_gro_receive
    todo,           \* frames this poll still has to process
    work,           \* frames it has processed
    rdma_prod, rdma_cons, rdma_write, discards,
    dropped,        \* frames the hardware ever discarded
    rx_due,         \* 1: frames wait for the coalescing threshold or timeout
    rx_stat, rx_mask, rx_napi,
    rx_poll         \* what bcmgenet_rx_poll does next

rx_ring == <<rx_index, read_ptr>>
stats == <<old_discards, missed>>
rx_skbs == <<rx_cbs, owner, content, up>>
rdma == <<rdma_prod, rdma_cons, rdma_write, discards, dropped, rx_due>>
rx_irq == <<rx_stat, rx_mask, rx_napi>>
step == <<rx_poll, todo, work>>
rx_vars == <<rx_ring, stats, rx_skbs, rdma, rx_irq, step>>

RxSlots == 0 .. RxSize - 1
RxIndices == 0 .. RxIndexMod - 1
Frames == Good \cup Bad

\* x modulo n, for x from -n to 2n - 1.
RxWrap(x, n) == IF x >= n THEN x - n ELSE IF x < 0 THEN x + n ELSE x

\* The n slots from p on.
RxRun(p, n) == {i \in RxSlots : RxWrap(i - p, RxSize) < n}

\* Frames the hardware has put in the ring and the driver has not taken.
Filled == RxWrap(rdma_prod - rx_index, RxIndexMod)

RxTypeOK ==
    /\ rx_index \in RxIndices /\ read_ptr \in RxSlots
    /\ old_discards \in 0 .. DiscardMax /\ missed \in Nat
    /\ rx_cbs \in [RxSlots -> Bufs]
    /\ owner \in [Bufs -> {"free", "ring", "stack"}]
    /\ content \in [Bufs -> Frames \cup {NoFrame}] /\ up \in Frames \cup {NoFrame}
    /\ todo \in 0 .. Budget /\ work \in 0 .. Budget
    /\ rdma_prod \in RxIndices /\ rdma_cons \in RxIndices /\ rdma_write \in RxSlots
    /\ discards \in 0 .. DiscardMax /\ dropped \in 0 .. MaxDropped
    /\ rx_due \in 0 .. 1 /\ rx_stat \in 0 .. 1 /\ rx_mask \in 0 .. 1
    /\ rx_napi \in {"idle", "sched", "missed"}
    /\ rx_poll \in {"idle", "read", "clear", "loop", "complete", "enable"}

\* bcmgenet_init_rx_ring once bcmgenet_alloc_rx_buffers has succeeded, and
\* bcmgenet_enable_rx_napi.
SetUp(b) ==
    /\ rx_index' = 0 /\ read_ptr' = 0
    /\ rx_cbs' = b
    /\ owner' = [x \in Bufs |-> IF \E i \in RxSlots : b[i] = x THEN "ring"
                                ELSE IF owner[x] = "stack" THEN "stack"
                                ELSE "free"]
    /\ content' = [x \in Bufs |-> NoFrame] /\ up' = NoFrame
    /\ rdma_prod' = 0 /\ rdma_cons' = 0 /\ rdma_write' = 0 /\ discards' = 0
    /\ rx_due' = 0 /\ rx_stat' = 0 /\ rx_mask' = 0

\* Distinct buffers for the slots, among those nobody else has.
Allocations(free) ==
    {b \in [RxSlots -> free] : \A i, j \in RxSlots : b[i] = b[j] => i = j}

RxInit ==
    /\ rx_index = 0 /\ read_ptr = 0 /\ old_discards = 0 /\ missed = 0
    /\ rx_cbs \in Allocations(Bufs)
    /\ owner = [x \in Bufs |-> IF \E i \in RxSlots : rx_cbs[i] = x
                               THEN "ring" ELSE "free"]
    /\ content = [x \in Bufs |-> NoFrame] /\ up = NoFrame
    /\ todo = 0 /\ work = 0
    /\ rdma_prod = 0 /\ rdma_cons = 0 /\ rdma_write = 0
    /\ discards = 0 /\ dropped = 0
    /\ rx_due = 0 /\ rx_stat = 0 /\ rx_mask = 0 /\ rx_napi = "idle" /\ rx_poll = "idle"
-----------------------------------------------------------------------------
\* The hardware compares its producer index with the consumer index the
\* driver wrote last.
RingFull == RxWrap(rdma_prod - rdma_cons, RxIndexMod) = RxSize

\* The hardware writes a frame into the buffer of its write pointer's slot.
RdmaWrite(f) ==
    /\ ~RingFull
    /\ content' = [content EXCEPT ![rx_cbs[rdma_write]] = f]
    /\ rdma_prod' = RxWrap(rdma_prod + 1, RxIndexMod)
    /\ rdma_write' = RxWrap(rdma_write + 1, RxSize)
    /\ rx_due' = 1
    /\ UNCHANGED <<rx_ring, stats, rx_cbs, owner, up, rdma_cons, discards, dropped,
                   rx_irq, step>>

\* With no free descriptor it discards the frame and counts it.
RdmaDiscard ==
    /\ RingFull /\ dropped < MaxDropped
    /\ discards' = IF discards = DiscardMax THEN discards ELSE discards + 1
    /\ dropped' = dropped + 1
    /\ UNCHANGED <<rx_ring, stats, rx_skbs, rdma_prod, rdma_cons, rdma_write, rx_due,
                   rx_irq, step>>

\* The coalescing threshold or timeout is reached (DMA_MBUF_DONE_THRESH,
\* DMA_RING0_TIMEOUT).
RdmaInterrupt ==
    /\ rx_due = 1
    /\ rx_due' = 0 /\ rx_stat' = 1
    /\ UNCHANGED <<rx_ring, stats, rx_skbs, rdma_prod, rdma_cons, rdma_write,
                   discards, dropped, rx_mask, rx_napi, step>>

\* bcmgenet_isr1 for this ring.
RxIsr1 ==
    /\ rx_stat = 1 /\ rx_mask = 0
    /\ rx_stat' = 0
    /\ IF rx_napi = "idle" THEN rx_mask' = 1 /\ rx_napi' = "sched"
                        ELSE rx_mask' = rx_mask /\ rx_napi' = "missed"
    /\ UNCHANGED <<rx_ring, stats, rx_skbs, rdma, step>>
-----------------------------------------------------------------------------
(* bcmgenet_rx_poll and bcmgenet_desc_rx, from one register access to the    *)
(* next.                                                                     *)
RxPollClear ==
    /\ rx_napi # "idle" /\ rx_poll = "idle"
    /\ rx_stat' = 0 /\ rx_poll' = "read"
    /\ UNCHANGED <<rx_ring, stats, rx_skbs, rdma, rx_mask, rx_napi, todo, work>>

\* stats64.missed after the discard count has been read.
Missed == missed + discards - old_discards

\* How many frames this poll will process.
ToProcess == IF Filled < Budget THEN Filled ELSE Budget

\* RDMA_PROD_INDEX is read: how much to process, and what was discarded.
PollRead ==
    /\ rx_poll = "read"
    /\ IF discards > old_discards
       THEN /\ missed' = Missed
            /\ old_discards' = IF discards >= DiscardClear THEN 0 ELSE discards
            /\ rx_poll' = IF discards >= DiscardClear THEN "clear" ELSE "loop"
       ELSE UNCHANGED stats /\ rx_poll' = "loop"
    /\ todo' = ToProcess
    /\ work' = 0
    /\ UNCHANGED <<rx_ring, rx_skbs, rdma, rx_irq>>

\* The driver writes 0 to RDMA_PROD_INDEX, of which only the discard count can
\* be written while the ring runs.
PollClearDiscards ==
    /\ rx_poll = "clear"
    /\ discards' = 0 /\ rx_poll' = "loop"
    /\ UNCHANGED <<rx_ring, stats, rx_skbs, rdma_prod, rdma_cons, rdma_write, dropped,
                   rx_due, rx_irq, todo, work>>

\* The consumer index after one more frame.
RxConsumed == RxWrap(rx_index + 1, RxIndexMod)

\* The end of the loop over the frames: on to the next slot, and the consumer
\* index is written back.
Advance ==
    /\ rx_poll = "loop" /\ todo > 0
    /\ todo' = todo - 1 /\ work' = work + 1
    /\ read_ptr' = RxWrap(read_ptr + 1, RxSize)
    /\ rx_index' = RxConsumed
    /\ rdma_cons' = RxConsumed
    /\ UNCHANGED <<stats, rdma_prod, rdma_write, discards, dropped, rx_due, rx_irq,
                   rx_poll>>

\* bcmgenet_rx_refill finds no memory or cannot map it: the frame is dropped
\* and its buffer stays in the ring.
RxRecycle ==
    /\ Advance
    /\ up' = NoFrame
    /\ UNCHANGED <<rx_cbs, owner, content>>

M_Takes_EverythingUp(f) == f

\* What becomes of a frame: fragments, oversized frames and frames with an
\* error flag are freed, the others go up.
Takes(f) == IF f \in Good THEN f ELSE NoFrame

M_Refilled_AfterUse(i, x) == [rx_cbs EXCEPT ![RxWrap(i + 1, RxSize)] = x]

\* The ring once the buffer x is in slot i.
Refilled(i, x) == [rx_cbs EXCEPT ![i] = x]

RxTake(x) ==
    /\ Advance
    /\ owner[x] = "free"
    /\ LET old == rx_cbs[read_ptr] IN
       /\ up' = Takes(content[old])
       /\ rx_cbs' = Refilled(read_ptr, x)
       /\ content' = [content EXCEPT ![old] = NoFrame, ![x] = NoFrame]
       /\ owner' = [owner EXCEPT
                       ![x] = "ring",
                       ![old] = IF Takes(content[old]) = NoFrame
                                THEN "free" ELSE "stack"]

\* The budget is not used up: the poll is over.
PollDone ==
    /\ rx_poll = "loop" /\ todo = 0
    /\ rx_poll' = IF work < Budget THEN "complete" ELSE "idle"
    /\ UNCHANGED <<rx_ring, stats, rx_skbs, rdma, rx_irq, todo, work>>

\* napi_complete_done fails if the poll was scheduled again meanwhile.
RxPollComplete ==
    /\ rx_poll = "complete"
    /\ IF rx_napi = "missed" THEN rx_napi' = "sched" /\ rx_poll' = "idle"
                          ELSE rx_napi' = "idle" /\ rx_poll' = "enable"
    /\ UNCHANGED <<rx_ring, stats, rx_skbs, rdma, rx_stat, rx_mask, todo, work>>

\* bcmgenet_rx_ring_int_enable.
RxPollEnable ==
    /\ rx_poll = "enable"
    /\ rx_mask' = 0 /\ rx_poll' = "idle"
    /\ UNCHANGED <<rx_ring, stats, rx_skbs, rdma, rx_stat, rx_napi, todo, work>>
-----------------------------------------------------------------------------
\* The stack frees a frame it was given.
StackFrees(x) ==
    /\ owner[x] = "stack"
    /\ owner' = [owner EXCEPT ![x] = "free"]
    /\ UNCHANGED <<rx_ring, stats, rx_cbs, content, up, rdma, rx_irq, step>>

\* bcmgenet_close, with bcmgenet_free_rx_buffers, and bcmgenet_open: RDMA is
\* halted, NAPI is off, and old_discards outlives the ring.
RxReopen ==
    /\ rx_poll = "idle" /\ rx_napi = "idle"
    /\ \E b \in Allocations({x \in Bufs : owner[x] # "stack"}) : SetUp(b)
    /\ UNCHANGED <<stats, dropped, rx_napi, step>>

RxNext ==
    \/ \E f \in Frames : RdmaWrite(f)
    \/ RdmaDiscard
    \/ RdmaInterrupt
    \/ RxIsr1
    \/ RxPollClear
    \/ PollRead
    \/ PollClearDiscards
    \/ RxRecycle
    \/ \E x \in Bufs : RxTake(x)
    \/ PollDone
    \/ RxPollComplete
    \/ RxPollEnable
    \/ \E x \in Bufs : StackFrees(x)
    \/ RxReopen

\* Interrupts are raised and delivered, and a scheduled poll runs to its end.
RxFairness ==
    /\ WF_rx_vars(RdmaInterrupt) /\ WF_rx_vars(RxIsr1)
    /\ WF_rx_vars(RxPollClear) /\ WF_rx_vars(PollRead)
    /\ WF_rx_vars(PollClearDiscards)
    /\ WF_rx_vars(RxRecycle \/ \E x \in Bufs : RxTake(x))
    /\ WF_rx_vars(PollDone) /\ WF_rx_vars(RxPollComplete) /\ WF_rx_vars(RxPollEnable)

RxSpec == RxInit /\ [][RxNext]_rx_vars

RxFairSpec == RxSpec /\ RxFairness
-----------------------------------------------------------------------------
(* The driver and the hardware agree about the ring: the consumer index the  *)
(* hardware has is the driver's, the hardware is never more than one ring    *)
(* ahead, its write pointer is that many slots after read_ptr although the   *)
(* indices wrap at RxIndexMod and the pointers at RxSize, and a poll never   *)
(* processes a slot the hardware has not filled.                             *)
RingInWindow ==
    /\ rdma_cons = rx_index
    /\ Filled <= RxSize
    /\ \/ rdma_write = RxWrap(read_ptr + Filled, RxSize)
       \/ Filled = RxSize /\ rdma_write = read_ptr
    /\ todo <= Filled

(* Each slot has a buffer of its own that nobody else has, whatever refills  *)
(* fail, and no buffer the ring owns is lost: the hardware cannot write into *)
(* a frame the stack has been given.                                         *)
BuffersOwned ==
    /\ \A i, j \in RxSlots : rx_cbs[i] = rx_cbs[j] => i = j
    /\ \A x \in Bufs : owner[x] = "ring" <=> \E i \in RxSlots : rx_cbs[i] = x

(* stats64.missed never counts a discarded frame twice, nor one that was not *)
(* discarded, although the hardware's count is cleared at DiscardClear while *)
(* it goes on counting and restarts from 0 when the ring is set up again.    *)
MissedNeverOver ==
    /\ missed <= dropped
    /\ rx_poll # "clear" /\ discards > old_discards => Missed <= dropped

(* The receive ring: driver and hardware agree about it, every buffer has one *)
(* owner whatever refills fail, and discarded frames are counted once         *)
(* (bcmgenet_desc_rx, bcmgenet_rx_refill).                                    *)
RxSafe == RxTypeOK /\ RingInWindow /\ BuffersOwned /\ MissedNeverOver

(* A frame in the ring is taken out of it: none is forgotten between the     *)
(* last look at RDMA_PROD_INDEX and bcmgenet_rx_ring_int_enable.             *)
FramesTaken ==
    \A i \in RxSlots : i \in RxRun(read_ptr, Filled) ~> i \notin RxRun(read_ptr, Filled)
=============================================================================
