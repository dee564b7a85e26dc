------------------------------ MODULE GenetTx -------------------------------
(* One transmit ring of the Linux bcmgenet driver and the TDMA engine that   *)
(* empties it (resources/linux-genet-driver/bcmgenet.c).                     *)
(*                                                                           *)
(* The threads are the network stack, which calls bcmgenet_xmit under the    *)
(* queue's lock, the interrupt handler bcmgenet_isr1, the NAPI poll, the TX  *)
(* watchdog and the hardware.  ring->lock makes bcmgenet_xmit and the body   *)
(* of __bcmgenet_tx_reclaim exclude each other; the hardware and the         *)
(* interrupt handler respect no lock.                                        *)
(*                                                                           *)
(* A control block holds an skb and its DMA mapping together, as the code    *)
(* sets and clears them together.  Slots count from ring->cb_ptr.            *)
EXTENDS Integers, FiniteSets

CONSTANTS
    Size,           \* ring->size
    MAX_SKB_FRAGS,
    IndexMod,       \* DMA_P_INDEX_MASK + 1 and DMA_C_INDEX_MASK + 1
    Skbs,
    None,           \* the NULL skb
    MaxBql,         \* bound on the packets byte queue limits count
    FaultSets       \* the sets of faults that may go together

ASSUME RingAssumption ==
    /\ MAX_SKB_FRAGS \in Nat
    /\ Size \in Nat /\ Size > MAX_SKB_FRAGS + 2
    /\ IndexMod \in Nat /\ IndexMod > Size
    /\ None \notin Skbs /\ IsFiniteSet(Skbs)
    /\ FaultSets \subseteq SUBSET {"tsb", "map", "timeout", "stop"}

VARIABLES
    faults,         \* what may go wrong, the same from the start to the end
    prod_index, c_index, write_ptr, clean_ptr, free_bds,
    cbs,            \* tx_cbs[slot].skb
    first_cb, last_cb,  \* GENET_CB(skb)
    holder,         \* who must free the skb: "stack" or "driver"
    txq,            \* the reasons the queue is stopped: "drv", "bql"
    bql,            \* packets sent but not completed, for byte queue limits
    more,           \* 1: the stack announced another packet (xmit_more)
    tdma_prod, tdma_cons, tdma_read,
    stat, mask,     \* the ring's bit of INTRL2_1's status and mask
    napi,           \* "idle", "sched", or "missed": scheduled again meanwhile
    poll,           \* what bcmgenet_tx_poll does next
    enabling,       \* 1: a poll is about to unmask the interrupt
    dog             \* what bcmgenet_timeout does next, or "lost"

ring == <<prod_index, c_index, write_ptr, clean_ptr, free_bds>>
skbs == <<cbs, first_cb, last_cb, holder>>
queue == <<txq, bql, more>>
tdma == <<tdma_prod, tdma_cons, tdma_read>>
irq == <<stat, mask, napi, poll, enabling>>
vars == <<faults, dog, ring, skbs, queue, tdma, irq>>

Slots == 0 .. Size - 1
Indices == 0 .. IndexMod - 1

\* The descriptors a packet takes: its head and its fragments.
Lengths == 1 .. MAX_SKB_FRAGS + 1

\* x modulo n, for x from -n to 2n - 1.
Wrap(x, n) == IF x >= n THEN x - n ELSE IF x < 0 THEN x + n ELSE x

\* The n slots from p on.
Run(p, n) == {i \in Slots : Wrap(i - p, Size) < n}

\* Descriptors between the driver's consumer and producer indices.
Outstanding == Wrap(prod_index - c_index, IndexMod)

\* Descriptors the hardware has finished and the driver has not seen yet.
Ready == Wrap(tdma_cons - c_index, IndexMod)

TypeOK ==
    /\ faults \in FaultSets
    /\ prod_index \in Indices /\ c_index \in Indices
    /\ write_ptr \in Slots /\ clean_ptr \in Slots /\ free_bds \in 0 .. Size
    /\ cbs \in [Slots -> Skbs \cup {None}]
    /\ first_cb \in [Skbs -> Slots] /\ last_cb \in [Skbs -> Slots]
    /\ holder \in [Skbs -> {"stack", "driver"}]
    /\ txq \subseteq {"drv", "bql"} /\ bql \in Int /\ more \in 0 .. 1
    /\ tdma_prod \in Indices /\ tdma_cons \in Indices /\ tdma_read \in Slots
    /\ stat \in 0 .. 1 /\ mask \in 0 .. 1
    /\ napi \in {"idle", "sched", "missed"}
    /\ poll \in {"idle", "reclaim", "complete"} /\ enabling \in 0 .. 1
    /\ dog \in {"idle", "reclaim", "rewind", "wake", "lost"}

\* bcmgenet_init_tx_ring, then bcmgenet_enable_tx_napi unmasks the ring.
Init ==
    /\ faults \in FaultSets
    /\ prod_index = 0 /\ c_index = 0
    /\ write_ptr = 0 /\ clean_ptr = 0 /\ free_bds = Size
    /\ cbs = [i \in Slots |-> None]
    /\ first_cb = [s \in Skbs |-> 0] /\ last_cb = [s \in Skbs |-> 0]
    /\ holder = [s \in Skbs |-> "stack"]
    /\ txq = {} /\ bql = 0 /\ more = 0
    /\ tdma_prod = 0 /\ tdma_cons = 0 /\ tdma_read = 0
    /\ stat = 0 /\ mask = 0
    /\ napi = "idle" /\ poll = "idle" /\ enabling = 0
    /\ dog = "idle"

\* ring->lock is held, by the poll or by the watchdog.
Locked == poll = "reclaim" \/ dog \in {"reclaim", "rewind", "lost"}
-----------------------------------------------------------------------------
(* bcmgenet_xmit of the packet s in n descriptors.  The stack calls it while *)
(* the driver has not stopped the queue; within a batch it calls it even if  *)
(* byte queue limits have.  The watchdog holds every queue's lock.           *)
MayXmit(s, m) ==
    /\ m = 1 => \E t \in Skbs \ {s} : holder[t] = "stack"
    /\ "drv" \notin txq
    /\ txq = {} \/ more = 1
    /\ holder[s] = "stack"
    /\ ~Locked /\ dog = "idle"

XmitBusy(s, n, m) ==
    /\ MayXmit(s, m)
    /\ free_bds <= n
    /\ txq' = txq \cup {"drv"} /\ more' = 0
    /\ UNCHANGED <<faults, dog, ring, skbs, bql, tdma, irq>>

\* bcmgenet_add_tsb finds no memory: the packet is dropped.
XmitNoTsb(s, n, m) ==
    /\ "tsb" \in faults
    /\ MayXmit(s, m) /\ free_bds > n
    /\ more' = m
    /\ UNCHANGED <<faults, dog, ring, skbs, txq, bql, tdma, irq>>

\* The i-th mapping fails (from 0): bcmgenet_put_txcb returns the block at
\* write_ptr before it rewinds, so the blocks freed are write_ptr + 1 to
\* write_ptr + i, and the head's block keeps the skb that is freed.
XmitNoMap(s, n, m, i) ==
    /\ "map" \in faults
    /\ MayXmit(s, m) /\ free_bds > n /\ i < n
    /\ cbs' = [j \in Slots |->
                  IF i > 0 /\ j = write_ptr THEN s
                  ELSE IF j \in Run(Wrap(write_ptr + 1, Size), i) THEN None
                  ELSE cbs[j]]
    /\ first_cb' = [first_cb EXCEPT ![s] = write_ptr]
    /\ more' = m
    /\ UNCHANGED <<faults, dog, ring, last_cb, holder, txq, bql, tdma, irq>>

\* n free descriptors might not hold the next packet.
FewLeft(n) == n <= MAX_SKB_FRAGS + 1

M_RingsDoorbell_OnlyLast(m, q) == m = 0

\* TDMA is told of the packets so far unless the stack announces another one
\* and the queue goes on.
RingsDoorbell(m, q) == m = 0 \/ q # {}

\* The packet is queued; b is what byte queue limits decide.
Xmit(s, n, m, b) ==
    /\ MayXmit(s, m) /\ free_bds > n /\ bql < MaxBql
    /\ cbs' = [i \in Slots |-> IF i \in Run(write_ptr, n) THEN s ELSE cbs[i]]
    /\ first_cb' = [first_cb EXCEPT ![s] = write_ptr]
    /\ last_cb' = [last_cb EXCEPT ![s] = Wrap(write_ptr + n - 1, Size)]
    /\ holder' = [holder EXCEPT ![s] = "driver"]
    /\ write_ptr' = Wrap(write_ptr + n, Size)
    /\ free_bds' = free_bds - n
    /\ prod_index' = Wrap(prod_index + n, IndexMod)
    /\ txq' = txq \cup b \cup (IF FewLeft(free_bds - n) THEN {"drv"} ELSE {})
    /\ bql' = bql + 1
    /\ more' = IF "drv" \in txq' THEN 0 ELSE m
    /\ tdma_prod' = IF RingsDoorbell(m, txq') THEN prod_index' ELSE tdma_prod
    /\ UNCHANGED <<faults, dog, c_index, clean_ptr, tdma_cons, tdma_read, irq>>
-----------------------------------------------------------------------------
M_Finished_First(D) == {s \in Skbs : \E i \in D : cbs[i] = s}

\* The packets whose last control block is one of the slots D: the ones
\* bcmgenet_free_tx_cb returns to its caller.
Finished(D) == {s \in Skbs : \E i \in D : cbs[i] = s /\ last_cb[s] = i}

M_Reclaim_OneMore(k) == Run(clean_ptr, k + 1)

\* The control blocks that __bcmgenet_tx_reclaim frees.
Reclaim(k) == Run(clean_ptr, k)

\* What byte queue limits make of k completed packets: they restart the queue
\* if enough has been completed, at the latest when all has.
Completed(k, b) ==
    /\ bql' = bql - k
    /\ b \in {{}, {"bql"}}
    /\ (k = 0 => b = {}) /\ (k > 0 /\ bql = k => b = {"bql"})

\* bcmgenet_tx_poll restarts the queue.
Wakes(n) == n > MAX_SKB_FRAGS + 1

\* bcmgenet_tx_poll takes the lock and __bcmgenet_tx_reclaim clears the status.
PollClear ==
    /\ napi # "idle" /\ poll = "idle" /\ ~Locked
    /\ stat' = 0 /\ poll' = "reclaim"
    /\ UNCHANGED <<faults, dog, ring, skbs, queue, tdma, mask, napi, enabling>>

\* The rest of __bcmgenet_tx_reclaim, and bcmgenet_tx_poll up to the unlock.
\* The control buffer of an skb goes with it.
PollReclaim(b) ==
    /\ poll = "reclaim"
    /\ LET done == Finished(Reclaim(Ready))
           freed == free_bds + Ready
       IN  /\ cbs' = [i \in Slots |->
                         IF i \in Reclaim(Ready) THEN None ELSE cbs[i]]
           /\ holder' = [s \in Skbs |->
                            IF s \in done THEN "stack" ELSE holder[s]]
           /\ first_cb' = [s \in Skbs |-> IF s \in done THEN 0 ELSE first_cb[s]]
           /\ last_cb' = [s \in Skbs |-> IF s \in done THEN 0 ELSE last_cb[s]]
           /\ Completed(Cardinality(done), b)
           /\ txq' = txq \ (b \cup (IF Wakes(freed) THEN {"drv"} ELSE {}))
           /\ clean_ptr' = Wrap(clean_ptr + Ready, Size)
           /\ free_bds' = freed
           /\ c_index' = tdma_cons
           /\ poll' = IF Ready = 0 THEN "complete" ELSE "idle"
    /\ UNCHANGED <<faults, dog, prod_index, write_ptr, more, tdma, stat, mask, napi, enabling>>

\* napi_complete: a poll that was missed is scheduled at once.
PollComplete ==
    /\ poll = "complete"
    /\ napi' = IF napi = "missed" THEN "sched" ELSE "idle"
    /\ poll' = "idle" /\ enabling' = 1
    /\ UNCHANGED <<faults, dog, ring, skbs, queue, tdma, stat, mask>>

M_PollEnable_Forgets ==
    /\ enabling = 1
    /\ enabling' = 0
    /\ UNCHANGED <<faults, dog, ring, skbs, queue, tdma, mask, stat, napi, poll>>

\* bcmgenet_tx_ring_int_enable.
PollEnable ==
    /\ enabling = 1
    /\ enabling' = 0 /\ mask' = 0
    /\ UNCHANGED <<faults, dog, ring, skbs, queue, tdma, stat, napi, poll>>

\* bcmgenet_isr1 for this ring.
Isr1 ==
    /\ stat = 1 /\ mask = 0
    /\ stat' = 0
    /\ IF napi = "idle" THEN mask' = 1 /\ napi' = "sched"
                        ELSE mask' = mask /\ napi' = "missed"
    /\ UNCHANGED <<faults, dog, ring, skbs, queue, tdma, poll, enabling>>

\* The hardware sends the descriptor at its read pointer and raises the ring's
\* interrupt (DMA_MBUF_DONE_THRESH is 1).  Nothing halts it during a timeout: if
\* it sends what bcmgenet_tx_reclaim is dropping, PROD_INDEX will be written
\* behind CONS_INDEX.  A ring that lost this race is followed only to the
\* reopening that sets it up anew.
TdmaSend ==
    /\ tdma_cons # tdma_prod /\ dog # "lost"
    /\ dog' = IF dog = "rewind" THEN "lost" ELSE dog
    /\ tdma_cons' = Wrap(tdma_cons + 1, IndexMod)
    /\ tdma_read' = Wrap(tdma_read + 1, Size)
    /\ stat' = 1
    /\ UNCHANGED <<faults, ring, skbs, queue, tdma_prod, mask, napi, poll, enabling>>
-----------------------------------------------------------------------------
(* bcmgenet_tx_reclaim(all): what the hardware has not sent is dropped.  Each *)
(* bcmgenet_put_txcb returns the block at write_ptr before it rewinds: the    *)
(* blocks freed run from write_ptr down to the one after clean_ptr.           *)
Dropped(d) == Run(Wrap(write_ptr - d + 1, Size), d)

\* The skbs that the dropping loop consumes: those it meets the first control
\* block of, and the one it ends within.  For a ring whose PROD_INDEX has fallen
\* behind, the loop goes round more than once and ends in blocks it has emptied.
Consumed(d) ==
    {s \in Skbs : \/ d <= Size /\ cbs[Wrap(write_ptr - d + 1, Size)] = s
                  \/ (d > Size \/ first_cb[s] \in Dropped(d)) /\ cbs[first_cb[s]] = s}

Rewound(d) == Wrap(write_ptr - d, Size)

\* bcmgenet_timeout: the watchdog found some queue of the device stopped for too
\* long and reclaims every ring, this one too.  It takes the lock and
\* __bcmgenet_tx_reclaim clears the status ...
TimeoutClear ==
    /\ "timeout" \in faults
    /\ dog = "idle" /\ more = 0 /\ ~Locked
    /\ stat' = 0 /\ dog' = "reclaim"
    /\ UNCHANGED <<faults, ring, skbs, queue, tdma, mask, napi, poll, enabling>>

\* ... CONS_INDEX is read, what has been sent is reclaimed and the rest dropped ...
TimeoutDrop(b) ==
    /\ dog = "reclaim"
    /\ dog' = "rewind"
    /\ LET d == Wrap(prod_index - tdma_cons, IndexMod)
           done == Finished(Reclaim(Ready))
           back == done \cup (IF d = 0 THEN {} ELSE Consumed(d))
           D == Reclaim(Ready) \cup (IF d = 0 THEN {} ELSE Dropped(d))
       IN  /\ cbs' = [i \in Slots |-> IF i \in D THEN None ELSE cbs[i]]
           /\ holder' = [s \in Skbs |-> IF s \in back THEN "stack" ELSE holder[s]]
           /\ first_cb' = [s \in Skbs |-> IF s \in back THEN 0 ELSE first_cb[s]]
           /\ last_cb' = [s \in Skbs |-> IF s \in back THEN 0 ELSE last_cb[s]]
           /\ Completed(Cardinality(done), b)
           /\ txq' = txq \ b
           /\ clean_ptr' = Wrap(clean_ptr + Ready, Size)
           /\ free_bds' = free_bds + Ready
           /\ write_ptr' = Rewound(d)
           /\ c_index' = tdma_cons /\ prod_index' = tdma_cons
    /\ UNCHANGED <<faults, more, tdma, irq>>

M_TimeoutRewind_NotWritten ==
    /\ dog = "rewind" /\ dog' = "wake"
    /\ UNCHANGED <<faults, ring, skbs, queue, tdma, irq>>

\* ... PROD_INDEX is written and the lock released ...
TimeoutRewind ==
    /\ dog = "rewind"
    /\ tdma_prod' = prod_index /\ dog' = "wake"
    /\ UNCHANGED <<faults, ring, skbs, queue, tdma_cons, tdma_read, irq>>

\* ... and the interrupts are unmasked and the queues woken.
TimeoutWake ==
    /\ dog = "wake"
    /\ mask' = 0 /\ txq' = txq \ {"drv"} /\ dog' = "idle"
    /\ UNCHANGED <<faults, ring, skbs, bql, more, tdma, stat, napi, poll, enabling>>

\* bcmgenet_close and bcmgenet_open: TDMA is halted and NAPI is off, what is
\* left is reclaimed, and the ring is set up anew.
Reopen ==
    /\ "stop" \in faults
    /\ more = 0
    /\ \/ dog = "lost"
       \/ dog = "idle" /\ napi = "idle" /\ poll = "idle" /\ enabling = 0
    /\ LET d == Wrap(prod_index - tdma_cons, IndexMod)
           back == Finished(Reclaim(Ready)) \cup
                   (IF d = 0 THEN {} ELSE Consumed(d))
       IN  /\ holder' = [s \in Skbs |-> IF s \in back THEN "stack" ELSE holder[s]]
           /\ first_cb' = [s \in Skbs |-> IF s \in back THEN 0 ELSE first_cb[s]]
           /\ last_cb' = [s \in Skbs |-> IF s \in back THEN 0 ELSE last_cb[s]]
    /\ prod_index' = 0 /\ c_index' = 0
    /\ write_ptr' = 0 /\ clean_ptr' = 0 /\ free_bds' = Size
    /\ cbs' = [i \in Slots |-> None]
    /\ txq' = {} /\ bql' = 0
    /\ tdma_prod' = 0 /\ tdma_cons' = 0 /\ tdma_read' = 0
    /\ stat' = 0 /\ mask' = 0
    /\ napi' = "idle" /\ poll' = "idle" /\ enabling' = 0 /\ dog' = "idle"
    /\ UNCHANGED <<faults, more>>

Next ==
    \/ \E s \in Skbs, n \in Lengths, m \in 0 .. 1 :
          \/ XmitBusy(s, n, m)
          \/ XmitNoTsb(s, n, m)
          \/ \E i \in 0 .. MAX_SKB_FRAGS : XmitNoMap(s, n, m, i)
          \/ \E b \in SUBSET {"bql"} : Xmit(s, n, m, b)
    \/ PollClear
    \/ \E b \in SUBSET {"bql"} : PollReclaim(b)
    \/ PollComplete
    \/ PollEnable
    \/ Isr1
    \/ TdmaSend
    \/ TimeoutClear
    \/ \E b \in SUBSET {"bql"} : TimeoutDrop(b)
    \/ TimeoutRewind
    \/ TimeoutWake
    \/ Reopen

\* Interrupts are delivered, a scheduled poll runs to its end, the hardware
\* sends, and the stack ends the batches it begins.
Fairness ==
    /\ WF_vars(Isr1)
    /\ WF_vars(PollClear)
    /\ WF_vars(\E b \in SUBSET {"bql"} : PollReclaim(b))
    /\ WF_vars(PollComplete)
    /\ WF_vars(PollEnable)
    /\ WF_vars(TdmaSend)
    /\ WF_vars(more = 1 /\ \E s \in Skbs, n \in Lengths, b \in SUBSET {"bql"} :
                  Xmit(s, n, 0, b))

Spec == Init /\ [][Next]_vars

FairSpec == Spec /\ Fairness
-----------------------------------------------------------------------------
(* free_bds is the number of descriptors not in use and the two pointers lie *)
(* that many slots apart, whatever the 16-bit indices wrap to (bcmgenet_xmit *)
(* and __bcmgenet_tx_reclaim update them apart).                             *)
RingAccounted ==
    /\ free_bds = Size - Outstanding
    /\ write_ptr = Wrap(clean_ptr + Outstanding, Size)

(* The driver never believes it has more room than the ring, so              *)
(* bcmgenet_xmit never overwrites a descriptor that is still to be sent, and *)
(* the pointers stay in step.                                                *)
RingNeverOvercommitted ==
    /\ free_bds + Outstanding <= Size
    /\ write_ptr = Wrap(clean_ptr + Outstanding, Size)

(* The hardware's indices stay between the driver's: it is never told of a   *)
(* descriptor that xmit has not filled, and reads the slot the driver        *)
(* believes it to be at.                                                     *)
TdmaInWindow ==
    /\ Ready <= Wrap(tdma_prod - c_index, IndexMod)
    /\ Wrap(tdma_prod - c_index, IndexMod) <= Outstanding
    /\ tdma_read = Wrap(clean_ptr + Ready, Size)

\* No timeout is between dropping packets and writing PROD_INDEX, nor has the
\* hardware sent any of them in between.
Settled == dog \notin {"rewind", "lost"}

(* Through drops, timeouts and reopenings driver and hardware agree about    *)
(* the ring, for as long as the hardware never sends what a timeout has just *)
(* dropped and not yet taken back (bcmgenet_tx_reclaim does not halt TDMA);  *)
(* in between the driver's own account stands, and CONS_INDEX is its own.    *)
RingConsistent ==
    /\ dog # "lost" => RingNeverOvercommitted
    /\ Settled => TdmaInWindow
    /\ dog = "rewind" => tdma_cons = c_index /\ tdma_read = clean_ptr

(* What the hardware may still read belongs to a packet that has been        *)
(* neither unmapped nor freed, but for the packets a timeout drops before it *)
(* takes PROD_INDEX back.                                                    *)
TdmaReadsMapped ==
    Settled =>
        \A i \in Run(tdma_read, Wrap(tdma_prod - tdma_cons, IndexMod)) :
            cbs[i] # None /\ holder[cbs[i]] = "driver"

(* The control blocks in use hold the driver's packets, each in consecutive  *)
(* blocks up to its last one, and every packet the driver owns is there.     *)
CbsHoldPackets ==
    /\ \A i \in Run(clean_ptr, Outstanding) :
          /\ cbs[i] # None /\ holder[cbs[i]] = "driver"
          /\ last_cb[cbs[i]] # i => cbs[Wrap(i + 1, Size)] = cbs[i]
    /\ \A s \in Skbs : holder[s] = "driver" =>
          /\ last_cb[s] \in Run(clean_ptr, Outstanding)
          /\ cbs[last_cb[s]] = s

(* A control block that is not in use holds neither an skb nor a mapping:    *)
(* "Unmap successfully mapped control blocks" (bcmgenet_xmit).               *)
NoStaleCb == \A i \in Slots \ Run(clean_ptr, Outstanding) : cbs[i] = None

(* Outside a batch the hardware knows every packet that was queued.          *)
DoorbellRung == more = 0 => tdma_prod = prod_index

(* A running queue has room for any packet, so bcmgenet_xmit never has to    *)
(* return NETDEV_TX_BUSY.                                                    *)
QueueHasRoom == "drv" \notin txq => free_bds > MAX_SKB_FRAGS + 1

(* Byte queue limits are told of the completion of every packet once.        *)
BqlExact == bql = Cardinality({s \in Skbs : holder[s] = "driver"})

(* Without faults the transmit ring is exact: every control block in use     *)
(* belongs to a packet of the driver's and no other one holds anything, the  *)
(* doorbell has been rung for all of them, a running queue has room for any  *)
(* packet, byte queue limits are told of every completion once, and free_bds *)
(* is what is free.  Dropped packets disturb neither the accounting nor the  *)
(* control blocks of others (bcmgenet_xmit, __bcmgenet_tx_reclaim).          *)
TxSafe ==
    /\ TypeOK
    /\ faults \subseteq {"tsb", "map"} => RingAccounted /\ CbsHoldPackets
    /\ faults = {} => NoStaleCb /\ DoorbellRung /\ QueueHasRoom /\ BqlExact

(* Every packet that was queued is sent, reclaimed and freed in the end: no  *)
(* interrupt is lost between the poll's last look at the ring and            *)
(* bcmgenet_tx_ring_int_enable.                                              *)
PacketsFreed == \A s \in Skbs : holder[s] = "driver" ~> holder[s] = "stack"

(* A stopped queue is restarted.                                             *)
QueueRestarts == txq # {} ~> txq = {}
=============================================================================
