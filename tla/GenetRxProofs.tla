--------------------------- MODULE GenetRxProofs ----------------------------
(* The receive ring of the Linux GENET driver, for a ring of any size smaller *)
(* than the range of its indices, any budget and any buffers.  The invariant  *)
(* adds to what the run checks how much of its budget the poll has used;      *)
(* with it the ring is shown to implement a bounded FIFO that drops.          *)
EXTENDS GenetRxRefinement, TLAPS

(* How far the poll is: what it has taken and has still to take is within its *)
(* budget, and outside the loop nothing is left of it.                        *)
RxWithinBudget ==
    /\ todo + work <= Budget
    /\ rx_poll \notin {"clear", "loop"} => todo = 0

RxInv == RxSafe /\ RxWithinBudget

(* An index or a pointer stays in its range when it moves on by one, and the  *)
(* distance of two of them is in it.                                          *)
LEMMA WrapRange ==
    ASSUME NEW n \in Nat, NEW p \in 0 .. n - 1, NEW c \in 0 .. n - 1
    PROVE  RxWrap(p + 1, n) \in 0 .. n - 1 /\ RxWrap(p - c, n) \in 0 .. n - 1
BY DEF RxWrap

(* When the producer moves on, the distance grows by one, unless it wraps.    *)
LEMMA WrapProduced ==
    ASSUME NEW n \in Nat, NEW p \in 0 .. n - 1, NEW c \in 0 .. n - 1,
           RxWrap(p - c, n) < n - 1
    PROVE  RxWrap(RxWrap(p + 1, n) - c, n) = RxWrap(p - c, n) + 1
BY DEF RxWrap

(* When the consumer moves on, it shrinks by one, unless there was none.      *)
LEMMA WrapConsumed ==
    ASSUME NEW n \in Nat, NEW p \in 0 .. n - 1, NEW c \in 0 .. n - 1,
           RxWrap(p - c, n) > 0
    PROVE  RxWrap(p - RxWrap(c + 1, n), n) = RxWrap(p - c, n) - 1
BY DEF RxWrap

(* The slot k after p, seen from p and from the slot that follows it.         *)
LEMMA WrapSlots ==
    ASSUME NEW n \in Nat, NEW p \in 0 .. n - 1, NEW k \in 0 .. n
    PROVE  /\ RxWrap(p + k, n) \in 0 .. n - 1
           /\ k < n => RxWrap(RxWrap(p + k, n) + 1, n) = RxWrap(p + k + 1, n)
           /\ k > 0 => RxWrap(RxWrap(p + 1, n) + k - 1, n) = RxWrap(p + k, n)
BY DEF RxWrap

(* Slots less than a whole ring apart are different.                          *)
LEMMA WrapApart ==
    ASSUME NEW n \in Nat, NEW p \in 0 .. n - 1,
           NEW j \in 0 .. n - 1, NEW k \in 0 .. n - 1, j # k
    PROVE  RxWrap(p + j, n) # RxWrap(p + k, n)
BY DEF RxWrap

(* The ring just opened satisfies the invariant.                              *)
LEMMA RxInitInv == RxInit => RxInv
<1> SUFFICES ASSUME RxInit PROVE RxInv
  OBVIOUS
<1>1. Filled = 0 /\ RxWrap(0, RxSize) = 0
  BY RxAssumption DEF RxInit, Filled, RxWrap
<1>2. RxTypeOK
  BY RxAssumption DEF RxInit, RxTypeOK, RxSlots, RxIndices, Allocations
<1>3. RingInWindow
  BY <1>1, RxAssumption DEF RxInit, RingInWindow
<1>4. BuffersOwned
  BY DEF RxInit, BuffersOwned, Allocations
<1>5. MissedNeverOver /\ RxWithinBudget
  BY RxAssumption DEF RxInit, MissedNeverOver, RxWithinBudget
<1> QED BY <1>2, <1>3, <1>4, <1>5 DEF RxInv, RxSafe

(* The hardware is ahead by a number of frames in the indices' range.         *)
LEMMA FilledRange == RxInv => Filled \in 0 .. RxIndexMod - 1
<1> SUFFICES ASSUME RxInv PROVE Filled \in 0 .. RxIndexMod - 1
  OBVIOUS
<1>1. /\ RxIndexMod \in Nat /\ rx_index \in 0 .. RxIndexMod - 1
      /\ rdma_prod \in 0 .. RxIndexMod - 1
  BY RxAssumption DEF RxInv, RxSafe, RxTypeOK, RxIndices
<1> QED BY <1>1, WrapRange DEF Filled

(* Driver and hardware go on agreeing about the indices, whoever moves.       *)
LEMMA RxWindowStep == RxInv /\ [RxNext]_rx_vars => RingInWindow' /\ RxWithinBudget'
<1> SUFFICES ASSUME RxInv, [RxNext]_rx_vars PROVE RingInWindow' /\ RxWithinBudget'
  OBVIOUS
<1>1. /\ RxSize \in Nat \ {0} /\ RxIndexMod \in Nat /\ RxSize < RxIndexMod /\ Budget \in Nat
      /\ rx_index \in 0 .. RxIndexMod - 1 /\ rdma_prod \in 0 .. RxIndexMod - 1
      /\ read_ptr \in 0 .. RxSize - 1 /\ rdma_write \in 0 .. RxSize - 1
      /\ todo \in Nat /\ work \in Nat
  BY RxAssumption DEF RxInv, RxSafe, RxTypeOK, RxSlots, RxIndices
<1>2. Filled \in 0 .. RxIndexMod - 1
  BY FilledRange
<1>3. /\ rdma_cons = rx_index /\ Filled <= RxSize /\ todo <= Filled
      /\ rdma_write = RxWrap(read_ptr + Filled, RxSize)
  BY <1>1 DEF RxInv, RxSafe, RingInWindow, RxWrap
<1>4. todo + work <= Budget /\ (rx_poll \notin {"clear", "loop"} => todo = 0)
  BY DEF RxInv, RxWithinBudget
<1>5. ASSUME NEW f \in Frames, RdmaWrite(f) PROVE RingInWindow' /\ RxWithinBudget'
  <2>1. Filled < RxSize
    BY <1>1, <1>2, <1>3, <1>5 DEF RdmaWrite, RingFull, Filled
  <2>2. Filled' = Filled + 1
    BY <1>1, <1>2, <1>5, <2>1, WrapProduced DEF RdmaWrite, Filled, rx_ring
  <2>3. rdma_write' = RxWrap(read_ptr + Filled', RxSize)
    <3>1. RxWrap(rdma_write + 1, RxSize) = RxWrap(read_ptr + Filled + 1, RxSize)
      <4>1. Filled \in 0 .. RxSize /\ RxSize \in Nat
        BY <1>1, <1>2, <1>3
      <4> QED BY <1>1, <1>3, <2>1, <4>1, WrapSlots
    <3>2. read_ptr + Filled + 1 = read_ptr + Filled'
      BY <1>1, <1>2, <2>2
    <3> QED BY <1>5, <3>1, <3>2 DEF RdmaWrite
  <2> QED BY <1>1, <1>2, <1>3, <1>4, <1>5, <2>1, <2>2, <2>3
          DEF RdmaWrite, RingInWindow, RxWithinBudget, rx_ring, step
<1>6. ASSUME Advance PROVE RingInWindow' /\ RxWithinBudget'
  <2>1. Filled' = Filled - 1
    BY <1>1, <1>2, <1>3, <1>6, WrapConsumed DEF Advance, RxConsumed, Filled
  <2>2. rdma_write' = RxWrap(read_ptr' + Filled', RxSize)
    BY <1>1, <1>2, <1>3, <1>6, <2>1, WrapSlots DEF Advance
  <2> QED BY <1>1, <1>2, <1>3, <1>4, <1>6, <2>1, <2>2 DEF Advance, RingInWindow, RxWithinBudget
<1>7. CASE RxReopen
  <2>1. /\ rx_index' = 0 /\ rdma_prod' = 0 /\ rdma_cons' = 0 /\ read_ptr' = 0
        /\ rdma_write' = 0 /\ todo' = 0 /\ todo' = todo /\ work' = work /\ rx_poll' = rx_poll
    BY <1>4, <1>7 DEF RxReopen, SetUp, step
  <2>2. Filled' = 0 /\ RxWrap(0 + 0, RxSize) = 0
    BY <1>1, <2>1 DEF Filled, RxWrap
  <2> QED BY <1>1, <1>4, <2>1, <2>2 DEF RingInWindow, RxWithinBudget
<1>8. CASE PollRead
  <2>1. /\ todo' = ToProcess /\ work' = 0 /\ rx_poll' \in {"clear", "loop"}
        /\ rx_index' = rx_index /\ rdma_prod' = rdma_prod /\ read_ptr' = read_ptr
        /\ rdma_write' = rdma_write /\ rdma_cons' = rdma_cons
    BY <1>8 DEF PollRead, rx_ring, rdma
  <2>2. Filled' = Filled /\ todo' \in Nat /\ todo' <= Filled /\ todo' <= Budget
    BY <1>1, <1>2, <2>1 DEF ToProcess, Filled
  <2> QED BY <1>1, <1>3, <2>1, <2>2 DEF RingInWindow, RxWithinBudget
<1>9. ASSUME UNCHANGED <<rx_index, read_ptr, rdma_prod, rdma_cons, rdma_write, todo, work>>,
             rx_poll' \in {"clear", "loop"} \/ todo = 0
      PROVE  RingInWindow' /\ RxWithinBudget'
  <2>1. Filled' = Filled
    BY <1>9 DEF Filled
  <2> QED BY <1>3, <1>4, <1>9, <2>1 DEF RingInWindow, RxWithinBudget
<1>10. CASE RdmaDiscard \/ RdmaInterrupt \/ RxIsr1 \/ UNCHANGED rx_vars
  BY <1>4, <1>9, <1>10 DEF RdmaDiscard, RdmaInterrupt, RxIsr1, rx_vars, rx_ring, rdma, step
<1>11. CASE RxPollClear \/ PollClearDiscards \/ PollDone \/ RxPollComplete \/ RxPollEnable
  BY <1>4, <1>9, <1>11
     DEF RxPollClear, PollClearDiscards, PollDone, RxPollComplete, RxPollEnable, rx_ring, rdma
<1>12. ASSUME NEW x \in Bufs, StackFrees(x) PROVE RingInWindow' /\ RxWithinBudget'
  BY <1>4, <1>9, <1>12 DEF StackFrees, rx_ring, rdma, step
<1> QED
  BY <1>5, <1>6, <1>7, <1>8, <1>10, <1>11, <1>12 DEF RxNext, RxRecycle, RxTake

(* The registers and the buffers stay well formed.                            *)
LEMMA RxTypeStep == RxInv /\ [RxNext]_rx_vars => RxTypeOK'
<1> SUFFICES ASSUME RxInv, [RxNext]_rx_vars PROVE RxTypeOK'
  OBVIOUS
<1> USE RxAssumption DEF RxInv, RxSafe, RxTypeOK, RxIndices
<1>1. RxWrap(rdma_prod + 1, RxIndexMod) \in RxIndices /\ RxConsumed \in RxIndices
  BY WrapRange DEF RxConsumed
<1>2. RxWrap(rdma_write + 1, RxSize) \in RxSlots /\ RxWrap(read_ptr + 1, RxSize) \in RxSlots
  BY WrapRange DEF RxSlots
<1>3. ASSUME NEW f \in Frames, RdmaWrite(f) PROVE RxTypeOK'
  BY <1>1, <1>2, <1>3 DEF RdmaWrite, rx_ring, stats, rx_irq, step
<1>4. CASE RdmaDiscard
  BY <1>4 DEF RdmaDiscard, rx_ring, stats, rx_skbs, rx_irq, step
<1>5. CASE RdmaInterrupt
  BY <1>5 DEF RdmaInterrupt, rx_ring, stats, rx_skbs, step
<1>6. CASE RxIsr1
  BY <1>6 DEF RxIsr1, rx_ring, stats, rx_skbs, rdma, step
<1>7. CASE RxPollClear
  BY <1>7 DEF RxPollClear, rx_ring, stats, rx_skbs, rdma
<1>8. CASE PollRead
  <2>1. Filled \in Nat
    BY FilledRange
  <2>2. ToProcess \in 0 .. Budget
    BY <2>1 DEF ToProcess
  <2>3. missed' \in Nat /\ old_discards' \in 0 .. DiscardMax
    BY <1>8 DEF PollRead, stats, Missed
  <2> QED BY <1>8, <2>2, <2>3 DEF PollRead, rx_ring, rx_skbs, rdma, rx_irq
<1>9. CASE PollClearDiscards
  BY <1>9 DEF PollClearDiscards, rx_ring, stats, rx_skbs, rx_irq
<1>10. ASSUME Advance PROVE /\ todo' \in 0 .. Budget /\ work' \in 0 .. Budget
                            /\ read_ptr' \in RxSlots /\ rx_index' \in RxIndices
                            /\ rdma_cons' \in RxIndices
  BY <1>1, <1>2, <1>10 DEF Advance, RxWithinBudget
<1>11. CASE RxRecycle
  BY <1>10, <1>11 DEF RxRecycle, Advance, stats, rx_irq
<1>12. ASSUME NEW x \in Bufs, RxTake(x) PROVE RxTypeOK'
  <2>1. rx_cbs[read_ptr] \in Bufs /\ Takes(content[rx_cbs[read_ptr]]) \in Frames \cup {NoFrame}
    BY DEF Takes, Frames
  <2>2. /\ rx_cbs' \in [RxSlots -> Bufs] /\ content' \in [Bufs -> Frames \cup {NoFrame}]
        /\ owner' \in [Bufs -> {"free", "ring", "stack"}] /\ up' \in Frames \cup {NoFrame}
    BY <1>12, <2>1 DEF RxTake, Refilled
  <2> QED BY <1>10, <1>12, <2>2 DEF RxTake, Advance, stats, rx_irq
<1>13. CASE PollDone
  BY <1>13 DEF PollDone, rx_ring, stats, rx_skbs, rdma, rx_irq
<1>14. CASE RxPollComplete
  BY <1>14 DEF RxPollComplete, rx_ring, stats, rx_skbs, rdma
<1>15. CASE RxPollEnable
  BY <1>15 DEF RxPollEnable, rx_ring, stats, rx_skbs, rdma
<1>16. ASSUME NEW x \in Bufs, StackFrees(x) PROVE RxTypeOK'
  BY <1>16 DEF StackFrees, rx_ring, stats, rdma, rx_irq, step
<1>17. CASE RxReopen
  BY <1>17 DEF RxReopen, SetUp, Allocations, stats, step, RxSlots
<1>18. CASE UNCHANGED rx_vars
  BY <1>18 DEF rx_vars, rx_ring, stats, rx_skbs, rdma, rx_irq, step
<1> QED
  BY <1>3, <1>4, <1>5, <1>6, <1>7, <1>8, <1>9, <1>11, <1>12, <1>13, <1>14, <1>15, <1>16,
     <1>17, <1>18 DEF RxNext

(* A refill puts a buffer nobody has in the place of the one it takes out.    *)
LEMMA RxBuffersStep == RxInv /\ [RxNext]_rx_vars => BuffersOwned'
<1> SUFFICES ASSUME RxInv, [RxNext]_rx_vars PROVE BuffersOwned'
  OBVIOUS
<1>1. /\ rx_cbs \in [RxSlots -> Bufs] /\ owner \in [Bufs -> {"free", "ring", "stack"}]
      /\ read_ptr \in RxSlots /\ BuffersOwned
  BY DEF RxInv, RxSafe, RxTypeOK
<1>2. ASSUME NEW x \in Bufs, RxTake(x) PROVE BuffersOwned'
  <2> DEFINE old == rx_cbs[read_ptr]
  <2>1. /\ x # old /\ \A q \in RxSlots : rx_cbs[q] # x
        /\ old \in Bufs
    BY <1>1, <1>2 DEF RxTake, BuffersOwned
  <2>2. PICK s \in {"free", "stack"} : owner' = [owner EXCEPT ![x] = "ring", ![old] = s]
    BY <1>2 DEF RxTake
  <2>3. rx_cbs' = [rx_cbs EXCEPT ![read_ptr] = x]
    BY <1>2 DEF RxTake, Refilled
  <2>4. \A q, r \in RxSlots : rx_cbs'[q] = rx_cbs'[r] => q = r
    BY <1>1, <2>1, <2>3 DEF BuffersOwned
  <2>5. ASSUME NEW y \in Bufs
        PROVE  owner'[y] = "ring" <=> \E q \in RxSlots : rx_cbs'[q] = y
    <3>1. CASE y = x
      BY <1>1, <2>1, <2>2, <2>3, <3>1
    <3>2. CASE y = old
      BY <1>1, <2>1, <2>2, <2>3, <3>2 DEF BuffersOwned
    <3>3. CASE y # x /\ y # old
      BY <1>1, <2>1, <2>2, <2>3, <3>3 DEF BuffersOwned
    <3> QED BY <3>1, <3>2, <3>3
  <2> QED BY <2>4, <2>5 DEF BuffersOwned
<1>3. ASSUME NEW x \in Bufs, StackFrees(x) PROVE BuffersOwned'
  BY <1>1, <1>3 DEF StackFrees, BuffersOwned
<1>4. CASE RxReopen
  <2>1. PICK b \in Allocations({x \in Bufs : owner[x] # "stack"}) : SetUp(b)
    BY <1>4 DEF RxReopen
  <2> QED BY <2>1 DEF SetUp, Allocations, BuffersOwned
<1>5. ASSUME UNCHANGED <<rx_cbs, owner>> PROVE BuffersOwned'
  BY <1>1, <1>5 DEF BuffersOwned
<1> QED
  BY <1>2, <1>3, <1>4, <1>5
     DEF RxNext, RdmaWrite, RdmaDiscard, RdmaInterrupt, RxIsr1, RxPollClear, PollRead,
         PollClearDiscards, RxRecycle, PollDone, RxPollComplete, RxPollEnable, rx_vars, rx_skbs

(* A discarded frame is counted at most once: until the hardware's count has  *)
(* been cleared the driver does not look at it again.                         *)
LEMMA RxMissedStep == RxInv /\ [RxNext]_rx_vars => MissedNeverOver'
<1> SUFFICES ASSUME RxInv, [RxNext]_rx_vars PROVE MissedNeverOver'
  OBVIOUS
<1>1. /\ old_discards \in Nat /\ missed \in Nat /\ discards \in Nat /\ dropped \in Nat
      /\ DiscardMax \in Nat /\ discards <= DiscardMax /\ MissedNeverOver
  BY RxAssumption DEF RxInv, RxSafe, RxTypeOK
<1>2. CASE RdmaDiscard
  BY <1>1, <1>2 DEF RdmaDiscard, MissedNeverOver, Missed, stats, step
<1>3. CASE PollRead
  <2>1. CASE discards > old_discards
    BY <1>1, <1>3, <2>1 DEF PollRead, MissedNeverOver, Missed, rdma
  <2>2. CASE ~(discards > old_discards)
    BY <1>1, <1>3, <2>2 DEF PollRead, MissedNeverOver, Missed, stats, rdma
  <2> QED BY <2>1, <2>2
<1>4. CASE PollClearDiscards \/ RxReopen
  <2>1. discards' = 0 /\ old_discards' = old_discards /\ missed' = missed /\ dropped' = dropped
    BY <1>4 DEF PollClearDiscards, RxReopen, SetUp, stats
  <2> QED BY <1>1, <2>1 DEF MissedNeverOver
<1>5. ASSUME UNCHANGED <<stats, discards, dropped>>,
             rx_poll = "clear" => rx_poll' = "clear"
      PROVE  MissedNeverOver'
  BY <1>1, <1>5 DEF MissedNeverOver, Missed, stats
<1>6. ASSUME NEW f \in Frames, RdmaWrite(f) PROVE MissedNeverOver'
  BY <1>5, <1>6 DEF RdmaWrite, step
<1>7. CASE RdmaInterrupt \/ RxIsr1 \/ RxPollClear \/ UNCHANGED rx_vars
  BY <1>5, <1>7 DEF RdmaInterrupt, RxIsr1, RxPollClear, rdma, step, rx_vars
<1>8. CASE Advance \/ PollDone \/ RxPollComplete \/ RxPollEnable
  BY <1>5, <1>8 DEF Advance, PollDone, RxPollComplete, RxPollEnable, rdma
<1>9. ASSUME NEW x \in Bufs, StackFrees(x) PROVE MissedNeverOver'
  BY <1>5, <1>9 DEF StackFrees, rdma, step
<1> QED
  BY <1>2, <1>3, <1>4, <1>6, <1>7, <1>8, <1>9 DEF RxNext, RxRecycle, RxTake

(* RxInv is an invariant of the receive ring.                                 *)
THEOREM RxInductive == RxSpec => []RxInv
<1>1. RxInv /\ [RxNext]_rx_vars => RxInv'
  BY RxTypeStep, RxWindowStep, RxBuffersStep, RxMissedStep DEF RxInv, RxSafe
<1> QED BY <1>1, RxInitInv, PTL DEF RxSpec

(* For every ring size, index width, budget and set of buffers, driver and    *)
(* hardware agree about the receive ring, every slot has a buffer of its own  *)
(* that the stack does not have, and stats64.missed counts no frame twice     *)
(* (bcmgenet_desc_rx, bcmgenet_rx_refill).                                    *)
THEOREM ReceiveSafe == RxSpec => []RxSafe
<1>1. RxInv => RxSafe
  BY DEF RxInv
<1> QED BY <1>1, RxInductive, PTL

(* A sequence with one more element at its end.                               *)
LEMMA IsAppend ==
    ASSUME NEW S, NEW s \in Seq(S), NEW t \in Seq(S), NEW f \in S,
           Len(t) = Len(s) + 1, \A j \in 1 .. Len(s) : t[j] = s[j], t[Len(s) + 1] = f
    PROVE  t = Append(s, f)
OBVIOUS

(* A sequence without its first element.                                      *)
LEMMA IsTail ==
    ASSUME NEW S, NEW s \in Seq(S), NEW t \in Seq(S), s # <<>>,
           Len(t) = Len(s) - 1, \A j \in 1 .. Len(t) : t[j] = s[j + 1]
    PROVE  t = Tail(s)
OBVIOUS

RxSlot(j) == RxWrap(read_ptr + j - 1, RxSize)

\* The frames stored, one for each filled slot, and where they are.
StoredWhere ==
    /\ Filled \in 0 .. RxSize /\ Stored \in Seq(Frames \cup {NoFrame})
    /\ Len(Stored) = Filled
    /\ \A j \in 1 .. Filled : Stored[j] = content[rx_cbs[RxSlot(j)]]
    /\ \A j \in 1 .. RxSize : RxSlot(j) \in RxSlots
    /\ Filled < RxSize => rdma_write = RxSlot(Filled + 1)
    /\ RxSlot(1) = read_ptr

(* The invariant says where they are.                                         *)
LEMMA StoredFacts == RxInv => StoredWhere
<1> SUFFICES ASSUME RxInv PROVE StoredWhere
  OBVIOUS
<1>1. /\ RxSize \in Nat \ {0} /\ read_ptr \in 0 .. RxSize - 1 /\ Filled \in 0 .. RxSize
  BY FilledRange, RxAssumption DEF RxInv, RxSafe, RxTypeOK, RingInWindow, RxSlots
<1>2. \A j \in 1 .. RxSize : RxSlot(j) \in RxSlots
  BY <1>1 DEF RxSlot, RxSlots, RxWrap
<1>3. Filled < RxSize => rdma_write = RxSlot(Filled + 1)
  <2>1. read_ptr + (Filled + 1) - 1 = read_ptr + Filled
    BY <1>1
  <2> QED BY <1>1, <2>1 DEF RxInv, RxSafe, RingInWindow, RxSlot
<1>4. RxSlot(1) = read_ptr
  BY <1>1 DEF RxSlot, RxWrap
<1>5. \A j \in 1 .. Filled : content[rx_cbs[RxSlot(j)]] \in Frames \cup {NoFrame}
  <2>1. /\ content \in [Bufs -> Frames \cup {NoFrame}] /\ rx_cbs \in [RxSlots -> Bufs]
        /\ 1 .. Filled \subseteq 1 .. RxSize
    BY <1>1 DEF RxInv, RxSafe, RxTypeOK
  <2> QED BY <1>2, <2>1
<1>6. Stored = [j \in 1 .. Filled |-> content[rx_cbs[RxSlot(j)]]]
  BY DEF Stored, RxSlot
<1> HIDE DEF RxSlot
<1>7. Stored \in Seq(Frames \cup {NoFrame}) /\ Len(Stored) = Filled
  BY <1>1, <1>5, <1>6
<1> QED BY <1>1, <1>2, <1>3, <1>4, <1>6, <1>7 DEF StoredWhere

(* Different slots of the ring hold different buffers.                        *)
LEMMA SlotsApart ==
    ASSUME RxInv, NEW j \in 1 .. RxSize, NEW k \in 1 .. RxSize, j # k
    PROVE  RxSlot(j) # RxSlot(k) /\ rx_cbs[RxSlot(j)] # rx_cbs[RxSlot(k)]
<1>1. RxSize \in Nat \ {0} /\ read_ptr \in 0 .. RxSize - 1
  BY RxAssumption DEF RxInv, RxSafe, RxTypeOK, RxSlots
<1>2. RxSlot(j) # RxSlot(k)
  BY <1>1 DEF RxSlot, RxWrap
<1> QED BY <1>2, StoredFacts DEF StoredWhere, RxInv, RxSafe, BuffersOwned

(* The hardware stores a frame behind the others.                             *)
LEMMA StoreStep ==
    ASSUME RxInv, RxInv', NEW f \in Frames, RdmaWrite(f)
    PROVE  Fifo!Store(f)
<1> USE DEF StoredWhere
<1>0. StoredWhere /\ StoredWhere'
  BY StoredFacts, PTL
<1>1. /\ Filled \in 0 .. RxSize /\ RxSize \in Nat
      /\ rdma_prod \in 0 .. RxIndexMod - 1 /\ rx_index \in 0 .. RxIndexMod - 1
      /\ RxIndexMod \in Nat /\ RxSize < RxIndexMod /\ rdma_cons = rx_index
  BY <1>0, RxAssumption DEF RxInv, RxSafe, RxTypeOK, RxIndices, RingInWindow
<1>2. Filled < RxSize
  BY <1>1 DEF RdmaWrite, RingFull, Filled
<1>3. Filled' = Filled + 1
  BY <1>1, <1>2, WrapProduced DEF RdmaWrite, Filled, rx_ring
<1>4. \A j \in 1 .. RxSize : RxSlot(j)' = RxSlot(j)
  BY DEF RdmaWrite, rx_ring, RxSlot
<1>5. /\ Stored \in Seq(Frames \cup {NoFrame}) /\ Stored' \in Seq(Frames \cup {NoFrame})
      /\ Len(Stored) = Filled /\ Len(Stored') = Filled + 1
  BY <1>3, <1>0
<1>6. ASSUME NEW j \in 1 .. Filled + 1
      PROVE  Stored'[j] = IF j = Filled + 1 THEN f ELSE Stored[j]
  <2>1. j \in 1 .. RxSize /\ Filled + 1 \in 1 .. RxSize /\ (j # Filled + 1 => j \in 1 .. Filled)
    BY <1>1, <1>2
  <2>2. Stored'[j] = content'[rx_cbs[RxSlot(j)]]
    BY <1>3, <1>4, <2>1, <1>0 DEF RdmaWrite
  <2>3. /\ content' = [content EXCEPT ![rx_cbs[RxSlot(Filled + 1)]] = f]
        /\ rx_cbs[RxSlot(Filled + 1)] \in Bufs /\ content \in [Bufs -> Frames \cup {NoFrame}]
        /\ rx_cbs[RxSlot(j)] \in Bufs
    BY <1>2, <2>1, <1>0 DEF RdmaWrite, RxInv, RxSafe, RxTypeOK
  <2>4. CASE j = Filled + 1
    BY <2>2, <2>3, <2>4
  <2>5. CASE j # Filled + 1
    <3>1. rx_cbs[RxSlot(j)] # rx_cbs[RxSlot(Filled + 1)]
      BY <2>1, <2>5, SlotsApart
    <3> QED BY <2>1, <2>2, <2>3, <2>5, <3>1, <1>0
  <2> QED BY <2>4, <2>5
<1>7. Stored' = Append(Stored, f)
  <2>1. /\ \A j \in 1 .. Len(Stored) : Stored'[j] = Stored[j]
        /\ Stored'[Len(Stored) + 1] = f
    BY <1>1, <1>5, <1>6
  <2> QED BY <1>5, <2>1, IsAppend
<1> QED BY <1>2, <1>5, <1>7 DEF Fifo!Store, RdmaWrite

(* The poll takes the oldest frame out: it goes up, or nothing does.          *)
LEMMA TakeStep ==
    ASSUME RxInv, RxInv', RxRecycle \/ \E x \in Bufs : RxTake(x)
    PROVE  Fifo!Take
<1> USE DEF StoredWhere
<1>0. StoredWhere /\ StoredWhere'
  BY StoredFacts, PTL
<1>1. /\ Filled \in 0 .. RxSize /\ RxSize \in Nat \ {0} /\ todo \in Nat /\ todo <= Filled
      /\ rdma_prod \in 0 .. RxIndexMod - 1 /\ rx_index \in 0 .. RxIndexMod - 1
      /\ RxIndexMod \in Nat /\ read_ptr \in 0 .. RxSize - 1
  <2>1. RxTypeOK /\ todo <= Filled
    BY DEF RxInv, RxSafe, RingInWindow
  <2> QED BY <1>0, <2>1, RxAssumption DEF RxTypeOK, RxIndices, RxSlots
<1>2. Advance
  BY DEF RxRecycle, RxTake
<1>3. Filled > 0 /\ Filled' = Filled - 1
  BY <1>1, <1>2, WrapConsumed DEF Advance, RxConsumed, Filled
<1>4. \A j \in 1 .. RxSize - 1 : RxSlot(j)' = RxSlot(j + 1) /\ j + 1 \in 1 .. RxSize
  BY <1>1, <1>2 DEF Advance, RxSlot, RxWrap
<1>5. /\ Stored \in Seq(Frames \cup {NoFrame}) /\ Stored' \in Seq(Frames \cup {NoFrame})
      /\ Len(Stored) = Filled /\ Len(Stored') = Filled - 1
  BY <1>3, <1>0
<1>6. ASSUME NEW k \in 2 .. RxSize
      PROVE  /\ rx_cbs'[RxSlot(k)] = rx_cbs[RxSlot(k)]
             /\ content'[rx_cbs[RxSlot(k)]] = content[rx_cbs[RxSlot(k)]]
  <2>1. CASE RxRecycle
    BY <2>1 DEF RxRecycle
  <2>2. ASSUME NEW x \in Bufs, RxTake(x)
        PROVE  /\ rx_cbs'[RxSlot(k)] = rx_cbs[RxSlot(k)]
               /\ content'[rx_cbs[RxSlot(k)]] = content[rx_cbs[RxSlot(k)]]
    <3>1. k \in 1 .. RxSize /\ 1 \in 1 .. RxSize /\ k # 1
      BY <1>1
    <3>2. RxSlot(k) \in RxSlots /\ RxSlot(1) = read_ptr
      BY <3>1, <1>0
    <3>3. RxSlot(k) # read_ptr /\ rx_cbs[RxSlot(k)] # rx_cbs[read_ptr]
      BY <3>1, <3>2, SlotsApart
    <3>4. rx_cbs[RxSlot(k)] # x
      BY <2>2, <3>2 DEF RxTake, RxInv, RxSafe, BuffersOwned
    <3> QED BY <2>2, <3>2, <3>3, <3>4 DEF RxTake, Refilled, RxInv, RxSafe, RxTypeOK
  <2> QED BY <2>1, <2>2
<1>7. ASSUME NEW j \in 1 .. Filled - 1 PROVE Stored'[j] = Stored[j + 1]
  <2>1. j \in 1 .. RxSize - 1 /\ j + 1 \in 2 .. RxSize /\ j + 1 \in 1 .. Filled
    BY <1>1
  <2>2. Stored'[j] = content'[rx_cbs'[RxSlot(j + 1)]]
    BY <1>3, <1>4, <2>1, <1>0
  <2> QED BY <1>6, <2>1, <2>2, <1>0
<1>8. Stored # <<>> /\ Stored' = Tail(Stored)
  <2>1. Stored # <<>>
    BY <1>1, <1>3, <1>5
  <2> QED BY <1>5, <1>7, <2>1, IsTail
<1>9. up' \in (Good \cap {Head(Stored)}) \cup {NoFrame}
  <2>1. Head(Stored) = content[rx_cbs[read_ptr]]
    <3>1. Head(Stored) = Stored[1] /\ 1 \in 1 .. Filled
      BY <1>1, <1>3, <1>5, <1>8
    <3> QED BY <3>1, <1>0
  <2> QED BY <2>1 DEF RxRecycle, RxTake, Takes
<1> QED BY <1>8, <1>9 DEF Fifo!Take

(* The receive ring implements the queue of frames of GenetRxFifo: frames     *)
(* reach the stack in the order the hardware stored them, each once and with  *)
(* its own contents, for every ring size and index width (bcmgenet_desc_rx).  *)
THEOREM RxFifoKept == RxSpec => KeepsRxFifo
<1>1. RxInit => Fifo!Init
  <2> SUFFICES ASSUME RxInit PROVE Fifo!Init
    OBVIOUS
  <2>1. Filled = 0
    BY RxAssumption DEF RxInit, Filled, RxWrap
  <2>2. Stored = <<>>
    BY <2>1 DEF Stored
  <2> QED BY <2>2 DEF RxInit, Fifo!Init
<1>2. RxInv /\ RxInv' /\ [RxNext]_rx_vars => [Fifo!Next]_(Fifo!vars)
  <2> SUFFICES ASSUME RxInv, RxInv', [RxNext]_rx_vars PROVE [Fifo!Next]_(Fifo!vars)
    OBVIOUS
  <2>1. ASSUME NEW f \in Frames, RdmaWrite(f) PROVE Fifo!Next
    BY <2>1, StoreStep DEF Fifo!Next, Frames
  <2>2. CASE RxRecycle \/ \E x \in Bufs : RxTake(x)
    BY <2>2, TakeStep DEF Fifo!Next
  <2>3. CASE RxReopen
    <3>1. rx_index' = 0 /\ rdma_prod' = 0 /\ up' = NoFrame
      BY <2>3 DEF RxReopen, SetUp
    <3>2. Filled' = 0
      BY <3>1, RxAssumption DEF Filled, RxWrap
    <3>3. Stored' = <<>>
      BY <3>2 DEF Stored
    <3> QED BY <3>1, <3>3 DEF Fifo!Next, Fifo!Flush
  <2>4. ASSUME UNCHANGED <<rx_index, read_ptr, rdma_prod, rx_cbs, content, up>>
        PROVE  UNCHANGED Fifo!vars
    <3>1. Filled' = Filled
      BY <2>4 DEF Filled
    <3> QED BY <2>4, <3>1 DEF Fifo!vars, Stored
  <2>5. CASE \/ RdmaDiscard \/ RdmaInterrupt \/ RxIsr1 \/ RxPollClear \/ PollRead
             \/ PollClearDiscards \/ PollDone \/ RxPollComplete \/ RxPollEnable
             \/ (\E x \in Bufs : StackFrees(x)) \/ UNCHANGED rx_vars
    BY <2>4, <2>5
       DEF RdmaDiscard, RdmaInterrupt, RxIsr1, RxPollClear, PollRead, PollClearDiscards,
           PollDone, RxPollComplete, RxPollEnable, StackFrees, rx_vars, rx_ring, rx_skbs, rdma
  <2> QED BY <2>1, <2>2, <2>3, <2>5 DEF RxNext
<1> QED BY <1>1, <1>2, RxInductive, PTL DEF RxSpec, KeepsRxFifo, Fifo!Spec
=============================================================================
