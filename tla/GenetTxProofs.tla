---------------------------- MODULE GenetTxProofs ---------------------------
(* Proofs about GenetTx: the accounting of the transmit ring for every ring   *)
(* size, fragment limit and index width, with every fault the model has.      *)
EXTENDS GenetTx, FiniteSetTheorems, TLAPS

\* The types of what the accounting is about
RingType ==
    /\ prod_index \in Indices /\ c_index \in Indices
    /\ write_ptr \in Slots /\ clean_ptr \in Slots /\ free_bds \in 0 .. Size
    /\ tdma_prod \in Indices /\ tdma_cons \in Indices /\ tdma_read \in Slots

\* The two properties need each other: what a poll reclaims is what the hardware
\* has finished, and that never exceeds what is outstanding.
IInv == RingType /\ RingNeverOvercommitted /\ TdmaInWindow

\* While a timeout is between dropping packets and writing PROD_INDEX the hardware
\* may be ahead of the driver's producer index; the ring is then empty where the
\* hardware stands.  The lock keeps the poll away, and only a timeout gets there.
RingInv ==
    /\ RingType /\ RingNeverOvercommitted
    /\ Settled => TdmaInWindow
    /\ dog = "rewind" => tdma_cons = c_index /\ prod_index = c_index /\ tdma_read = clean_ptr
    /\ poll = "reclaim" => dog \notin {"reclaim", "rewind", "lost"}
    /\ "timeout" \notin faults => dog = "idle"

\* The distance of two indices is an index.
LEMMA Distance ==
    ASSUME NEW M \in Nat, NEW a \in 0 .. M - 1, NEW b \in 0 .. M - 1
    PROVE  Wrap(b - a, M) \in 0 .. M - 1
BY DEF Wrap

\* The n-th slot from p on is a slot, also once round the ring.
LEMMA SlotRange ==
    ASSUME NEW S \in Nat, NEW p \in 0 .. S - 1, NEW n \in 0 .. S
    PROVE  Wrap(p + n, S) \in 0 .. S - 1
BY DEF Wrap

\* Subtracting inside a window of indices: if b is at most as far from a as c is,
\* then c is as far from b as the distances differ (DMA_C_INDEX_MASK arithmetic).
LEMMA Between ==
    ASSUME NEW M \in Nat, NEW a \in 0 .. M - 1, NEW b \in 0 .. M - 1, NEW c \in 0 .. M - 1,
           Wrap(b - a, M) <= Wrap(c - a, M)
    PROVE  Wrap(c - b, M) = Wrap(c - a, M) - Wrap(b - a, M)
BY DEF Wrap

\* Advancing an index inside its range moves it that much further from the start.
LEMMA Advance ==
    ASSUME NEW M \in Nat, NEW a \in 0 .. M - 1, NEW b \in 0 .. M - 1, NEW n \in Nat,
           Wrap(b - a, M) + n < M
    PROVE  /\ Wrap(b + n, M) \in 0 .. M - 1
           /\ Wrap(Wrap(b + n, M) - a, M) = Wrap(b - a, M) + n
BY DEF Wrap

\* Going o slots on from p and then n, inside the ring, ends o + n slots from p.
LEMMA Reach ==
    ASSUME NEW S \in Nat, NEW p \in 0 .. S - 1, NEW o \in Nat, NEW n \in Nat, o + n < S
    PROVE  Wrap(Wrap(Wrap(p + o, S) + n, S) - p, S) = o + n
<1>1. CASE p + o >= S
  <2>1. Wrap(p + o, S) = p + o - S
    BY <1>1 DEF Wrap
  <2>2. Wrap((p + o - S) + n, S) = p + o - S + n
    BY <1>1 DEF Wrap
  <2>3. Wrap((p + o - S + n) - p, S) = o + n
    BY <1>1 DEF Wrap
  <2> QED BY <2>1, <2>2, <2>3
<1>2. CASE p + o < S
  <2>1. Wrap(p + o, S) = p + o
    BY <1>2 DEF Wrap
  <2>2. Wrap(Wrap((p + o) + n, S) - p, S) = o + n
    BY <1>2 DEF Wrap
  <2> QED BY <2>1, <2>2
<1> QED BY <1>1, <1>2

\* Two indices are equally far from a third only when they are the same.
LEMMA Apart ==
    ASSUME NEW M \in Nat, NEW a \in 0 .. M - 1, NEW b \in 0 .. M - 1, NEW c \in 0 .. M - 1,
           b # c
    PROVE  Wrap(b - a, M) # Wrap(c - a, M)
BY DEF Wrap
-----------------------------------------------------------------------------
\* The facts about the constants that the arithmetic needs
LEMMA Sizes == Size \in Nat /\ IndexMod \in Nat /\ Size < IndexMod /\ 0 < Size
BY RingAssumption

\* bcmgenet_xmit of a packet in n descriptors keeps the accounts.
LEMMA XmitStep ==
    ASSUME IInv, NEW s \in Skbs, NEW n \in Lengths, NEW m \in 0 .. 1,
           NEW b \in SUBSET {"bql"}, Xmit(s, n, m, b)
    PROVE  IInv'
<1>s. Size \in Nat /\ IndexMod \in Nat /\ Size < IndexMod /\ 0 < Size
  BY Sizes
<1>n. n \in Nat /\ n < free_bds
  BY RingAssumption DEF Xmit, Lengths
<1>t. /\ prod_index \in 0 .. IndexMod - 1 /\ c_index \in 0 .. IndexMod - 1
      /\ clean_ptr \in 0 .. Size - 1 /\ free_bds \in 0 .. Size
      /\ tdma_prod \in 0 .. IndexMod - 1 /\ tdma_cons \in 0 .. IndexMod - 1
  BY DEF IInv, RingType, Indices, Slots
<1>1. PICK o \in Nat : o = Wrap(prod_index - c_index, IndexMod)
  BY <1>s, <1>t, Distance
<1>2. o + n <= Size /\ free_bds + o <= Size /\ write_ptr = Wrap(clean_ptr + o, Size)
  BY <1>1, <1>n, <1>t, <1>s DEF IInv, RingNeverOvercommitted, Outstanding
<1>3. /\ prod_index' = Wrap(prod_index + n, IndexMod) /\ write_ptr' = Wrap(write_ptr + n, Size)
      /\ free_bds' = free_bds - n
      /\ UNCHANGED <<c_index, clean_ptr, tdma_cons, tdma_read>>
      /\ tdma_prod' \in {prod_index', tdma_prod}
  BY DEF Xmit
<1>4. /\ prod_index' \in 0 .. IndexMod - 1
      /\ Wrap(prod_index' - c_index, IndexMod) = o + n
  <2>1. Wrap(prod_index - c_index, IndexMod) + n < IndexMod
    BY <1>1, <1>2, <1>n, <1>s
  <2> QED
    BY <2>1, <1>1, <1>3, <1>n, <1>s, <1>t, Advance
<1>5. write_ptr' \in 0 .. Size - 1 /\ write_ptr' = Wrap(clean_ptr + (o + n), Size)
  <2>1. write_ptr' = Wrap(Wrap(clean_ptr + o, Size) + n, Size)
    BY <1>2, <1>3
  <2>2. Wrap(Wrap(clean_ptr + o, Size) + n, Size) = Wrap(clean_ptr + (o + n), Size)
    <3>1. o \in Nat /\ n \in Nat /\ o + n <= Size
      BY <1>1, <1>2, <1>n
    <3> QED
      BY <3>1, <1>s, <1>t DEF Wrap
  <2>3. Wrap(clean_ptr + (o + n), Size) \in 0 .. Size - 1
    <3>1. o + n \in 0 .. Size
      BY <1>2, <1>n
    <3> QED
      BY <3>1, <1>s, <1>t, SlotRange
  <2> QED
    BY <2>1, <2>2, <2>3
<1>6. RingType'
  <2>1. free_bds - n \in 0 .. Size
    BY <1>t, <1>n, <1>s
  <2>2. tdma_prod' \in 0 .. IndexMod - 1
    BY <1>3, <1>4, <1>t
  <2>3. tdma_read \in 0 .. Size - 1
    BY DEF IInv, RingType, Slots
  <2> QED
    BY <1>3, <1>4, <1>5, <1>t, <2>1, <2>2, <2>3 DEF RingType, Indices, Slots
<1>7. RingNeverOvercommitted'
  <2>1. Outstanding' = o + n
    BY <1>3, <1>4 DEF Outstanding
  <2>2. free_bds' + (o + n) <= Size
    BY <1>2, <1>3, <1>1, <1>n, <1>t, <1>s
  <2> QED
    BY <2>1, <2>2, <1>5, <1>3 DEF RingNeverOvercommitted
<1>8. TdmaInWindow'
  <2>1. Outstanding' = o + n /\ Outstanding = o /\ Ready' = Ready
    BY <1>1, <1>3, <1>4 DEF Outstanding, Ready
  <2>x. PICK x \in Nat : x = Ready
    BY <1>s, <1>t, Distance DEF Ready
  <2>2. PICK y \in Nat : y = Wrap(tdma_prod - c_index, IndexMod)
    BY <1>s, <1>t, Distance
  <2>3. x <= y /\ y <= o /\ tdma_read = Wrap(clean_ptr + Ready, Size)
    BY <2>x, <2>1, <2>2 DEF IInv, TdmaInWindow
  <2>4. PICK z \in Nat : z = Wrap(tdma_prod' - c_index, IndexMod) /\ (z = y \/ z = o + n)
    BY <2>2, <1>1, <1>3, <1>4, <1>n
  <2>5. x <= z /\ z <= o + n
    BY <2>3, <2>4, <1>n, <1>1
  <2> QED
    BY <2>x, <2>1, <2>2, <2>3, <2>4, <2>5, <1>3 DEF TdmaInWindow
<1> QED
  BY <1>6, <1>7, <1>8 DEF IInv

\* The invariant in terms of three distances from the driver's consumer index: x
\* to the hardware's consumer index, y to its producer index, o to the driver's.
Distances(o, x, y) ==
    /\ o = Wrap(prod_index - c_index, IndexMod)
    /\ x = Wrap(tdma_cons - c_index, IndexMod)
    /\ y = Wrap(tdma_prod - c_index, IndexMod)
    /\ x <= y /\ y <= o /\ free_bds + o <= Size
    /\ write_ptr = Wrap(clean_ptr + o, Size) /\ tdma_read = Wrap(clean_ptr + x, Size)

\* With the types, the distances are all there is to the invariant.
LEMMA Split == IInv => RingType /\ \E o, x, y \in Nat : Distances(o, x, y)
<1> SUFFICES ASSUME IInv PROVE \E o, x, y \in Nat : Distances(o, x, y)
  BY DEF IInv
<1>t. /\ prod_index \in 0 .. IndexMod - 1 /\ c_index \in 0 .. IndexMod - 1
      /\ tdma_prod \in 0 .. IndexMod - 1 /\ tdma_cons \in 0 .. IndexMod - 1
  BY DEF IInv, RingType, Indices
<1>1. PICK o \in Nat : o = Wrap(prod_index - c_index, IndexMod)
  BY <1>t, Sizes, Distance
<1>2. PICK x \in Nat : x = Wrap(tdma_cons - c_index, IndexMod)
  BY <1>t, Sizes, Distance
<1>3. PICK y \in Nat : y = Wrap(tdma_prod - c_index, IndexMod)
  BY <1>t, Sizes, Distance
<1>4. Distances(o, x, y)
  BY <1>1, <1>2, <1>3
  DEF Distances, IInv, RingNeverOvercommitted, TdmaInWindow, Outstanding, Ready
<1> QED
  BY <1>4

\* ... and new distances in order are all a step has to show.
LEMMA Join == ASSUME RingType', NEW o \in Nat, NEW x \in Nat, NEW y \in Nat, Distances(o, x, y)'
              PROVE  IInv'
BY DEF Distances, IInv, RingNeverOvercommitted, TdmaInWindow, Outstanding, Ready

\* What __bcmgenet_tx_reclaim leaves: x descriptors fewer are outstanding.
LEMMA ReclaimStep == ASSUME IInv, NEW b, PollReclaim(b) PROVE IInv'
<1>s. Size \in Nat /\ IndexMod \in Nat /\ Size < IndexMod /\ 0 < Size
  BY Sizes
<1>t. /\ prod_index \in 0 .. IndexMod - 1 /\ c_index \in 0 .. IndexMod - 1
      /\ clean_ptr \in 0 .. Size - 1 /\ free_bds \in 0 .. Size
      /\ tdma_prod \in 0 .. IndexMod - 1 /\ tdma_cons \in 0 .. IndexMod - 1
      /\ write_ptr \in 0 .. Size - 1 /\ tdma_read \in 0 .. Size - 1
  BY DEF IInv, RingType, Indices, Slots
<1>1. PICK o \in Nat, x \in Nat, y \in Nat : Distances(o, x, y)
  BY Split
<1>2. /\ clean_ptr' = Wrap(clean_ptr + x, Size) /\ free_bds' = free_bds + x
      /\ c_index' = tdma_cons
      /\ UNCHANGED <<prod_index, write_ptr, tdma_prod, tdma_cons, tdma_read>>
  BY <1>1 DEF PollReclaim, Distances, Ready, tdma
<1>3. x <= y /\ y <= o /\ free_bds + o <= Size /\ o <= Size
  <2>1. x <= y /\ y <= o /\ free_bds + o <= Size
    BY <1>1 DEF Distances
  <2> QED
    BY <2>1, <1>t, <1>s
<1>4. PICK u \in Nat, v \in Nat : u = o - x /\ v = y - x
  BY <1>3
<1>5. u = Wrap(prod_index - tdma_cons, IndexMod)
  <2>1. Wrap(tdma_cons - c_index, IndexMod) <= Wrap(prod_index - c_index, IndexMod)
    BY <1>1, <1>3 DEF Distances
  <2>2. Wrap(prod_index - tdma_cons, IndexMod)
          = Wrap(prod_index - c_index, IndexMod) - Wrap(tdma_cons - c_index, IndexMod)
    BY <2>1, <1>s, <1>t, Between
  <2> QED
    BY <2>2, <1>1, <1>4 DEF Distances
<1>6. v = Wrap(tdma_prod - tdma_cons, IndexMod)
  <2>1. Wrap(tdma_cons - c_index, IndexMod) <= Wrap(tdma_prod - c_index, IndexMod)
    BY <1>1, <1>3 DEF Distances
  <2>2. Wrap(tdma_prod - tdma_cons, IndexMod)
          = Wrap(tdma_prod - c_index, IndexMod) - Wrap(tdma_cons - c_index, IndexMod)
    BY <2>1, <1>s, <1>t, Between
  <2> QED
    BY <2>2, <1>1, <1>4 DEF Distances
<1>7. Wrap(clean_ptr + x, Size) \in 0 .. Size - 1
  <2>1. x \in 0 .. Size
    BY <1>3, <1>s
  <2> QED
    BY <2>1, <1>s, <1>t, SlotRange
<1>8. write_ptr = Wrap(clean_ptr' + u, Size)
  <2>1. x + u = o /\ x + u <= Size
    BY <1>3, <1>4
  <2>2. Wrap(Wrap(clean_ptr + x, Size) + u, Size) = Wrap(clean_ptr + (x + u), Size)
    <3>1. x \in Nat /\ u \in Nat /\ x + u <= Size
      BY <2>1
    <3>2. Size \in Nat /\ clean_ptr \in 0 .. Size - 1
      BY <1>s, <1>t
    <3> QED
      BY <3>1, <3>2 DEF Wrap
  <2> QED
    BY <2>1, <2>2, <1>1, <1>2 DEF Distances
<1>9. 0 = Wrap(tdma_cons - tdma_cons, IndexMod) /\ tdma_read = Wrap(clean_ptr' + 0, Size)
  <2>1. 0 = Wrap(tdma_cons - tdma_cons, IndexMod)
    BY <1>s, <1>t DEF Wrap
  <2>2. PICK p \in 0 .. Size - 1 : p = clean_ptr'
    BY <1>2, <1>7
  <2>3. Wrap(p + 0, Size) = p
    BY <1>s DEF Wrap
  <2> QED
    BY <2>1, <2>2, <2>3, <1>1, <1>2 DEF Distances
<1>10. free_bds' \in 0 .. Size /\ free_bds' + u <= Size
  BY <1>2, <1>3, <1>4, <1>t, <1>s
<1>11. Distances(u, 0, v)'
  BY <1>2, <1>3, <1>4, <1>5, <1>6, <1>8, <1>9, <1>10 DEF Distances
<1>12. RingType'
  BY <1>2, <1>7, <1>10, <1>t DEF RingType, Indices, Slots
<1> QED
  BY <1>4, <1>11, <1>12, Join

\* The hardware sending one descriptor more stays behind its producer index.
LEMMA TdmaStep == ASSUME IInv, TdmaSend PROVE IInv'
<1>s. Size \in Nat /\ IndexMod \in Nat /\ Size < IndexMod /\ 0 < Size
  BY Sizes
<1>t. /\ prod_index \in 0 .. IndexMod - 1 /\ c_index \in 0 .. IndexMod - 1
      /\ clean_ptr \in 0 .. Size - 1 /\ free_bds \in 0 .. Size
      /\ tdma_prod \in 0 .. IndexMod - 1 /\ tdma_cons \in 0 .. IndexMod - 1
      /\ write_ptr \in 0 .. Size - 1 /\ tdma_read \in 0 .. Size - 1
  BY DEF IInv, RingType, Indices, Slots
<1>1. PICK o \in Nat, x \in Nat, y \in Nat : Distances(o, x, y)
  BY Split
<1>2. /\ tdma_cons # tdma_prod
      /\ tdma_cons' = Wrap(tdma_cons + 1, IndexMod) /\ tdma_read' = Wrap(tdma_read + 1, Size)
      /\ UNCHANGED <<prod_index, c_index, write_ptr, clean_ptr, free_bds, tdma_prod>>
  BY DEF TdmaSend, ring
<1>3. x <= y /\ y <= o /\ free_bds + o <= Size /\ o <= Size
  <2>1. x <= y /\ y <= o /\ free_bds + o <= Size
    BY <1>1 DEF Distances
  <2> QED
    BY <2>1, <1>t, <1>s
<1>4. x < y
  <2>1. x # y
    <3>1. Wrap(tdma_cons - c_index, IndexMod) # Wrap(tdma_prod - c_index, IndexMod)
      BY <1>2, <1>s, <1>t, Apart
    <3> QED
      BY <3>1, <1>1 DEF Distances
  <2> QED
    BY <2>1, <1>3
<1>5. tdma_cons' \in 0 .. IndexMod - 1 /\ Wrap(tdma_cons' - c_index, IndexMod) = x + 1
  <2>1. Wrap(tdma_cons - c_index, IndexMod) = x
    BY <1>1 DEF Distances
  <2>2. Wrap(tdma_cons - c_index, IndexMod) + 1 < IndexMod
    BY <2>1, <1>3, <1>4, <1>s
  <2>3. IndexMod \in Nat /\ c_index \in 0 .. IndexMod - 1 /\ tdma_cons \in 0 .. IndexMod - 1
    BY <1>s, <1>t
  <2> QED
    BY <2>1, <2>2, <2>3, <1>2, Advance
<1>6. tdma_read' \in 0 .. Size - 1 /\ tdma_read' = Wrap(clean_ptr + (x + 1), Size)
  <2>1. tdma_read' = Wrap(Wrap(clean_ptr + x, Size) + 1, Size)
    BY <1>1, <1>2 DEF Distances
  <2>2. Wrap(Wrap(clean_ptr + x, Size) + 1, Size) = Wrap(clean_ptr + (x + 1), Size)
    <3>1. x \in Nat /\ 1 \in Nat /\ x + 1 <= Size
      BY <1>3, <1>4, <1>s
    <3>2. Size \in Nat /\ clean_ptr \in 0 .. Size - 1
      BY <1>s, <1>t
    <3> QED
      BY <3>1, <3>2 DEF Wrap
  <2>3. Wrap(clean_ptr + (x + 1), Size) \in 0 .. Size - 1
    <3>1. x + 1 \in 0 .. Size
      BY <1>3, <1>4, <1>s
    <3>2. Size \in Nat /\ clean_ptr \in 0 .. Size - 1
      BY <1>s, <1>t
    <3> QED
      BY <3>1, <3>2, SlotRange
  <2> QED
    BY <2>1, <2>2, <2>3
<1>7. Distances(o, x + 1, y)'
  <2>1. x + 1 <= y /\ x + 1 \in Nat
    BY <1>4
  <2> QED
    BY <2>1, <1>1, <1>2, <1>3, <1>5, <1>6 DEF Distances
<1>8. RingType'
  BY <1>2, <1>5, <1>6, <1>t DEF RingType, Indices, Slots
<1>9. x + 1 \in Nat
  OBVIOUS
<1> QED
  BY <1>7, <1>8, <1>9, Join

\* bcmgenet_tx_reclaim(all) empties the ring where the hardware stands: rewinding
\* write_ptr by what was not sent brings it to the hardware's own slot.
LEMMA DropStep ==
    ASSUME IInv, NEW b, TimeoutDrop(b)
    PROVE  /\ RingType' /\ RingNeverOvercommitted'
           /\ tdma_cons' = c_index' /\ prod_index' = c_index' /\ tdma_read' = clean_ptr'
<1>s. Size \in Nat /\ IndexMod \in Nat /\ Size < IndexMod /\ 0 < Size
  BY Sizes
<1>t. /\ prod_index \in 0 .. IndexMod - 1 /\ c_index \in 0 .. IndexMod - 1
      /\ clean_ptr \in 0 .. Size - 1 /\ free_bds \in 0 .. Size
      /\ tdma_prod \in 0 .. IndexMod - 1 /\ tdma_cons \in 0 .. IndexMod - 1
      /\ write_ptr \in 0 .. Size - 1 /\ tdma_read \in 0 .. Size - 1
  BY DEF IInv, RingType, Indices, Slots
<1>1. PICK o \in Nat, x \in Nat, y \in Nat : Distances(o, x, y)
  BY Split
<1>2. /\ clean_ptr' = Wrap(clean_ptr + x, Size) /\ free_bds' = free_bds + x
      /\ c_index' = tdma_cons /\ prod_index' = tdma_cons
      /\ write_ptr' = Wrap(write_ptr - Wrap(prod_index - tdma_cons, IndexMod), Size)
      /\ UNCHANGED <<tdma_prod, tdma_cons, tdma_read>>
  BY <1>1 DEF TimeoutDrop, Rewound, Distances, Ready, tdma
<1>3. x <= y /\ y <= o /\ free_bds + o <= Size /\ o <= Size
  <2>1. x <= y /\ y <= o /\ free_bds + o <= Size
    BY <1>1 DEF Distances
  <2> QED
    BY <2>1, <1>t, <1>s
<1>4. PICK u \in Nat : u = o - x
  BY <1>3
<1>5. u = Wrap(prod_index - tdma_cons, IndexMod)
  <2>1. Wrap(tdma_cons - c_index, IndexMod) <= Wrap(prod_index - c_index, IndexMod)
    BY <1>1, <1>3 DEF Distances
  <2>2. Wrap(prod_index - tdma_cons, IndexMod)
          = Wrap(prod_index - c_index, IndexMod) - Wrap(tdma_cons - c_index, IndexMod)
    BY <2>1, <1>s, <1>t, Between
  <2> QED
    BY <2>2, <1>1, <1>4 DEF Distances
<1>6. write_ptr' = Wrap(clean_ptr + x, Size)
  <2>1. x + u = o /\ x + u <= Size
    BY <1>3, <1>4
  <2>2. write_ptr = Wrap(clean_ptr + (x + u), Size)
    BY <2>1, <1>1 DEF Distances
  <2>3. Wrap(Wrap(clean_ptr + (x + u), Size) - u, Size) = Wrap(clean_ptr + x, Size)
    <3>1. x \in Nat /\ u \in Nat /\ x + u <= Size
      BY <2>1
    <3>2. Size \in Nat /\ clean_ptr \in 0 .. Size - 1
      BY <1>s, <1>t
    <3> QED
      BY <3>1, <3>2 DEF Wrap
  <2> QED
    BY <2>2, <2>3, <1>2, <1>5
<1>7. PICK p \in 0 .. Size - 1 : p = Wrap(clean_ptr + x, Size)
  <2>1. x \in 0 .. Size
    BY <1>3, <1>s
  <2> QED
    BY <2>1, <1>s, <1>t, SlotRange
<1>8. 0 = Wrap(tdma_cons - tdma_cons, IndexMod) /\ p = Wrap(p + 0, Size)
  BY <1>s, <1>t DEF Wrap
<1>9. free_bds' \in 0 .. Size
  BY <1>2, <1>3, <1>t, <1>s
<1>10. tdma_read = p
  BY <1>1, <1>7 DEF Distances
<1>11. RingType'
  BY <1>2, <1>6, <1>7, <1>9, <1>t DEF RingType, Indices, Slots
<1>12. RingNeverOvercommitted'
  <2>1. Outstanding' = 0
    BY <1>2, <1>8 DEF Outstanding
  <2> QED
    BY <2>1, <1>2, <1>6, <1>7, <1>8, <1>9, <1>s DEF RingNeverOvercommitted
<1> QED
  BY <1>2, <1>7, <1>10, <1>11, <1>12

\* Writing PROD_INDEX then tells the hardware that nothing is left to send.
LEMMA RewindStep == ASSUME RingInv, TimeoutRewind PROVE IInv'
<1>1. PICK c \in 0 .. IndexMod - 1, p \in 0 .. Size - 1 :
          /\ c_index = c /\ prod_index = c /\ tdma_cons = c
          /\ clean_ptr = p /\ tdma_read = p
  BY DEF RingInv, RingType, TimeoutRewind, Indices, Slots
<1>2. tdma_prod' = c /\ UNCHANGED <<ring, tdma_cons, tdma_read>>
  BY <1>1 DEF TimeoutRewind
<1>3. Wrap(c - c, IndexMod) = 0 /\ Wrap(p + 0, Size) = p
  BY Sizes DEF Wrap
<1>4. RingType' /\ RingNeverOvercommitted'
  BY <1>1, <1>2 DEF RingInv, RingType, RingNeverOvercommitted, Outstanding, ring, Indices
<1>5. TdmaInWindow'
  BY <1>1, <1>2, <1>3 DEF TdmaInWindow, Ready, Outstanding, ring
<1> QED
  BY <1>4, <1>5 DEF IInv

\* init_umac and init_tx_queues set the ring up empty.
LEMMA Empty ==
    ASSUME prod_index = 0, c_index = 0, write_ptr = 0, clean_ptr = 0, free_bds = Size,
           tdma_prod = 0, tdma_cons = 0, tdma_read = 0
    PROVE  IInv
<1>s. Size \in Nat /\ IndexMod \in Nat /\ Size < IndexMod /\ 0 < Size
  BY Sizes
<1>1. RingType
  BY <1>s DEF RingType, Indices, Slots
<1>2. Wrap(0 - 0, IndexMod) = 0 /\ Wrap(0 + 0, Size) = 0
  BY <1>s DEF Wrap
<1>3. RingNeverOvercommitted /\ TdmaInWindow
  BY <1>2, <1>s DEF RingNeverOvercommitted, TdmaInWindow, Outstanding, Ready
<1> QED
  BY <1>1, <1>3 DEF IInv

\* What leaves the ring and the hardware's registers alone keeps the invariant.
LEMMA Untouched == ASSUME IInv, UNCHANGED <<ring, tdma>> PROVE IInv'
BY DEF ring, tdma, IInv, RingType, RingNeverOvercommitted, TdmaInWindow, Outstanding, Ready

\* Away from a timeout's drop the invariant says that the two agree ...
LEMMA Lower == ASSUME RingInv, Settled PROVE IInv
BY DEF RingInv, IInv

\* ... and a step that leaves the watchdog alone has only that to keep.
LEMMA Raise ==
    ASSUME RingInv, Settled, IInv', UNCHANGED <<faults, dog>>,
           poll' = "reclaim" => poll = "reclaim" \/ ~Locked
    PROVE  RingInv'
BY DEF RingInv, IInv, Settled, Locked

\* What leaves the ring, the registers and the watchdog alone keeps all of it.
LEMMA Aside ==
    ASSUME RingInv, UNCHANGED <<faults, dog, ring, tdma>>,
           poll' = "reclaim" => poll = "reclaim" \/ ~Locked
    PROVE  RingInv'
<1>1. RingType' /\ RingNeverOvercommitted' /\ (Settled => TdmaInWindow')
  BY DEF ring, tdma, RingInv, RingType, RingNeverOvercommitted, TdmaInWindow, Outstanding, Ready
<1>2. poll' = "reclaim" => dog \notin {"reclaim", "rewind", "lost"}
  <2>1. CASE poll = "reclaim"
    BY <2>1 DEF RingInv
  <2>2. CASE ~Locked
    BY <2>2 DEF Locked
  <2> QED BY <2>1, <2>2
<1> QED
  BY <1>1, <1>2 DEF RingInv, Settled, ring, tdma

\* Each step of the driver, the interrupt and the hardware keeps the accounts.
LEMMA RingStep == RingInv /\ [Next]_vars => RingInv'
<1> SUFFICES ASSUME RingInv, [Next]_vars PROVE RingInv'
  OBVIOUS
<1>1. ASSUME NEW k \in Skbs, NEW n \in Lengths, NEW m \in 0 .. 1,
             \/ XmitBusy(k, n, m) \/ XmitNoTsb(k, n, m)
             \/ \E i \in 0 .. MAX_SKB_FRAGS : XmitNoMap(k, n, m, i)
      PROVE  RingInv'
  <2>1. UNCHANGED <<faults, dog, ring, tdma, poll>>
    BY <1>1 DEF XmitBusy, XmitNoTsb, XmitNoMap, irq
  <2> QED BY <2>1, Aside
<1>2. ASSUME NEW k \in Skbs, NEW n \in Lengths, NEW m \in 0 .. 1,
             NEW b \in SUBSET {"bql"}, Xmit(k, n, m, b)
      PROVE  RingInv'
  <2>1. Settled /\ UNCHANGED <<faults, dog, poll>>
    BY <1>2 DEF Xmit, MayXmit, Settled, irq
  <2> QED BY <1>2, <2>1, Lower, XmitStep, Raise
<1>3. ASSUME NEW b \in SUBSET {"bql"}, PollReclaim(b) PROVE RingInv'
  <2>1. Settled /\ UNCHANGED <<faults, dog>> /\ poll' # "reclaim"
    BY <1>3 DEF PollReclaim, RingInv, Settled
  <2> QED BY <1>3, <2>1, Lower, ReclaimStep, Raise
<1>4. CASE PollClear \/ PollComplete \/ PollEnable \/ Isr1
  <2>1. UNCHANGED <<faults, dog, ring, tdma>> /\ (poll' = "reclaim" => poll = "reclaim" \/ ~Locked)
    BY <1>4 DEF PollClear, PollComplete, PollEnable, Isr1
  <2> QED BY <2>1, Aside
<1>5. CASE TdmaSend
  <2>1. CASE Settled
    <3>1. UNCHANGED <<faults, dog, poll>>
      BY <1>5, <2>1 DEF TdmaSend, Settled
    <3> QED BY <1>5, <2>1, <3>1, Lower, TdmaStep, Raise
  <2>2. CASE ~Settled
    <3>1. /\ dog = "rewind" /\ dog' = "lost" /\ UNCHANGED <<faults, ring, tdma_prod, poll>>
          /\ tdma_cons' = Wrap(tdma_cons + 1, IndexMod) /\ tdma_read' = Wrap(tdma_read + 1, Size)
      BY <1>5, <2>2 DEF TdmaSend, Settled
    <3>2. tdma_cons' \in Indices /\ tdma_read' \in Slots
      BY <3>1, Sizes DEF RingInv, RingType, Indices, Slots, Wrap
    <3>3. RingType' /\ RingNeverOvercommitted'
      BY <3>1, <3>2 DEF RingInv, RingType, RingNeverOvercommitted, Outstanding, ring
    <3> QED BY <3>1, <3>3 DEF RingInv, Settled
  <2> QED BY <2>1, <2>2
<1>6. CASE TimeoutClear
  <2>1. /\ dog = "idle" /\ dog' = "reclaim" /\ poll # "reclaim" /\ "timeout" \in faults
        /\ UNCHANGED <<faults, ring, tdma, poll>>
    BY <1>6 DEF TimeoutClear, Locked
  <2>2. IInv'
    BY <2>1, Lower, Untouched DEF Settled
  <2> QED BY <2>1, <2>2 DEF RingInv, IInv
<1>7. ASSUME NEW b \in SUBSET {"bql"}, TimeoutDrop(b) PROVE RingInv'
  <2>1. Settled /\ dog = "reclaim" /\ dog' = "rewind" /\ UNCHANGED <<faults, poll>>
    BY <1>7 DEF TimeoutDrop, Settled, irq
  <2>2. /\ RingType' /\ RingNeverOvercommitted'
        /\ tdma_cons' = c_index' /\ prod_index' = c_index' /\ tdma_read' = clean_ptr'
    BY <1>7, <2>1, Lower, DropStep
  <2> QED BY <2>1, <2>2 DEF RingInv, Settled
<1>8. CASE TimeoutRewind
  <2>1. dog = "rewind" /\ dog' = "wake" /\ UNCHANGED <<faults, poll>>
    BY <1>8 DEF TimeoutRewind, irq
  <2> QED BY <1>8, <2>1, RewindStep DEF RingInv, IInv
<1>9. CASE TimeoutWake
  <2>1. dog = "wake" /\ dog' = "idle" /\ UNCHANGED <<faults, ring, tdma, poll>>
    BY <1>9 DEF TimeoutWake
  <2>2. IInv'
    BY <2>1, Lower, Untouched DEF Settled
  <2> QED BY <2>1, <2>2 DEF RingInv, IInv
<1>10. CASE Reopen
  <2>1. /\ prod_index' = 0 /\ c_index' = 0 /\ write_ptr' = 0 /\ clean_ptr' = 0
        /\ free_bds' = Size /\ tdma_prod' = 0 /\ tdma_cons' = 0 /\ tdma_read' = 0
        /\ dog' = "idle"
    BY <1>10 DEF Reopen
  <2>2. IInv'
    BY <2>1, Sizes DEF IInv, RingType, RingNeverOvercommitted, TdmaInWindow, Outstanding,
                       Ready, Indices, Slots, Wrap
  <2> QED BY <2>1, <2>2 DEF RingInv, IInv
<1>11. CASE UNCHANGED vars
  <2>1. UNCHANGED <<faults, dog, ring, tdma, poll>>
    BY <1>11 DEF vars, irq
  <2> QED BY <2>1, Aside
<1> QED
  BY <1>1, <1>2, <1>3, <1>4, <1>5, <1>6, <1>7, <1>8, <1>9, <1>10, <1>11 DEF Next

\* The accounts hold in every state, whatever may go wrong.
THEOREM Inductive == Spec => []RingInv
<1>1. Init => RingInv
  BY Empty DEF Init, RingInv, IInv
<1> QED
  BY <1>1, RingStep, PTL DEF Spec

\* Until the hardware sends what a timeout is dropping, the descriptors handed to
\* bcmgenet_xmit never exceed those that are free, and write_ptr stands where the
\* producer index says, through drops, timeouts and reopenings.
THEOREM RingSafe == Spec => [](dog # "lost" => RingNeverOvercommitted)
<1>1. RingInv => (dog # "lost" => RingNeverOvercommitted)
  BY DEF RingInv
<1> QED
  BY <1>1, Inductive, PTL

\* Whenever no timeout is between its drop and its write of PROD_INDEX, nor lost
\* the race there, the hardware works between the driver's consumer and producer
\* index, on the slots the driver will clean: no reclaim reaches a descriptor still
\* to be sent.
THEOREM TdmaFollows == Spec => [](Settled => TdmaInWindow)
<1>1. RingInv => (Settled => TdmaInWindow)
  BY DEF RingInv
<1> QED
  BY <1>1, Inductive, PTL

\* bcmgenet_xmit, __bcmgenet_tx_reclaim and the hardware agree about the ring
\* through every fault, up to a race that a timeout loses against the hardware.
THEOREM RingsAgree == Spec => []RingConsistent
<1>1. RingInv => RingConsistent
  BY DEF RingInv, RingConsistent
<1> QED
  BY <1>1, Inductive, PTL
-----------------------------------------------------------------------------
(* The control blocks: what they hold while the hardware may read them.       *)

\* Every descriptor in use belongs to a packet the driver holds, and the packet's
\* last control block is this one or one further on.
Mapped ==
    \A i \in Run(clean_ptr, Outstanding) :
        /\ cbs[i] \in Skbs /\ holder[cbs[i]] = "driver"
        /\ Wrap(i - clean_ptr, Size) <= Wrap(last_cb[cbs[i]] - clean_ptr, Size)

\* The types of what is not part of the accounting
SkbType ==
    /\ cbs \in [Slots -> Skbs \cup {None}]
    /\ first_cb \in [Skbs -> Slots] /\ last_cb \in [Skbs -> Slots]
    /\ holder \in [Skbs -> {"stack", "driver"}]

\* A slot seen from k slots further on: before those it is a round away.
LEMMA Shift ==
    ASSUME NEW S \in Nat, NEW p \in 0 .. S - 1, NEW k \in 0 .. S, NEW j \in 0 .. S - 1
    PROVE  Wrap(j - Wrap(p + k, S), S) =
               Wrap(j - p, S) - k + (IF Wrap(j - p, S) < k THEN S ELSE 0)
BY DEF Wrap

\* The n slots after a run of k are the ones at distance k to k + n - 1.
LEMMA RunAfter ==
    ASSUME NEW p \in Slots, NEW k \in 0 .. Size, NEW n \in Nat, k + n <= Size, NEW j \in Slots
    PROVE  j \in Run(Wrap(p + k, Size), n) <=>
               k <= Wrap(j - p, Size) /\ Wrap(j - p, Size) < k + n
<1>1. PICK d \in 0 .. Size - 1 : d = Wrap(j - p, Size)
  BY Sizes, Distance DEF Slots
<1>2. Wrap(j - Wrap(p + k, Size), Size) = d - k + (IF d < k THEN Size ELSE 0)
  BY <1>1, Sizes, Shift DEF Slots
<1> QED
  BY <1>1, <1>2, Sizes DEF Run

\* bcmgenet_xmit takes the slots that follow the ones in use.
LEMMA XmitWindow ==
    ASSUME IInv, NEW k \in Skbs, NEW n \in Lengths, NEW m, NEW b, Xmit(k, n, m, b)
    PROVE  /\ Outstanding \in Nat /\ n \in Nat \ {0} /\ Outstanding + n <= Size
           /\ free_bds + Outstanding <= Size
           /\ Outstanding' = Outstanding + n
           /\ clean_ptr \in Slots /\ clean_ptr' = clean_ptr
           /\ write_ptr = Wrap(clean_ptr + Outstanding, Size)
<1>s. Size \in Nat /\ IndexMod \in Nat /\ Size < IndexMod /\ 0 < Size
  BY Sizes
<1>n. n \in Nat \ {0} /\ n < free_bds
  BY RingAssumption DEF Xmit, Lengths
<1>t. /\ prod_index \in 0 .. IndexMod - 1 /\ c_index \in 0 .. IndexMod - 1
      /\ clean_ptr \in Slots /\ free_bds \in 0 .. Size
  BY DEF IInv, RingType, Indices
<1>1. PICK o \in Nat : o = Outstanding /\ o = Wrap(prod_index - c_index, IndexMod)
  BY <1>s, <1>t, Distance DEF Outstanding
<1>2. free_bds + o <= Size /\ write_ptr = Wrap(clean_ptr + o, Size)
  BY <1>1 DEF IInv, RingNeverOvercommitted
<1>3. o + n <= Size /\ o + n < IndexMod
  BY <1>2, <1>n, <1>t, <1>s
<1>4. /\ prod_index' = Wrap(prod_index + n, IndexMod)
      /\ c_index' = c_index /\ clean_ptr' = clean_ptr
  BY DEF Xmit
<1>5. Wrap(prod_index' - c_index, IndexMod) = o + n
  BY <1>1, <1>3, <1>4, <1>n, <1>s, <1>t, Advance
<1> QED
  BY <1>1, <1>2, <1>3, <1>4, <1>5, <1>n, <1>t DEF Outstanding

\* __bcmgenet_tx_reclaim gives up the first Ready of the slots in use.
LEMMA ReclaimWindow ==
    ASSUME IInv, NEW b, PollReclaim(b)
    PROVE  /\ Outstanding \in Nat /\ Ready \in Nat /\ Ready <= Outstanding /\ Outstanding <= Size
           /\ Outstanding' = Outstanding - Ready
           /\ clean_ptr \in Slots /\ clean_ptr' = Wrap(clean_ptr + Ready, Size)
           /\ free_bds \in 0 .. Size /\ free_bds' = free_bds + Ready
<1>s. Size \in Nat /\ IndexMod \in Nat /\ Size < IndexMod /\ 0 < Size
  BY Sizes
<1>t. /\ prod_index \in 0 .. IndexMod - 1 /\ c_index \in 0 .. IndexMod - 1
      /\ tdma_cons \in 0 .. IndexMod - 1 /\ clean_ptr \in Slots /\ free_bds \in 0 .. Size
  BY DEF IInv, RingType, Indices
<1>1. PICK o \in Nat, x \in Nat, y \in Nat : Distances(o, x, y)
  BY Split
<1>2. o = Outstanding /\ x = Ready
  BY <1>1 DEF Distances, Outstanding, Ready
<1>3. x <= o /\ o <= Size
  <2>1. x <= y /\ y <= o /\ free_bds + o <= Size
    BY <1>1 DEF Distances
  <2> QED
    BY <2>1, <1>t, <1>s
<1>4. /\ clean_ptr' = Wrap(clean_ptr + Ready, Size) /\ free_bds' = free_bds + Ready
      /\ c_index' = tdma_cons /\ prod_index' = prod_index
  BY DEF PollReclaim
<1>5. Wrap(prod_index - tdma_cons, IndexMod) = o - x
  <2>1. Wrap(tdma_cons - c_index, IndexMod) <= Wrap(prod_index - c_index, IndexMod)
    BY <1>1, <1>3 DEF Distances
  <2>2. Wrap(prod_index - tdma_cons, IndexMod)
          = Wrap(prod_index - c_index, IndexMod) - Wrap(tdma_cons - c_index, IndexMod)
    BY <2>1, <1>s, <1>t, Between
  <2> QED
    BY <2>2, <1>1 DEF Distances
<1> QED
  BY <1>2, <1>3, <1>4, <1>5, <1>t DEF Outstanding

\* A packet handed to the hardware fills the slots behind the window and leaves
\* the ones inside alone.
LEMMA XmitMapped ==
    ASSUME IInv, SkbType, Mapped, NEW k \in Skbs, NEW n \in Lengths, NEW m,
           NEW b, Xmit(k, n, m, b)
    PROVE  Mapped'
<1>1. PICK o \in Nat : o = Outstanding
  BY XmitWindow
<1>w. /\ n \in Nat \ {0} /\ o + n <= Size /\ Outstanding' = o + n
      /\ clean_ptr \in Slots /\ clean_ptr' = clean_ptr /\ write_ptr = Wrap(clean_ptr + o, Size)
  BY <1>1, XmitWindow
<1>s. Size \in Nat /\ 0 < Size /\ o \in 0 .. Size
  BY Sizes, <1>w
<1>x. /\ cbs' = [i \in Slots |-> IF i \in Run(write_ptr, n) THEN k ELSE cbs[i]]
      /\ last_cb' = [last_cb EXCEPT ![k] = Wrap(write_ptr + n - 1, Size)]
      /\ holder' = [holder EXCEPT ![k] = "driver"] /\ holder[k] = "stack"
  BY DEF Xmit, MayXmit
<1> SUFFICES ASSUME NEW i \in Run(clean_ptr, o + n)
             PROVE  /\ cbs'[i] \in Skbs /\ holder'[cbs'[i]] = "driver"
                    /\ Wrap(i - clean_ptr, Size) <= Wrap(last_cb'[cbs'[i]] - clean_ptr, Size)
  BY <1>w DEF Mapped
<1>i. i \in Slots /\ Wrap(i - clean_ptr, Size) < o + n
  BY DEF Run
<1>r. i \in Run(write_ptr, n) <=> o <= Wrap(i - clean_ptr, Size)
  BY <1>w, <1>s, <1>i, RunAfter
<1>2. CASE Wrap(i - clean_ptr, Size) < o
  <2>1. i \in Run(clean_ptr, Outstanding) /\ i \notin Run(write_ptr, n)
    <3>1. Wrap(i - clean_ptr, Size) \in Int
      BY <1>i, <1>s, <1>w DEF Slots, Wrap
    <3> QED BY <3>1, <1>1, <1>2, <1>i, <1>r DEF Run
  <2>2. /\ cbs[i] \in Skbs /\ holder[cbs[i]] = "driver"
        /\ Wrap(i - clean_ptr, Size) <= Wrap(last_cb[cbs[i]] - clean_ptr, Size)
    BY <2>1 DEF Mapped
  <2>3. cbs'[i] = cbs[i] /\ cbs[i] # k
    BY <2>1, <2>2, <1>x, <1>i
  <2> QED
    BY <2>2, <2>3, <1>x DEF SkbType
<1>3. CASE ~(Wrap(i - clean_ptr, Size) < o)
  <2>1. PICK d \in 0 .. Size - 1 : d = Wrap(i - clean_ptr, Size)
    BY <1>i, <1>s, <1>w, Distance DEF Slots
  <2>2. i \in Run(write_ptr, n) /\ d < o + n
    BY <2>1, <1>3, <1>i, <1>r
  <2>3. cbs'[i] = k /\ holder'[k] = "driver"
    BY <2>2, <1>x, <1>i DEF SkbType
  <2>4. last_cb'[k] = Wrap(write_ptr + (n - 1), Size)
    BY <1>x, <1>w DEF SkbType, Slots, IInv, RingType
  <2>5. Wrap(last_cb'[k] - clean_ptr, Size) = o + n - 1
    <3>1. /\ clean_ptr \in 0 .. Size - 1 /\ n - 1 \in Nat
          /\ o + (n - 1) < Size /\ o + (n - 1) = o + n - 1
      BY <1>s, <1>w DEF Slots
    <3>2. Wrap(Wrap(Wrap(clean_ptr + o, Size) + (n - 1), Size) - clean_ptr, Size) = o + (n - 1)
      BY <3>1, <1>s, Reach, Zenon
    <3> QED BY <3>1, <3>2, <2>4, <1>w
  <2> QED
    BY <2>1, <2>2, <2>3, <2>5, <1>w
<1> QED
  BY <1>2, <1>3

\* The poll gives back a packet only together with its last control block, so the
\* blocks that stay in use belong to packets that stay with the driver.
LEMMA ReclaimMapped ==
    ASSUME IInv, SkbType, Mapped, NEW b, PollReclaim(b)
    PROVE  Mapped'
<1>1. PICK o \in Nat, x \in Nat : o = Outstanding /\ x = Ready
  BY ReclaimWindow
<1>w. /\ x <= o /\ o <= Size /\ Outstanding' = o - x
      /\ clean_ptr \in Slots /\ clean_ptr' = Wrap(clean_ptr + x, Size)
  BY <1>1, ReclaimWindow
<1>s. Size \in Nat /\ 0 < Size /\ x \in 0 .. Size /\ o - x \in Nat /\ x + (o - x) = o
  BY Sizes, <1>w
<1> DEFINE done == Finished(Reclaim(x))
<1>x. /\ cbs' = [i \in Slots |-> IF i \in Reclaim(x) THEN None ELSE cbs[i]]
      /\ holder' = [k \in Skbs |-> IF k \in done THEN "stack" ELSE holder[k]]
      /\ last_cb' = [k \in Skbs |-> IF k \in done THEN 0 ELSE last_cb[k]]
  BY <1>1 DEF PollReclaim
<1> SUFFICES ASSUME NEW i \in Run(Wrap(clean_ptr + x, Size), o - x)
             PROVE  /\ cbs'[i] \in Skbs /\ holder'[cbs'[i]] = "driver"
                    /\ Wrap(i - clean_ptr', Size) <= Wrap(last_cb'[cbs'[i]] - clean_ptr', Size)
  BY <1>w DEF Mapped
<1>i. i \in Slots
  BY DEF Run
<1>d. PICK d \in 0 .. Size - 1 : d = Wrap(i - clean_ptr, Size)
  BY <1>i, <1>s, <1>w, Distance DEF Slots
<1>2. x <= d /\ d < o
  BY <1>d, <1>i, <1>s, <1>w, RunAfter
<1>3. i \in Run(clean_ptr, Outstanding) /\ i \notin Reclaim(x)
  BY <1>1, <1>2, <1>d, <1>i DEF Run, Reclaim
<1>4. /\ cbs[i] \in Skbs /\ holder[cbs[i]] = "driver"
      /\ d <= Wrap(last_cb[cbs[i]] - clean_ptr, Size)
  BY <1>3, <1>d DEF Mapped
<1>5. PICK t \in Skbs : t = cbs[i]
  BY <1>4
<1>l. PICK l \in 0 .. Size - 1 : l = last_cb[t]
  BY DEF Slots, SkbType
<1>c. clean_ptr \in 0 .. Size - 1 /\ i \in 0 .. Size - 1
  BY <1>i, <1>w DEF Slots
<1>6. PICK e \in 0 .. Size - 1 : e = Wrap(last_cb[t] - clean_ptr, Size)
  <2>1. Wrap(l - clean_ptr, Size) \in 0 .. Size - 1
    BY <1>s, <1>c DEF Wrap
  <2> QED BY <2>1, <1>l, Zenon
<1>7. d <= e
  BY <1>4, <1>5, <1>6
<1>8. t \notin done
  <2> SUFFICES ASSUME t \in done PROVE FALSE
    OBVIOUS
  <2>1. last_cb[t] \in Run(clean_ptr, x)
    BY DEF Finished, Reclaim
  <2>2. e < x
    BY <2>1, <1>6 DEF Run
  <2> QED BY <2>2, <1>2, <1>7
<1>9. cbs'[i] = t /\ holder'[t] = "driver" /\ last_cb'[t] = last_cb[t]
  BY <1>x, <1>3, <1>4, <1>5, <1>8, <1>i
<1>10. Wrap(i - clean_ptr', Size) = d - x /\ Wrap(last_cb[t] - clean_ptr', Size) = e - x
  <2>1. Wrap(i - Wrap(clean_ptr + x, Size), Size) = d - x + (IF d < x THEN Size ELSE 0)
    BY <1>c, <1>d, <1>s, Shift
  <2>2. Wrap(l - Wrap(clean_ptr + x, Size), Size) = e - x + (IF e < x THEN Size ELSE 0)
    <3>1. e = Wrap(l - clean_ptr, Size)
      BY <1>6, <1>l
    <3> QED BY <3>1, <1>c, <1>s, Shift, Zenon
  <2> QED
    BY <2>1, <2>2, <1>l, <1>2, <1>7, <1>w
<1>11. Wrap(i - clean_ptr', Size) <= Wrap(last_cb[t] - clean_ptr', Size)
  <2>1. d \in Int /\ e \in Int /\ x \in Int /\ d - x <= e - x
    BY <1>7
  <2> QED BY <2>1, <1>10, Zenon
<1> QED
  BY <1>9, <1>11, Zenon

\* A mapping that fails leaves its traces in slots that are not in use.
LEMMA NoMapOutside ==
    ASSUME IInv, SkbType, NEW k \in Skbs, NEW n \in Lengths, NEW m, NEW f \in 0 .. MAX_SKB_FRAGS,
           XmitNoMap(k, n, m, f)
    PROVE  /\ \A i \in Run(clean_ptr, Outstanding) : cbs'[i] = cbs[i]
           /\ Outstanding' = Outstanding
<1>s. Size \in Nat /\ IndexMod \in Nat /\ Size < IndexMod /\ 0 < Size
  BY Sizes
<1>t. /\ prod_index \in 0 .. IndexMod - 1 /\ c_index \in 0 .. IndexMod - 1
      /\ clean_ptr \in Slots /\ free_bds \in 0 .. Size
  BY DEF IInv, RingType, Indices
<1>1. PICK o \in Nat : o = Outstanding
  BY <1>s, <1>t, Distance DEF Outstanding
<1>n. f \in Nat /\ n \in Nat /\ f < n /\ n < free_bds
  BY RingAssumption DEF XmitNoMap, Lengths
<1>2. free_bds + o <= Size /\ write_ptr = Wrap(clean_ptr + o, Size)
  BY <1>1 DEF IInv, RingNeverOvercommitted
<1>3. o + 1 + f <= Size /\ o + 1 \in 0 .. Size /\ o \in 0 .. Size /\ o + 1 <= Size
  BY <1>2, <1>n, <1>t, <1>s
<1>4. ASSUME NEW i \in Run(clean_ptr, Outstanding) PROVE cbs'[i] = cbs[i]
  <2>1. i \in Slots /\ Wrap(i - clean_ptr, Size) < o
    BY <1>1 DEF Run
  <2>d. PICK d \in 0 .. Size - 1 : d = Wrap(i - clean_ptr, Size) /\ d < o
    BY <2>1, <1>s, <1>t, Distance DEF Slots
  <2>2. i # write_ptr
    <3>1. PICK p \in 0 .. Size - 1 : p = clean_ptr
      BY <1>t DEF Slots
    <3>2. Wrap(Wrap(p + o, Size) - p, Size) = o
      BY <1>3, <1>s DEF Wrap
    <3> QED BY <3>1, <3>2, <2>d, <1>2
  <2>3. i \notin Run(Wrap(clean_ptr + (o + 1), Size), f)
    BY <1>3, <1>n, <1>t, <2>1, <2>d, RunAfter
  <2>4. Wrap(write_ptr + 1, Size) = Wrap(clean_ptr + (o + 1), Size)
    <3>1. clean_ptr \in 0 .. Size - 1
      BY <1>t DEF Slots
    <3>2. Wrap(Wrap(clean_ptr + o, Size) + 1, Size) = Wrap(clean_ptr + (o + 1), Size)
      BY <3>1, <1>3, <1>s DEF Wrap
    <3> QED BY <3>2, <1>2
  <2> QED
    BY <2>1, <2>2, <2>3, <2>4 DEF XmitNoMap
<1> QED
  BY <1>4 DEF XmitNoMap, ring, Outstanding

\* What leaves the slots in use and their packets alone keeps Mapped.
LEMMA MappedKept ==
    ASSUME Mapped, UNCHANGED <<clean_ptr, last_cb, holder>>, Outstanding' = Outstanding,
           \A i \in Run(clean_ptr, Outstanding) : cbs'[i] = cbs[i]
    PROVE  Mapped'
BY DEF Mapped, Run

\* An empty run has no slots.
LEMMA NoneInUse == \A p \in Slots : Run(p, 0) = {}
<1> SUFFICES ASSUME NEW p \in Slots, NEW i \in Run(p, 0) PROVE FALSE
  OBVIOUS
<1>1. i \in 0 .. Size - 1 /\ Wrap(i - p, Size) < 0
  BY DEF Run, Slots
<1>2. Wrap(i - p, Size) \in 0 .. Size - 1
  BY <1>1, Sizes, Distance DEF Slots
<1> QED
  BY <1>1, <1>2

\* The watchdog and the reopening leave an empty ring.
LEMMA MappedEmpty ==
    ASSUME prod_index' = c_index', RingInv' PROVE Mapped'
<1>1. PICK c \in 0 .. IndexMod - 1, p \in Slots :
          prod_index' = c /\ c_index' = c /\ clean_ptr' = p
  BY DEF RingInv, RingType, Indices
<1>2. Wrap(c - c, IndexMod) = 0
  BY Sizes DEF Wrap
<1>3. Outstanding' = 0
  BY <1>1, <1>2 DEF Outstanding
<1>4. Run(p, 0) = {}
  BY NoneInUse
<1> QED
  BY <1>1, <1>3, <1>4 DEF Mapped

\* The packets a reclaim gives back can be counted.
LEMMA Countable == \A D : IsFiniteSet(Finished(D)) /\ Cardinality(Finished(D)) \in Int
<1> SUFFICES ASSUME NEW D PROVE IsFiniteSet(Finished(D)) /\ Cardinality(Finished(D)) \in Int
  OBVIOUS
<1>1. Finished(D) \in SUBSET Skbs /\ IsFiniteSet(Skbs)
  BY RingAssumption DEF Finished
<1>2. IsFiniteSet(Finished(D))
  BY <1>1, FS_Subset
<1> QED
  BY <1>2, FS_CardinalityType

\* The types that the accounting does not cover
SoftType ==
    /\ faults \in FaultSets /\ SkbType
    /\ txq \subseteq {"drv", "bql"} /\ bql \in Int /\ more \in 0 .. 1
    /\ stat \in 0 .. 1 /\ mask \in 0 .. 1
    /\ napi \in {"idle", "sched", "missed"}
    /\ poll \in {"idle", "reclaim", "complete"} /\ enabling \in 0 .. 1
    /\ dog \in {"idle", "reclaim", "rewind", "wake", "lost"}

\* Every step keeps the types.
LEMMA SoftStep == RingInv /\ SoftType /\ [Next]_vars => SoftType'
<1> SUFFICES ASSUME RingInv, SoftType, [Next]_vars PROVE SoftType'
  OBVIOUS
<1>z. 0 \in Slots /\ write_ptr \in Slots
  BY Sizes DEF Slots, RingInv, RingType
<1>1. ASSUME NEW k \in Skbs, NEW n \in Lengths, NEW m \in 0 .. 1,
             XmitBusy(k, n, m) \/ XmitNoTsb(k, n, m)
      PROVE  SoftType'
  <2>1. SkbType'
    BY <1>1 DEF XmitBusy, XmitNoTsb, SoftType, SkbType, skbs
  <2>2. CASE XmitBusy(k, n, m)
    <3>1. txq' \subseteq {"drv", "bql"} /\ more' \in 0 .. 1
      BY <2>2 DEF XmitBusy, SoftType
    <3> QED BY <2>1, <2>2, <3>1 DEF XmitBusy, SoftType, irq
  <2>3. CASE XmitNoTsb(k, n, m)
    BY <2>1, <2>3 DEF XmitNoTsb, SoftType, irq
  <2> QED
    BY <1>1, <2>2, <2>3
<1>2. ASSUME NEW k \in Skbs, NEW n \in Lengths, NEW m \in 0 .. 1, NEW f, XmitNoMap(k, n, m, f)
      PROVE  SoftType'
  <2>1. SkbType'
    BY <1>2, <1>z DEF XmitNoMap, SoftType, SkbType
  <2> QED
    BY <1>2, <2>1 DEF XmitNoMap, SoftType, irq
<1>3. ASSUME NEW k \in Skbs, NEW n \in Lengths, NEW m \in 0 .. 1, NEW b \in SUBSET {"bql"},
             Xmit(k, n, m, b)
      PROVE  SoftType'
  <2>1. Wrap(write_ptr + n - 1, Size) \in Slots
    <3>1. n \in Nat \ {0} /\ n <= Size
      BY <1>3, RingAssumption DEF Lengths
    <3>2. write_ptr \in 0 .. Size - 1
      BY <1>z DEF Slots
    <3> QED BY <3>1, <3>2, Sizes DEF Wrap, Slots
  <2>2. SkbType'
    <3>1. cbs' \in [Slots -> Skbs \cup {None}]
      BY <1>3 DEF Xmit, SoftType, SkbType
    <3>2. first_cb' \in [Skbs -> Slots] /\ last_cb' \in [Skbs -> Slots]
      BY <1>3, <1>z, <2>1 DEF Xmit, SoftType, SkbType
    <3>3. holder' \in [Skbs -> {"stack", "driver"}]
      BY <1>3 DEF Xmit, SoftType, SkbType
    <3> QED BY <3>1, <3>2, <3>3 DEF SkbType
  <2>3. txq' \subseteq {"drv", "bql"}
    BY <1>3 DEF Xmit, SoftType
  <2>4. bql' \in Int /\ more' \in 0 .. 1
    BY <1>3 DEF Xmit, SoftType
  <2> QED
    BY <1>3, <2>2, <2>3, <2>4 DEF Xmit, SoftType, irq
<1>4. ASSUME NEW b \in SUBSET {"bql"}, PollReclaim(b) PROVE SoftType'
  <2>1. SkbType'
    <3> DEFINE done == Finished(Reclaim(Ready))
    <3>1. /\ cbs' = [i \in Slots |-> IF i \in Reclaim(Ready) THEN None ELSE cbs[i]]
          /\ holder' = [s \in Skbs |-> IF s \in done THEN "stack" ELSE holder[s]]
          /\ first_cb' = [s \in Skbs |-> IF s \in done THEN 0 ELSE first_cb[s]]
          /\ last_cb' = [s \in Skbs |-> IF s \in done THEN 0 ELSE last_cb[s]]
      BY <1>4 DEF PollReclaim
    <3> HIDE DEF done
    <3> QED BY <3>1, <1>z DEF SoftType, SkbType
  <2>2. bql' \in Int /\ txq' \subseteq txq /\ poll' \in {"idle", "reclaim", "complete"}
    BY <1>4, Countable DEF PollReclaim, Completed, SoftType
  <2> QED
    BY <1>4, <2>1, <2>2 DEF PollReclaim, SoftType
<1>5. CASE PollClear \/ PollComplete \/ PollEnable \/ Isr1
  <2>1. SkbType'
    BY <1>5 DEF PollClear, PollComplete, PollEnable, Isr1, SoftType, SkbType, skbs
  <2>2. CASE PollClear
    BY <2>1, <2>2 DEF PollClear, SoftType, queue
  <2>5. CASE PollEnable
    BY <2>1, <2>5 DEF PollEnable, SoftType, queue
  <2>3. CASE PollComplete
    BY <2>1, <2>3 DEF PollComplete, SoftType, queue
  <2>4. CASE Isr1
    BY <2>1, <2>4 DEF Isr1, SoftType, queue
  <2> QED
    BY <1>5, <2>2, <2>3, <2>4, <2>5
<1>6. CASE TdmaSend
  BY <1>6 DEF TdmaSend, SoftType, SkbType, skbs, queue
<1>7. ASSUME NEW b \in SUBSET {"bql"}, TimeoutDrop(b) PROVE SoftType'
  <2>1. SkbType'
    <3> DEFINE d == Wrap(prod_index - tdma_cons, IndexMod)
               back == Finished(Reclaim(Ready)) \cup (IF d = 0 THEN {} ELSE Consumed(d))
               D == Reclaim(Ready) \cup (IF d = 0 THEN {} ELSE Dropped(d))
    <3>1. cbs' = [i \in Slots |-> IF i \in D THEN None ELSE cbs[i]]
      BY <1>7 DEF TimeoutDrop
    <3>2. holder' = [s \in Skbs |-> IF s \in back THEN "stack" ELSE holder[s]]
      BY <1>7 DEF TimeoutDrop
    <3>3. first_cb' = [s \in Skbs |-> IF s \in back THEN 0 ELSE first_cb[s]]
      BY <1>7 DEF TimeoutDrop
    <3>4. last_cb' = [s \in Skbs |-> IF s \in back THEN 0 ELSE last_cb[s]]
      BY <1>7 DEF TimeoutDrop
    <3> HIDE DEF back, D
    <3> QED BY <3>1, <3>2, <3>3, <3>4, <1>z DEF SoftType, SkbType
  <2>2. bql' \in Int /\ txq' \subseteq txq
    <3>1. PICK done : bql' = bql - Cardinality(Finished(done)) /\ txq' \subseteq txq
      BY <1>7 DEF TimeoutDrop, Completed
    <3> QED BY <3>1, Countable DEF SoftType
  <2> QED
    BY <1>7, <2>1, <2>2 DEF TimeoutDrop, SoftType, irq
<1>10. CASE TimeoutClear \/ TimeoutRewind \/ TimeoutWake
  <2>1. SkbType'
    BY <1>10 DEF TimeoutClear, TimeoutRewind, TimeoutWake, SoftType, SkbType, skbs
  <2>2. CASE TimeoutClear
    BY <2>1, <2>2 DEF TimeoutClear, SoftType, queue
  <2>3. CASE TimeoutRewind
    BY <2>1, <2>3 DEF TimeoutRewind, SoftType, queue, irq
  <2>4. CASE TimeoutWake
    BY <2>1, <2>4 DEF TimeoutWake, SoftType
  <2> QED
    BY <1>10, <2>2, <2>3, <2>4
<1>8. CASE Reopen
  <2>1. SkbType'
    <3> DEFINE d == Wrap(prod_index - tdma_cons, IndexMod)
               back == Finished(Reclaim(Ready)) \cup (IF d = 0 THEN {} ELSE Consumed(d))
    <3>1. cbs' = [i \in Slots |-> None]
      BY <1>8 DEF Reopen
    <3>2. holder' = [s \in Skbs |-> IF s \in back THEN "stack" ELSE holder[s]]
      BY <1>8 DEF Reopen
    <3>3. first_cb' = [s \in Skbs |-> IF s \in back THEN 0 ELSE first_cb[s]]
      BY <1>8 DEF Reopen
    <3>4. last_cb' = [s \in Skbs |-> IF s \in back THEN 0 ELSE last_cb[s]]
      BY <1>8 DEF Reopen
    <3> HIDE DEF back
    <3> QED BY <3>1, <3>2, <3>3, <3>4, <1>z DEF SoftType, SkbType
  <2> QED
    BY <1>8, <2>1 DEF Reopen, SoftType
<1>9. CASE UNCHANGED vars
  BY <1>9 DEF vars, SoftType, SkbType, skbs, queue, irq
<1> QED
  BY <1>1, <1>2, <1>3, <1>4, <1>5, <1>6, <1>7, <1>8, <1>9, <1>10 DEF Next

\* Every step keeps what the hardware may read mapped.
LEMMA MappedStep == RingInv /\ RingInv' /\ SoftType /\ Mapped /\ [Next]_vars => Mapped'
<1> SUFFICES ASSUME RingInv, RingInv', SoftType, Mapped, [Next]_vars PROVE Mapped'
  OBVIOUS
<1>t. SkbType
  BY DEF SoftType
<1>q. ASSUME UNCHANGED <<ring, skbs>> PROVE Mapped'
  BY <1>q, MappedKept DEF ring, skbs, Outstanding
<1>1. ASSUME NEW k \in Skbs, NEW n \in Lengths, NEW m \in 0 .. 1,
             XmitBusy(k, n, m) \/ XmitNoTsb(k, n, m)
      PROVE  Mapped'
  BY <1>1, <1>q DEF XmitBusy, XmitNoTsb
<1>2. ASSUME NEW k \in Skbs, NEW n \in Lengths, NEW m \in 0 .. 1, NEW f \in 0 .. MAX_SKB_FRAGS,
             XmitNoMap(k, n, m, f)
      PROVE  Mapped'
  <2>1. UNCHANGED <<clean_ptr, last_cb, holder>> /\ Settled
    BY <1>2 DEF XmitNoMap, ring, MayXmit, Settled
  <2> QED
    BY <1>2, <1>t, <2>1, Lower, NoMapOutside, MappedKept
<1>3. ASSUME NEW k \in Skbs, NEW n \in Lengths, NEW m \in 0 .. 1, NEW b \in SUBSET {"bql"},
             Xmit(k, n, m, b)
      PROVE  Mapped'
  <2>1. Settled
    BY <1>3 DEF Xmit, MayXmit, Settled
  <2> QED
    BY <1>3, <1>t, <2>1, Lower, XmitMapped
<1>4. ASSUME NEW b \in SUBSET {"bql"}, PollReclaim(b) PROVE Mapped'
  <2>1. Settled
    BY <1>4 DEF PollReclaim, RingInv, Settled
  <2> QED
    BY <1>4, <1>t, <2>1, Lower, ReclaimMapped
<1>5. CASE PollClear \/ PollComplete \/ PollEnable \/ Isr1 \/ TdmaSend
  BY <1>5, <1>q DEF PollClear, PollComplete, PollEnable, Isr1, TdmaSend
<1>6. ASSUME NEW b \in SUBSET {"bql"}, TimeoutDrop(b) \/ Reopen PROVE Mapped'
  <2>1. prod_index' = c_index'
    BY <1>6 DEF TimeoutDrop, Reopen
  <2> QED BY <2>1, MappedEmpty
<1>8. CASE TimeoutClear \/ TimeoutRewind \/ TimeoutWake
  BY <1>8, <1>q DEF TimeoutClear, TimeoutRewind, TimeoutWake
<1>7. CASE UNCHANGED vars
  BY <1>7, <1>q DEF vars
<1> QED
  BY <1>1, <1>2, <1>3, <1>4, <1>5, <1>6, <1>7, <1>8 DEF Next

\* The types and the mappings hold in every state, whatever may go wrong.
THEOREM InductiveMapped == Spec => [](SoftType /\ Mapped)
<1>1. Init => SoftType /\ Mapped
  <2> SUFFICES ASSUME Init PROVE SoftType /\ Mapped
    OBVIOUS
  <2>1. 0 \in Slots
    BY Sizes DEF Slots
  <2>2. SoftType
    BY <2>1 DEF Init, SoftType, SkbType
  <2>3. Outstanding = 0
    BY Sizes DEF Init, Outstanding, Wrap
  <2>4. Run(clean_ptr, 0) = {}
    BY <2>1, NoneInUse DEF Init
  <2> QED
    BY <2>2, <2>3, <2>4 DEF Mapped
<1>2. RingInv /\ RingInv' /\ SoftType /\ Mapped /\ [Next]_vars => SoftType' /\ Mapped'
  BY SoftStep, MappedStep
<1> QED
  BY <1>1, <1>2, Inductive, PTL DEF Spec

\* What TDMA may still fetch is mapped and not freed, for every ring size, packet
\* length and index width, through drops, timeouts and reopenings, but for the
\* packets a timeout drops before it writes PROD_INDEX.
THEOREM TdmaSafe == Spec => []TdmaReadsMapped
<1>1. RingInv /\ Mapped => TdmaReadsMapped
  <2> SUFFICES ASSUME IInv, Mapped,
                      NEW i \in Run(tdma_read, Wrap(tdma_prod - tdma_cons, IndexMod))
               PROVE  cbs[i] # None /\ holder[cbs[i]] = "driver"
    BY Lower DEF TdmaReadsMapped
  <2>s. Size \in Nat /\ IndexMod \in Nat /\ Size < IndexMod /\ 0 < Size
    BY Sizes
  <2>t. /\ c_index \in 0 .. IndexMod - 1 /\ tdma_cons \in 0 .. IndexMod - 1
        /\ tdma_prod \in 0 .. IndexMod - 1 /\ clean_ptr \in Slots /\ free_bds \in 0 .. Size
    BY DEF IInv, RingType, Indices
  <2>1. PICK o \in Nat, x \in Nat, y \in Nat : Distances(o, x, y)
    BY Split
  <2>2. /\ x = Wrap(tdma_cons - c_index, IndexMod) /\ y = Wrap(tdma_prod - c_index, IndexMod)
        /\ o = Outstanding /\ x <= y /\ y <= o /\ free_bds + o <= Size
        /\ tdma_read = Wrap(clean_ptr + x, Size)
    BY <2>1 DEF Distances, Outstanding
  <2>3. x \in 0 .. Size /\ y - x \in Nat /\ x + (y - x) <= Size /\ x + (y - x) = y
    BY <2>2, <2>s, <2>t
  <2>4. Wrap(tdma_prod - tdma_cons, IndexMod) = y - x
    BY <2>2, <2>s, <2>t, Between
  <2>5. i \in Slots /\ i \in Run(Wrap(clean_ptr + x, Size), y - x)
    BY <2>2, <2>4 DEF Run
  <2>6. Wrap(i - clean_ptr, Size) < y
    BY <2>3, <2>5, <2>t, RunAfter
  <2>7. Wrap(i - clean_ptr, Size) \in Int
    BY <2>5, <2>s, <2>t, Distance DEF Slots
  <2>8. i \in Run(clean_ptr, Outstanding)
    BY <2>2, <2>5, <2>6, <2>7 DEF Run
  <2> QED
    BY <2>8, RingAssumption DEF Mapped
<1> QED
  BY <1>1, Inductive, InductiveMapped, PTL
-----------------------------------------------------------------------------
(* The ring is exact: with dropped packets in the accounting and the control  *)
(* blocks, without faults in the queue and in byte queue limits too.          *)

\* What the exactness of the control blocks rests on
Base == IInv /\ SoftType /\ Mapped

Accounted == free_bds = Size - Outstanding

\* The window of the ring: o descriptors from clean_ptr on
LEMMA Window ==
    ASSUME IInv
    PROVE  /\ Outstanding \in Nat /\ Outstanding <= Size /\ clean_ptr \in Slots
           /\ \A i \in Slots : Wrap(i - clean_ptr, Size) \in 0 .. Size - 1
           /\ \A i \in Slots : i \in Run(clean_ptr, Outstanding)
                                  <=> Wrap(i - clean_ptr, Size) < Outstanding
<1>1. PICK o \in Nat, x \in Nat, y \in Nat : Distances(o, x, y)
  BY Split
<1>2. o = Outstanding /\ free_bds + o <= Size /\ free_bds \in 0 .. Size /\ clean_ptr \in Slots
  BY <1>1 DEF Distances, Outstanding, IInv, RingType
<1>3. o <= Size
  BY <1>2, Sizes
<1>4. \A i \in Slots : Wrap(i - clean_ptr, Size) \in 0 .. Size - 1
  BY <1>2, Sizes, Distance DEF Slots
<1> QED
  BY <1>2, <1>3, <1>4 DEF Run

\* A control block that is not its packet's last is followed by another of it.
LEMMA Contiguous ==
    ASSUME Base, CbsHoldPackets, NEW i \in Run(clean_ptr, Outstanding), last_cb[cbs[i]] # i
    PROVE  /\ Wrap(i + 1, Size) \in Run(clean_ptr, Outstanding)
           /\ cbs[Wrap(i + 1, Size)] = cbs[i]
           /\ Wrap(Wrap(i + 1, Size) - clean_ptr, Size) = Wrap(i - clean_ptr, Size) + 1
<1>w. /\ Outstanding \in Nat /\ Outstanding <= Size /\ clean_ptr \in Slots
      /\ \A j \in Slots : Wrap(j - clean_ptr, Size) \in 0 .. Size - 1
      /\ \A j \in Slots : j \in Run(clean_ptr, Outstanding)
                             <=> Wrap(j - clean_ptr, Size) < Outstanding
  BY Window DEF Base
<1>1. PICK t \in Skbs : t = cbs[i]
  BY DEF Base, Mapped
<1>2. /\ holder[t] = "driver" /\ cbs[Wrap(i + 1, Size)] = t
      /\ Wrap(i - clean_ptr, Size) <= Wrap(last_cb[t] - clean_ptr, Size)
  BY <1>1 DEF Base, Mapped, CbsHoldPackets
<1>3. PICK l \in Run(clean_ptr, Outstanding) : l = last_cb[t] /\ l # i
  BY <1>1, <1>2 DEF CbsHoldPackets
<1>4. i \in Slots /\ l \in Slots
  BY DEF Run
<1>5. PICK d \in 0 .. Size - 1, e \in 0 .. Size - 1 :
          d = Wrap(i - clean_ptr, Size) /\ e = Wrap(l - clean_ptr, Size)
  BY <1>w, <1>4
<1>6. d # e
  BY <1>3, <1>4, <1>5, <1>w, Sizes, Apart DEF Slots
<1>7. d <= e /\ e < Outstanding
  BY <1>2, <1>3, <1>4, <1>5, <1>w
<1>8. clean_ptr \in 0 .. Size - 1 /\ i \in 0 .. Size - 1 /\ Size \in Nat
  BY <1>4, <1>w, Sizes DEF Slots
<1>9. d + 1 < Outstanding /\ d + 1 < Size
  BY <1>6, <1>7, <1>w, Sizes
<1>10. /\ Wrap(i + 1, Size) \in 0 .. Size - 1
       /\ Wrap(Wrap(i + 1, Size) - clean_ptr, Size) = d + 1
  BY <1>5, <1>8, <1>9, Advance
<1> QED
  BY <1>1, <1>2, <1>5, <1>9, <1>10, <1>w DEF Slots

\* What leaves the slots in use and the packets alone keeps the control blocks.
LEMMA HeldKept ==
    ASSUME Base, CbsHoldPackets, UNCHANGED <<clean_ptr, last_cb, holder>>,
           Outstanding' = Outstanding, \A i \in Run(clean_ptr, Outstanding) : cbs'[i] = cbs[i]
    PROVE  CbsHoldPackets'
<1>1. Run(clean_ptr', Outstanding') = Run(clean_ptr, Outstanding)
  BY DEF Run
<1>2. ASSUME NEW i \in Run(clean_ptr, Outstanding)
      PROVE  /\ cbs'[i] # None /\ holder'[cbs'[i]] = "driver"
             /\ last_cb'[cbs'[i]] # i => cbs'[Wrap(i + 1, Size)] = cbs'[i]
  BY Contiguous DEF CbsHoldPackets
<1>3. ASSUME NEW k \in Skbs, holder'[k] = "driver"
      PROVE  last_cb'[k] \in Run(clean_ptr, Outstanding) /\ cbs'[last_cb'[k]] = k
  BY <1>3 DEF CbsHoldPackets
<1> QED
  BY <1>1, <1>2, <1>3 DEF CbsHoldPackets

\* bcmgenet_xmit appends one packet to those in the ring.
LEMMA XmitHeld ==
    ASSUME Base, Mapped', CbsHoldPackets, NEW k \in Skbs, NEW n \in Lengths, NEW m, NEW b,
           Xmit(k, n, m, b)
    PROVE  CbsHoldPackets'
<1>0. PICK o \in Nat : o = Outstanding
  BY XmitWindow DEF Base
<1>w. /\ n \in Nat \ {0} /\ o + n <= Size /\ Outstanding' = o + n
      /\ clean_ptr \in Slots /\ clean_ptr' = clean_ptr /\ write_ptr = Wrap(clean_ptr + o, Size)
      /\ o \in 0 .. Size /\ Size \in Nat
      /\ \A i \in Slots : Wrap(i - clean_ptr, Size) \in 0 .. Size - 1
      /\ \A i \in Slots : i \in Run(clean_ptr, o) <=> Wrap(i - clean_ptr, Size) < o
  <2>1. /\ n \in Nat \ {0} /\ o + n <= Size /\ Outstanding' = o + n
        /\ clean_ptr \in Slots /\ clean_ptr' = clean_ptr
        /\ write_ptr = Wrap(clean_ptr + o, Size)
    BY <1>0, XmitWindow DEF Base
  <2>2. o \in 0 .. Size /\ Size \in Nat
    BY <1>0, <2>1, Sizes
  <2>3. /\ \A i \in Slots : Wrap(i - clean_ptr, Size) \in 0 .. Size - 1
        /\ \A i \in Slots : i \in Run(clean_ptr, o) <=> Wrap(i - clean_ptr, Size) < o
    BY <1>0, Window DEF Base
  <2> QED BY <2>1, <2>2, <2>3
<1>v. Outstanding' = o + n /\ clean_ptr' = clean_ptr
  BY <1>w
<1>x. /\ cbs' = [i \in Slots |-> IF i \in Run(write_ptr, n) THEN k ELSE cbs[i]]
      /\ last_cb' = [last_cb EXCEPT ![k] = Wrap(write_ptr + n - 1, Size)]
      /\ holder' = [holder EXCEPT ![k] = "driver"] /\ holder[k] = "stack"
  BY DEF Xmit, MayXmit
<1>t. SkbType
  BY DEF Base, SoftType
<1>r. \A i \in Slots : /\ i \in Run(write_ptr, n) <=> o <= Wrap(i - clean_ptr, Size)
                                                     /\ Wrap(i - clean_ptr, Size) < o + n
                       /\ i \in Run(clean_ptr, o + n) <=> Wrap(i - clean_ptr, Size) < o + n
  BY <1>w, RunAfter DEF Run
<1>l. PICK l \in Slots : last_cb'[k] = l /\ Wrap(l - clean_ptr, Size) = o + n - 1
  <2>1. o < Size /\ clean_ptr \in 0 .. Size - 1
    BY <1>w DEF Slots
  <2>2. PICK q \in 0 .. Size - 1 : q = Wrap(clean_ptr + o, Size) /\ Wrap(q - clean_ptr, Size) = o
    BY <1>w, <2>1 DEF Wrap
  <2>3. PICK j \in Nat : j = n - 1 /\ o + j < Size
    BY <1>w
  <2>4. Wrap(q + j, Size) \in 0 .. Size - 1 /\ Wrap(Wrap(q + j, Size) - clean_ptr, Size) = o + j
    <3>1. Wrap(q - clean_ptr, Size) + j < Size
      BY <2>2, <2>3
    <3>2. /\ Wrap(q + j, Size) \in 0 .. Size - 1
          /\ Wrap(Wrap(q + j, Size) - clean_ptr, Size) = Wrap(q - clean_ptr, Size) + j
      BY <2>1, <2>2, <2>3, <3>1, Sizes, Advance
    <3> QED BY <2>2, <3>2
  <2>5. write_ptr + n - 1 = q + j
    BY <2>2, <2>3, <1>w
  <2>6. last_cb'[k] = Wrap(q + j, Size)
    BY <2>5, <1>t, <1>x DEF SkbType
  <2> QED BY <2>3, <2>4, <2>6, <1>w DEF Slots
<1>1. ASSUME NEW i \in Run(clean_ptr, o + n)
      PROVE  /\ cbs'[i] # None /\ holder'[cbs'[i]] = "driver"
             /\ last_cb'[cbs'[i]] # i => cbs'[Wrap(i + 1, Size)] = cbs'[i]
  <2>0. i \in Run(clean_ptr', Outstanding')
    BY <1>v
  <2>1. cbs'[i] \in Skbs /\ cbs'[i] # None /\ holder'[cbs'[i]] = "driver"
    BY <2>0, RingAssumption DEF Mapped
  <2>i. i \in Slots
    BY DEF Run
  <2>2. CASE i \in Run(clean_ptr, o)
    <3>1. i \notin Run(write_ptr, n) /\ cbs'[i] = cbs[i]
      BY <2>i, <2>2, <1>r, <1>w, <1>x
    <3>2. cbs[i] \in Skbs /\ cbs[i] # k
      BY <2>2, <1>0, <1>x DEF Base, Mapped
    <3>3. ASSUME last_cb[cbs[i]] # i PROVE cbs'[Wrap(i + 1, Size)] = cbs[i]
      <4>1. /\ Wrap(i + 1, Size) \in Run(clean_ptr, o)
            /\ cbs[Wrap(i + 1, Size)] = cbs[i]
        BY <2>2, <3>3, <1>0, Contiguous
      <4>2. Wrap(i + 1, Size) \in Slots /\ Wrap(i + 1, Size) \notin Run(write_ptr, n)
        BY <4>1, <1>r, <1>w DEF Run
      <4> QED BY <4>1, <4>2, <1>x
    <3>4. last_cb'[cbs[i]] = last_cb[cbs[i]]
      BY <3>2, <1>t, <1>x DEF SkbType
    <3> QED BY <2>1, <3>1, <3>3, <3>4
  <2>3. CASE i \notin Run(clean_ptr, o)
    <3>1. PICK d \in 0 .. Size - 1 : d = Wrap(i - clean_ptr, Size) /\ o <= d /\ d < o + n
      BY <2>i, <2>3, <1>r, <1>w
    <3>2. cbs'[i] = k
      BY <2>i, <3>1, <1>r, <1>x
    <3>3. ASSUME l # i PROVE cbs'[Wrap(i + 1, Size)] = k
      <4>1. d # o + n - 1
        BY <2>i, <3>1, <3>3, <1>l, <1>w, Sizes, Apart DEF Slots
      <4>2. d + 1 < o + n /\ d + 1 < Size
        BY <3>1, <4>1, <1>w
      <4>3. /\ Wrap(i + 1, Size) \in 0 .. Size - 1
            /\ Wrap(Wrap(i + 1, Size) - clean_ptr, Size) = d + 1
        BY <2>i, <3>1, <4>2, <1>w, Advance DEF Slots
      <4>4. Wrap(i + 1, Size) \in Slots /\ Wrap(i + 1, Size) \in Run(write_ptr, n)
        BY <3>1, <4>2, <4>3, <1>r, <1>w DEF Slots
      <4> QED BY <4>4, <1>x
    <3> QED BY <2>1, <3>2, <3>3, <1>l
  <2> QED
    BY <2>2, <2>3
<1>2. ASSUME NEW s \in Skbs, holder'[s] = "driver"
      PROVE  last_cb'[s] \in Run(clean_ptr, o + n) /\ cbs'[last_cb'[s]] = s
  <2>1. CASE s = k
    <3>1. l \in Run(write_ptr, n) /\ l \in Run(clean_ptr, o + n)
      BY <1>l, <1>r, <1>w
    <3> QED BY <2>1, <3>1, <1>l, <1>x
  <2>2. CASE s # k
    <3>1. holder[s] = "driver" /\ last_cb'[s] = last_cb[s]
      BY <1>2, <2>2, <1>t, <1>x DEF SkbType
    <3>2. last_cb[s] \in Run(clean_ptr, o) /\ cbs[last_cb[s]] = s
      BY <3>1, <1>0 DEF CbsHoldPackets
    <3>3. PICK j \in Slots : j = last_cb[s]
      BY <3>2 DEF Run
    <3>4. PICK d \in 0 .. Size - 1 :
              /\ d = Wrap(j - clean_ptr, Size) /\ d < o
              /\ j \in Run(write_ptr, n) <=> o <= d /\ d < o + n
              /\ j \in Run(clean_ptr, o + n) <=> d < o + n
      BY <3>2, <3>3, <1>r, <1>w
    <3>5. j \notin Run(write_ptr, n) /\ j \in Run(clean_ptr, o + n)
      BY <3>4, <1>w
    <3> QED BY <3>1, <3>2, <3>3, <3>5, <1>x
  <2> QED
    BY <2>1, <2>2
<1> QED
  BY <1>1, <1>2, <1>w DEF CbsHoldPackets

\* The poll takes whole packets from the front of the ring, up to the last control
\* block it reaches, and leaves the others as they are.
LEMMA ReclaimHeld ==
    ASSUME Base, Mapped', CbsHoldPackets, NEW b, PollReclaim(b)
    PROVE  CbsHoldPackets'
<1>0. PICK o \in Nat, x \in Nat : o = Outstanding /\ x = Ready
  BY ReclaimWindow DEF Base
<1>w. /\ x <= o /\ o <= Size /\ Outstanding' = o - x
      /\ clean_ptr \in Slots /\ clean_ptr' = Wrap(clean_ptr + x, Size)
      /\ Size \in Nat /\ x \in 0 .. Size /\ o - x \in Nat /\ x + (o - x) = o
      /\ \A i \in Slots : Wrap(i - clean_ptr, Size) \in 0 .. Size - 1
      /\ \A i \in Slots : i \in Run(clean_ptr, o) <=> Wrap(i - clean_ptr, Size) < o
  BY <1>0, ReclaimWindow, Window, Sizes DEF Base
<1> DEFINE done == Finished(Reclaim(x))
<1>v. Outstanding' = o - x
  BY <1>w
<1>x. /\ cbs' = [i \in Slots |-> IF i \in Reclaim(x) THEN None ELSE cbs[i]]
      /\ holder' = [k \in Skbs |-> IF k \in done THEN "stack" ELSE holder[k]]
      /\ last_cb' = [k \in Skbs |-> IF k \in done THEN 0 ELSE last_cb[k]]
  BY <1>0 DEF PollReclaim
<1>r. \A i \in Slots : /\ i \in Reclaim(x) <=> Wrap(i - clean_ptr, Size) < x
                       /\ i \in Run(clean_ptr', o - x) <=> x <= Wrap(i - clean_ptr, Size)
                                                           /\ Wrap(i - clean_ptr, Size) < o
  BY <1>w, RunAfter DEF Run, Reclaim
<1>1. ASSUME NEW i \in Run(clean_ptr', o - x)
      PROVE  /\ cbs'[i] # None /\ holder'[cbs'[i]] = "driver"
             /\ last_cb'[cbs'[i]] # i => cbs'[Wrap(i + 1, Size)] = cbs'[i]
  <2>0. i \in Run(clean_ptr', Outstanding')
    BY <1>v
  <2>1. cbs'[i] \in Skbs /\ cbs'[i] # None /\ holder'[cbs'[i]] = "driver"
    BY <2>0, RingAssumption DEF Mapped
  <2>2. i \in Slots /\ i \in Run(clean_ptr, o) /\ i \notin Reclaim(x)
    BY <1>r, <1>w DEF Run
  <2>3. cbs'[i] = cbs[i] /\ cbs[i] \notin done /\ last_cb'[cbs[i]] = last_cb[cbs[i]]
    <3>1. cbs'[i] = cbs[i]
      BY <2>2, <1>x
    <3>2. cbs[i] \notin done
      BY <2>1, <3>1, <1>x
    <3> QED BY <2>1, <3>1, <3>2, <1>x
  <2>4. ASSUME last_cb[cbs[i]] # i PROVE cbs'[Wrap(i + 1, Size)] = cbs[i]
    <3>1. /\ Wrap(i + 1, Size) \in Run(clean_ptr, o) /\ cbs[Wrap(i + 1, Size)] = cbs[i]
          /\ Wrap(Wrap(i + 1, Size) - clean_ptr, Size) = Wrap(i - clean_ptr, Size) + 1
      BY <2>2, <2>4, <1>0, Contiguous
    <3>2. PICK j \in Slots : j = Wrap(i + 1, Size)
      BY <3>1 DEF Run
    <3>3. PICK d \in 0 .. Size - 1 : d = Wrap(i - clean_ptr, Size) /\ x <= d
      BY <2>2, <1>r, <1>w
    <3>4. j \notin Reclaim(x)
      BY <3>1, <3>2, <3>3, <1>r, <1>w
    <3> QED BY <3>1, <3>2, <3>4, <1>x
  <2> QED
    BY <2>1, <2>3, <2>4
<1>2. ASSUME NEW s \in Skbs, holder'[s] = "driver"
      PROVE  last_cb'[s] \in Run(clean_ptr', o - x) /\ cbs'[last_cb'[s]] = s
  <2>1. s \notin done /\ holder[s] = "driver" /\ last_cb'[s] = last_cb[s]
    BY <1>2, <1>x
  <2>2. PICK l \in Run(clean_ptr, o) : l = last_cb[s] /\ cbs[l] = s
    BY <2>1, <1>0 DEF CbsHoldPackets
  <2>3. l \in Slots /\ l \notin Reclaim(x)
    BY <2>1, <2>2 DEF Finished, Run
  <2>4. l \in Run(clean_ptr', o - x)
    <3>1. PICK e \in 0 .. Size - 1 :
              /\ e = Wrap(l - clean_ptr, Size) /\ e < o
              /\ l \in Reclaim(x) <=> e < x
              /\ l \in Run(clean_ptr', o - x) <=> x <= e /\ e < o
      BY <2>2, <2>3, <1>r, <1>w
    <3> QED BY <2>3, <3>1, <1>w
  <2> QED
    BY <2>1, <2>2, <2>3, <2>4, <1>x
<1> QED
  BY <1>1, <1>2, <1>w DEF CbsHoldPackets

\* With packets dropped at most, every step keeps free_bds and the control blocks
\* exact: only the watchdog and the reopening do not.
LEMMA HeldStep ==
    ASSUME Base, IInv', Mapped', [Next]_vars, faults \subseteq {"tsb", "map"}, dog = "idle",
           Accounted, CbsHoldPackets
    PROVE  Accounted' /\ CbsHoldPackets'
<1>q. ASSUME UNCHANGED <<ring, skbs>> PROVE Accounted' /\ CbsHoldPackets'
  BY <1>q, HeldKept DEF ring, skbs, Outstanding, Accounted
<1>b. IInv /\ SoftType /\ SkbType /\ Mapped
  BY DEF Base, SoftType
<1>1. ASSUME NEW k \in Skbs, NEW n \in Lengths, NEW m \in 0 .. 1,
             XmitBusy(k, n, m) \/ XmitNoTsb(k, n, m)
      PROVE  Accounted' /\ CbsHoldPackets'
  BY <1>1, <1>q DEF XmitBusy, XmitNoTsb
<1>2. ASSUME NEW k \in Skbs, NEW n \in Lengths, NEW m \in 0 .. 1, NEW f \in 0 .. MAX_SKB_FRAGS,
             XmitNoMap(k, n, m, f)
      PROVE  Accounted' /\ CbsHoldPackets'
  <2>1. UNCHANGED <<clean_ptr, last_cb, holder, free_bds>>
    BY <1>2 DEF XmitNoMap, ring
  <2>2. Outstanding' = Outstanding /\ \A i \in Run(clean_ptr, Outstanding) : cbs'[i] = cbs[i]
    BY <1>2, <1>b, NoMapOutside
  <2> QED
    BY <2>1, <2>2, HeldKept DEF Accounted
<1>3. ASSUME NEW k \in Skbs, NEW n \in Lengths, NEW m \in 0 .. 1, NEW b \in SUBSET {"bql"},
             Xmit(k, n, m, b)
      PROVE  Accounted' /\ CbsHoldPackets'
  <2>1. Outstanding \in Nat /\ n \in Nat /\ Outstanding' = Outstanding + n
    BY <1>3, <1>b, XmitWindow
  <2>2. free_bds' = free_bds - n
    BY <1>3 DEF Xmit
  <2> QED
    BY <1>3, <2>1, <2>2, XmitHeld, Sizes DEF Accounted
<1>4. ASSUME NEW b \in SUBSET {"bql"}, PollReclaim(b) PROVE Accounted' /\ CbsHoldPackets'
  <2>1. /\ Outstanding \in Nat /\ Ready \in Nat /\ Outstanding' = Outstanding - Ready
        /\ free_bds' = free_bds + Ready
    BY <1>4, <1>b, ReclaimWindow
  <2> QED
    BY <1>4, <2>1, ReclaimHeld, Sizes DEF Accounted
<1>5. CASE PollClear \/ PollComplete \/ PollEnable \/ Isr1 \/ TdmaSend
  BY <1>5, <1>q DEF PollClear, PollComplete, PollEnable, Isr1, TdmaSend
<1>6. ~TimeoutClear /\ ~(\E b \in SUBSET {"bql"} : TimeoutDrop(b)) /\ ~TimeoutRewind
      /\ ~TimeoutWake /\ ~Reopen
  BY DEF TimeoutClear, TimeoutDrop, TimeoutRewind, TimeoutWake, Reopen
<1>7. CASE UNCHANGED vars
  BY <1>7, <1>q DEF vars
<1> QED
  BY <1>1, <1>2, <1>3, <1>4, <1>5, <1>6, <1>7 DEF Next

\* What byte queue limits count and the queue promise, together with the control
\* blocks that are not in use
Exact == NoStaleCb /\ DoorbellRung /\ QueueHasRoom /\ BqlExact

\* The packets the driver holds
Held == {s \in Skbs : holder[s] = "driver"}

\* A packet that is queued is one more, counted once.
LEMMA XmitExact ==
    ASSUME Base, Exact, NEW k \in Skbs, NEW n \in Lengths, NEW m, NEW b \in SUBSET {"bql"},
           Xmit(k, n, m, b)
    PROVE  Exact'
<1>0. PICK o \in Nat : o = Outstanding
  BY XmitWindow DEF Base
<1>w. /\ n \in Nat \ {0} /\ o + n <= Size /\ Outstanding' = o + n
      /\ clean_ptr \in Slots /\ clean_ptr' = clean_ptr /\ write_ptr = Wrap(clean_ptr + o, Size)
      /\ o \in 0 .. Size /\ Size \in Nat
      /\ \A i \in Slots : Wrap(i - clean_ptr, Size) \in 0 .. Size - 1
      /\ \A i \in Slots : i \in Run(clean_ptr, o) <=> Wrap(i - clean_ptr, Size) < o
  <2>1. IInv
    BY DEF Base
  <2>2. /\ n \in Nat \ {0} /\ o + n <= Size /\ Outstanding' = o + n
        /\ clean_ptr \in Slots /\ clean_ptr' = clean_ptr /\ write_ptr = Wrap(clean_ptr + o, Size)
    BY <1>0, <2>1, XmitWindow
  <2>3. /\ \A i \in Slots : Wrap(i - clean_ptr, Size) \in 0 .. Size - 1
        /\ \A i \in Slots : i \in Run(clean_ptr, o) <=> Wrap(i - clean_ptr, Size) < o
    BY <1>0, <2>1, Window, Zenon
  <2>4. o \in 0 .. Size /\ Size \in Nat
    BY <2>2, Sizes
  <2> QED BY <2>2, <2>3, <2>4, Zenon
<1>1. NoStaleCb'
  <2> SUFFICES ASSUME NEW i \in Slots, i \notin Run(clean_ptr, o + n) PROVE cbs'[i] = None
    BY <1>w DEF NoStaleCb
  <2>1. PICK d \in 0 .. Size - 1 : d = Wrap(i - clean_ptr, Size) /\ ~(d < o + n)
    BY <1>w DEF Run
  <2>2. i \notin Run(clean_ptr, o) /\ i \notin Run(write_ptr, n)
    BY <2>1, <1>w, RunAfter
  <2> QED BY <2>2, <1>0 DEF Xmit, Exact, NoStaleCb
<1>2. DoorbellRung'
  BY DEF Xmit, DoorbellRung, RingsDoorbell
<1>3. QueueHasRoom'
  <2>1. free_bds' = free_bds - n /\ free_bds - n \in Int /\ MAX_SKB_FRAGS \in Nat
    BY <1>w, RingAssumption DEF Xmit, Base, IInv, RingType
  <2>2. FewLeft(free_bds - n) => "drv" \in txq'
    BY DEF Xmit
  <2> QED BY <2>1, <2>2 DEF QueueHasRoom, FewLeft
<1>4. BqlExact'
  <2>1. Held' = Held \cup {k} /\ k \notin Held
    BY DEF Held, Xmit, MayXmit, Base, SoftType, SkbType
  <2>2. IsFiniteSet(Held)
    BY RingAssumption, FS_Subset DEF Held
  <2>3. Cardinality(Held') = Cardinality(Held) + 1
    BY <2>1, <2>2, FS_AddElement
  <2> QED BY <2>3 DEF Xmit, Exact, BqlExact, Held
<1> QED
  BY <1>1, <1>2, <1>3, <1>4 DEF Exact

\* The packets a poll gives back were all the driver's, each counted once.
LEMMA ReclaimExact ==
    ASSUME Base, Exact, NEW b \in SUBSET {"bql"}, PollReclaim(b)
    PROVE  Exact'
<1>0. PICK o \in Nat, x \in Nat : o = Outstanding /\ x = Ready
  BY ReclaimWindow DEF Base
<1>w. /\ x <= o /\ o <= Size /\ Outstanding' = o - x
      /\ clean_ptr \in Slots /\ clean_ptr' = Wrap(clean_ptr + x, Size)
      /\ free_bds \in 0 .. Size /\ free_bds' = free_bds + x
      /\ Size \in Nat /\ x \in 0 .. Size /\ o - x \in Nat /\ x + (o - x) = o
      /\ \A i \in Slots : Wrap(i - clean_ptr, Size) \in 0 .. Size - 1
      /\ \A i \in Slots : i \in Run(clean_ptr, o) <=> Wrap(i - clean_ptr, Size) < o
  BY <1>0, ReclaimWindow, Window, Sizes DEF Base
<1> DEFINE done == Finished(Reclaim(x))
<1>x. /\ cbs' = [i \in Slots |-> IF i \in Reclaim(x) THEN None ELSE cbs[i]]
      /\ holder' = [k \in Skbs |-> IF k \in done THEN "stack" ELSE holder[k]]
      /\ bql' = bql - Cardinality(done)
      /\ txq' = txq \ (b \cup (IF Wakes(free_bds + x) THEN {"drv"} ELSE {}))
      /\ UNCHANGED <<more, prod_index, tdma_prod>>
  BY <1>0 DEF PollReclaim, Completed, tdma
<1>r. \A i \in Slots : /\ i \in Reclaim(x) <=> Wrap(i - clean_ptr, Size) < x
                       /\ i \in Run(clean_ptr', o - x) <=> x <= Wrap(i - clean_ptr, Size)
                                                           /\ Wrap(i - clean_ptr, Size) < o
  BY <1>w, RunAfter DEF Run, Reclaim
<1>1. NoStaleCb'
  <2> SUFFICES ASSUME NEW i \in Slots, i \notin Run(clean_ptr', o - x) PROVE cbs'[i] = None
    BY <1>w DEF NoStaleCb
  <2>1. PICK d \in 0 .. Size - 1 : d = Wrap(i - clean_ptr, Size) /\ (d < x \/ ~(d < o))
    BY <1>w, <1>r
  <2>2. i \in Reclaim(x) \/ i \notin Run(clean_ptr, o)
    BY <2>1, <1>w, <1>r
  <2> QED BY <2>2, <1>0, <1>x DEF Exact, NoStaleCb
<1>2. DoorbellRung'
  BY <1>x DEF Exact, DoorbellRung
<1>3. QueueHasRoom'
  <2>1. "drv" \notin txq' => "drv" \notin txq \/ Wakes(free_bds + x)
    BY <1>x
  <2> QED BY <2>1, <1>w, RingAssumption DEF Exact, QueueHasRoom, Wakes
<1>4. BqlExact'
  <2>1. done \subseteq Held
    <3> SUFFICES ASSUME NEW s \in done PROVE holder[s] = "driver" /\ s \in Skbs
      BY DEF Held
    <3>1. PICK i \in Reclaim(x) : cbs[i] = s /\ s \in Skbs
      BY DEF Finished
    <3>2. i \in Slots
      BY DEF Reclaim, Run
    <3>3. i \in Run(clean_ptr, Outstanding)
      <4>1. PICK d \in 0 .. Size - 1 : d = Wrap(i - clean_ptr, Size)
        BY <3>2, <1>w
      <4> QED BY <3>1, <3>2, <4>1, <1>0, <1>r, <1>w
    <3> QED BY <3>1, <3>3 DEF Base, Mapped
  <2>2. Held' = Held \ done
    BY <1>x DEF Held
  <2>3. IsFiniteSet(Held)
    BY RingAssumption, FS_Subset DEF Held
  <2>4. Held \cap done = done
    BY <2>1
  <2> HIDE DEF done
  <2>5. Cardinality(Held') = Cardinality(Held) - Cardinality(done)
    <3>1. Cardinality(Held \ done) = Cardinality(Held) - Cardinality(Held \cap done)
      BY <2>3, FS_Difference
    <3> QED BY <2>2, <2>4, <3>1, Zenon
  <2>6. bql = Cardinality(Held)
    BY DEF Exact, BqlExact, Held
  <2> QED BY <2>5, <2>6, <1>x DEF BqlExact, Held
<1> QED
  BY <1>1, <1>2, <1>3, <1>4 DEF Exact

\* Without faults every step keeps the queue exact: a packet the stack may send
\* finds room, so bcmgenet_xmit never stops a queue halfway through a batch
\* without ringing the doorbell.
LEMMA ExactStep ==
    ASSUME Base, [Next]_vars, faults = {}, dog = "idle", Exact
    PROVE  Exact'
<1>q. ASSUME UNCHANGED <<ring, skbs, queue, tdma_prod>> PROVE Exact'
  <2>1. NoStaleCb'
    BY <1>q DEF Exact, NoStaleCb, Run, Outstanding, ring, skbs
  <2>2. DoorbellRung' /\ QueueHasRoom' /\ BqlExact'
    BY <1>q DEF Exact, DoorbellRung, QueueHasRoom, BqlExact, ring, skbs, queue
  <2> QED BY <2>1, <2>2 DEF Exact
<1>1. ASSUME NEW k \in Skbs, NEW n \in Lengths, NEW m \in 0 .. 1 PROVE ~XmitBusy(k, n, m)
  <2>1. n <= MAX_SKB_FRAGS + 1 /\ n \in Nat /\ MAX_SKB_FRAGS \in Nat /\ free_bds \in Nat
    BY RingAssumption DEF Lengths, Base, IInv, RingType
  <2> QED BY <2>1 DEF XmitBusy, MayXmit, Exact, QueueHasRoom
<1>2. ASSUME NEW k, NEW n, NEW m, NEW f PROVE ~XmitNoTsb(k, n, m) /\ ~XmitNoMap(k, n, m, f)
  BY DEF XmitNoTsb, XmitNoMap
<1>3. ASSUME NEW k \in Skbs, NEW n \in Lengths, NEW m \in 0 .. 1, NEW b \in SUBSET {"bql"},
             Xmit(k, n, m, b)
      PROVE  Exact'
  BY <1>3, XmitExact
<1>4. ASSUME NEW b \in SUBSET {"bql"}, PollReclaim(b) PROVE Exact'
  BY <1>4, ReclaimExact
<1>5. CASE PollClear \/ PollComplete \/ PollEnable \/ Isr1 \/ TdmaSend
  BY <1>5, <1>q DEF PollClear, PollComplete, PollEnable, Isr1, TdmaSend, tdma
<1>6. ~TimeoutClear /\ ~(\E b \in SUBSET {"bql"} : TimeoutDrop(b)) /\ ~TimeoutRewind
      /\ ~TimeoutWake /\ ~Reopen
  BY DEF TimeoutClear, TimeoutDrop, TimeoutRewind, TimeoutWake, Reopen
<1>7. CASE UNCHANGED vars
  BY <1>7, <1>q DEF vars, tdma
<1> QED
  BY <1>1, <1>2, <1>3, <1>4, <1>5, <1>6, <1>7 DEF Next

\* Types, accounting, control blocks, queue and byte queue limits together
AllInv ==
    /\ RingInv /\ SoftType /\ Mapped
    /\ faults \subseteq {"tsb", "map"} => Accounted /\ CbsHoldPackets
    /\ faults = {} => Exact

\* The exact parts hold from the start and through every step.
LEMMA AllStep == AllInv /\ RingInv' /\ [Next]_vars => AllInv'
<1> SUFFICES ASSUME AllInv, RingInv', [Next]_vars PROVE AllInv'
  OBVIOUS
<1>1. RingInv /\ SoftType /\ Mapped
  BY DEF AllInv
<1>2. SoftType' /\ Mapped'
  BY <1>1, SoftStep, MappedStep
<1>3. faults' = faults
  <2>1. ASSUME NEW k, NEW n, NEW m, NEW f, NEW b,
               \/ XmitBusy(k, n, m) \/ XmitNoTsb(k, n, m) \/ XmitNoMap(k, n, m, f)
               \/ Xmit(k, n, m, b) \/ PollReclaim(b)
        PROVE  faults' = faults
    BY <2>1 DEF XmitBusy, XmitNoTsb, XmitNoMap, Xmit, PollReclaim
  <2>2. CASE PollClear \/ PollComplete \/ PollEnable \/ Isr1 \/ TdmaSend
    BY <2>2 DEF PollClear, PollComplete, PollEnable, Isr1, TdmaSend
  <2>3. ASSUME NEW b, TimeoutDrop(b) PROVE faults' = faults
    BY <2>3 DEF TimeoutDrop
  <2>4. CASE TimeoutClear \/ TimeoutRewind \/ TimeoutWake \/ Reopen \/ UNCHANGED vars
    BY <2>4 DEF TimeoutClear, TimeoutRewind, TimeoutWake, Reopen, vars
  <2> QED
    BY <2>1, <2>2, <2>3, <2>4 DEF Next
<1>4. faults \subseteq {"tsb", "map"} => dog = "idle" /\ Base /\ IInv'
  <2> SUFFICES ASSUME faults \subseteq {"tsb", "map"} PROVE dog = "idle" /\ Base /\ IInv'
    OBVIOUS
  <2>1. dog = "idle" /\ dog' = "idle"
    BY <1>1, <1>3 DEF RingInv
  <2> QED BY <2>1, <1>1 DEF RingInv, IInv, Base, Settled
<1>5. faults \subseteq {"tsb", "map"} => Accounted' /\ CbsHoldPackets'
  BY <1>2, <1>4, HeldStep DEF AllInv
<1>6. faults = {} => Exact'
  BY <1>4, ExactStep DEF AllInv
<1> QED
  BY <1>2, <1>3, <1>5, <1>6 DEF AllInv

\* An empty ring is exact.
LEMMA AllInit == Init /\ RingInv /\ SoftType /\ Mapped => AllInv
<1> SUFFICES ASSUME Init, RingInv, SoftType, Mapped PROVE AllInv
  OBVIOUS
<1>1. Outstanding = 0 /\ 0 \in Slots
  BY Sizes DEF Init, Outstanding, Wrap, Slots
<1>2. Run(clean_ptr, Outstanding) = {}
  BY <1>1, NoneInUse DEF Init
<1>3. Accounted /\ CbsHoldPackets
  BY <1>1, <1>2, Sizes DEF Init, Accounted, CbsHoldPackets
<1>4. NoStaleCb /\ DoorbellRung
  BY DEF Init, NoStaleCb, DoorbellRung
<1>5. QueueHasRoom
  BY RingAssumption DEF Init, QueueHasRoom
<1>6. BqlExact
  <2>1. {s \in Skbs : holder[s] = "driver"} = {}
    BY DEF Init
  <2> QED BY <2>1, FS_EmptySet DEF Init, BqlExact
<1> QED
  BY <1>3, <1>4, <1>5, <1>6 DEF AllInv, Exact

\* Without faults the ring, the queue and byte queue limits are exact; with
\* dropped packets the ring and its control blocks still are.
THEOREM TransmitExact == Spec => []TxSafe
<1>2. AllInv => TxSafe
  <2> SUFFICES ASSUME AllInv PROVE TxSafe
    OBVIOUS
  <2>1. TypeOK
    BY DEF AllInv, RingInv, RingType, SoftType, SkbType, TypeOK
  <2>2. faults \subseteq {"tsb", "map"} => RingAccounted /\ CbsHoldPackets
    BY DEF AllInv, RingInv, Accounted, RingAccounted, RingNeverOvercommitted
  <2> QED
    BY <2>1, <2>2 DEF AllInv, Exact, TxSafe
<1>3. Spec => []AllInv
  BY AllInit, AllStep, Inductive, InductiveMapped, PTL DEF Spec
<1> QED
  BY <1>2, <1>3, PTL
=============================================================================
