----------------------------- MODULE UbootGenet -----------------------------
(* U-Boot's bcmgenet driver on the GENET Ethernet controller of the QEMU     *)
(* patches: eth_start, eth_stop, send, recv and free_pkt against the         *)
(* controller's transmit and receive rings, its software reset, and the      *)
(* frames QEMU's net layer holds while the controller cannot receive.        *)
(* A register access runs under QEMU's lock; frames arrive between accesses. *)
EXTENDS Integers, Sequences

CONSTANTS
    Size,               \* TX_DESCS and RX_DESCS
    IndexMod,           \* 2^16: PROD_INDEX and CONS_INDEX count modulo this
    Packets, Frames,    \* what is sent and received
    None,
    MaxProd,            \* bound: sends between two starts
    MaxHeld             \* bound: frames the net layer holds

ASSUME RingAssumption ==
    /\ Size \in Nat \ {0} /\ IndexMod \in Nat /\ IndexMod > Size
    /\ IndexMod % Size = 0 /\ None \notin Frames \cup Packets
    /\ MaxProd \in Nat /\ MaxHeld \in Nat

VARIABLES
    state,              \* of the driver: "unbound", "stopped", "phy", "up"
    tx_index, rx_index, c_index,
    got,                \* frame handed to the network stack, until free_pkt
    ret,                \* of the last send: 0 or -ETIMEDOUT
    tdma,               \* [en, prod, cons, read_ptr]; prod is a 32-bit register
    tx_descs,           \* packet of each transmit descriptor
    rdma,               \* [en, prod, cons, write_ptr, len]; len: ring length
    rx_descs,           \* frame in the buffer of each receive descriptor
    held,               \* frames queued by the net layer
    asked, sent,        \* last packet to send, and what went out for it
    accepted            \* frames in the receive ring that were not yet freed

driver == <<state, tx_index, rx_index, c_index, got, ret>>
tx == <<tdma, tx_descs, asked, sent>>
rx == <<rdma, rx_descs, held, accepted>>
vars == <<driver, tx, rx>>

Descs == 0 .. Size - 1

TypeOK ==
    /\ state \in {"unbound", "stopped", "phy", "up"}
    /\ tx_index \in Descs /\ rx_index \in Descs
    /\ c_index \in 0 .. IndexMod - 1
    /\ got \in Frames \cup {None} /\ ret \in {0, -1}
    /\ tdma \in [en : 0 .. 1, prod : 0 .. MaxProd, cons : 0 .. IndexMod - 1,
                 read_ptr : Descs]
    /\ tx_descs \in [Descs -> Packets \cup {None}]
    /\ rdma \in [en : 0 .. 1, prod : 0 .. IndexMod - 1, cons : 0 .. IndexMod - 1,
                 write_ptr : Descs, len : {0, Size}]
    /\ rx_descs \in [Descs -> Frames \cup {None}]
    /\ held \in Seq(Frames) /\ Len(held) <= MaxHeld
    /\ asked \in Packets \cup {None} /\ sent \in Seq(Packets \cup {None})
    /\ accepted \in Seq(Frames)

ResetTdma == [en |-> 0, prod |-> 0, cons |-> 0, read_ptr |-> 0]
ResetRdma == [en |-> 0, prod |-> 0, cons |-> 0, write_ptr |-> 0, len |-> 0]

Init ==
    /\ state = "unbound" /\ got = None /\ ret = 0
    /\ tx_index = 0 /\ rx_index = 0 /\ c_index = 0
    /\ tdma = ResetTdma /\ rdma = ResetRdma
    /\ tx_descs = [i \in Descs |-> None] /\ rx_descs = [i \in Descs |-> None]
    /\ held = <<>> /\ accepted = <<>> /\ asked = None /\ sent = <<>>
-----------------------------------------------------------------------------
(* The controller.                                                           *)

\* bcm2838_genet_reset, which CMD_SW_RESET asks for: all registers are zero.
ColdTdma(t) == ResetTdma
ColdRdma(r) == ResetRdma

NextDesc(i) == IF i + 1 >= Size THEN 0 ELSE i + 1

\* The n-th descriptor from i on
DescFrom(i, n) == IF i + n >= Size THEN i + n - Size ELSE i + n

\* The descriptors bcm2838_genet_tx takes: both indices wrap at 16 bits.
TxCount(prod, cons) == (prod - cons) % IndexMod

M_FreeDescs_OneMore(r) ==
    LET used == (r.prod - r.cons) % IndexMod
    IN  IF used <= r.len THEN r.len - used + 1 ELSE 0

\* bcm2838_genet_rdma_free_descs
FreeDescs(r) ==
    LET used == (r.prod - r.cons) % IndexMod
    IN  IF used < r.len THEN r.len - used ELSE 0

\* bcm2838_genet_can_receive
CanReceive(r) == r.en = 1 /\ FreeDescs(r) > 0

\* bcm2838_genet_receive of the frames of fs, each of which takes one descriptor
Receive(r, fs) ==
    /\ rdma' = [r EXCEPT !.prod = (@ + Len(fs)) % IndexMod,
                         !.write_ptr = DescFrom(@, Len(fs))]
    /\ rx_descs' = [i \in Descs |->
           LET k == {n \in 1 .. Len(fs) : DescFrom(r.write_ptr, n - 1) = i}
           IN  IF k = {} THEN rx_descs[i] ELSE fs[CHOOSE n \in k : TRUE]]

M_Flush_Not(r, acc) ==
    rdma' = r /\ accepted' = acc /\ UNCHANGED <<rx_descs, held>>

\* The end of bcm2838_genet_write for RDMA_CTRL and CONS_INDEX: the frames that
\* were held are received as far as there is room.
Flush(r, acc) ==
    LET free == IF CanReceive(r) THEN FreeDescs(r) ELSE 0
        n == IF Len(held) < free THEN Len(held) ELSE free
    IN  /\ Receive(r, SubSeq(held, 1, n))
        /\ held' = SubSeq(held, n + 1, Len(held))
        /\ accepted' = acc \o SubSeq(held, 1, n)

\* A frame from the network
Arrive(f) ==
    /\ IF CanReceive(rdma)
       THEN /\ Receive(rdma, <<f>>)
            /\ accepted' = Append(accepted, f)
            /\ UNCHANGED held
       ELSE /\ Len(held) < MaxHeld
            /\ held' = Append(held, f)
            /\ UNCHANGED <<rdma, rx_descs, accepted>>
    /\ UNCHANGED <<driver, tx>>
-----------------------------------------------------------------------------
(* The driver.                                                               *)

\* bcmgenet_eth_probe resets the MAC; the PHY may be missing.
Probe ==
    /\ state = "unbound"
    /\ state' \in {"unbound", "stopped"}
    /\ tdma' = ColdTdma(tdma) /\ rdma' = ColdRdma(rdma)
    /\ UNCHANGED <<tx_index, rx_index, c_index, got, ret, tx_descs, rx_descs,
                   held, accepted, asked, sent>>

EnableDma(d) == [d EXCEPT !.en = 1]
DisableDma(d) == [d EXCEPT !.en = 0]

\* tx_ring_init: the producer index starts where the consumer index is.
TxRingInit(t) == [t EXCEPT !.prod = t.cons, !.read_ptr = 0]

\* rx_ring_init and rx_descs_init: the consumer index starts at the producer's.
RxRingInit(r) == [r EXCEPT !.cons = r.prod, !.write_ptr = 0, !.len = Size]

\* bcmgenet_gmac_eth_start up to the PHY.  Frames that come in before DMA is on
\* are held, so that one step will do.
Start ==
    /\ state = "stopped"
    /\ state' = "phy"
    /\ LET t == TxRingInit(DisableDma(ColdTdma(tdma)))
           r == RxRingInit(DisableDma(ColdRdma(rdma)))
       IN  /\ tx_index' = t.cons % Size
           /\ tdma' = EnableDma(t)
           /\ c_index' = r.prod /\ rx_index' = r.prod % Size
           /\ Flush(EnableDma(r), <<>>)
    /\ ret' = 0 /\ asked' = None /\ sent' = <<>>
    /\ tx_descs' = [i \in Descs |-> None]
    /\ UNCHANGED got

\* bcmgenet_adjust_link; 0 stands for a phy_startup that failed.
AdjustLink(speed) == speed \in {10, 100, 1000}

\* The end of eth_start: where a step fails it returns, and DMA stays on.
PhyStartup(speed) ==
    /\ state = "phy"
    /\ state' = IF AdjustLink(speed) THEN "up" ELSE "stopped"
    /\ UNCHANGED <<tx_index, rx_index, c_index, got, ret, tx, rx>>

\* bcmgenet_gmac_eth_stop
Stop ==
    /\ state = "up" /\ got = None
    /\ state' = "stopped"
    /\ tdma' = DisableDma(tdma) /\ rdma' = DisableDma(rdma)
    /\ UNCHANGED <<tx_index, rx_index, c_index, got, ret, tx_descs, asked, sent,
                   rx_descs, held, accepted>>

\* CONS_INDEX, which counts in 16 bits, after all the tries
TimedOut(cons, prod) == cons < prod

\* bcmgenet_gmac_eth_send: the controller transmits inside the PROD_INDEX write.
Send(p) ==
    /\ state = "up" /\ tdma.prod < MaxProd
    /\ LET prod == tdma.prod + 1
           n == TxCount(prod, tdma.cons)
           descs == [tx_descs EXCEPT ![tx_index] = p]
       IN  /\ tx_descs' = descs
           /\ tdma' = [tdma EXCEPT !.prod = prod, !.cons = (@ + n) % IndexMod,
                                   !.read_ptr = (@ + n) % Size]
           /\ sent' = [k \in 1 .. n |-> descs[(tdma.read_ptr + k - 1) % Size]]
           /\ ret' = IF TimedOut(tdma'.cons, prod) THEN -1 ELSE 0
    /\ asked' = p
    /\ tx_index' = NextDesc(tx_index)
    /\ UNCHANGED <<state, rx_index, c_index, got, rx>>

\* bcmgenet_gmac_eth_recv, when there is a frame
Recv ==
    /\ state = "up" /\ got = None
    /\ rdma.prod # c_index
    /\ got' = rx_descs[rx_index]
    /\ UNCHANGED <<state, tx_index, rx_index, c_index, ret, tx, rx>>

NextIndex(c) == (c + 1) % IndexMod

\* bcmgenet_gmac_free_pkt
FreePkt ==
    /\ got # None
    /\ got' = None
    /\ c_index' = NextIndex(c_index)
    /\ rx_index' = NextDesc(rx_index)
    /\ Flush([rdma EXCEPT !.cons = NextIndex(c_index)], Tail(accepted))
    /\ UNCHANGED <<state, tx_index, ret, tx>>

Next ==
    \/ \E f \in Frames : Arrive(f)
    \/ Probe
    \/ Start
    \/ \E speed \in {0, 1000, 2500} : PhyStartup(speed)
    \/ Stop
    \/ \E p \in Packets : Send(p)
    \/ Recv
    \/ FreePkt

\* While its interface is up the network stack polls.
Fairness == WF_vars(Recv) /\ WF_vars(FreePkt)

Spec == Init /\ [][Next]_vars
-----------------------------------------------------------------------------
(* Each send puts the packet it was given on the network, once and before it *)
(* returns: the driver's descriptor is the one the controller reads, also    *)
(* when the 16-bit indices wrap and after a restart.                         *)
SentExactly == asked # None => sent = <<asked>>

(* A send reports a failure only after IndexMod sends since the last start.  *)
TimesOutLate == ret # 0 => tdma.prod >= IndexMod

(* Every send is reported as done.                                           *)
SendSucceeds == ret = 0

(* The frames the driver has not freed are in its buffers, the oldest one at *)
(* rx_index: the controller neither overwrites one nor writes elsewhere, and *)
(* recv never finds a frame that is not there.                               *)
RingHolds ==
    state = "up" =>
        /\ Len(accepted) <= Size
        /\ (rdma.prod - c_index) % IndexMod = Len(accepted)
        /\ \A k \in 1 .. Len(accepted) :
              rx_descs[DescFrom(rx_index, k - 1)] = accepted[k]

(* The stack gets the frames in the order they came in.                      *)
InOrder == got # None => accepted # <<>> /\ got = Head(accepted)

(* The net layer holds frames only while the controller cannot take them.    *)
HeldWhileFull == held # <<>> => ~CanReceive(rdma)

(* Each bcmgenet_gmac_eth_send puts its packet on the network, once, and     *)
(* reports a failure only when its index has outgrown 16 bits; the receive   *)
(* ring holds what was accepted and not yet freed, the stack gets it in      *)
(* order, and QEMU holds back frames only while the ring is full.            *)
UbootSafe ==
    /\ TypeOK /\ SentExactly /\ TimesOutLate
    /\ RingHolds /\ InOrder /\ HeldWhileFull
=============================================================================
