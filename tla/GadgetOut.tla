------------------------------ MODULE GadgetOut -----------------------------
(* An OUT endpoint of the dwc2-gadget device (patch 0039,                     *)
(* hw/usb/dwc2-gadget.c): the counterpart of GadgetIn.  The host's transfers  *)
(* are cut into packets, the guest arms buffers for PktCnt packets, and       *)
(* dwc2_ep_out_packets moves packets whenever both are there.                 *)
(* The guest's DMA addresses are valid: dwc2_ep_dma succeeds.                 *)
EXTENDS Integers, Sequences

CONSTANTS
    Mps,            \* the endpoint's maximum packet size
    Pkts,           \* the packet counts the guest may arm; XferSize is their size
    Lens,           \* the sizes of the host's transfers
    MaxArmed, MaxAsked  \* how many of each there are

VARIABLES
    ep,             \* DOEPCTL and DOEPTSIZ: [ena, nak, stall, xfer, pkt]
    gnak,           \* DCTL.GOUTNakSts
    host,           \* out_p and out_off: [len, off], or no packet
    armed, asked,   \* all the guest has armed (packets) and the host has sent (bytes)
    filled          \* bytes in each transfer completed to the guest

vars == <<ep, gnak, host, armed, asked, filled>>

None == [len |-> -1, off |-> 0]

TypeOK ==
    /\ ep \in [ena : 0 .. 1, nak : 0 .. 1, stall : 0 .. 1, xfer : Nat, pkt : Nat]
    /\ gnak \in 0 .. 1
    /\ host # None => host.len \in Lens /\ host.off \in 0 .. host.len
    /\ Len(armed) <= MaxArmed /\ Len(asked) <= MaxAsked
    /\ \A k \in 1 .. Len(filled) : filled[k] \in Nat

Init ==
    /\ ep = [ena |-> 0, nak |-> 1, stall |-> 0, xfer |-> 0, pkt |-> 0]
    /\ gnak = 0 /\ host = None
    /\ armed = <<>> /\ asked = <<>> /\ filled = <<>>

Min2(a, b) == IF a < b THEN a ELSE b
-----------------------------------------------------------------------------
(* dwc2_device_run                                                           *)

Blocked(e, g) == e.ena = 0 \/ e.nak = 1 \/ g = 1

\* The guest's transfer is complete with its last packet or a short one.
Complete(r) == r.pkt = 0 \/ r.short = 1

\* *host_done: all of the host's data has been delivered
HostDone(short, moved, remaining) == IF moved = remaining THEN 1 ELSE 0

\* dwc2_ep_out_packets: remaining bytes into [xfer, pkt]
RECURSIVE OutPackets(_, _, _, _)
OutPackets(xfer, pkt, remaining, moved) ==
    LET chunk == Min2(Min2(Mps, remaining - moved), xfer)
        short == chunk < Mps
        now   == moved + chunk
    IN IF pkt = 0
       THEN [moved |-> moved, xfer |-> xfer, pkt |-> pkt, short |-> 0, done |-> 0]
       ELSE IF short \/ now = remaining
       THEN [moved |-> now, xfer |-> xfer - chunk, pkt |-> pkt - 1,
             short |-> IF short THEN 1 ELSE 0, done |-> HostDone(short, now, remaining)]
       ELSE OutPackets(xfer - chunk, pkt - 1, remaining, now)

\* A host transfer that a stall, a cancel or a reset ends sent what was taken.
AskedOnly(h) ==
    IF h.off = 0 THEN SubSeq(asked, 1, Len(asked) - 1)
    ELSE [asked EXCEPT ![Len(asked)] = h.off]

\* out_off advances by what moved.
NewOff(h, r) == h.off + r.moved

Remaining(h) == h.len - h.off

\* dwc2_ep_out_run on endpoint registers e, host packet h and global NAK g
OutRun(e, h, g) ==
    IF h = None
    THEN ep' = e /\ host' = h /\ UNCHANGED filled
    ELSE IF e.stall = 1
    THEN ep' = e /\ host' = None /\ UNCHANGED filled
    ELSE IF Blocked(e, g)
    THEN ep' = e /\ host' = h /\ UNCHANGED filled
    ELSE LET r == OutPackets(e.xfer, e.pkt, Remaining(h), 0)
         IN /\ ep' = [e EXCEPT !.xfer = r.xfer, !.pkt = r.pkt,
                               !.ena = IF Complete(r) THEN 0 ELSE @,
                               !.nak = IF Complete(r) THEN 1 ELSE @]
            /\ filled' = IF Complete(r)
                         THEN Append(filled, armed'[Len(armed')] * Mps - r.xfer)
                         ELSE filled
            /\ host' = IF r.done = 1 THEN None ELSE [h EXCEPT !.off = NewOff(h, r)]
-----------------------------------------------------------------------------
(* The guest's register writes.                                              *)

\* DOEPTSIZ and DOEPDMA, then DOEPCTL with EPEna and CNAK
Arm ==
    /\ ep.ena = 0 /\ Len(armed) < MaxArmed
    /\ \E n \in Pkts :
        /\ armed' = Append(armed, n)
        /\ OutRun([ep EXCEPT !.ena = 1, !.nak = 0, !.xfer = n * Mps, !.pkt = n], host, gnak)
    /\ UNCHANGED <<gnak, asked>>

\* SNAK and CNAK, without EPEna
SetNak ==
    /\ ep.nak = 0 /\ UNCHANGED <<gnak, armed, asked>>
    /\ OutRun([ep EXCEPT !.nak = 1], host, gnak)

ClearNak ==
    /\ ep.nak = 1 /\ UNCHANGED <<gnak, armed, asked>>
    /\ OutRun([ep EXCEPT !.nak = 0], host, gnak)

\* dwc2_dctl_write of the global OUT NAK, within dwc2_dreg_write
DctlWrite(g) == gnak' = g /\ OutRun(ep, host, g)

GlobalNak ==
    /\ UNCHANGED <<armed, asked>>
    /\ DctlWrite(1 - gnak)

\* EPDis gives the armed transfer up; the guest keeps the packets it received.
Disable ==
    /\ ep.ena = 1
    /\ LET last == Len(armed)
           took == armed[last] - ep.pkt
       IN /\ armed' = IF took = 0 THEN SubSeq(armed, 1, last - 1)
                      ELSE [armed EXCEPT ![last] = took]
          /\ filled' = IF took = 0 THEN filled ELSE Append(filled, took * Mps)
    /\ ep' = [ep EXCEPT !.ena = 0, !.nak = 1]
    /\ UNCHANGED <<gnak, host, asked>>

\* A stall ends the host's packet as it stands; while it lasts host packets are refused.
Stall ==
    /\ ep.stall = 0 /\ host # None /\ UNCHANGED <<gnak, armed>>
    /\ asked' = AskedOnly(host)
    /\ OutRun([ep EXCEPT !.stall = 1], host, gnak)

Unstall ==
    /\ ep.stall = 1 /\ UNCHANGED <<gnak, armed, asked>>
    /\ OutRun([ep EXCEPT !.stall = 0], host, gnak)
-----------------------------------------------------------------------------
(* The host.                                                                 *)

\* dwc2_gadget_handle_data
HandleData ==
    /\ host = None /\ ep.stall = 0 /\ Len(asked) < MaxAsked
    /\ UNCHANGED <<gnak, armed>>
    /\ \E len \in Lens :
        /\ asked' = Append(asked, len)
        /\ OutRun(ep, [len |-> len, off |-> 0], gnak)

\* dwc2_gadget_cancel_packet, and dwc2_gadget_fail_packets for a waiting packet
Cancel ==
    /\ host # None
    /\ host' = None
    /\ asked' = AskedOnly(host)
    /\ UNCHANGED <<ep, gnak, armed, filled>>

Next ==
    \/ Arm \/ SetNak \/ ClearNak \/ GlobalNak \/ Disable \/ Stall \/ Unstall
    \/ HandleData \/ Cancel

Spec == Init /\ [][Next]_vars
-----------------------------------------------------------------------------
(* The reference: packets on a wire.                                         *)

\* A host transfer is full packets and a last, shorter one; an empty transfer
\* is one empty packet.
PacketsOf(len) ==
    IF len = 0 THEN <<0>>
    ELSE [k \in 1 .. (len + Mps - 1) \div Mps |-> Min2(Mps, len - (k - 1) * Mps)]

RECURSIVE Wire(_)
Wire(lens) == IF lens = <<>> THEN <<>> ELSE PacketsOf(Head(lens)) \o Wire(Tail(lens))

\* What the guest's buffers ns receive from the packets ps, and the packets left
\* over; k packets, got bytes are in the first buffer already.
RECURSIVE Fill(_, _, _, _)
Fill(ps, ns, k, got) ==
    IF ps = <<>> \/ ns = <<>> THEN [filled |-> <<>>, left |-> Len(ps)]
    ELSE IF Head(ps) < Mps \/ k + 1 = Head(ns)
    THEN LET rest == Fill(Tail(ps), Tail(ns), 0, 0)
         IN [filled |-> <<got + Head(ps)>> \o rest.filled, left |-> rest.left]
    ELSE Fill(Tail(ps), ns, k + 1, got + Head(ps))

\* "short packets, zero length packets and transfers spanning several host or
\* device buffers end exactly where they would on the wire": the guest's
\* transfers complete with the bytes the packets bring in order, however the
\* arming, the NAKs, the cancels and the host's submissions interleave.
OutOnWire ==
    LET all == Fill(Wire(asked), armed, 0, 0).filled
    IN /\ Len(filled) <= Len(all)
       /\ filled = SubSeq(all, 1, Len(filled))
       /\ (ep.ena = 0 \/ host = None) => filled = all

\* The host's packet is answered when, and not before, its last byte is in a
\* guest buffer, and it does not wait on an endpoint that could take it.
AnsweredWhenTaken ==
    LET left == Fill(Wire(asked), armed, 0, 0).left
    IN /\ host = None => left = 0
       /\ host # None => Blocked(ep, gnak) /\ (ep.ena = 0 => left > 0)
=============================================================================
