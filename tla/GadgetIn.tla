------------------------------ MODULE GadgetIn ------------------------------
(* An IN endpoint of the dwc2-gadget device (patch 0039,                      *)
(* hw/usb/dwc2-gadget.c): the guest arms transfers of XferSize bytes in       *)
(* PktCnt packets, the host submits transfers with room for some bytes, and   *)
(* dwc2_ep_in_packets moves packets whenever both are there.  Every register  *)
(* write ends in dwc2_device_run; everything runs under the big lock, so each *)
(* handler is one step.                                                       *)
(* The guest's DMA addresses are valid: dwc2_ep_dma succeeds.                 *)
EXTENDS Integers, Sequences

CONSTANTS
    Mps,            \* the endpoint's maximum packet size
    Periodic,       \* 1: an interrupt endpoint, not subject to the global NAK
    Xfers,          \* the transfers the guest may arm, [xfer, pkt]
    Rooms,          \* the sizes of the host's transfers
    MaxArmed, MaxAsked  \* how many of each there are

VARIABLES
    ep,             \* DIEPCTL and DIEPTSIZ: [ena, nak, stall, xfer, pkt]
    gnak,           \* DCTL.GNPINNakSts
    host,           \* in_p: the host's packet, [room, got], or no packet
    armed, asked,   \* all the guest has armed and the host has asked for
    ended           \* how the host's transfers ended: [len, babble]

vars == <<ep, gnak, host, armed, asked, ended>>

None == [room |-> -1, got |-> 0]

TypeOK ==
    /\ ep \in [ena : 0 .. 1, nak : 0 .. 1, stall : 0 .. 1, xfer : Nat, pkt : Nat]
    /\ gnak \in 0 .. 1
    /\ host # None => host.room \in Rooms /\ host.got \in 0 .. host.room
    /\ Len(armed) <= MaxArmed /\ Len(asked) <= MaxAsked
    /\ \A k \in 1 .. Len(ended) : ended[k].len \in Nat /\ ended[k].babble \in 0 .. 1

Init ==
    /\ ep = [ena |-> 0, nak |-> 1, stall |-> 0, xfer |-> 0, pkt |-> 0]
    /\ gnak = 0 /\ host = None
    /\ armed = <<>> /\ asked = <<>> /\ ended = <<>>

Min2(a, b) == IF a < b THEN a ELSE b
-----------------------------------------------------------------------------
(* dwc2_device_run                                                           *)

M_Ends_Short(chunk, moved, room) == chunk < Mps
\* The host's transfer ends with a short packet or a full buffer.
Ends(chunk, moved, room) == chunk < Mps \/ moved = room

\* The global IN NAK holds back the endpoints that are not periodic.
Blocked(e, g) == e.ena = 0 \/ e.nak = 1 \/ (Periodic = 0 /\ g = 1)

\* A packet that does not fit ends the host's transfer.
Babbles(chunk, room, moved) == chunk > room - moved

\* dwc2_ep_in_packets: from [xfer, pkt] into room, as [moved, xfer, pkt, done, babble]
RECURSIVE InPackets(_, _, _, _)
InPackets(xfer, pkt, room, moved) ==
    LET chunk == Min2(Mps, xfer)
    IN IF pkt = 0
       THEN [moved |-> moved, xfer |-> xfer, pkt |-> pkt, done |-> 0, babble |-> 0]
       ELSE IF Babbles(chunk, room, moved)
       THEN [moved |-> moved, xfer |-> xfer, pkt |-> pkt, done |-> 1, babble |-> 1]
       ELSE IF Ends(chunk, moved + chunk, room)
       THEN [moved |-> moved + chunk, xfer |-> xfer - chunk, pkt |-> pkt - 1,
             done |-> 1, babble |-> 0]
       ELSE InPackets(xfer - chunk, pkt - 1, room, moved + chunk)

\* dwc2_tsiz_set, and dwc2_ep_xfer_done (EPEna off, XferCompl) once no packet is left
AfterPackets(e, r) ==
    [e EXCEPT !.xfer = r.xfer, !.pkt = r.pkt, !.ena = IF r.pkt = 0 THEN 0 ELSE @]

\* A host transfer that a stall, a cancel or a reset ends asked for what it got;
\* one that got nothing leaves no trace.
EndedEarly(h) == IF h.got = 0 THEN ended ELSE Append(ended, [len |-> h.got, babble |-> 0])
AskedOnly(h) ==
    IF h.got = 0 THEN SubSeq(asked, 1, Len(asked) - 1)
    ELSE [asked EXCEPT ![Len(asked)] = h.got]

\* dwc2_ep_in_run on endpoint registers e, host packet h and global NAK g
InRun(e, h, g) ==
    IF h = None
    THEN ep' = e /\ host' = h /\ UNCHANGED ended
    ELSE IF e.stall = 1
    THEN /\ ep' = e /\ host' = None
         /\ ended' = EndedEarly(h)
    ELSE IF Blocked(e, g)
    THEN ep' = e /\ host' = h /\ UNCHANGED ended
    ELSE LET r == InPackets(e.xfer, e.pkt, h.room - h.got, 0)
             got == h.got + r.moved
         IN /\ ep' = AfterPackets(e, r)
            /\ host' = IF r.done = 1 THEN None ELSE [h EXCEPT !.got = got]
            /\ ended' = IF r.done = 1
                        THEN Append(ended, [len |-> got, babble |-> r.babble])
                        ELSE ended
-----------------------------------------------------------------------------
(* The guest's register writes.                                              *)

\* DIEPTSIZ and DIEPDMA, then DIEPCTL with EPEna and CNAK
Arm ==
    /\ ep.ena = 0 /\ Len(armed) < MaxArmed
    /\ \E t \in Xfers :
        /\ armed' = Append(armed, t)
        /\ InRun([ep EXCEPT !.ena = 1, !.nak = 0, !.xfer = t.xfer, !.pkt = t.pkt], host, gnak)
    /\ UNCHANGED <<gnak, asked>>

\* SNAK and CNAK, without EPEna
SetNak ==
    /\ ep.nak = 0
    /\ InRun([ep EXCEPT !.nak = 1], host, gnak)
    /\ UNCHANGED <<gnak, armed, asked>>

ClearNak ==
    /\ ep.nak = 1
    /\ InRun([ep EXCEPT !.nak = 0], host, gnak)
    /\ UNCHANGED <<gnak, armed, asked>>

\* dwc2_dctl_write of the global IN NAK, within dwc2_dreg_write
DctlWrite(g) == /\ gnak' = g /\ InRun(ep, host, g)

GlobalNak ==
    /\ DctlWrite(1 - gnak)
    /\ UNCHANGED <<armed, asked>>

\* What was sent of a transfer that is given up
Sent(t) == [xfer |-> t.xfer - ep.xfer, pkt |-> t.pkt - ep.pkt]
Truncated ==
    LET last == Len(armed)
    IN IF Sent(armed[last]).pkt = 0 THEN SubSeq(armed, 1, last - 1)
       ELSE [armed EXCEPT ![last] = Sent(armed[last])]

\* EPDis gives the armed transfer up.  (Not one whose packet has just babbled:
\* that packet stays in the transfer and the reference below still needs it.)
Disable ==
    /\ ep.ena = 1
    /\ ended # <<>> => ended[Len(ended)].babble = 0
    /\ InRun([ep EXCEPT !.ena = 0, !.nak = 1], host, gnak)
    /\ armed' = Truncated
    /\ UNCHANGED <<gnak, asked>>

\* The guest stalls the endpoint, which ends the host's packet as it stands ...
Stall ==
    /\ ep.stall = 0 /\ host # None
    /\ InRun([ep EXCEPT !.stall = 1], host, gnak)
    /\ asked' = AskedOnly(host)
    /\ UNCHANGED <<gnak, armed>>

\* ... and clears the stall; host packets are refused in between.
Unstall ==
    /\ ep.stall = 1
    /\ InRun([ep EXCEPT !.stall = 0], host, gnak)
    /\ UNCHANGED <<gnak, armed, asked>>
-----------------------------------------------------------------------------
(* The host.                                                                 *)

\* dwc2_gadget_handle_data
HandleData ==
    /\ host = None /\ ep.stall = 0 /\ Len(asked) < MaxAsked
    /\ \E room \in Rooms :
        /\ asked' = Append(asked, room)
        /\ InRun(ep, [room |-> room, got |-> 0], gnak)
    /\ UNCHANGED <<gnak, armed>>

\* dwc2_gadget_cancel_packet, and the host's bus reset for a waiting packet
\* (dwc2_gadget_fail_packets): the host keeps what it got.
Cancel ==
    /\ host # None
    /\ host' = None
    /\ ended' = EndedEarly(host)
    /\ asked' = AskedOnly(host)
    /\ UNCHANGED <<ep, gnak, armed>>

Next ==
    \/ Arm \/ SetNak \/ ClearNak \/ GlobalNak \/ Disable \/ Stall \/ Unstall
    \/ HandleData \/ Cancel

Spec == Init /\ [][Next]_vars
-----------------------------------------------------------------------------
(* The reference: packets on a wire.                                         *)

\* The packets of a transfer: full ones, then what is left, then empty ones
PacketsOf(t) == [k \in 1 .. t.pkt |->
    IF k * Mps <= t.xfer THEN Mps
    ELSE IF (k - 1) * Mps <= t.xfer THEN t.xfer - (k - 1) * Mps ELSE 0]

RECURSIVE Wire(_)
Wire(ts) == IF ts = <<>> THEN <<>> ELSE PacketsOf(Head(ts)) \o Wire(Tail(ts))

\* How the host's transfers end when the packets ps arrive one by one, the
\* first transfer having got some bytes already
RECURSIVE Received(_, _, _)
Received(ps, rooms, got) ==
    IF rooms = <<>> \/ ps = <<>> THEN <<>>
    ELSE IF got + Head(ps) > Head(rooms)
    THEN <<[len |-> got, babble |-> 1]>> \o Received(ps, Tail(rooms), 0)
    ELSE IF got + Head(ps) = Head(rooms) \/ Head(ps) < Mps
    THEN <<[len |-> got + Head(ps), babble |-> 0]>> \o Received(Tail(ps), Tail(rooms), 0)
    ELSE Received(Tail(ps), rooms, got + Head(ps))

\* "transfers ... end exactly where they would on the wire": however the arming,
\* the NAKs, the cancels and the host's submissions interleave, the host's
\* transfers end as if the guest's packets had crossed a wire in order, and once
\* either side has nothing left to offer they have all ended.
InOnWire ==
    LET all == Received(Wire(armed), asked, 0)
    IN /\ Len(ended) <= Len(all)
       /\ ended = SubSeq(all, 1, Len(ended))
       /\ (ep.ena = 0 \/ host = None) => ended = all

\* A host packet never waits on an endpoint that could move it: every register
\* write that unblocks the endpoint also runs it (dwc2_dreg_write).
NoneLeftWaiting == host # None => Blocked(ep, gnak) /\ ep.stall = 0
=============================================================================
