--------------------------- MODULE USBIPEndpoint ----------------------------
(* The URBs that usbip-server holds for one endpoint, and what its code and  *)
(* QEMU's USB core do to them (hw/usb/usbip-server.c, patch 0037).           *)
(*                                                                           *)
(* An endpoint is a record of                                                *)
(*   queue    the URBs handed to the device, oldest first: s->inflight       *)
(*            restricted to this endpoint, which is also the order of the    *)
(*            core's ep->queue (both are only ever appended to);             *)
(*   held     the URB in state USB_PACKET_ASYNC, the one the device is       *)
(*            working on; every other one in the queue is USB_PACKET_QUEUED; *)
(*   waiting  s->waiting[key]: NAKed, or behind a NAKed URB.                 *)
(* URBs are numbers in submission order.                                     *)
EXTENDS Integers, SequencesExt

\* No URB is in state USB_PACKET_ASYNC.
None == -1

\* The answers of a USB device to a packet it is asked to process.
Responses == {"NAK", "ASYNC", "DONE"}

Idle == [queue |-> <<>>, held |-> None, waiting |-> <<>>]

\* s without its first n elements.
Rest(s, n) == SubSeq(s, n + 1, Len(s))

\* QTAILQ_REMOVE of the URB u.
Without(s, u) == RemoveAt(s, CHOOSE i \in 1 .. Len(s) : s[i] = u)

\* Every URB the server holds for the endpoint, in the order it will be served.
Order(e) == e.queue \o e.waiting

Held(e) == ToSet(e.queue) \cup ToSet(e.waiting)
-----------------------------------------------------------------------------
(* usb_handle_packet: the core asks the device only if the endpoint's queue  *)
(* is empty, and otherwise queues the packet behind the others.              *)
HandlePacket(e, u, r) ==
    IF e.queue # <<>> THEN [e EXCEPT !.queue = Append(@, u)]
    ELSE IF r = "ASYNC" THEN [e EXCEPT !.queue = <<u>>, !.held = u]
    ELSE e

\* What usbip_urb_try finds in the packet afterwards.
Status(e, r) == IF e.queue # <<>> THEN "ASYNC" ELSE r

(* usbip_urb_submit: behind any URB of the endpoint that still waits.        *)
UrbSubmit(e, u, r) ==
    IF e.waiting # <<>> \/ Status(e, r) = "NAK"
    THEN [e EXCEPT !.waiting = Append(@, u)]
    ELSE HandlePacket(e, u, r)

\* usbip_urb_submit completes the URB at once.
Completes(e, r) == e.waiting = <<>> /\ Status(e, r) = "DONE"

M_RequeueBehind_Forgets(e) ==
    [e EXCEPT !.held = None]

(* usbip_requeue_behind, once the held packet has been cancelled: the core   *)
(* never starts the packets queued behind it, so they go back, in order,     *)
(* ahead of what waits.                                                      *)
RequeueBehind(e) ==
    [e EXCEPT !.queue = <<>>, !.held = None, !.waiting = e.queue \o @]

M_UrbUnlink_KeepsWaiting(e, u) ==
    IF u \in ToSet(e.queue)
    THEN LET c == [e EXCEPT !.queue = Without(@, u)]
         IN  IF e.held = u THEN RequeueBehind(c) ELSE c
    ELSE e

(* usbip_urb_unlink.                                                         *)
UrbUnlink(e, u) ==
    IF u \in ToSet(e.queue)
    THEN LET c == [e EXCEPT !.queue = Without(@, u)]
         IN  IF e.held = u THEN RequeueBehind(c) ELSE c
    ELSE [e EXCEPT !.waiting = Without(@, u)]

M_Retry_NakToTail(e, n, r) ==
    IF e.queue # <<>> THEN [e EXCEPT !.queue = @ \o e.waiting, !.waiting = <<>>]
    ELSE IF n = Len(e.waiting) THEN [e EXCEPT !.waiting = <<>>]
    ELSE IF r = "NAK"
         THEN [e EXCEPT !.waiting = Append(Rest(@, n + 1), @[n + 1])]
    ELSE [e EXCEPT !.queue = Rest(e.waiting, n), !.held = e.waiting[n + 1],
                   !.waiting = <<>>]

(* usbip_retry on one endpoint: the device completes the first n URBs that   *)
(* wait and answers r to the next one.  A NAK puts that one back at the head *)
(* and ends the loop; once one is held the core queues the others behind it. *)
Retry(e, n, r) ==
    IF e.queue # <<>> THEN [e EXCEPT !.queue = @ \o e.waiting, !.waiting = <<>>]
    ELSE IF n = Len(e.waiting) THEN [e EXCEPT !.waiting = <<>>]
    ELSE IF r = "NAK" THEN [e EXCEPT !.waiting = Rest(@, n)]
    ELSE [e EXCEPT !.queue = Rest(e.waiting, n), !.held = e.waiting[n + 1],
                   !.waiting = <<>>]

\* How many URBs a pass of usbip_retry may complete.
RetryCounts(e) == IF e.queue # <<>> THEN {0} ELSE 0 .. Len(e.waiting)

(* usb_packet_complete on the held packet: it and the n - 1 after it         *)
(* complete.  If the last one halts the endpoint (a stall, another error, a  *)
(* short transfer that may not be) the core empties its queue through        *)
(* usbip_port_complete, which puts those URBs at the tail of the waiting     *)
(* ones; else the device holds the next one.                                 *)
PacketComplete(e, n, halts) ==
    LET rest == Rest(e.queue, n)
    IN  IF rest = <<>> THEN [e EXCEPT !.queue = <<>>, !.held = None]
        ELSE IF halts
             THEN [e EXCEPT !.queue = <<>>, !.held = None,
                            !.waiting = @ \o rest]
        ELSE [e EXCEPT !.queue = rest, !.held = Head(rest)]
-----------------------------------------------------------------------------
Increasing(s) == \A i, j \in 1 .. Len(s) : i < j => s[i] < s[j]

\* The endpoints whose URBs are members of S.
Endpoints(S) == [queue : Seq(S), held : S \cup {None}, waiting : Seq(S)]

(* The device is working on the oldest URB of its queue, so that queue moves; *)
(* and nothing waits while the device has URBs, so a new one cannot overtake. *)
Moving(e) ==
    /\ e.held = IF e.queue = <<>> THEN None ELSE Head(e.queue)
    /\ e.queue # <<>> => e.waiting = <<>>

(* The endpoint serves its URBs in the order the client submitted them.      *)
InOrder(e) == Increasing(Order(e))
=============================================================================
