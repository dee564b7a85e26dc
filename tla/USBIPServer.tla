---------------------------- MODULE USBIPServer -----------------------------
(* QEMU's usbip-server device (hw/usb/usbip-server.c, patch 0037): it exports *)
(* the USB device on its one port to a USB/IP client.                        *)
(*                                                                           *)
(* Every entry into the server (a chardev event or read, a timer, a bottom   *)
(* half, a callback of the USB core, a machine reset) runs under QEMU's big  *)
(* lock and is one action, with one exception: usbip_parse, which loops over *)
(* the messages of the receive buffer.  Its iterations are actions of their  *)
(* own and "parse" keeps every other action out until the loop is over.      *)
(*                                                                           *)
(* A message is its kind and a number; an URB is its sequence number.  How   *)
(* the exported device answers a packet is nondeterministic.                 *)
EXTENDS USBIPEndpoint, FiniteSets

CONSTANTS
    Keys,         \* the endpoint queues in use (usbip_urb_key)
    EP0,          \* the control endpoint's queue
    MaxSeq,       \* bound: how many URBs the client ever submits
    EpOf,         \* the endpoint of each of those URBs
    MAX_URBS,     \* USBIP_MAX_URBS
    HIGH_WATER,   \* USBIP_TX_HIGH_WATER, in messages
    MaxBatch      \* bound: how many messages one read delivers

Seqnums == 1 .. MaxSeq

ASSUME KeysAssumption == EP0 \in Keys /\ IsFiniteSet(Keys)
ASSUME MaxSeqAssumption == MaxSeq \in Nat
ASSUME EpOfAssumption == EpOf \in [Seqnums -> Keys]
ASSUME LimitsAssumption ==
    MAX_URBS \in Nat /\ HIGH_WATER \in Nat /\ MaxBatch \in Nat \ {0}

VARIABLES
    conn,         \* s->conn
    device,       \* whether the exported device is on the port and attached
    ep,           \* the URBs held, by endpoint (USBIPEndpoint)
    nurbs,        \* s->nurbs: client URBs held
    timer, bh,    \* retry_timer pending, retry_bh scheduled
    rx,           \* complete messages in s->rx
    parse,        \* "idle", "reading" a chunk, or "busy" in usbip_parse
    cont,         \* usbip_retry is what called the running usbip_parse
    enumOp, enumStep, enumerated,
    tx, watch,    \* replies in s->tx, and whether a write watch is set
    sent,         \* how many CMD_SUBMITs the client has sent
    urb           \* history: what became of each URB, as the client sees it

enumVars == <<enumOp, enumStep, enumerated>>
retryVars == <<timer, bh>>
outVars == <<tx, watch>>
inVars == <<rx, parse, cont, sent>>
urbVars == <<ep, nurbs, urb>>
vars == <<conn, device, urbVars, retryVars, inVars, enumVars, outVars>>

Flag == {"on", "off"}

\* The server's own enumeration URB; client URBs are numbered from 1.
Internal == 0

Messages ==
    [op : {"DEVLIST", "IMPORT", "IMPORT_OTHER", "SUBMIT", "UNLINK", "BAD"},
     n : 0 .. MaxSeq]

TypeOK ==
    /\ conn \in {"NONE", "OP", "ENUMERATING", "ATTACHED"}
    /\ device \in {"present", "absent"}
    /\ ep \in [Keys -> Endpoints(0 .. MaxSeq)]
    /\ nurbs \in Int
    /\ timer \in Flag /\ bh \in Flag
    /\ rx \in Seq(Messages)
    /\ parse \in {"idle", "reading", "busy"}
    /\ cont \in {"none", "retry"}
    /\ enumOp \in {"none", "DEVLIST", "IMPORT"}
    /\ enumStep \in 0 .. 4
    /\ enumerated \in {"yes", "no"}
    /\ tx \in Nat /\ watch \in Flag
    /\ sent \in 0 .. MaxSeq
    /\ urb \in [Seqnums -> {"new", "pending", "done", "unlinked", "dropped"}]

Init ==
    /\ conn = "NONE" /\ device \in {"present", "absent"}
    /\ ep = [k \in Keys |-> Idle] /\ nurbs = 0
    /\ timer = "off" /\ bh = "off"
    /\ rx = <<>> /\ parse = "idle" /\ cont = "none" /\ sent = 0
    /\ enumOp = "none" /\ enumStep = 0 /\ enumerated = "no"
    /\ tx = 0 /\ watch = "off"
    /\ urb = [u \in Seqnums |-> "new"]
-----------------------------------------------------------------------------
HeldUrbs == UNION {Held(ep[k]) : k \in Keys}

\* The internal URB is in the lists but not in the client's count.
ClientHeld == HeldUrbs \ {Internal}

(* usbip_send of n replies, and usbip_flush: the chardev takes some of what  *)
(* is buffered; if anything stays, a watch is set.                           *)
Send(n) ==
    /\ tx' \in 0 .. tx + n
    /\ watch' \in {watch, "on"}
    /\ tx' > 0 => watch' = "on"

(* usbip_urb_complete of the client URBs S: RET_SUBMIT, then usbip_urb_free. *)
UrbsComplete(S) ==
    /\ urb' = [u \in Seqnums |-> IF u \in S THEN "done" ELSE urb[u]]
    /\ nurbs' = nurbs - Cardinality(S)
    /\ IF S = {} THEN UNCHANGED outVars ELSE Send(Cardinality(S))

(* usbip_cancel_all: every URB is unlinked and freed; unlinking a held one   *)
(* schedules the bottom half (usbip_requeue_behind).                         *)
CancelAll ==
    /\ ep' = [k \in Keys |-> Idle]
    /\ nurbs' = nurbs - Cardinality(ClientHeld)
    /\ urb' = [u \in Seqnums |-> IF u \in HeldUrbs THEN "dropped" ELSE urb[u]]
    /\ bh' = IF \E k \in Keys : ep[k].held # None THEN "on" ELSE bh

(* usbip_reset_connection; to is the state the caller leaves s->conn in.     *)
ResetConnection(to) ==
    /\ CancelAll
    /\ timer' = "off"
    /\ conn' = to
    /\ enumOp' = "none" /\ enumerated' = "no"
    /\ rx' = <<>>
    /\ tx' = 0 /\ watch' = "off"

(* usbip_close_client, and usbip_drop_client, which warns first.             *)
CloseClient == ResetConnection("NONE")
-----------------------------------------------------------------------------
(* usbip_enum_finish: answer the OP_REQ_* the enumeration was for.           *)
EnumFinish(op, ok) ==
    /\ enumOp' = "none"
    /\ conn' = IF op = "IMPORT" /\ ok THEN "ATTACHED" ELSE "OP"
    /\ enumerated' = IF ok THEN "yes" ELSE "no"
    /\ Send(1)

M_EnumIssue_NotRetried(e, op, step, t) ==
    \/ \E st \in step .. 3, r \in {"NAK", "ASYNC"} :
          /\ ep' = [ep EXCEPT ![EP0] = UrbSubmit(e, Internal, r)]
          /\ timer' = t
          /\ conn' = "ENUMERATING"
          /\ enumOp' = op /\ enumStep' = st /\ enumerated' = "no"
          /\ UNCHANGED outVars
    \/ /\ ep' = [ep EXCEPT ![EP0] = e]
       /\ timer' = t
       /\ enumStep' = 4
       /\ EnumFinish(op, TRUE)

(* usbip_enum_issue of the given step and, as long as the device completes   *)
(* the requests at once, usbip_enum_done and the steps after it.  e is EP0   *)
(* without the internal URB, t the retry timer.  It ends with the internal   *)
(* URB of a step NAKed or held by the device, with a step that failed, or    *)
(* with all four done.                                                       *)
EnumIssue(e, op, step, t) ==
    \/ \E st \in step .. 3, r \in {"NAK", "ASYNC"} :
          /\ ep' = [ep EXCEPT ![EP0] = UrbSubmit(e, Internal, r)]
          /\ timer' = IF r = "NAK" THEN "on" ELSE t
          /\ conn' = "ENUMERATING"
          /\ enumOp' = op /\ enumStep' = st /\ enumerated' = "no"
          /\ UNCHANGED outVars
    \/ \E st \in step .. 3 :
          /\ ep' = [ep EXCEPT ![EP0] = e]
          /\ timer' = t
          /\ enumStep' = st
          /\ EnumFinish(op, FALSE)
    \/ /\ ep' = [ep EXCEPT ![EP0] = e]
       /\ timer' = t
       /\ enumStep' = 4
       /\ EnumFinish(op, TRUE)

(* usbip_enum_finish ends with usbip_parse, for what the client sent while   *)
(* the server enumerated.                                                    *)
ThenParse(from) ==
    IF conn' = "ENUMERATING"
    THEN parse' = "idle" /\ cont' = "none"
    ELSE parse' = "busy" /\ cont' = from
-----------------------------------------------------------------------------

(* usbip_retry over client URBs: on each endpoint the device completes the   *)
(* first n[k] that wait and answers r[k] to the next one.                    *)
RetryClient(t) ==
    \E n \in [Keys -> 0 .. MaxSeq], r \in [Keys -> {"NAK", "ASYNC"}] :
        /\ \A k \in Keys : n[k] \in RetryCounts(ep[k])
        /\ ep' = [k \in Keys |-> Retry(ep[k], n[k], r[k])]
        /\ UrbsComplete(UNION {ToSet(SubSeq(ep[k].waiting, 1, n[k])) : k \in Keys})
        /\ timer' = IF \E k \in Keys : ep'[k].waiting # <<>> THEN "on" ELSE t
        /\ UNCHANGED <<conn, enumVars>>

(* usbip_retry while the internal URB waits: nothing else is held then       *)
(* (EnumerationHeld).                                                        *)
RetryInternal(t) ==
    /\ EnumIssue([ep[EP0] EXCEPT !.waiting = Without(@, Internal)],
                 enumOp, enumStep, t)
    /\ UNCHANGED <<nurbs, urb>>

UsbipRetry(t) ==
    IF Internal \in ToSet(ep[EP0].waiting)
    THEN RetryInternal(t) /\ ThenParse("retry")
    ELSE RetryClient(t) /\ parse' = "idle" /\ cont' = "none"

(* usbip_retry_timer.                                                        *)
RetryTimer ==
    /\ parse = "idle" /\ timer = "on"
    /\ UsbipRetry("off")
    /\ UNCHANGED <<device, bh, rx, sent>>

(* usbip_retry_bh.                                                           *)
RetryBh ==
    /\ parse = "idle" /\ bh = "on"
    /\ bh' = "off"
    /\ UsbipRetry(timer)
    /\ UNCHANGED <<device, rx, sent>>
-----------------------------------------------------------------------------
(* The messages the client may send next.  It numbers its URBs from 1, it    *)
(* unlinks URBs it submitted, and it sends no OP_REQ_* behind an import it   *)
(* expects to succeed.                                                       *)
ClientMessages ==
    {m \in Messages :
        \/ m.op \in {"DEVLIST", "IMPORT", "IMPORT_OTHER"} /\ m.n = 0 /\ conn = "OP"
              /\ \A i \in 1 .. Len(rx) : rx[i].op # "IMPORT"
        \/ m.op = "SUBMIT" /\ m.n = sent + 1
        \/ m.op = "UNLINK" /\ m.n \in 1 .. sent
        \/ m.op = "BAD" /\ m.n = 0}

Receive(m) ==
    /\ rx' = Append(rx, m)
    /\ sent' = IF m.op = "SUBMIT" THEN sent + 1 ELSE sent
    /\ parse' = "reading"
    /\ UNCHANGED <<conn, device, urbVars, retryVars, cont, enumVars, outVars>>

(* usbip_can_read.                                                           *)
CanRead == conn \in {"OP", "ATTACHED"} /\ tx <= HIGH_WATER

(* usbip_read: a chunk of the client's stream, of one or more messages.      *)
Read ==
    /\ parse = "idle" /\ CanRead
    /\ \E m \in ClientMessages : Receive(m)

ReadMore ==
    /\ parse = "reading" /\ Len(rx) < MaxBatch
    /\ \E m \in ClientMessages : Receive(m)

\* An iteration of usbip_parse: m is taken off the buffer and dispatched.
Parsing(m) ==
    /\ parse \in {"reading", "busy"}
    /\ conn \in {"OP", "ATTACHED"}
    /\ rx # <<>> /\ m = Head(rx)
    /\ parse' = "busy"
    /\ UNCHANGED <<device, cont, sent>>

(* usbip_msg_len < 0: what is malformed depends on s->conn.  BAD also stands *)
(* for the CMD_SUBMITs usbip_handle_submit drops the client for: a control   *)
(* URB against its SETUP, an ISO packet outside its buffer.                  *)
ParseMalformed(m) ==
    /\ Parsing(m)
    /\ m.op \in IF conn = "OP" THEN {"SUBMIT", "UNLINK", "BAD"} ELSE {"BAD"}
    /\ CloseClient
    /\ UNCHANGED enumStep

(* usbip_handle_op, and usbip_enumerate, whose port reset is no unplug:      *)
(* port_resetting hides it from usbip_port_detach.                           *)
ParseOp(m) ==
    /\ Parsing(m) /\ conn = "OP"
    /\ m.op \in {"DEVLIST", "IMPORT", "IMPORT_OTHER"}
    /\ rx' = Tail(rx)
    /\ IF device = "present" /\ m.op # "IMPORT_OTHER"
       THEN EnumIssue(ep[EP0], m.op, 0, timer)
       ELSE Send(1) /\ UNCHANGED <<conn, ep, timer, enumVars>>
    /\ UNCHANGED <<nurbs, urb, bh>>

M_HandleSubmit_NoLimit(m) ==
    \E r \in Responses :
        LET e == ep[EpOf[m.n]]
        IN  /\ ep' = [ep EXCEPT ![EpOf[m.n]] = UrbSubmit(e, m.n, r)]
            /\ IF Completes(e, r)
               THEN /\ urb' = [urb EXCEPT ![m.n] = "done"]
                    /\ Send(1)
                    /\ UNCHANGED <<nurbs, timer>>
               ELSE /\ urb' = [urb EXCEPT ![m.n] = "pending"]
                    /\ nurbs' = nurbs + 1
                    /\ timer' = IF ep'[EpOf[m.n]].waiting # e.waiting
                                THEN "on" ELSE timer
                    /\ UNCHANGED outVars
            /\ rx' = Tail(rx)
            /\ UNCHANGED <<conn, bh, enumOp, enumerated>>

(* usbip_handle_submit.                                                      *)
HandleSubmit(m) ==
    IF nurbs >= MAX_URBS
    THEN CloseClient
    ELSE \E r \in Responses :
        LET e == ep[EpOf[m.n]]
        IN  /\ ep' = [ep EXCEPT ![EpOf[m.n]] = UrbSubmit(e, m.n, r)]
            /\ IF Completes(e, r)
               THEN /\ urb' = [urb EXCEPT ![m.n] = "done"]
                    /\ Send(1)
                    /\ UNCHANGED <<nurbs, timer>>
               ELSE /\ urb' = [urb EXCEPT ![m.n] = "pending"]
                    /\ nurbs' = nurbs + 1
                    /\ timer' = IF ep'[EpOf[m.n]].waiting # e.waiting
                                THEN "on" ELSE timer
                    /\ UNCHANGED outVars
            /\ rx' = Tail(rx)
            /\ UNCHANGED <<conn, bh, enumOp, enumerated>>

ParseSubmit(m) ==
    /\ Parsing(m) /\ conn = "ATTACHED" /\ m.op = "SUBMIT"
    /\ HandleSubmit(m)
    /\ UNCHANGED enumStep

(* usbip_handle_unlink: RET_UNLINK is -ECONNRESET if the URB was still held. *)
ParseUnlink(m) ==
    /\ Parsing(m) /\ conn = "ATTACHED" /\ m.op = "UNLINK"
    /\ LET k == EpOf[m.n]
       IN  IF m.n \in Held(ep[k])
           THEN /\ ep' = [ep EXCEPT ![k] = UrbUnlink(@, m.n)]
                /\ urb' = [urb EXCEPT ![m.n] = "unlinked"]
                /\ nurbs' = nurbs - 1
                /\ bh' = IF ep[k].held = m.n THEN "on" ELSE bh
           ELSE UNCHANGED <<ep, urb, nurbs, bh>>
    /\ rx' = Tail(rx)
    /\ Send(1)
    /\ UNCHANGED <<conn, timer, enumVars>>

(* The loop of usbip_parse ends; if usbip_retry called it, it goes on.       *)
ParseEnd ==
    /\ parse \in {"reading", "busy"}
    /\ conn \in {"OP", "ATTACHED"} => rx = <<>>
    /\ IF cont = "retry"
       THEN UsbipRetry(timer)
       ELSE /\ parse' = "idle"
            /\ UNCHANGED <<conn, urbVars, timer, cont, enumVars, outVars>>
    /\ UNCHANGED <<device, bh, rx, sent>>
-----------------------------------------------------------------------------
(* usb_packet_complete of the packet the device holds on endpoint k, and     *)
(* usbip_port_complete for it and for the packets queued behind it.          *)
DeviceCompletes(k) ==
    /\ parse = "idle"
    /\ ep[k].held # None /\ ep[k].held # Internal
    /\ \E n \in 1 .. Len(ep[k].queue), halts \in BOOLEAN :
          /\ ep' = [ep EXCEPT ![k] = PacketComplete(@, n, halts)]
          /\ UrbsComplete(ToSet(SubSeq(ep[k].queue, 1, n)))
          /\ bh' = IF halts /\ n < Len(ep[k].queue) THEN "on" ELSE bh
    /\ UNCHANGED <<conn, device, timer, inVars, enumVars>>

(* The same for the internal URB: usbip_enum_done.                           *)
DeviceCompletesInternal ==
    /\ parse = "idle"
    /\ ep[EP0].held = Internal
    /\ LET e == PacketComplete(ep[EP0], 1, FALSE)
       IN  \/ /\ ep' = [ep EXCEPT ![EP0] = e]
              /\ EnumFinish(enumOp, FALSE)
              /\ UNCHANGED <<timer, enumStep>>
           \/ EnumIssue(e, enumOp, enumStep + 1, timer)
    /\ ThenParse("none")
    /\ UNCHANGED <<device, nurbs, urb, bh, rx, sent>>

(* usbip_port_wakeup and usbip_wakeup_endpoint.                              *)
Wakeup ==
    /\ parse = "idle" /\ device = "present"
    /\ bh' = "on"
    /\ UNCHANGED <<conn, device, urbVars, timer, inVars, enumVars, outVars>>

(* usbip_event(CHR_EVENT_OPENED): the listening chardev takes one client.    *)
Opened ==
    /\ parse = "idle" /\ conn = "NONE"
    /\ ResetConnection("OP")
    /\ UNCHANGED <<device, parse, cont, sent, enumStep>>

(* usbip_event(CHR_EVENT_CLOSED): the client went away.                      *)
Closed ==
    /\ parse = "idle" /\ conn # "NONE"
    /\ ResetConnection("NONE")
    /\ UNCHANGED <<device, parse, cont, sent, enumStep>>

M_PortDetach_KeepsEnumerating ==
    /\ parse = "idle" /\ device = "present"
    /\ device' = "absent"
    /\ IF conn = "ATTACHED"
       THEN CloseClient
       ELSE enumerated' = "no"
            /\ UNCHANGED <<conn, urbVars, retryVars, rx, enumOp, outVars>>
    /\ UNCHANGED <<parse, cont, sent, enumStep>>

(* usbip_port_detach: the device is unplugged.                               *)
PortDetach ==
    /\ parse = "idle" /\ device = "present"
    /\ device' = "absent"
    /\ IF conn \in {"ATTACHED", "ENUMERATING"}
       THEN CloseClient
       ELSE enumerated' = "no"
            /\ UNCHANGED <<conn, urbVars, retryVars, rx, enumOp, outVars>>
    /\ UNCHANGED <<parse, cont, sent, enumStep>>

(* usbip_port_attach: nothing to do.                                         *)
PortAttach ==
    /\ parse = "idle" /\ device = "absent"
    /\ device' = "present"
    /\ UNCHANGED <<conn, urbVars, retryVars, inVars, enumVars, outVars>>

(* usbip_server_reset_hold: the machine is reset.                            *)
ResetHold ==
    /\ parse = "idle" /\ conn # "NONE"
    /\ CloseClient
    /\ UNCHANGED <<device, parse, cont, sent, enumStep>>

(* usbip_tx_ready: the client has read something.                            *)
TxReady ==
    /\ parse = "idle" /\ watch = "on"
    /\ tx' \in 0 .. tx
    /\ watch' = IF tx' > 0 THEN "on" ELSE "off"
    /\ UNCHANGED <<conn, device, urbVars, retryVars, inVars, enumVars>>

ParseStep ==
    \/ \E m \in Messages :
          ParseMalformed(m) \/ ParseOp(m) \/ ParseSubmit(m) \/ ParseUnlink(m)
    \/ ParseEnd

Next ==
    \/ Read \/ ReadMore
    \/ ParseStep
    \/ RetryTimer \/ RetryBh
    \/ \E k \in Keys : DeviceCompletes(k)
    \/ DeviceCompletesInternal
    \/ Wakeup
    \/ Opened \/ Closed
    \/ PortDetach \/ PortAttach
    \/ ResetHold
    \/ TxReady

Spec == Init /\ [][Next]_vars
-----------------------------------------------------------------------------
(* Submission order survives NAKs, retries, stalls and unlinks: the URBs of  *)
(* an endpoint are served in the order the client sent them, whether the     *)
(* device has them or they wait (usbip_urb_submit, usbip_retry,              *)
(* usbip_requeue_behind, usbip_port_complete).                               *)
EndpointOrder == \A k \in Keys : InOrder(ep[k])

(* The device is always working on the oldest URB it was handed: no packet   *)
(* is left USB_PACKET_QUEUED behind one that was cancelled, where the core   *)
(* would never start it; and no URB waits on an endpoint the device is busy  *)
(* with, where a later one could overtake it.                                *)
QueuesMove == \A k \in Keys : Moving(ep[k])

(* No NAKed URB is forgotten: as long as one waits, the retry timer or the   *)
(* bottom half is going to look at it again.                                 *)
WaitersRetried ==
    (\E k \in Keys : ep[k].waiting # <<>>) => timer = "on" \/ bh = "on"

(* Nothing is stranded: neither packets behind a cancelled or stalled one    *)
(* nor NAKed URBs (usbip_requeue_behind, usbip_retry).                       *)
NothingStranded == QueuesMove /\ WaitersRetried

(* s->nurbs is the number of client URBs held, whichever path freed the      *)
(* others, and one client holds at most USBIP_MAX_URBS.                      *)
UrbsCounted ==
    /\ nurbs = Cardinality(ClientHeld)
    /\ nurbs <= MAX_URBS
    /\ ClientHeld = {u \in Seqnums : urb[u] = "pending"}

(* While the server enumerates, exactly its own URB is held, on EP0 and for  *)
(* the OP_REQ_* in enum_op, so the enumeration goes on; before the import    *)
(* and without a client nothing is held.                                     *)
EnumerationHeld ==
    /\ (conn = "ENUMERATING") = (enumOp # "none")
    /\ conn = "ENUMERATING" =>
          /\ Order(ep[EP0]) = <<Internal>> /\ enumStep < 4
          /\ \A k \in Keys \ {EP0} : Order(ep[k]) = <<>>
    /\ conn \in {"NONE", "OP"} => HeldUrbs = {}
    /\ conn = "ATTACHED" => Internal \notin HeldUrbs

(* An URB is only ever held for a device that is there, so usbip_urb_try and *)
(* usbip_retry never reach for a device that was unplugged; a client only    *)
(* gets hold of a device the server has enumerated.                          *)
DeviceThere ==
    /\ HeldUrbs # {} => device = "present"
    /\ conn = "ATTACHED" => device = "present" /\ enumerated = "yes"
    /\ enumerated = "yes" => device = "present"

(* The server only ever holds URBs the state of the connection and of the    *)
(* port entitles it to (usbip_enumerate, usbip_enum_finish,                  *)
(* usbip_reset_connection, usbip_port_detach).                               *)
HeldRightly == EnumerationHeld /\ DeviceThere

(* Back-pressure bounds the output buffer: the replies in s->tx and those    *)
(* still owed (for URBs held, messages not parsed, a running enumeration)    *)
(* never exceed the high-water mark by more than one client's URBs and one   *)
(* read.                                                                     *)
OutputBounded ==
    tx + nurbs + Len(rx) + (IF conn = "ENUMERATING" THEN 1 ELSE 0)
        <= HIGH_WATER + MAX_URBS + MaxBatch

(* Replies that the chardev did not take at once are not stuck: a watch is   *)
(* set for them.                                                             *)
OutputWatched == tx > 0 => watch = "on"

(* The limits hold together: URBs counted right, output bounded and never    *)
(* without a watch (usbip_handle_submit, usbip_can_read, usbip_flush).       *)
WithinLimits == UrbsCounted /\ OutputBounded /\ OutputWatched
-----------------------------------------------------------------------------
(* The fairness the server relies on.  QEMU's main loop comes round to every *)
(* source that is ready, whatever the others do (strong fairness, because a  *)
(* running usbip_parse keeps them out); the client reads its replies; the    *)
(* device completes what it holds and does not NAK an URB forever.           *)
Accepts(Retrying) == Retrying /\ \A k \in Keys : ep'[k].waiting = <<>>

FairSpec ==
    /\ Spec
    /\ WF_vars(ParseStep)
    /\ SF_vars(RetryTimer) /\ SF_vars(RetryBh) /\ SF_vars(TxReady /\ tx' = 0)
    /\ \A k \in Keys : SF_vars(DeviceCompletes(k))
    /\ SF_vars(DeviceCompletesInternal)
    /\ SF_vars(Accepts(RetryTimer \/ RetryBh))

(* Every URB the server accepts is answered in the end, or its connection is *)
(* closed: neither a stall nor an unlink of the URB ahead of it, nor a NAK,  *)
(* leaves it behind.                                                         *)
UrbsAnswered ==
    \A u \in Seqnums : urb[u] = "pending" ~> urb[u] # "pending"

(* An enumeration ends, so the client gets its OP_REP_* and the server reads *)
(* again.                                                                    *)
EnumerationEnds == conn = "ENUMERATING" ~> conn # "ENUMERATING"

(* The server always gets back to reading from a client that reads.          *)
ReadsAgain == []<>(CanRead \/ conn = "NONE")

(* URBs, enumerations and the connection all make progress.                  *)
Progress == UrbsAnswered /\ EnumerationEnds /\ ReadsAgain
=============================================================================
