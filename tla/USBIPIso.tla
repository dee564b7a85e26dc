------------------------------ MODULE USBIPIso ------------------------------
(* usbip-server's isochronous URBs (hw/usb/usbip-server.c, patch 0040): one  *)
(* packet per (micro)frame of the URB's interval.  An ISO URB is never with  *)
(* the device: it waits in s->waiting[key] and each pass of usbip_retry      *)
(* services its next packet if that is due.  What the device answers to a    *)
(* packet only ends up in the packet's descriptor and is left out.           *)
(*                                                                           *)
(* usbip_retry may run at any time (retry_timer, retry_bh) and iso_timer may *)
(* run late.  A pass is one action per URB it tries; "pass" keeps the other  *)
(* actions out until it is over.                                             *)
EXTENDS Integers, SequencesExt

CONSTANTS
    NumKeys,     \* the ISO endpoints are the queues 1 .. NumKeys
    Frame,       \* usbip_iso_frame: ticks of the virtual clock per frame
    Packets,     \* the values of number_of_packets the client uses
    Intervals,   \* the values of interval it uses
    MaxTime,     \* bound: the clock stops there
    MaxUrbs      \* bound: how many URBs the client submits

ASSUME NumKeysAssumption == NumKeys \in Nat \ {0}
ASSUME FrameAssumption == Frame \in Nat \ {0}
ASSUME PacketsAssumption == Packets \subseteq Nat \ {0}
ASSUME IntervalsAssumption == Intervals \subseteq Int

VARIABLES
    now,         \* QEMU_CLOCK_VIRTUAL
    waiting,     \* s->waiting: a URB has n packets, period, next and due
    nextDue,     \* s->iso_next_due
    iso,         \* iso_timer: its deadline, or Off
    pass,        \* the queue usbip_retry is at, 0 if it is not running
    type,        \* the endpoints' transfer type: SET_INTERFACE changes it
    submitted,
    frames,      \* history: in which frame each packet was serviced
    lastAt       \* history: when the last packet was serviced

vars == <<now, waiting, nextDue, iso, pass, type, submitted, frames, lastAt>>

Keys == 1 .. NumKeys
Off == -1

\* The URBs: a due time of 0 on the first packet means not scheduled yet.
Urbs == [n : Nat \ {0}, period : Nat \ {0}, next : Nat, due : Nat]

TypeOK ==
    /\ now \in Nat
    /\ waiting \in [Keys -> Seq(Urbs)]
    /\ nextDue \in [Keys -> Nat]
    /\ iso \in Nat \cup {Off}
    /\ pass \in 0 .. NumKeys
    /\ type \in [Keys -> {"iso", "other"}]
    /\ submitted \in Nat
    /\ frames \in [Keys -> Seq(Nat)]
    /\ lastAt \in [Keys -> Nat]

Init ==
    /\ now \in 0 .. 1
    /\ waiting = [k \in Keys |-> <<>>]
    /\ nextDue = [k \in Keys |-> 0]
    /\ iso = Off /\ pass = 0
    /\ type = [k \in Keys |-> "iso"]
    /\ submitted = 0
    /\ frames = [k \in Keys |-> <<>>]
    /\ lastAt = [k \in Keys |-> 0]
-----------------------------------------------------------------------------
\* MAX(u->interval, 1) frames.
Period(i) == Frame * (IF i > 1 THEN i ELSE 1)

\* QEMU_ALIGN_UP(t, frame)
AlignUp(t) == ((t + Frame - 1) \div Frame) * Frame

Unscheduled(u) == u.next = 0 /\ u.due = 0

M_Due_Asap(k, u) == IF Unscheduled(u) THEN AlignUp(now) ELSE u.due

\* When the URB's next packet is due: the endpoint's next frame for a new URB.
Due(k, u) ==
    IF ~Unscheduled(u) THEN u.due
    ELSE IF AlignUp(now) > nextDue[k] THEN AlignUp(now) ELSE nextDue[k]

M_After_OnePeriod(due, period) == due + period

\* The do loop: the first later frame of the schedule that is still to come.
After(due, period) == due + period * ((now - due) \div period + 1)

(* usbip_urb_iso: services at most one packet.                               *)
Serviced(k, u) ==
    IF now >= Due(k, u)
    THEN [u EXCEPT !.next = @ + 1, !.due = After(Due(k, u), u.period)]
    ELSE [u EXCEPT !.due = Due(k, u)]

\* The URB is complete, or its endpoint is not isochronous (any more) and
\* usbip_urb_iso_stall completed it.
Complete(k, u) == type[k] # "iso" \/ Serviced(k, u).next = u.n

M_Anticipate_Modifies(t) == t

\* timer_mod_anticipate_ns(s->iso_timer, t)
Anticipate(t) == IF iso = Off \/ t < iso THEN t ELSE iso

(* usbip_urb_try of u on queue k, but for the queue itself.                  *)
Try(k, u) ==
    IF type[k] = "iso"
    THEN /\ IF now >= Due(k, u)
            THEN /\ nextDue' = [nextDue EXCEPT ![k] = Serviced(k, u).due]
                 /\ frames' = [frames EXCEPT ![k] = Append(@, now \div Frame)]
                 /\ lastAt' = [lastAt EXCEPT ![k] = now]
            ELSE UNCHANGED <<nextDue, frames, lastAt>>
         /\ iso' = IF Complete(k, u) THEN iso ELSE Anticipate(Serviced(k, u).due)
    ELSE UNCHANGED <<nextDue, frames, lastAt, iso>>

(* usbip_handle_submit and usbip_urb_submit of a URB of n packets.           *)
Submit(k, n, i) ==
    /\ pass = 0 /\ submitted < MaxUrbs
    /\ submitted' = submitted + 1
    /\ LET u == [n |-> n, period |-> Period(i), next |-> 0, due |-> 0]
       IN  IF waiting[k] # <<>>
           THEN /\ waiting' = [waiting EXCEPT ![k] = Append(@, u)]
                /\ UNCHANGED <<nextDue, frames, lastAt, iso>>
           ELSE /\ Try(k, u)
                /\ waiting' = IF Complete(k, u) THEN waiting
                              ELSE [waiting EXCEPT ![k] = <<Serviced(k, u)>>]
    /\ UNCHANGED <<now, pass, type>>

(* retry_timer or retry_bh: a pass of usbip_retry.                           *)
Poll ==
    /\ pass = 0 /\ pass' = 1
    /\ UNCHANGED <<now, waiting, nextDue, iso, type, submitted, frames, lastAt>>

(* iso_timer, on time or late.                                               *)
IsoTimer ==
    /\ pass = 0 /\ iso # Off /\ now >= iso
    /\ iso' = Off /\ pass' = 1
    /\ UNCHANGED <<now, waiting, nextDue, type, submitted, frames, lastAt>>

\* The queue after k, or the end of the pass.
NextKey(k) == IF k = NumKeys THEN 0 ELSE k + 1

(* usbip_retry tries the first URB of the queue it is at.                    *)
RetryTry(k) ==
    /\ pass = k /\ waiting[k] # <<>>
    /\ LET u == Head(waiting[k])
       IN  /\ Try(k, u)
           /\ IF Complete(k, u)
              THEN /\ waiting' = [waiting EXCEPT ![k] = Tail(@)]
                   /\ UNCHANGED pass
              ELSE /\ waiting' = [waiting EXCEPT ![k] = <<Serviced(k, u)>> \o Tail(@)]
                   /\ pass' = NextKey(k)
    /\ UNCHANGED <<now, type, submitted>>

(* usbip_retry is done with the queue.                                       *)
RetryEmpty(k) ==
    /\ pass = k /\ waiting[k] = <<>>
    /\ pass' = NextKey(k)
    /\ UNCHANGED <<now, waiting, nextDue, iso, type, submitted, frames, lastAt>>

(* usbip_handle_unlink of the URB at position i.                             *)
Unlink(k, i) ==
    /\ pass = 0
    /\ waiting' = [waiting EXCEPT ![k] = RemoveAt(@, i)]
    /\ UNCHANGED <<now, nextDue, iso, pass, type, submitted, frames, lastAt>>

(* A SET_INTERFACE of the client, which a pass may also hand to the device,  *)
(* changes what the endpoint is.                                             *)
SetInterface(k) ==
    /\ \E t \in {"iso", "other"} : type' = [type EXCEPT ![k] = t]
    /\ UNCHANGED <<now, waiting, nextDue, iso, pass, submitted, frames, lastAt>>

(* usbip_reset_connection.                                                   *)
ResetConnection ==
    /\ pass = 0
    /\ waiting' = [k \in Keys |-> <<>>]
    /\ iso' = Off
    /\ nextDue' = [k \in Keys |-> 0]
    /\ frames' = [k \in Keys |-> <<>>]
    /\ UNCHANGED <<now, pass, type, submitted, lastAt>>

Tick ==
    /\ pass = 0 /\ now < MaxTime
    /\ now' = now + 1
    /\ UNCHANGED <<waiting, nextDue, iso, pass, type, submitted, frames, lastAt>>

Next ==
    \/ \E k \in Keys :
          \/ \E n \in Packets, i \in Intervals : Submit(k, n, i)
          \/ RetryTry(k) \/ RetryEmpty(k)
          \/ \E i \in 1 .. Len(waiting[k]) : Unlink(k, i)
          \/ SetInterface(k)
    \/ Poll \/ IsoTimer
    \/ ResetConnection
    \/ Tick

Spec == Init /\ [][Next]_vars
-----------------------------------------------------------------------------
(* However late the server runs, and whoever calls usbip_retry, an endpoint  *)
(* gets at most one packet in a frame and gets them in order, across the     *)
(* URBs of a connection (iso_next_due).                                      *)
OnePerFrame ==
    \A k \in Keys : \A i, j \in 1 .. Len(frames[k]) :
        i < j => frames[k][i] < frames[k][j]

(* No scheduled packet is slept through: iso_timer goes off by the time the  *)
(* first URB of any queue is due, also when several endpoints share it       *)
(* (timer_mod_anticipate_ns); a pass that is under way puts it back.         *)
IsoTimerArmed ==
    \A k \in Keys :
        (pass = 0 \/ k < pass) /\ waiting[k] # <<>>
            /\ ~Unscheduled(Head(waiting[k]))
        => iso # Off /\ iso <= Head(waiting[k]).due

(* A server that fell behind is back on schedule with its next packet: that  *)
(* is due later than the one serviced last, and within one interval of it    *)
(* (the do loop of usbip_urb_iso).                                           *)
CatchesUp ==
    \A k \in Keys : \A i \in 1 .. Len(waiting[k]) :
        LET u == waiting[k][i]
        IN  u.next > 0 => lastAt[k] < u.due /\ u.due <= lastAt[k] + u.period
=============================================================================
