------------------------------- MODULE Gadget -------------------------------
(* The dwc2-gadget device (patch 0039, hw/usb/dwc2-gadget.c): the session,    *)
(* the pull-up and the deferred connection, the bus reset with its timer, and *)
(* the control transfers on EP0.  Data endpoints are GadgetIn and GadgetOut.  *)
(* Register writes, the host controller's calls, the bottom half and the      *)
(* timer all run under the big lock: each is one step, in any order.          *)
(* EP0 packets are one unit long, so a transfer of n units is n packets and a *)
(* short packet is an empty one.                                              *)
(* The guest's DMA addresses are valid: dwc2_ep_dma succeeds.                 *)
EXTENDS Integers

CONSTANTS
    Lens,           \* wLength of the host's control transfers
    MaxReqs,        \* control transfers
    MaxResets,      \* bus resets
    MaxToggles      \* changes of VBUS, pull-up, NAKs or forced role, controller resets

ASSUME LensAssumption == Lens \subseteq Nat

VARIABLES
    vbus,           \* the host port's VBUS
    core,           \* GOTGCTL.BSesVld, DCTL.SftDiscon, GUSBCFG.ForceHost, DSTS.SuspSts
    gint,           \* GINTSTS bits raised and not yet acknowledged
    bh,             \* connect_bh scheduled
    attached,       \* dev->attached
    phase, timer,   \* reset_phase; reset_timer pending
    ctl,            \* ctrl_phase, ctrl_len, direction, ctrl_done
    ep0,            \* EP0 IN and OUT: [ena, nak, n]; the stall; an EP0 interrupt;
                    \* gin, gout: DCTL.GNPINNakSts and GOUTNakSts
    waiting,        \* the host waits for its control transfer
    asleep,         \* the guest driver is in its disconnected state
    enumd,          \* in this session: 0 no bus reset yet, 1 reset, 2 then EnumDone
    count           \* what MaxReqs, MaxResets and MaxToggles bound

gadget_vars ==
    <<vbus, core, gint, bh, attached, phase, timer, ctl, ep0, waiting, asleep, enumd, count>>

Stages == {"idle", "setup", "data_in", "data_out", "status_in", "status_out"}
Bits == {"USBRst", "EnumDone", "SessReqInt", "SesEndDet", "WkUpInt"}
Idle == [st |-> "idle", len |-> 0, dir |-> "out", done |-> 0]
Off == [ena |-> 0, nak |-> 0, n |-> 0]
ResetEp0 == [in |-> Off, out |-> Off, stall |-> 0, irq |-> 0, gin |-> 0, gout |-> 0]

GadgetTypeOK ==
    /\ vbus \in 0 .. 1
    /\ core \in [bses : 0 .. 1, sftdis : 0 .. 1, host : 0 .. 1, susp : 0 .. 1]
    /\ gint \subseteq Bits /\ bh \in 0 .. 1 /\ attached \in 0 .. 1
    /\ phase \in 0 .. 2 /\ timer \in 0 .. 1
    /\ ctl.st \in Stages /\ ctl.done \in 0 .. ctl.len
    /\ waiting \in 0 .. 1 /\ asleep \in 0 .. 1 /\ enumd \in 0 .. 2
    /\ \A e \in {ep0.in, ep0.out} : e.ena \in 0 .. 1 /\ e.nak \in 0 .. 1 /\ e.n \in 0 .. 2

\* After dwc2_gadget_realize, without a host: the controller is out of reset.
GadgetInit ==
    /\ vbus = 0
    /\ core = [bses |-> 0, sftdis |-> 1, host |-> 0, susp |-> 0]
    /\ gint = {} /\ bh = 1 /\ attached = 0 /\ phase = 0 /\ timer = 0
    /\ ctl = Idle /\ ep0 = ResetEp0
    /\ waiting = 0 /\ asleep = 0 /\ enumd = 0
    /\ count = [reqs |-> 0, resets |-> 0, toggles |-> 0]

Min2(a, b) == IF a < b THEN a ELSE b
Toggle == count.toggles < MaxToggles /\ count' = [count EXCEPT !.toggles = @ + 1]
-----------------------------------------------------------------------------
(* dwc2_ep0_run: what the endpoint programming e allows for the transfer c   *)
(* in bus-reset phase ph, as [c, e, ans]; ans is the host's answer, if any.  *)

Step(c, e) == [c |-> c, e |-> e, ans |-> "none"]
\* dwc2_ctrl_complete
Complete(e, status) == [c |-> Idle, e |-> e, ans |-> status]

\* dwc2_ep_in_packets: [moved, done, babble] for n units armed into room units
InMove(n, room) ==
    [moved |-> Min2(n, room), done |-> n >= room \/ n = 0, babble |-> n > 0 /\ room = 0]
\* dwc2_ep_xfer_done, once the armed packets are used up (one for an empty transfer)
SpentIn(x) == [ena |-> 0, nak |-> x.nak, n |-> 0]
SpentOut == [ena |-> 0, nak |-> 1, n |-> 0]
InLeft(e, m) ==
    IF m.babble THEN e
    ELSE IF m.moved = e.in.n
    THEN [in |-> SpentIn(e.in), out |-> e.out, stall |-> e.stall, irq |-> 1,
          gin |-> e.gin, gout |-> e.gout]
    ELSE [e EXCEPT !.in.n = @ - m.moved]

\* dwc2_ep_out_packets: r units of the host into a buffer for n packets
OutMove(n, r) == [moved |-> Min2(n, r), done |-> n >= r]
OutLeft(e, m, r) ==
    IF r = 0 \/ m.moved = e.out.n
    THEN [in |-> e.in, out |-> SpentOut, stall |-> e.stall, irq |-> 1,
          gin |-> e.gin, gout |-> e.gout]
    ELSE [e EXCEPT !.out.n = @ - m.moved]

InReady(e) == e.in.ena = 1 /\ e.in.nak = 0 /\ e.gin = 0
OutReady(e) == e.out.ena = 1 /\ e.out.nak = 0 /\ e.gout = 0

M_SetupReady_NoPhase(e, ph) == e.out.ena = 1
\* "no SETUP during a bus reset or its recovery time"
SetupReady(e, ph) == ph = 0 /\ e.out.ena = 1

\* A SETUP clears the stall, NAKs both directions and consumes the OUT transfer.
AfterSetup(c, e) ==
    Step([c EXCEPT !.st = IF c.len = 0 THEN "status_in"
                          ELSE IF c.dir = "in" THEN "data_in" ELSE "data_out"],
         [in |-> [e.in EXCEPT !.nak = 1], out |-> SpentOut,
          stall |-> 0, irq |-> 1, gin |-> e.gin, gout |-> e.gout])

DataIn(c, e) ==
    LET m == InMove(e.in.n, c.len - c.done)
    IN IF m.babble THEN Complete(e, "babble")
       ELSE Step([c EXCEPT !.done = @ + m.moved,
                           !.st = IF m.done THEN "status_out" ELSE @], InLeft(e, m))

DataOut(c, e) ==
    LET m == OutMove(e.out.n, c.len - c.done)
    IN Step([c EXCEPT !.done = @ + m.moved, !.st = IF m.done THEN "status_in" ELSE @],
            OutLeft(e, m, c.len - c.done))

StatusIn(e) ==
    LET m == InMove(e.in.n, 0)
    IN Complete(InLeft(e, m), IF m.babble THEN "babble" ELSE "ok")

Ep0Run(c, e, ph, hostRole) ==
    IF c.st = "idle" \/ hostRole = 1 THEN Step(c, e)
    ELSE IF c.st # "setup" /\ e.stall = 1 THEN Complete(e, "stall")
    ELSE IF c.st = "setup" /\ SetupReady(e, ph) THEN AfterSetup(c, e)
    ELSE IF c.st = "data_in" /\ InReady(e) THEN DataIn(c, e)
    ELSE IF c.st = "data_out" /\ OutReady(e) THEN DataOut(c, e)
    ELSE IF c.st = "status_in" /\ InReady(e) THEN StatusIn(e)
    ELSE IF c.st = "status_out" /\ OutReady(e)
    THEN Complete(OutLeft(e, OutMove(e.out.n, 0), 0), "ok")
    ELSE Step(c, e)

\* dwc2_device_run with the registers as given; the host gets its answer.
Run(c, e, ph, hostRole) ==
    LET r == Ep0Run(c, e, ph, hostRole)
    IN ctl' = r.c /\ ep0' = r.e /\ waiting' = IF r.ans = "none" THEN waiting ELSE 0
-----------------------------------------------------------------------------
(* Session and connection.                                                   *)

\* dwc2_pullup_visible
Visible(k) == k.host = 0 /\ k.bses = 1 /\ k.sftdis = 0

\* dwc2_session_apply with events: the session follows VBUS, and the core is
\* suspended when it ends.
SessionApply(k) ==
    [k EXCEPT !.bses = vbus', !.susp = IF k.bses = 1 /\ vbus' = 0 THEN 1 ELSE k.susp]

\* dwc2_gadget_vbus_changed
VbusChanged ==
    /\ Toggle
    /\ vbus' = 1 - vbus
    /\ core' = SessionApply(core)
    /\ gint' = gint \cup {IF vbus' = 1 THEN "SessReqInt" ELSE "SesEndDet"}
    /\ bh' = 1
    /\ enumd' = IF vbus' = 0 THEN 0 ELSE enumd
    /\ UNCHANGED <<attached, phase, timer, ctl, ep0, waiting, asleep>>

\* DCTL.SftDiscon written by the guest
PullUp ==
    /\ Toggle
    /\ core' = [core EXCEPT !.sftdis = 1 - @]
    /\ bh' = 1
    /\ Run(ctl, ep0, phase, core.host)
    /\ UNCHANGED <<vbus, gint, attached, phase, timer, asleep, enumd>>

\* DCTL's global NAKs, set or cleared by the guest
GlobalNak ==
    /\ Toggle
    /\ \/ Run(ctl, [ep0 EXCEPT !.gin = 1 - @], phase, core.host)
       \/ Run(ctl, [ep0 EXCEPT !.gout = 1 - @], phase, core.host)
    /\ UNCHANGED <<vbus, core, gint, bh, attached, phase, timer, asleep, enumd>>

\* The forced role changes whether the gadget is connected.
RoleUpdate == bh' = 1

\* GUSBCFG.ForceHostMode written by the guest
ForceRole ==
    /\ Toggle
    /\ core' = [core EXCEPT !.host = 1 - @]
    /\ RoleUpdate
    /\ Run(ctl, ep0, phase, core'.host)
    /\ UNCHANGED <<vbus, gint, attached, phase, timer, asleep, enumd>>

\* dwc2_gadget_connect_bh; the host controller cancels its packets on detach.
ConnectBh ==
    /\ bh = 1 /\ bh' = 0
    /\ attached' = IF Visible(core) THEN 1 ELSE 0
    /\ IF attached = 1 /\ ~Visible(core)
       THEN phase' = 0 /\ timer' = 0 /\ ctl' = Idle /\ waiting' = 0
       ELSE UNCHANGED <<phase, timer, ctl, waiting>>
    /\ UNCHANGED <<vbus, core, gint, ep0, asleep, enumd, count>>

\* dwc2_gadget_fail_packets: USB_RET_IOERROR for what the host has in progress
FailPackets == ctl' = Idle /\ waiting' = 0

\* dwc2_device_reset, the machine's reset: the guest driver starts anew.
DeviceReset ==
    /\ Toggle
    /\ core' = [bses |-> vbus, sftdis |-> 1, host |-> 0, susp |-> 0]
    /\ gint' = {} /\ ep0' = ResetEp0 /\ phase' = 0 /\ timer' = 0 /\ asleep' = 0
    /\ FailPackets
    /\ bh' = 1
    /\ UNCHANGED <<vbus, attached, enumd>>
-----------------------------------------------------------------------------
(* The bus reset.                                                            *)

\* Reset signalling on a suspended bus wakes the core.
ResetInts == gint \cup {"USBRst"} \cup (IF core.susp = 1 THEN {"WkUpInt"} ELSE {})

\* dwc2_gadget_handle_reset
HandleReset ==
    /\ attached = 1 /\ count.resets < MaxResets
    /\ count' = [count EXCEPT !.resets = @ + 1]
    /\ FailPackets
    /\ gint' = ResetInts
    /\ core' = [core EXCEPT !.susp = 0]
    /\ phase' = 1 /\ timer' = 1 /\ enumd' = 1
    /\ UNCHANGED <<vbus, bh, attached, ep0, asleep>>

M_TimerPhase2_Once == timer' = 0
\* EnumDone starts the recovery time.
TimerPhase2 == timer' = 1

M_TimerRun_None == UNCHANGED <<ctl, ep0, waiting>>
\* The end of the recovery lets a waiting SETUP through.
TimerRun == Run(ctl, ep0, 0, core.host)

\* dwc2_gadget_reset_timer
ResetTimer ==
    /\ timer = 1
    /\ \/ /\ phase = 1
          /\ gint' = gint \cup {"EnumDone"} /\ enumd' = IF enumd = 1 THEN 2 ELSE enumd
          /\ phase' = 2 /\ TimerPhase2
          /\ UNCHANGED <<ctl, ep0, waiting>>
       \/ /\ phase # 1
          /\ phase' = 0 /\ timer' = 0
          /\ TimerRun
          /\ UNCHANGED <<gint, enumd>>
    /\ UNCHANGED <<vbus, core, bh, attached, asleep, count>>
-----------------------------------------------------------------------------
(* Control transfers: the host.                                              *)

\* dwc2_gadget_handle_control; QEMU's core queues a second transfer until the
\* first is answered.
HandleControl ==
    /\ attached = 1 /\ waiting = 0 /\ count.reqs < MaxReqs
    /\ count' = [count EXCEPT !.reqs = @ + 1]
    /\ \E len \in Lens, dir \in {"in", "out"} :
        LET r == Ep0Run([st |-> "setup", len |-> len, dir |-> dir, done |-> 0],
                        ep0, phase, core.host)
        IN ctl' = r.c /\ ep0' = r.e /\ waiting' = 1
    /\ UNCHANGED <<vbus, core, gint, bh, attached, phase, timer, asleep, enumd>>

M_Cancelled_Late(c) == [c EXCEPT !.st = IF @ = "setup" THEN "idle" ELSE @]
Cancelled(c) == Idle

\* dwc2_gadget_cancel_packet
CancelPacket ==
    /\ waiting = 1 /\ waiting' = 0
    /\ ctl' = Cancelled(ctl)
    /\ UNCHANGED <<vbus, core, gint, bh, attached, phase, timer, ep0, asleep, enumd, count>>
-----------------------------------------------------------------------------
(* Control transfers: the guest's EP0 register writes.                       *)

Guest == UNCHANGED <<vbus, core, gint, bh, attached, phase, timer, asleep, enumd, count>>

ArmIn ==
    /\ ep0.in.ena = 0
    /\ \E n \in 0 .. 2 : Run(ctl, [ep0 EXCEPT !.in = [ena |-> 1, nak |-> 0, n |-> n]], phase, core.host)
    /\ Guest

ArmOut ==
    /\ ep0.out.ena = 0
    /\ \E n \in 1 .. 2, nak \in {0, ep0.out.nak} :
        Run(ctl, [ep0 EXCEPT !.out = [ena |-> 1, nak |-> nak, n |-> n]], phase, core.host)
    /\ Guest

StallEp0 ==
    /\ ep0.stall = 0
    /\ Run(ctl, [ep0 EXCEPT !.stall = 1], phase, core.host)
    /\ Guest

\* DxEPINT0 acknowledged: dwc2_dreg_write ends in dwc2_device_run, as always.
AckWrite == Run(ctl, [ep0 EXCEPT !.irq = 0], phase, core.host)

AckEp0 ==
    /\ ep0.irq = 1
    /\ AckWrite
    /\ Guest

\* The guest driver acknowledges GINTSTS: the end of the session puts it in its
\* disconnected state, WkUpInt brings it back.
AckGint ==
    /\ gint # {} /\ gint' = {}
    /\ asleep' = IF "WkUpInt" \in gint THEN 0 ELSE IF "SesEndDet" \in gint THEN 1 ELSE asleep
    /\ UNCHANGED <<vbus, core, bh, attached, phase, timer, ctl, ep0, waiting, enumd, count>>

GadgetNext ==
    \/ VbusChanged \/ PullUp \/ GlobalNak \/ ForceRole \/ ConnectBh \/ DeviceReset
    \/ HandleReset \/ ResetTimer \/ HandleControl \/ CancelPacket
    \/ ArmIn \/ ArmOut \/ StallEp0 \/ AckEp0 \/ AckGint

\* The main loop runs the bottom half and the timer; the guest serves its
\* interrupts.
GadgetFairness ==
    /\ WF_gadget_vars(ConnectBh) /\ WF_gadget_vars(ResetTimer)
    /\ WF_gadget_vars(AckEp0) /\ WF_gadget_vars(AckGint)

GadgetSpec == GadgetInit /\ [][GadgetNext]_gadget_vars
FairSpec == GadgetSpec /\ GadgetFairness
-----------------------------------------------------------------------------
\* "The host sees the device while the controller is a peripheral with a valid
\* session and the pull-up connected": once the bottom half has run, whatever
\* changed in whatever order before it.
ConnectedAsSeen == bh = 0 => attached = (IF Visible(core) THEN 1 ELSE 0)

\* The host waits for a control transfer exactly while the device works on it:
\* none is dropped unanswered by a reset, a detach or a stall, none answered twice.
AnsweredOnce == waiting = 1 <=> ctl.st # "idle"

\* The guest driver finds itself awake when the host has enumerated it: the reset
\* that follows the end of a session always brings WkUpInt with it.
AwakeWhenEnumerated == attached = 1 /\ enumd = 2 /\ asleep = 1 => "WkUpInt" \in gint

\* The guest armed more for the data stage than the host wanted.
Excess ==
    \/ ctl.st = "status_out" /\ ep0.in.ena = 1
    \/ ctl.st = "status_in" /\ ep0.out.ena = 1

\* A stage that could go on is waiting only for the guest to acknowledge an EP0
\* interrupt, whose register write runs it; the end of the reset recovery, the
\* change of role and every arming run it at once.  (A guest that armed more than
\* wLength gets no XferCompl for the data stage and is on its own.)
NoSilentWait ==
    core.host = 0 /\ ~Excess /\ Ep0Run(ctl, ep0, phase, 0) # Step(ctl, ep0) => ep0.irq = 1

\* What host and guest know of each other agrees: connection, wakefulness, and
\* no transfer that waits for nobody.
DeviceSafe == GadgetTypeOK /\ ConnectedAsSeen /\ AwakeWhenEnumerated /\ NoSilentWait

\* The first SETUP after a bus reset reaches the guest only after EnumDone and
\* the recovery time, or after the guest's own reset of the controller, whether
\* it had to wait or found EP0 OUT armed when the host sent it.
SetupAfterRecovery ==
    [][ctl.st \in {"idle", "setup"} /\ ctl'.st \notin {"idle", "setup"} => timer' = 0]_gadget_vars

\* A bus reset is always over in the end: EnumDone and the recovery come.
ResetEnds == phase # 0 ~> phase = 0

\* A pull-up that lasts is seen by the host in the end, and so is its end.
PullUpSeen ==
    /\ Visible(core) ~> (attached = 1 \/ ~Visible(core))
    /\ ~Visible(core) ~> (attached = 0 \/ Visible(core))
=============================================================================
