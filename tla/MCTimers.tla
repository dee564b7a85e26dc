------------------------------ MODULE MCTimers ------------------------------
(* Devices that act on timers and bottom halves, side by side: the PM         *)
(* watchdog, the system timer, and the session and bus reset of the           *)
(* dwc2-gadget device.  They share no state, so what one of them does while   *)
(* the others rest is all it can do: Init picks the one that moves.           *)
EXTENDS Powermgt, SysTmr

\* A three-bit countdown; 8 and 9 exceed it and count as 0 and 1.
MCWdogValues == {0, 1, 3, 7, 8, 9}

VARIABLES device, vbus, core, gint, bh, attached, phase, timer, ctl, ep0, waiting, asleep,
          enumd, count

Gadget == INSTANCE Gadget WITH Lens <- {2}, MaxReqs <- 1, MaxResets <- 2, MaxToggles <- 3

gadget_vars == <<vbus, core, gint, bh, attached, phase, timer, ctl, ep0, waiting, asleep,
                 enumd, count>>
all_vars == <<device, vars, tmr_vars, gadget_vars>>

AllInit ==
    /\ device \in {"watchdog", "timer", "gadget"}
    /\ Init /\ Gadget!GadgetInit
    /\ TmrInit /\ (device # "timer" => low = 0)

AllNext ==
    /\ \/ device = "watchdog" /\ Next /\ UNCHANGED <<tmr_vars, gadget_vars>>
       \/ device = "timer" /\ TmrNext /\ UNCHANGED <<vars, gadget_vars>>
       \/ device = "gadget" /\ Gadget!GadgetNext /\ UNCHANGED <<vars, tmr_vars>>
    /\ UNCHANGED device

\* The fairness of Powermgt and of Gadget, for the device that moves.
Moves(d, A) == device = d /\ A

AllSpec ==
    /\ AllInit /\ [][AllNext]_all_vars
    /\ WF_vars(Moves("watchdog", Tick)) /\ WF_vars(TimerFires)
    /\ WF_vars(Reset) /\ WF_vars(Shutdown)
    /\ WF_gadget_vars(Moves("gadget", Gadget!ConnectBh)) /\ WF_gadget_vars(Gadget!ResetTimer)
    /\ WF_gadget_vars(Gadget!AckEp0) /\ WF_gadget_vars(Gadget!AckGint)
-----------------------------------------------------------------------------
(* A bus reset ends and the host sees the pull-up of the gadget in the end,   *)
(* whatever the guest writes while the bottom half or the reset timer waits.  *)
GadgetLive == Gadget!ResetEnds /\ Gadget!PullUpSeen
=============================================================================
