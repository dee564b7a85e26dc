------------------------------ MODULE Powermgt ------------------------------
(* The BCM2835 power manager's watchdog (hw/misc/bcm2835_powermgt.c, patches *)
(* 0023 and 0027).  The guest writes RSTC, RSTS and WDOG; the model's timer  *)
(* runs on QEMU's virtual clock; the reset and shutdown it asks for are      *)
(* carried out later, by the main loop, so the guest may still write         *)
(* registers in between.                                                     *)
(*                                                                           *)
(* Time is kept relative: "left" is how many WDOG ticks the pending timer    *)
(* still has to run, so no clock has to be bounded.                          *)
EXTENDS Integers

CONSTANTS
    TIME_SET,     \* V_WDOG_TIME_SET + 1: the countdown is WDOG modulo this
    WdogValues    \* the values the guest writes to WDOG

ASSUME TimeSetAssumption == TIME_SET \in Nat \ {0}
ASSUME WdogAssumption == WdogValues \subseteq Nat

VARIABLES
    rstc,         \* "reset" if RSTC has V_RSTC_RESET set, else "clear"
    rsts,         \* "halt" if (RSTS & 0xfff) == V_RSTS_POWEROFF, else "boot"
    wdog,         \* WDOG, as written
    left,         \* ticks the timer still runs; NotPending if it is not armed
    request,      \* what has been asked of the main loop and not yet done
    power,        \* "off" once QEMU has shut down
    since         \* history: ticks since the guest last set the countdown

vars == <<rstc, rsts, wdog, left, request, power, since>>

NotPending == -1
Ticks(w) == w % TIME_SET
Pending == left # NotPending

TypeOK ==
    /\ rstc \in {"clear", "reset"}
    /\ rsts \in {"boot", "halt"}
    /\ wdog \in Nat
    /\ left \in -1 .. TIME_SET - 1
    /\ request \subseteq {"reset", "shutdown"}
    /\ power \in {"on", "off"}
    /\ since \in 0 .. TIME_SET

Init ==
    /\ rstc = "clear" /\ rsts = "boot" /\ wdog = 0
    /\ left = NotPending
    /\ request = {} /\ power = "on" /\ since = 0
-----------------------------------------------------------------------------
\* bcm2835_powermgt_wdt_expired: RSTS says whether the guest wants to halt.
Expired(r) ==
    request' = request \cup {IF r = "halt" THEN "shutdown" ELSE "reset"}

\* bcm2835_powermgt_wdt_arm, with the countdown w now in WDOG.
\* A zero countdown expires at once and leaves an armed timer as it was.
Arm(w) ==
    /\ since' = 0
    /\ \/ /\ Ticks(w) = 0
          /\ Expired(rsts)
          /\ UNCHANGED left
       \/ /\ Ticks(w) # 0
          /\ left' = Ticks(w)
          /\ UNCHANGED request

\* bcm2835_powermgt_write, R_RSTC with V_RSTC_RESET: reboot or start().
WriteRstcReset ==
    /\ power = "on"
    /\ rstc' = "reset"
    /\ Arm(wdog)
    /\ UNCHANGED <<rsts, wdog, power>>

\* bcm2835_powermgt_write, R_RSTC without V_RSTC_RESET: the driver's stop().
WriteRstcStop ==
    /\ power = "on"
    /\ rstc' = "clear"
    /\ left' = NotPending
    /\ UNCHANGED <<rsts, wdog, request, power, since>>

\* bcm2835_powermgt_write, R_RSTS.
WriteRsts(r) ==
    /\ power = "on"
    /\ rsts' = r
    /\ UNCHANGED <<rstc, wdog, left, request, power, since>>

M_WriteWdog_NoKeepalive(w) ==
    /\ power = "on"
    /\ wdog' = w
    /\ since' = 0
    /\ UNCHANGED <<rstc, rsts, left, request, power>>

\* bcm2835_powermgt_write, R_WDOG: a keepalive restarts a running countdown.
WriteWdog(w) ==
    /\ power = "on"
    /\ wdog' = w
    /\ IF Pending THEN Arm(w) ELSE UNCHANGED <<left, request, since>>
    /\ UNCHANGED <<rstc, rsts, power>>

\* One WDOG tick of virtual time; a timer that is due may still fire late.
Tick ==
    /\ power = "on"
    /\ left' = IF left > 0 THEN left - 1 ELSE left
    /\ since' = IF since < TIME_SET THEN since + 1 ELSE since
    /\ UNCHANGED <<rstc, rsts, wdog, request, power>>

M_TimerFires_OnlyHalts ==
    /\ power = "on"
    /\ left = 0
    /\ left' = NotPending
    /\ request' = IF rsts = "halt" THEN request \cup {"shutdown"} ELSE request
    /\ UNCHANGED <<rstc, rsts, wdog, power, since>>

\* QEMU runs the expired timer; a timer that has run is no longer pending.
TimerFires ==
    /\ power = "on"
    /\ left = 0
    /\ left' = NotPending
    /\ Expired(rsts)
    /\ UNCHANGED <<rstc, rsts, wdog, power, since>>

\* The main loop resets the machine: bcm2835_powermgt_reset.
Reset ==
    /\ power = "on"
    /\ "reset" \in request /\ "shutdown" \notin request
    /\ request' = {}
    /\ rstc' = "clear" /\ rsts' = "boot" /\ wdog' = 0
    /\ left' = NotPending
    /\ UNCHANGED <<power, since>>

\* The main loop looks at a shutdown request before a reset request.
Shutdown ==
    /\ power = "on"
    /\ "shutdown" \in request
    /\ power' = "off"
    /\ UNCHANGED <<rstc, rsts, wdog, left, request, since>>

Next ==
    \/ WriteRstcReset
    \/ WriteRstcStop
    \/ \E r \in {"boot", "halt"} : WriteRsts(r)
    \/ \E w \in WdogValues : WriteWdog(w)
    \/ Tick
    \/ TimerFires
    \/ Reset
    \/ Shutdown

Spec == Init /\ [][Next]_vars

\* The guest writes what it likes; virtual time passes and the main loop
\* runs due timers and carries out requests.
Fairness == WF_vars(Tick) /\ WF_vars(TimerFires) /\ WF_vars(Reset) /\ WF_vars(Shutdown)
-----------------------------------------------------------------------------
(* Only a guest whose RSTC asks for it is rebooted or halted: whatever order *)
(* of arming, keepalives, stop() and machine resets came before, a request   *)
(* is only ever raised while V_RSTC_RESET is set (stop() and reset both      *)
(* cancel the timer they find running).                                      *)
OnlyArmedExpires ==
    [][request' \ request # {} => rstc' = "reset"]_vars

(* The countdown is never cut short: when the timer asks for the reboot, the *)
(* guest has not armed or fed the watchdog for as many ticks as WDOG holds.  *)
NeverEarly ==
    [][TimerFires => since >= Ticks(wdog)]_vars

(* The watchdog never fires when it should not.                              *)
WatchdogHonest == OnlyArmedExpires /\ NeverEarly

(* A watchdog nobody feeds or stops barks: an armed watchdog asks for a     *)
(* reset or a shutdown, unless the guest clears V_RSTC_RESET or writes the   *)
(* countdown again first.                                                    *)
Barks ==
    (Pending /\ since > 0)
        ~> (request # {} \/ power = "off" \/ rstc = "clear" \/ since = 0)
=============================================================================
