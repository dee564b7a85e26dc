------------------------------- MODULE SysTmr -------------------------------
(* The BCM2835 system timer with patch 0034 (hw/timer/bcm2835_systmr.c): a    *)
(* free-running counter, of which the compare registers see the lower half,   *)
(* and the write of a compare register, which arms a timer.  The guest reads  *)
(* the counter, adds a delay and writes the sum; under emulation any time     *)
(* may pass in between.                                                       *)
EXTENDS Integers

CONSTANTS
    Timers,     \* the compare registers
    Half        \* half the range of the counter's low word, 2^31

ASSUME HalfAssumption == Half \in Nat \ {0}

VARIABLES
    low,        \* the counter's low word
    plan,       \* per guest task: "idle" or "held", a compare value not yet written
    value,      \* the compare value the guest has worked out
    ahead,      \* true time from now to the moment it stands for
    armed,      \* 1: the timer runs
    asked,      \* true time from now to the moment of the compare last written
    due         \* true time until the timer fires

tmr_vars == <<low, plan, value, ahead, armed, asked, due>>

Range == 2 * Half

TmrTypeOK ==
    /\ low \in 0 .. Range - 1
    /\ plan \in [Timers -> {"idle", "held"}]
    /\ value \in [Timers -> 0 .. Range - 1]
    /\ ahead \in [Timers -> Int]
    /\ armed \in [Timers -> 0 .. 1]
    /\ asked \in [Timers -> Int]
    /\ due \in [Timers -> Nat]

TmrInit ==
    /\ low \in 0 .. Range - 1
    /\ plan = [t \in Timers |-> "idle"]
    /\ value = [t \in Timers |-> 0]
    /\ ahead = [t \in Timers |-> 0]
    /\ armed = [t \in Timers |-> 0]
    /\ asked = [t \in Timers |-> 0]
    /\ due = [t \in Timers |-> 0]

\* Unsigned arithmetic on the low word, for sums and differences of two words
Wrap(x) == IF x < 0 THEN x + Range ELSE IF x >= Range THEN x - Range ELSE x

\* The cast to int32_t
Signed(x) == IF x >= Half THEN x - Range ELSE x

M_Delay_Unsigned(v) == Wrap(v - low)
\* bcm2835_systmr_write: MAX((int32_t)(value - (uint32_t)now), 0)
Delay(v) == LET d == Signed(Wrap(v - low)) IN IF d > 0 THEN d ELSE 0

\* The guest reads the counter and plans a compare less than half the range
\* ahead, also while the timer runs for an earlier compare.
Plan(t) ==
    /\ plan[t] = "idle"
    /\ \E delta \in 1 .. Half - 1 :
        /\ value' = [value EXCEPT ![t] = Wrap(low + delta)]
        /\ ahead' = [ahead EXCEPT ![t] = delta]
    /\ plan' = [plan EXCEPT ![t] = "held"]
    /\ UNCHANGED <<low, armed, asked, due>>

\* bcm2835_systmr_write of a compare register: timer_mod moves a timer that runs.
WriteCompare(t) ==
    /\ plan[t] = "held"
    /\ plan' = [plan EXCEPT ![t] = "idle"]
    /\ armed' = [armed EXCEPT ![t] = 1]
    /\ asked' = [asked EXCEPT ![t] = ahead[t]]
    /\ due' = [due EXCEPT ![t] = Delay(value[t])]
    /\ value' = [value EXCEPT ![t] = 0] /\ ahead' = [ahead EXCEPT ![t] = 0]
    /\ UNCHANGED low

\* The QEMU timer's callback, before any more time passes
Fire(t) ==
    /\ armed[t] = 1 /\ due[t] = 0
    /\ armed' = [armed EXCEPT ![t] = 0]
    /\ asked' = [asked EXCEPT ![t] = 0]
    /\ UNCHANGED <<low, plan, value, ahead, due>>

\* Time passes while no timer is due; a guest is late by less than Half.
TmrTick ==
    /\ \A t \in Timers :
        /\ armed[t] = 1 => due[t] > 0
        /\ plan[t] = "held" => ahead[t] > 1 - Half
    /\ low' = Wrap(low + 1)
    /\ ahead' = [t \in Timers |-> IF plan[t] = "held" THEN ahead[t] - 1 ELSE ahead[t]]
    /\ asked' = [t \in Timers |-> IF armed[t] = 1 THEN asked[t] - 1 ELSE asked[t]]
    /\ due' = [t \in Timers |-> IF armed[t] = 1 THEN due[t] - 1 ELSE due[t]]
    /\ UNCHANGED <<plan, value, armed>>

TmrNext == TmrTick \/ \E t \in Timers : Plan(t) \/ WriteCompare(t) \/ Fire(t)

TmrSpec == TmrInit /\ [][TmrNext]_tmr_vars
-----------------------------------------------------------------------------
(* An armed timer fires exactly at the moment of the compare the guest wrote  *)
(* last, or at once when the write came after that moment: never early, never *)
(* for a compare that another has replaced, and never after a wrap of the     *)
(* counter, wherever in its range the counter stands.                         *)
FiresOnTime ==
    \A t \in Timers : armed[t] = 1 =>
        due[t] = IF asked[t] > 0 THEN asked[t] ELSE 0
=============================================================================
