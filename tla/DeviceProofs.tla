---------------------------- MODULE DeviceProofs ----------------------------
(* Proofs about the devices small enough to share a module, for every value   *)
(* of their constants: the PM watchdog and the system timer, then the OTG     *)
(* core's session, bus reset and control transfers, then the layout of the    *)
(* rings in a GENET descriptor table.                                         *)
EXTENDS Powermgt, SysTmr, Gadget, GenetRings, TLAPS

(* The PM watchdog and the system timer.                                      *)

(* A countdown fits the V_WDOG_TIME_SET field, and 0 is in it.               *)
LEMMA TicksBounded ==
    ASSUME NEW w \in Nat
    PROVE  Ticks(w) \in 0 .. TIME_SET - 1
BY TimeSetAssumption DEF Ticks

(* What makes the two action properties inductive: a running timer belongs   *)
(* to a guest that has V_RSTC_RESET set, and the ticks it has left together  *)
(* with the ticks since it was last set cover the whole of WDOG.             *)
Countdown ==
    Pending => /\ rstc = "reset"
               /\ left + since >= Ticks(wdog)

WdogInv == TypeOK /\ Countdown

(* A device just reset satisfies the inductive invariant.                    *)
LEMMA InitWdogInv == Init => WdogInv
BY TimeSetAssumption
   DEF Init, WdogInv, TypeOK, Countdown, Pending, NotPending

(* Every register write, timer and main-loop step keeps it.                  *)
LEMMA NextWdogInv == WdogInv /\ [Next]_vars => WdogInv'
<1> SUFFICES ASSUME WdogInv, [Next]_vars PROVE WdogInv'
    OBVIOUS
<1> USE TimeSetAssumption, WdogAssumption
    DEF WdogInv, TypeOK, Countdown, Pending, NotPending
<1>0. Ticks(wdog) \in 0 .. TIME_SET - 1
    BY TicksBounded
<1>1. CASE WriteRstcReset
    <2>1. /\ rstc' = "reset" /\ UNCHANGED <<rsts, wdog, power>>
          /\ Arm(wdog)
        BY <1>1 DEF WriteRstcReset
    <2>2. left' \in 0 .. TIME_SET - 1 \/ left' = left
        BY <1>0, <2>1 DEF Arm
    <2>3. request' \subseteq {"reset", "shutdown"} /\ since' = 0
        BY <2>1 DEF Arm, Expired
    <2>4. TypeOK'
        BY <2>1, <2>2, <2>3
    <2>5. left' \in Int /\ (Pending' => left' >= Ticks(wdog))
        BY <1>0, <2>1 DEF Arm
    <2> QED
        BY <2>1, <2>3, <2>4, <2>5
<1>2. CASE WriteRstcStop
    BY <1>2 DEF WriteRstcStop
<1>3. ASSUME NEW r \in {"boot", "halt"}, WriteRsts(r) PROVE WdogInv'
    BY <1>3 DEF WriteRsts
<1>4. ASSUME NEW w \in WdogValues, WriteWdog(w) PROVE WdogInv'
    <2>1. Ticks(w) \in 0 .. TIME_SET - 1
        BY TicksBounded
    <2>2. CASE Pending
        <3>1. /\ wdog' = w /\ UNCHANGED <<rstc, rsts, power>>
              /\ Arm(w)
            BY <1>4, <2>2 DEF WriteWdog
        <3>2. left' \in 0 .. TIME_SET - 1 \/ left' = left
            BY <2>1, <3>1 DEF Arm
        <3>3. request' \subseteq {"reset", "shutdown"} /\ since' = 0
            BY <3>1 DEF Arm, Expired
        <3>4. TypeOK'
            BY <3>1, <3>2, <3>3
        <3>5. left' \in Int /\ (Pending' => left' >= Ticks(w))
            BY <2>1, <3>1 DEF Arm
        <3> QED
            BY <2>1, <2>2, <3>1, <3>3, <3>4, <3>5 DEF Ticks
    <2>3. CASE ~Pending
        BY <1>4, <2>3 DEF WriteWdog
    <2> QED
        BY <2>2, <2>3
<1>5. CASE Tick
    BY <1>0, <1>5 DEF Tick
<1>6. CASE TimerFires
    BY <1>6 DEF TimerFires, Expired
<1>7. CASE Reset
    BY <1>7 DEF Reset
<1>8. CASE Shutdown
    BY <1>8 DEF Shutdown
<1>9. CASE UNCHANGED vars
    BY <1>9 DEF vars
<1> QED
    BY <1>1, <1>2, <1>3, <1>4, <1>5, <1>6, <1>7, <1>8, <1>9 DEF Next

(* The inductive invariant holds in every reachable state.                   *)
THEOREM WdogInductive == Spec => []WdogInv
BY InitWdogInv, NextWdogInv, PTL DEF Spec

(* Type correctness of the watchdog's registers and timer.                   *)
THEOREM WdogTypeCorrect == Spec => []TypeOK
<1>1. WdogInv => TypeOK
    BY DEF WdogInv
<1> QED
    BY <1>1, WdogInductive, PTL

(* bcm2835_powermgt_wdt_expired is only reached while RSTC asks for it.      *)
THEOREM OnlyArmed == Spec => OnlyArmedExpires
<1>1. WdogInv /\ [Next]_vars => [request' \ request # {} => rstc' = "reset"]_vars
    <2> SUFFICES ASSUME WdogInv, Next, request' \ request # {}
                 PROVE  rstc' = "reset"
        BY DEF vars
    <2> USE DEF WdogInv, Countdown, Pending, NotPending
    <2>1. CASE WriteRstcReset
        BY <2>1 DEF WriteRstcReset
    <2>2. ASSUME NEW w \in WdogValues, WriteWdog(w) PROVE rstc' = "reset"
        BY <2>2 DEF WriteWdog
    <2>3. CASE TimerFires
        BY <2>3 DEF TimerFires
    <2>4. CASE \/ WriteRstcStop \/ Tick \/ Reset \/ Shutdown
               \/ \E r \in {"boot", "halt"} : WriteRsts(r)
        BY <2>4 DEF WriteRstcStop, Tick, Reset, Shutdown, WriteRsts
    <2> QED
        BY <2>1, <2>2, <2>3, <2>4 DEF Next
<1> QED
    BY <1>1, WdogInductive, PTL DEF Spec, OnlyArmedExpires

(* The watchdog timer never asks for a reset before the countdown is over.   *)
THEOREM CountdownRuns == Spec => NeverEarly
<1>1. WdogInv => [TimerFires => since >= Ticks(wdog)]_vars
    BY DEF WdogInv, TypeOK, Countdown, Pending, NotPending, TimerFires
<1> QED
    BY <1>1, WdogInductive, PTL DEF Spec, NeverEarly

(* The watchdog fires only when it was armed and its countdown is over.      *)
THEOREM Honest == Spec => WatchdogHonest
BY OnlyArmed, CountdownRuns, PTL DEF WatchdogHonest
-----------------------------------------------------------------------------
(* The compare value the guest holds denotes the moment it asked for, while   *)
(* it is late by less than half the range.                                    *)
ValueMeansAhead ==
    \A t \in Timers : plan[t] = "held" =>
        /\ ahead[t] > -Half /\ ahead[t] < Half
        /\ value[t] = Wrap(low + ahead[t])

TmrInv == TmrTypeOK /\ ValueMeansAhead /\ FiresOnTime

(* What bcm2835_systmr_write computes from the two words is the true distance *)
(* to the moment asked for, or zero once that moment has passed.              *)
LEMMA DelayIsDistance ==
    ASSUME NEW d \in Int, -Half < d, d < Half, low \in 0 .. Range - 1
    PROVE  Delay(Wrap(low + d)) = IF d > 0 THEN d ELSE 0
  BY HalfAssumption DEF Delay, Signed, Wrap, Range

(* A step of the counter moves the word and the distance by one each, and     *)
(* leaves the word of the moment asked for alone.                             *)
LEMMA TickKeepsWord ==
    ASSUME NEW d \in Int, 1 - Half < d, d < Half, low \in 0 .. Range - 1
    PROVE  Wrap(Wrap(low + 1) + (d - 1)) = Wrap(low + d)
  BY HalfAssumption DEF Wrap, Range

(* TmrInv holds initially and is kept by the guest, the write of a compare       *)
(* register, the timer's callback and the passing of time.                    *)
THEOREM TmrInductive == TmrSpec => []TmrInv
<1>1. TmrInit => TmrInv
  BY HalfAssumption DEF TmrInit, TmrInv, TmrTypeOK, ValueMeansAhead, FiresOnTime, Range
<1>2. TmrInv /\ [TmrNext]_tmr_vars => TmrInv'
  <2> SUFFICES ASSUME TmrInv, [TmrNext]_tmr_vars PROVE TmrInv'
    OBVIOUS
  <2> USE HalfAssumption
  <2>1. ASSUME NEW t \in Timers, Plan(t) PROVE TmrInv'
    <3>1. PICK delta \in 1 .. Half - 1 :
            /\ value' = [value EXCEPT ![t] = Wrap(low + delta)]
            /\ ahead' = [ahead EXCEPT ![t] = delta]
      BY <2>1, Zenon DEF Plan
    <3>2. Wrap(low + delta) \in 0 .. Range - 1
      BY <3>1 DEF TmrInv, TmrTypeOK, Wrap, Range
    <3>3. TmrTypeOK'
      BY <2>1, <3>1, <3>2 DEF Plan, TmrInv, TmrTypeOK
    <3>4. ValueMeansAhead'
      BY <2>1, <3>1 DEF Plan, TmrInv, TmrTypeOK, ValueMeansAhead, Wrap, Range
    <3>5. FiresOnTime'
      BY <2>1, <3>1 DEF Plan, TmrInv, TmrTypeOK, FiresOnTime
    <3> QED BY <3>3, <3>4, <3>5 DEF TmrInv
  <2>2. ASSUME NEW t \in Timers, WriteCompare(t) PROVE TmrInv'
    <3>1. Delay(value[t]) = IF ahead[t] > 0 THEN ahead[t] ELSE 0
      BY <2>2, DelayIsDistance DEF WriteCompare, TmrInv, TmrTypeOK, ValueMeansAhead
    <3>2. TmrTypeOK'
      BY <2>2, <3>1 DEF WriteCompare, TmrInv, TmrTypeOK, Range
    <3>3. ValueMeansAhead'
      BY <2>2 DEF WriteCompare, TmrInv, TmrTypeOK, ValueMeansAhead, Wrap
    <3>4. FiresOnTime'
      BY <2>2, <3>1 DEF WriteCompare, TmrInv, TmrTypeOK, FiresOnTime
    <3> QED BY <3>2, <3>3, <3>4 DEF TmrInv
  <2>3. ASSUME NEW t \in Timers, Fire(t) PROVE TmrInv'
    BY <2>3 DEF Fire, TmrInv, TmrTypeOK, ValueMeansAhead, FiresOnTime, Wrap
  <2>4. CASE TmrTick
    <3>1. low' \in 0 .. Range - 1 /\ low' = Wrap(low + 1)
      BY <2>4 DEF TmrTick, TmrInv, TmrTypeOK, Wrap, Range
    <3>2. TmrTypeOK'
      BY <2>4, <3>1 DEF TmrTick, TmrInv, TmrTypeOK
    <3>3. ASSUME NEW t \in Timers, plan'[t] = "held"
          PROVE  /\ ahead'[t] > -Half /\ ahead'[t] < Half
                 /\ value'[t] = Wrap(low' + ahead'[t])
      <4>1. /\ ahead[t] \in Int /\ 1 - Half < ahead[t] /\ ahead[t] < Half
            /\ value[t] = Wrap(low + ahead[t])
            /\ ahead'[t] = ahead[t] - 1 /\ value'[t] = value[t]
        BY <2>4, <3>3 DEF TmrTick, TmrInv, TmrTypeOK, ValueMeansAhead
      <4>2. Wrap(Wrap(low + 1) + (ahead[t] - 1)) = Wrap(low + ahead[t])
        BY <4>1, TickKeepsWord DEF TmrInv, TmrTypeOK
      <4> QED BY <3>1, <4>1, <4>2
    <3>4. ValueMeansAhead'
      BY <3>3 DEF ValueMeansAhead, Wrap
    <3>5. FiresOnTime'
      BY <2>4 DEF TmrTick, TmrInv, TmrTypeOK, FiresOnTime
    <3> QED BY <3>2, <3>4, <3>5 DEF TmrInv
  <2>5. CASE UNCHANGED tmr_vars
    BY <2>5 DEF tmr_vars, TmrInv, TmrTypeOK, ValueMeansAhead, FiresOnTime, Wrap
  <2> QED BY <2>1, <2>2, <2>3, <2>4, <2>5 DEF TmrNext
<1> QED BY <1>1, <1>2, PTL DEF TmrSpec

(* With patch 0034 a timer fires exactly at the moment of the compare written *)
(* last, or at once when that write came too late, for every width of the     *)
(* counter.                                                                   *)
THEOREM Punctual == TmrSpec => []FiresOnTime
  BY TmrInductive, PTL DEF TmrInv

-----------------------------------------------------------------------------
(* The session, the bus reset and the control transfers of the OTG core.    *)

CtlType == [st : Stages, len : Nat, dir : {"in", "out"}, done : Nat]
EpType == [ena : 0 .. 1, nak : 0 .. 1, n : 0 .. 2]
Ep0Type ==
    [in : EpType, out : EpType, stall : 0 .. 1, irq : 0 .. 1, gin : 0 .. 1, gout : 0 .. 1]
CoreType == [bses : 0 .. 1, sftdis : 0 .. 1, host : 0 .. 1, susp : 0 .. 1]

\* The state of the control transfer and of EP0
CtlInv ==
    ctl \in CtlType /\ ctl.done <= ctl.len /\ ep0 \in Ep0Type /\ waiting \in 0 .. 1 /\ AnsweredOnce

\* The session, the connection and the timer: the session follows VBUS, and the
\* timer runs exactly during a bus reset.
BusInv ==
    /\ vbus \in 0 .. 1 /\ core \in CoreType /\ core.bses = vbus
    /\ bh \in 0 .. 1 /\ attached \in 0 .. 1 /\ ConnectedAsSeen
    /\ phase \in 0 .. 2 /\ timer \in 0 .. 1 /\ (timer = 0 <=> phase = 0)

\* Why the driver wakes up: once it has been told, or is about to be told, of the
\* end of a session, either WkUpInt is on its way or the core is still suspended,
\* and a bus reset in this session has ended the suspension.
WakeInv ==
    /\ gint \subseteq Bits /\ asleep \in 0 .. 1 /\ enumd \in 0 .. 2
    /\ asleep = 1 \/ "SesEndDet" \in gint => "WkUpInt" \in gint \/ core.susp = 1
    /\ enumd # 0 => core.susp = 0

GadgetInv == CtlInv /\ BusInv /\ WakeInv /\ NoSilentWait

\* The transfer c cannot go on with the programming e, or an EP0 interrupt is
\* raised, or the guest armed more for the data stage than the host wanted.
Served(c, e, ph) ==
    \/ Ep0Run(c, e, ph, 0) = Step(c, e)
    \/ e.irq = 1
    \/ c.st = "status_out" /\ e.in.ena = 1
    \/ c.st = "status_in" /\ e.out.ena = 1
-----------------------------------------------------------------------------
\* What one run of EP0 can do to a control transfer: it keeps the types, leaves an
\* idle transfer alone, answers the host exactly when it makes the transfer idle,
\* and takes a SETUP only outside a bus reset (dwc2_ep0_run).
LEMMA RunFacts ==
    ASSUME NEW c \in CtlType, NEW e \in Ep0Type, NEW ph \in 0 .. 2, NEW h \in 0 .. 1,
           NEW r, r = Ep0Run(c, e, ph, h), c.done <= c.len
    PROVE  /\ r.c \in CtlType /\ r.c.done <= r.c.len /\ r.e \in Ep0Type
           /\ c.st = "idle" => r.c = c /\ r.ans = "none"
           /\ c.st # "idle" => (r.ans = "none" <=> r.c.st # "idle")
           /\ c.st = "setup" /\ r.c.st \notin {"setup", "idle"} => ph = 0
<1> DEFINE Good(x) == /\ x.c \in CtlType /\ x.c.done <= x.c.len /\ x.e \in Ep0Type
                      /\ c.st # "idle" => (x.ans = "none" <=> x.c.st # "idle")
<1>i. Idle \in CtlType /\ Idle.st = "idle" /\ Idle.done <= Idle.len
  BY DEF Idle, CtlType, Stages
<1>t. /\ e.in \in EpType /\ e.out \in EpType /\ e.in.n \in Nat /\ e.out.n \in Nat
      /\ c.len \in Nat /\ c.done \in Nat /\ c.st \in Stages
  BY DEF Ep0Type, EpType, CtlType
<1>s. Good(Step(c, e))
  BY DEF Step
<1>c. ASSUME NEW x \in Ep0Type, NEW status, status # "none"
      PROVE  Good(Complete(x, status))
  BY <1>c, <1>i DEF Complete
<1>u. ASSUME NEW x \in Ep0Type, NEW d \in Nat, d <= c.len, NEW q \in Stages \ {"idle"}
      PROVE  Good(Step([c EXCEPT !.done = d, !.st = q], x))
  <2>1. [c EXCEPT !.done = d, !.st = q] \in CtlType
    BY <1>u DEF CtlType
  <2>2. /\ [c EXCEPT !.done = d, !.st = q].done = d
        /\ [c EXCEPT !.done = d, !.st = q].st = q
        /\ [c EXCEPT !.done = d, !.st = q].len = c.len
    BY DEF CtlType
  <2> QED
    BY <1>u, <2>1, <2>2 DEF Step
<1>v. ASSUME NEW x \in Ep0Type, NEW q \in Stages \ {"idle"}
      PROVE  Good(Step([c EXCEPT !.st = q], x))
  <2>1. [c EXCEPT !.st = q] \in CtlType
    BY DEF CtlType
  <2>2. /\ [c EXCEPT !.st = q].done = c.done
        /\ [c EXCEPT !.st = q].st = q
        /\ [c EXCEPT !.st = q].len = c.len
    BY DEF CtlType
  <2> QED
    BY <2>1, <2>2 DEF Step
<1>m. ASSUME NEW a \in Nat, NEW b \in Nat
      PROVE  Min2(a, b) \in Nat /\ Min2(a, b) <= a /\ Min2(a, b) <= b
  BY DEF Min2
<1>n. ASSUME NEW v \in 0 .. 2
      PROVE  /\ [e EXCEPT !.in.n = v] \in Ep0Type
             /\ [e EXCEPT !.out.n = v] \in Ep0Type
  BY DEF Ep0Type, EpType
<1>o. /\ [in |-> SpentIn(e.in), out |-> e.out, stall |-> e.stall, irq |-> 1,
          gin |-> e.gin, gout |-> e.gout] \in Ep0Type
      /\ [in |-> e.in, out |-> SpentOut, stall |-> e.stall, irq |-> 1,
          gin |-> e.gin, gout |-> e.gout] \in Ep0Type
  <2>1. SpentIn(e.in) \in EpType /\ SpentOut \in EpType
    BY <1>t DEF EpType, SpentIn, SpentOut
  <2>2. e.stall \in 0 .. 1
    BY DEF Ep0Type
  <2> QED
    BY <2>1, <2>2, <1>t DEF Ep0Type
<1>il. ASSUME NEW room \in Nat
       PROVE  InLeft(e, InMove(e.in.n, room)) \in Ep0Type
  <2>1. e.in.n - Min2(e.in.n, room) \in 0 .. 2
    <3>1. PICK k \in 0 .. 2 : k = e.in.n
      BY <1>t DEF EpType
    <3>2. Min2(k, room) \in Nat /\ Min2(k, room) <= k
      BY DEF Min2
    <3>3. PICK y \in Nat : y = Min2(k, room)
      BY <3>2
    <3>4. k - y \in 0 .. 2
      BY <3>2, <3>3
    <3> QED
      BY <3>1, <3>3, <3>4
  <2> QED
    BY <2>1, <1>n, <1>o DEF InLeft, InMove
<1>ol. ASSUME NEW rest \in Nat
       PROVE  OutLeft(e, OutMove(e.out.n, rest), rest) \in Ep0Type
  <2>1. e.out.n - Min2(e.out.n, rest) \in 0 .. 2
    <3>1. PICK k \in 0 .. 2 : k = e.out.n
      BY <1>t DEF EpType
    <3>2. Min2(k, rest) \in Nat /\ Min2(k, rest) <= k
      BY DEF Min2
    <3>3. PICK y \in Nat : y = Min2(k, rest)
      BY <3>2
    <3>4. k - y \in 0 .. 2
      BY <3>2, <3>3
    <3> QED
      BY <3>1, <3>3, <3>4
  <2> QED
    BY <2>1, <1>n, <1>o DEF OutLeft, OutMove
<1>1. Good(AfterSetup(c, e))
  <2> DEFINE x == [in |-> [e.in EXCEPT !.nak = 1],
                   out |-> SpentOut,
                   stall |-> 0, irq |-> 1, gin |-> e.gin, gout |-> e.gout]
             q == IF c.len = 0 THEN "status_in"
                  ELSE IF c.dir = "in" THEN "data_in" ELSE "data_out"
  <2>1. x \in Ep0Type
    <3>1. [e.in EXCEPT !.nak = 1] \in EpType
      BY <1>t DEF EpType
    <3>2. SpentOut \in EpType
      BY DEF EpType, SpentOut
    <3> QED
      BY <3>1, <3>2 DEF Ep0Type
  <2>2. q \in Stages \ {"idle"}
    BY DEF Stages
  <2>3. AfterSetup(c, e) = Step([c EXCEPT !.st = q], x)
    BY DEF AfterSetup
  <2> HIDE DEF x, q
  <2> QED
    BY <2>1, <2>2, <2>3, <1>v
<1>2. ASSUME c.st = "data_in" PROVE Good(DataIn(c, e))
  <2> DEFINE m == InMove(e.in.n, c.len - c.done)
             d == c.done + m.moved
             q == IF m.done THEN "status_out" ELSE c.st
  <2>1. c.len - c.done \in Nat
    BY <1>t
  <2>2. m.moved \in Nat /\ m.moved <= c.len - c.done
    BY <2>1, <1>m, <1>t DEF InMove
  <2>3. d \in Nat /\ d <= c.len
    <3> HIDE DEF m
    <3> QED BY <2>2, <1>t
  <2>4. q \in Stages \ {"idle"}
    BY <1>2 DEF Stages
  <2>5. InLeft(e, m) \in Ep0Type
    BY <2>1, <1>il
  <2>6. Good(Complete(e, "babble"))
    BY <1>c
  <2>7. DataIn(c, e) = IF m.babble THEN Complete(e, "babble")
                       ELSE Step([c EXCEPT !.done = d, !.st = q], InLeft(e, m))
    BY DEF DataIn, CtlType
  <2> HIDE DEF m, d, q
  <2>8. Good(Step([c EXCEPT !.done = d, !.st = q], InLeft(e, m)))
    BY <2>3, <2>4, <2>5, <1>u
  <2> QED
    BY <2>6, <2>7, <2>8
<1>3. ASSUME c.st = "data_out" PROVE Good(DataOut(c, e))
  <2> DEFINE m == OutMove(e.out.n, c.len - c.done)
             d == c.done + m.moved
             q == IF m.done THEN "status_in" ELSE c.st
  <2>1. c.len - c.done \in Nat
    BY <1>t
  <2>2. m.moved \in Nat /\ m.moved <= c.len - c.done
    BY <2>1, <1>m, <1>t DEF OutMove
  <2>3. d \in Nat /\ d <= c.len
    <3> HIDE DEF m
    <3> QED BY <2>2, <1>t
  <2>4. q \in Stages \ {"idle"}
    BY <1>3 DEF Stages
  <2>5. OutLeft(e, m, c.len - c.done) \in Ep0Type
    BY <2>1, <1>ol
  <2>7. DataOut(c, e) = Step([c EXCEPT !.done = d, !.st = q], OutLeft(e, m, c.len - c.done))
    BY DEF DataOut, CtlType
  <2> HIDE DEF m, d, q
  <2>8. Good(Step([c EXCEPT !.done = d, !.st = q], OutLeft(e, m, c.len - c.done)))
    BY <2>3, <2>4, <2>5, <1>u
  <2> QED
    BY <2>7, <2>8
<1>4. Good(StatusIn(e))
  <2>1. InLeft(e, InMove(e.in.n, 0)) \in Ep0Type
    BY <1>il
  <2>2. Good(Complete(InLeft(e, InMove(e.in.n, 0)), "babble"))
    BY <2>1, <1>c
  <2>3. Good(Complete(InLeft(e, InMove(e.in.n, 0)), "ok"))
    BY <2>1, <1>c
  <2>4. \/ StatusIn(e) = Complete(InLeft(e, InMove(e.in.n, 0)), "babble")
        \/ StatusIn(e) = Complete(InLeft(e, InMove(e.in.n, 0)), "ok")
    BY DEF StatusIn
  <2> QED
    BY <2>2, <2>3, <2>4
<1>5. Good(Complete(OutLeft(e, OutMove(e.out.n, 0), 0), "ok"))
  BY <1>ol, <1>c
<1>6. Good(Complete(e, "stall"))
  BY <1>c
<1> HIDE DEF Good
<1>7. Good(r)
  BY <1>s, <1>1, <1>2, <1>3, <1>4, <1>5, <1>6 DEF Ep0Run
<1>8. c.st = "idle" => r.c = c /\ r.ans = "none"
  BY DEF Ep0Run, Step
<1>9. c.st = "setup" /\ r.c.st \notin {"setup", "idle"} => ph = 0
  BY DEF Ep0Run, Step, SetupReady
<1> QED
  BY <1>7, <1>8, <1>9 DEF Good

\* One run of EP0 takes the transfer as far as the interrupts let it go: it stops
\* where nothing more is ready, at an interrupt, or at the excess of the guest.
LEMMA RunServes ==
    ASSUME NEW c \in CtlType, NEW e \in Ep0Type, NEW ph, c.done <= c.len
    PROVE  Served(Ep0Run(c, e, ph, 0).c, Ep0Run(c, e, ph, 0).e, ph)
<1> DEFINE r == Ep0Run(c, e, ph, 0)
<1>t. /\ e.in \in EpType /\ e.out \in EpType /\ e.in.n \in Nat /\ e.out.n \in Nat
      /\ c.len - c.done \in Nat
  BY DEF Ep0Type, EpType, CtlType
<1>m. ASSUME NEW a \in Nat, NEW b \in Nat, Min2(a, b) # a PROVE a >= b
  BY <1>m DEF Min2
<1>1. CASE r = Step(c, e)
  BY <1>1 DEF Served, Step
<1>2. CASE r.c = Idle
  <2>1. \A x : Ep0Run(Idle, x, ph, 0) = Step(Idle, x)
    BY DEF Ep0Run, Idle
  <2> QED
    BY <1>2, <2>1 DEF Served
<1>3. CASE r = AfterSetup(c, e)
  BY <1>3 DEF Served, AfterSetup, Step
<1>4. CASE r = DataIn(c, e) /\ c.st = "data_in" /\ InReady(e) /\ r.c # Idle
  <2> DEFINE m == InMove(e.in.n, c.len - c.done)
             d == [c EXCEPT !.done = @ + m.moved, !.st = IF m.done THEN "status_out" ELSE @]
  <2>1. ~m.babble /\ r = Step(d, InLeft(e, m))
    BY <1>4 DEF DataIn, Complete
  <2>2. CASE m.moved = e.in.n
    BY <2>1, <2>2 DEF InLeft, Served, Step
  <2>3. CASE m.moved # e.in.n
    <3>1. m.done
      BY <2>3, <1>t, <1>m DEF InMove
    <3>2. d.st = "status_out"
      BY <3>1 DEF CtlType
    <3>3. InLeft(e, m) = [e EXCEPT !.in.n = @ - m.moved]
      BY <2>1, <2>3 DEF InLeft
    <3> HIDE DEF m, d
    <3>4. InLeft(e, m).in.ena = 1
      BY <3>3, <1>4 DEF InReady, Ep0Type, EpType
    <3> QED
      BY <2>1, <3>2, <3>4 DEF Served, Step
  <2> QED
    BY <2>2, <2>3
<1>5. CASE r = DataOut(c, e) /\ c.st = "data_out" /\ OutReady(e)
  <2> DEFINE m == OutMove(e.out.n, c.len - c.done)
             d == [c EXCEPT !.done = @ + m.moved, !.st = IF m.done THEN "status_in" ELSE @]
             x == OutLeft(e, m, c.len - c.done)
  <2>1. r = Step(d, x)
    BY <1>5 DEF DataOut
  <2>2. CASE c.len - c.done = 0 \/ m.moved = e.out.n
    BY <2>1, <2>2 DEF OutLeft, Served, Step
  <2>3. CASE ~(c.len - c.done = 0 \/ m.moved = e.out.n)
    <3>1. m.done
      BY <2>3, <1>t, <1>m DEF OutMove
    <3>2. d.st = "status_in"
      BY <3>1 DEF CtlType
    <3>3. x = [e EXCEPT !.out.n = @ - m.moved]
      BY <2>3 DEF OutLeft
    <3> HIDE DEF m, d, x
    <3>4. x.out.ena = 1
      BY <3>3, <1>5 DEF OutReady, Ep0Type, EpType
    <3> QED
      BY <2>1, <3>2, <3>4 DEF Served, Step
  <2> QED
    BY <2>2, <2>3
<1>6. \/ r = Step(c, e) \/ r.c = Idle \/ r = AfterSetup(c, e)
      \/ r = DataIn(c, e) /\ c.st = "data_in" /\ InReady(e)
      \/ r = DataOut(c, e) /\ c.st = "data_out" /\ OutReady(e)
  BY DEF Ep0Run, Complete, StatusIn
<1> QED
  BY <1>1, <1>2, <1>3, <1>4, <1>5, <1>6
-----------------------------------------------------------------------------
\* dwc2_device_run keeps the host's and the device's views of the transfer
\* together, whatever the endpoint registers.
LEMMA RunKeeps ==
    ASSUME CtlInv, NEW e \in Ep0Type, NEW ph \in 0 .. 2, NEW h \in 0 .. 1,
           Run(ctl, e, ph, h)
    PROVE  CtlInv'
<1>1. PICK r : r = Ep0Run(ctl, e, ph, h)
  OBVIOUS
<1>2. ctl' = r.c /\ ep0' = r.e /\ waiting' = IF r.ans = "none" THEN waiting ELSE 0
  BY <1>1 DEF Run
<1>3. /\ r.c \in CtlType /\ r.c.done <= r.c.len /\ r.e \in Ep0Type
      /\ ctl.st = "idle" => r.c = ctl /\ r.ans = "none"
      /\ ctl.st # "idle" => (r.ans = "none" <=> r.c.st # "idle")
  BY <1>1, RunFacts DEF CtlInv
<1> QED
  BY <1>2, <1>3 DEF CtlInv, AnsweredOnce

\* A write of DCTL's global NAKs runs EP0 with well-formed registers.
LEMMA NakWrite ==
    ASSUME ep0 \in Ep0Type, GlobalNak
    PROVE  \E e \in Ep0Type : Run(ctl, e, phase, core.host)
<1>1. /\ [ep0 EXCEPT !.gin = 1 - @] \in Ep0Type
      /\ [ep0 EXCEPT !.gout = 1 - @] \in Ep0Type
  BY DEF Ep0Type
<1> QED
  BY <1>1 DEF GlobalNak

\* Every step keeps the transfer's types and AnsweredOnce.
LEMMA CtlStep == GadgetInv /\ [GadgetNext]_gadget_vars => CtlInv'
<1> SUFFICES ASSUME GadgetInv, [GadgetNext]_gadget_vars PROVE CtlInv'
  OBVIOUS
<1> USE DEF GadgetInv
<1>i. Idle \in CtlType /\ Idle.st = "idle" /\ Idle.done <= Idle.len
  BY DEF Idle, CtlType, Stages
<1>t. ep0 \in Ep0Type /\ ctl \in CtlType /\ phase \in 0 .. 2 /\ core.host \in 0 .. 1
  BY DEF CtlInv, BusInv, CoreType
<1>k. ASSUME UNCHANGED <<ctl, ep0, waiting>> PROVE CtlInv'
  BY <1>k DEF CtlInv, AnsweredOnce
<1>f. ASSUME ctl' = Idle, waiting' = 0, ep0' \in Ep0Type PROVE CtlInv'
  BY <1>f, <1>i DEF CtlInv, AnsweredOnce
<1>1. CASE VbusChanged
  BY <1>1, <1>k DEF VbusChanged
<1>2. CASE PullUp
  BY <1>2, <1>t, RunKeeps DEF PullUp
<1>3. CASE ForceRole
  <2>1. core'.host \in 0 .. 1
    BY <1>3, <1>t DEF ForceRole, BusInv, CoreType
  <2> QED
    BY <1>3, <2>1, <1>t, RunKeeps DEF ForceRole
<1>4. CASE ConnectBh
  BY <1>4, <1>k, <1>f, <1>t DEF ConnectBh
<1>5. CASE DeviceReset
  <2>1. ResetEp0 \in Ep0Type
    BY DEF ResetEp0, Off, Ep0Type, EpType
  <2> QED
    BY <1>5, <2>1, <1>f DEF DeviceReset, FailPackets
<1>6. CASE HandleReset
  BY <1>6, <1>f, <1>t DEF HandleReset, FailPackets
<1>7. CASE ResetTimer
  BY <1>7, <1>k, <1>t, RunKeeps DEF ResetTimer, TimerRun
<1>8. CASE HandleControl
  <2>0. PICK len \in Lens, dir \in {"in", "out"} : \E r :
            /\ r = Ep0Run([st |-> "setup", len |-> len, dir |-> dir, done |-> 0],
                          ep0, phase, core.host)
            /\ ctl' = r.c /\ ep0' = r.e /\ waiting' = 1
    BY <1>8 DEF HandleControl
  <2>1. PICK r :
            /\ r = Ep0Run([st |-> "setup", len |-> len, dir |-> dir, done |-> 0],
                          ep0, phase, core.host)
            /\ ctl' = r.c /\ ep0' = r.e /\ waiting' = 1
    BY <2>0
  <2>2. PICK c : c = [st |-> "setup", len |-> len, dir |-> dir, done |-> 0]
    OBVIOUS
  <2>3. c \in CtlType /\ c.done <= c.len /\ c.st = "setup"
    BY <2>2, LensAssumption DEF CtlType, Stages
  <2>4. r = Ep0Run(c, ep0, phase, core.host)
    BY <2>1, <2>2
  <2>5. /\ r.c \in CtlType /\ r.c.done <= r.c.len /\ r.e \in Ep0Type
        /\ r.ans = "none" <=> r.c.st # "idle"
    BY <2>3, <2>4, <1>t, RunFacts
  <2>6. r.ans = "none"
    BY <2>3, <2>4 DEF Ep0Run, Step, AfterSetup
  <2> QED
    BY <2>1, <2>5, <2>6 DEF CtlInv, AnsweredOnce
<1>9. CASE CancelPacket
  BY <1>9, <1>f, <1>t DEF CancelPacket, Cancelled
<1>10. CASE ArmIn
  <2>1. PICK n \in 0 .. 2 :
            Run(ctl, [ep0 EXCEPT !.in = [ena |-> 1, nak |-> 0, n |-> n]], phase, core.host)
    BY <1>10 DEF ArmIn
  <2>2. [ep0 EXCEPT !.in = [ena |-> 1, nak |-> 0, n |-> n]] \in Ep0Type
    BY <1>t DEF Ep0Type, EpType
  <2> QED
    BY <2>1, <2>2, <1>t, RunKeeps
<1>11. CASE ArmOut
  <2>1. PICK n \in 1 .. 2, nak \in {0, ep0.out.nak} :
            Run(ctl, [ep0 EXCEPT !.out = [ena |-> 1, nak |-> nak, n |-> n]], phase, core.host)
    BY <1>11 DEF ArmOut
  <2>2. nak \in 0 .. 1
    BY <1>t DEF Ep0Type, EpType
  <2>3. [ep0 EXCEPT !.out = [ena |-> 1, nak |-> nak, n |-> n]] \in Ep0Type
    BY <1>t, <2>2 DEF Ep0Type, EpType
  <2> QED
    BY <2>1, <2>3, <1>t, RunKeeps
<1>12. CASE StallEp0
  <2>1. [ep0 EXCEPT !.stall = 1] \in Ep0Type
    BY <1>t DEF Ep0Type
  <2> QED
    BY <1>12, <2>1, <1>t, RunKeeps DEF StallEp0
<1>13. CASE AckEp0
  <2>1. [ep0 EXCEPT !.irq = 0] \in Ep0Type
    BY <1>t DEF Ep0Type
  <2> QED
    BY <1>13, <2>1, <1>t, RunKeeps DEF AckEp0, AckWrite
<1>14. CASE AckGint
  BY <1>14, <1>k DEF AckGint
<1>15. CASE UNCHANGED gadget_vars
  BY <1>15, <1>k DEF gadget_vars
<1>16. CASE GlobalNak
  BY <1>16, <1>t, NakWrite, RunKeeps
<1> QED
  BY <1>1, <1>2, <1>3, <1>4, <1>5, <1>6, <1>7, <1>8, <1>9, <1>10, <1>11, <1>12, <1>13,
     <1>14, <1>15, <1>16 DEF GadgetNext

\* The steps that leave session, connection and timer alone
Quiet == UNCHANGED <<vbus, core, bh, attached, phase, timer>>

\* Every step keeps the session with VBUS, the connection with the pull-up once
\* the bottom half has run, and the timer with the reset.
LEMMA BusStep == GadgetInv /\ [GadgetNext]_gadget_vars => BusInv'
<1> SUFFICES ASSUME BusInv, [GadgetNext]_gadget_vars PROVE BusInv'
  BY DEF GadgetInv
<1>q. ASSUME Quiet PROVE BusInv'
  BY <1>q DEF Quiet, BusInv, ConnectedAsSeen, Visible
<1>1. CASE VbusChanged
  <2>1. vbus' \in 0 .. 1 /\ core' \in CoreType /\ core'.bses = vbus'
    <3>1. vbus' \in 0 .. 1 /\ core \in CoreType
      BY <1>1 DEF VbusChanged, BusInv
    <3>2. PICK u \in 0 .. 1 : u = IF core.bses = 1 /\ vbus' = 0 THEN 1 ELSE core.susp
      BY <3>1 DEF CoreType
    <3>3. core' = [core EXCEPT !.bses = vbus', !.susp = u]
      BY <1>1, <3>2 DEF VbusChanged, SessionApply
    <3> QED
      BY <3>1, <3>2, <3>3 DEF CoreType
  <2> QED
    BY <1>1, <2>1 DEF VbusChanged, BusInv, ConnectedAsSeen
<1>2. CASE PullUp
  <2>1. core' \in CoreType /\ core'.bses = vbus
    BY <1>2 DEF PullUp, BusInv, CoreType
  <2> QED
    BY <1>2, <2>1 DEF PullUp, BusInv, ConnectedAsSeen
<1>3. CASE ForceRole
  <2>1. core' \in CoreType /\ core'.bses = vbus
    BY <1>3 DEF ForceRole, BusInv, CoreType
  <2> QED
    BY <1>3, <2>1 DEF ForceRole, RoleUpdate, BusInv, ConnectedAsSeen
<1>4. CASE ConnectBh
  <2>1. ConnectedAsSeen'
    BY <1>4 DEF ConnectBh, ConnectedAsSeen, Visible
  <2>2. attached' \in 0 .. 1 /\ bh' \in 0 .. 1
    BY <1>4 DEF ConnectBh
  <2>3. phase' \in 0 .. 2 /\ timer' \in 0 .. 1 /\ (timer' = 0 <=> phase' = 0)
    BY <1>4 DEF ConnectBh, BusInv
  <2> QED
    BY <1>4, <2>1, <2>2, <2>3 DEF ConnectBh, BusInv
<1>5. CASE DeviceReset
  <2>1. core' \in CoreType /\ core'.bses = vbus
    BY <1>5 DEF DeviceReset, BusInv, CoreType
  <2> QED
    BY <1>5, <2>1 DEF DeviceReset, BusInv, ConnectedAsSeen
<1>6. CASE HandleReset
  <2>1. /\ core' \in CoreType /\ core'.bses = vbus
        /\ Visible(core') = Visible(core)
    BY <1>6 DEF HandleReset, BusInv, CoreType, Visible
  <2>2. ConnectedAsSeen'
    BY <1>6, <2>1 DEF HandleReset, BusInv, ConnectedAsSeen
  <2> QED
    BY <1>6, <2>1, <2>2 DEF HandleReset, BusInv
<1>7. CASE ResetTimer
  <2>1. UNCHANGED <<vbus, core, bh, attached>>
    BY <1>7 DEF ResetTimer
  <2>2. phase' \in 0 .. 2 /\ timer' \in 0 .. 1 /\ (timer' = 0 <=> phase' = 0)
    BY <1>7 DEF ResetTimer, TimerPhase2
  <2> QED
    BY <2>1, <2>2 DEF BusInv, ConnectedAsSeen, Visible
<1>8. CASE HandleControl
  BY <1>8, <1>q DEF HandleControl, Quiet
<1>9. CASE CancelPacket
  BY <1>9, <1>q DEF CancelPacket, Quiet
<1>10. CASE ArmIn \/ ArmOut \/ StallEp0 \/ AckEp0
  BY <1>10, <1>q DEF ArmIn, ArmOut, StallEp0, AckEp0, Guest, Quiet
<1>11. CASE AckGint
  BY <1>11, <1>q DEF AckGint, Quiet
<1>12. CASE UNCHANGED gadget_vars
  BY <1>12, <1>q DEF gadget_vars, Quiet
<1>13. CASE GlobalNak
  BY <1>13, <1>q DEF GlobalNak, Quiet
<1> QED
  BY <1>1, <1>2, <1>3, <1>4, <1>5, <1>6, <1>7, <1>8, <1>9, <1>10, <1>11, <1>12, <1>13
  DEF GadgetNext

\* Every step keeps the wake-up owed to the driver.
LEMMA WakeStep == GadgetInv /\ [GadgetNext]_gadget_vars => WakeInv'
<1> SUFFICES ASSUME WakeInv, BusInv, [GadgetNext]_gadget_vars PROVE WakeInv'
  BY DEF GadgetInv
<1>q. ASSUME UNCHANGED <<gint, asleep, enumd>>, core'.susp = core.susp PROVE WakeInv'
  BY <1>q DEF WakeInv
<1>1. CASE VbusChanged
  <2>1. vbus \in 0 .. 1 /\ vbus' = 1 - vbus /\ core.bses = vbus
    BY <1>1 DEF VbusChanged, BusInv
  <2>2. core'.susp = IF vbus' = 0 THEN 1 ELSE core.susp
    BY <1>1, <2>1 DEF VbusChanged, SessionApply, BusInv, CoreType
  <2>3. CASE vbus' = 0
    BY <1>1, <2>2, <2>3 DEF VbusChanged, WakeInv, Bits
  <2>4. CASE vbus' = 1
    BY <1>1, <2>2, <2>4 DEF VbusChanged, WakeInv, Bits
  <2> QED
    BY <2>1, <2>3, <2>4
<1>2. CASE PullUp
  BY <1>2, <1>q DEF PullUp, BusInv, CoreType
<1>3. CASE ForceRole
  BY <1>3, <1>q DEF ForceRole, BusInv, CoreType
<1>4. CASE ConnectBh
  BY <1>4, <1>q DEF ConnectBh
<1>5. CASE DeviceReset
  BY <1>5 DEF DeviceReset, WakeInv
<1>6. CASE HandleReset
  <2>1. core'.susp = 0
    BY <1>6 DEF HandleReset, BusInv, CoreType
  <2>2. core.susp = 1 => "WkUpInt" \in gint'
    BY <1>6 DEF HandleReset, ResetInts
  <2>3. gint' \subseteq Bits /\ gint \subseteq gint' /\ ("SesEndDet" \in gint' => "SesEndDet" \in gint)
    BY <1>6 DEF HandleReset, ResetInts, WakeInv, Bits
  <2>4. asleep' = asleep /\ enumd' = 1
    BY <1>6 DEF HandleReset
  <2> QED
    BY <2>1, <2>2, <2>3, <2>4 DEF WakeInv
<1>7. CASE ResetTimer
  <2>1. gint' \subseteq Bits /\ gint \subseteq gint' /\ ("SesEndDet" \in gint' => "SesEndDet" \in gint)
    BY <1>7 DEF ResetTimer, WakeInv, Bits
  <2>2. UNCHANGED <<core, asleep>>
    BY <1>7 DEF ResetTimer
  <2>3. enumd' \in 0 .. 2 /\ (enumd' # 0 => enumd # 0)
    BY <1>7 DEF ResetTimer, WakeInv
  <2> QED
    BY <2>1, <2>2, <2>3 DEF WakeInv
<1>8. CASE HandleControl
  BY <1>8, <1>q DEF HandleControl
<1>9. CASE CancelPacket
  BY <1>9, <1>q DEF CancelPacket
<1>10. CASE ArmIn \/ ArmOut \/ StallEp0 \/ AckEp0
  BY <1>10, <1>q DEF ArmIn, ArmOut, StallEp0, AckEp0, Guest
<1>11. CASE AckGint
  BY <1>11 DEF AckGint, WakeInv
<1>12. CASE UNCHANGED gadget_vars
  BY <1>12, <1>q DEF gadget_vars
<1>13. CASE GlobalNak
  BY <1>13, <1>q DEF GlobalNak
<1> QED
  BY <1>1, <1>2, <1>3, <1>4, <1>5, <1>6, <1>7, <1>8, <1>9, <1>10, <1>11, <1>12, <1>13
  DEF GadgetNext

\* A register write, the timer and the change of role run EP0 with the role and
\* the phase they leave: the transfer is served.
LEMMA RunLeavesServed ==
    ASSUME CtlInv, NEW e \in Ep0Type, core'.host = 0 => Run(ctl, e, phase', 0)
    PROVE  NoSilentWait'
<1> SUFFICES ASSUME core'.host = 0 PROVE Served(ctl', ep0', phase')
  BY DEF Served, NoSilentWait, Excess
<1> QED
  BY RunServes DEF CtlInv, Run

\* Every step leaves the transfer waiting for somebody: the guest at an interrupt,
\* or the host and the guest for what they have not done yet.
LEMMA ServedStep == GadgetInv /\ [GadgetNext]_gadget_vars => NoSilentWait'
<1> SUFFICES ASSUME GadgetInv, [GadgetNext]_gadget_vars PROVE NoSilentWait'
  OBVIOUS
<1>t. /\ ep0 \in Ep0Type /\ ctl \in CtlType /\ CtlInv /\ NoSilentWait
      /\ core \in CoreType /\ core.host \in 0 .. 1
  BY DEF GadgetInv, CtlInv, BusInv, CoreType
<1>k. ASSUME UNCHANGED <<ctl, ep0>>, core'.host = core.host, phase' = 0 <=> phase = 0
      PROVE  NoSilentWait'
  <2>1. Ep0Run(ctl', ep0', phase', 0) = Ep0Run(ctl, ep0, phase, 0)
    BY <1>k DEF Ep0Run, SetupReady
  <2> QED
    BY <1>k, <1>t, <2>1 DEF NoSilentWait, Excess
<1>f. ASSUME ctl' = Idle PROVE NoSilentWait'
  BY <1>f DEF NoSilentWait, Ep0Run, Idle
<1>r. ASSUME NEW e \in Ep0Type, Run(ctl, e, phase, core.host), UNCHANGED <<core, phase>>
      PROVE  NoSilentWait'
  BY <1>r, <1>t, RunLeavesServed
<1>1. CASE VbusChanged
  <2>1. core'.host = core.host
    BY <1>1, <1>t DEF VbusChanged, SessionApply, CoreType
  <2> QED
    BY <1>1, <1>k, <2>1 DEF VbusChanged
<1>2. CASE PullUp
  <2>1. core'.host = core.host
    BY <1>2, <1>t DEF PullUp, CoreType
  <2> QED
    BY <1>2, <1>t, <2>1, RunLeavesServed DEF PullUp
<1>3. CASE ForceRole
  BY <1>3, <1>t, RunLeavesServed DEF ForceRole
<1>4. CASE ConnectBh
  BY <1>4, <1>k, <1>f DEF ConnectBh
<1>5. CASE DeviceReset \/ HandleReset \/ CancelPacket
  BY <1>5, <1>f DEF DeviceReset, HandleReset, CancelPacket, FailPackets, Cancelled
<1>6. CASE ResetTimer
  BY <1>6, <1>k, <1>t, RunLeavesServed DEF ResetTimer, TimerRun
<1>7. CASE HandleControl
  <2>1. PICK len \in Lens, dir \in {"in", "out"} :
            LET r == Ep0Run([st |-> "setup", len |-> len, dir |-> dir, done |-> 0],
                            ep0, phase, core.host)
            IN ctl' = r.c /\ ep0' = r.e
    BY <1>7 DEF HandleControl
  <2>2. PICK c : c = [st |-> "setup", len |-> len, dir |-> dir, done |-> 0]
    OBVIOUS
  <2>3. c \in CtlType /\ c.done <= c.len
    BY <2>2, LensAssumption DEF CtlType, Stages
  <2>4. UNCHANGED <<core, phase>>
    BY <1>7 DEF HandleControl
  <2>5. core.host = 0 => Served(ctl', ep0', phase')
    BY <1>t, <2>1, <2>2, <2>3, <2>4, RunServes
  <2> QED
    BY <2>4, <2>5 DEF Served, NoSilentWait, Excess
<1>8. CASE ArmIn
  <2>1. PICK n \in 0 .. 2 :
            Run(ctl, [ep0 EXCEPT !.in = [ena |-> 1, nak |-> 0, n |-> n]], phase, core.host)
    BY <1>8 DEF ArmIn
  <2>2. [ep0 EXCEPT !.in = [ena |-> 1, nak |-> 0, n |-> n]] \in Ep0Type
    BY <1>t DEF Ep0Type, EpType
  <2> QED
    BY <1>8, <2>1, <2>2, <1>r DEF ArmIn, Guest
<1>9. CASE ArmOut
  <2>1. PICK n \in 1 .. 2, nak \in {0, ep0.out.nak} :
            Run(ctl, [ep0 EXCEPT !.out = [ena |-> 1, nak |-> nak, n |-> n]], phase, core.host)
    BY <1>9 DEF ArmOut
  <2>2. nak \in 0 .. 1
    BY <1>t DEF Ep0Type, EpType
  <2>3. [ep0 EXCEPT !.out = [ena |-> 1, nak |-> nak, n |-> n]] \in Ep0Type
    BY <1>t, <2>2 DEF Ep0Type, EpType
  <2> QED
    BY <1>9, <2>1, <2>3, <1>r DEF ArmOut, Guest
<1>10. CASE StallEp0
  <2>1. [ep0 EXCEPT !.stall = 1] \in Ep0Type
    BY <1>t DEF Ep0Type
  <2> QED
    BY <1>10, <2>1, <1>r DEF StallEp0, Guest
<1>11. CASE AckEp0
  <2>1. [ep0 EXCEPT !.irq = 0] \in Ep0Type
    BY <1>t DEF Ep0Type
  <2> QED
    BY <1>11, <2>1, <1>r DEF AckEp0, AckWrite, Guest
<1>12. CASE AckGint \/ UNCHANGED gadget_vars
  BY <1>12, <1>k DEF AckGint, gadget_vars
<1>13. CASE GlobalNak
  <2>1. UNCHANGED <<core, phase>>
    BY <1>13 DEF GlobalNak
  <2> QED
    BY <1>13, <1>t, <1>r, <2>1, NakWrite
<1> QED
  BY <1>1, <1>2, <1>3, <1>4, <1>5, <1>6, <1>7, <1>8, <1>9, <1>10, <1>11, <1>12, <1>13
  DEF GadgetNext

\* The inductive invariant holds in every state, whatever host and guest do.
THEOREM GadgetInductive == GadgetSpec => []GadgetInv
<1>1. GadgetInit => GadgetInv
  <2> SUFFICES ASSUME GadgetInit PROVE GadgetInv
    OBVIOUS
  <2>1. ctl \in CtlType /\ ctl.done <= ctl.len /\ ctl.st = "idle"
    BY DEF GadgetInit, Idle, CtlType, Stages
  <2>2. ep0 \in Ep0Type
    BY DEF GadgetInit, ResetEp0, Off, Ep0Type, EpType
  <2>3. CtlInv
    BY <2>1, <2>2 DEF GadgetInit, CtlInv, AnsweredOnce
  <2>4. BusInv
    BY DEF GadgetInit, BusInv, CoreType, ConnectedAsSeen
  <2>5. WakeInv
    BY DEF GadgetInit, WakeInv
  <2>6. NoSilentWait
    BY <2>1 DEF NoSilentWait, Ep0Run
  <2> QED
    BY <2>3, <2>4, <2>5, <2>6 DEF GadgetInv
<1>2. GadgetInv /\ [GadgetNext]_gadget_vars => GadgetInv'
  BY CtlStep, BusStep, WakeStep, ServedStep DEF GadgetInv
<1> QED
  BY <1>1, <1>2, PTL DEF GadgetSpec

\* The host waits for a control transfer exactly while the device works on it,
\* for any number of transfers, resets, detaches and stalls.
THEOREM HostAnswered == GadgetSpec => []AnsweredOnce
<1>1. GadgetInv => AnsweredOnce
  BY DEF GadgetInv, CtlInv
<1> QED
  BY <1>1, GadgetInductive, PTL

\* Once the bottom half has run, the host sees the device exactly while the guest
\* pulls up as a peripheral in a valid session.
THEOREM SeenByHost == GadgetSpec => []ConnectedAsSeen
<1>1. GadgetInv => ConnectedAsSeen
  BY DEF GadgetInv, BusInv
<1> QED
  BY <1>1, GadgetInductive, PTL

\* The guest driver is awake, or has its WkUpInt pending, whenever the host has
\* enumerated it.
THEOREM DriverAwake == GadgetSpec => []AwakeWhenEnumerated
<1>1. GadgetInv => AwakeWhenEnumerated
  BY DEF GadgetInv, WakeInv, AwakeWhenEnumerated
<1> QED
  BY <1>1, GadgetInductive, PTL

\* No control transfer waits for nobody: one that could go on has an EP0 interrupt
\* raised, whose acknowledgement runs it.
THEOREM NoTransferForgotten == GadgetSpec => []NoSilentWait
<1>1. GadgetInv => NoSilentWait
  BY DEF GadgetInv
<1> QED
  BY <1>1, GadgetInductive, PTL

\* Host and guest agree on the connection, on wakefulness and on who moves next,
\* for any number of transfers, resets, role changes and sessions.
THEOREM GadgetSafe == GadgetSpec => []DeviceSafe
<1>1. GadgetInv => GadgetTypeOK
  <2> SUFFICES ASSUME GadgetInv PROVE GadgetTypeOK
    OBVIOUS
  <2>1. ctl.st \in Stages /\ ctl.done \in 0 .. ctl.len
    BY DEF GadgetInv, CtlInv, CtlType
  <2>2. \A e \in {ep0.in, ep0.out} : e.ena \in 0 .. 1 /\ e.nak \in 0 .. 1 /\ e.n \in 0 .. 2
    BY DEF GadgetInv, CtlInv, Ep0Type, EpType
  <2> QED
    BY <2>1, <2>2 DEF GadgetInv, CtlInv, BusInv, WakeInv, CoreType, GadgetTypeOK
<1> QED
  BY <1>1, GadgetInductive, SeenByHost, DriverAwake, NoTransferForgotten, PTL DEF DeviceSafe

\* No SETUP reaches the guest during a bus reset or its recovery time, neither one
\* that waited nor one that the host sends with EP0 OUT armed.
THEOREM SetupOutsideReset == GadgetSpec => SetupAfterRecovery
<1> DEFINE Recovered ==
             ctl.st \in {"idle", "setup"} /\ ctl'.st \notin {"idle", "setup"} => timer' = 0
<1>1. GadgetInv /\ [GadgetNext]_gadget_vars => Recovered
  <2> SUFFICES ASSUME GadgetInv, [GadgetNext]_gadget_vars,
                      ctl.st \in {"idle", "setup"}, ctl'.st \notin {"idle", "setup"}
               PROVE  timer' = 0
    OBVIOUS
  <2>t. /\ ep0 \in Ep0Type /\ ctl \in CtlType /\ ctl.done <= ctl.len
        /\ phase \in 0 .. 2 /\ core.host \in 0 .. 1 /\ (phase = 0 => timer = 0)
    BY DEF GadgetInv, CtlInv, BusInv, CoreType
  <2>r. ASSUME NEW e \in Ep0Type, NEW h \in 0 .. 1, Run(ctl, e, phase, h), timer' = timer
        PROVE  timer' = 0
    <3>1. PICK r : r = Ep0Run(ctl, e, phase, h)
      OBVIOUS
    <3>2. ctl' = r.c
      BY <2>r, <3>1 DEF Run
    <3>3. phase = 0
      BY <3>1, <3>2, <2>t, RunFacts
    <3> QED
      BY <3>3, <2>r, <2>t
  <2>1. CASE UNCHANGED ctl
    BY <2>1
  <2>2. CASE ctl' = Idle
    BY <2>2 DEF Idle
  <2>3. CASE PullUp
    BY <2>3, <2>r, <2>t DEF PullUp
  <2>4. CASE ForceRole
    <3>1. core'.host \in 0 .. 1
      BY <2>4 DEF ForceRole, GadgetInv, BusInv, CoreType
    <3> QED
      BY <2>4, <3>1, <2>r, <2>t DEF ForceRole
  <2>5. CASE ResetTimer
    BY <2>5, <2>1 DEF ResetTimer
  <2>6. CASE HandleControl
    <3>1. PICK len \in Lens, dir \in {"in", "out"} :
              ctl' = Ep0Run([st |-> "setup", len |-> len, dir |-> dir, done |-> 0],
                            ep0, phase, core.host).c
      BY <2>6 DEF HandleControl
    <3>2. PICK c : c = [st |-> "setup", len |-> len, dir |-> dir, done |-> 0]
      OBVIOUS
    <3>3. c \in CtlType /\ c.done <= c.len /\ c.st = "setup"
      BY <3>2, LensAssumption DEF CtlType, Stages
    <3>4. PICK r : r = Ep0Run(c, ep0, phase, core.host)
      OBVIOUS
    <3>5. phase = 0
      BY <3>1, <3>2, <3>3, <3>4, <2>t, RunFacts
    <3> QED
      BY <2>6, <3>5, <2>t DEF HandleControl
  <2>7. CASE ArmIn
    <3>1. PICK n \in 0 .. 2 :
              Run(ctl, [ep0 EXCEPT !.in = [ena |-> 1, nak |-> 0, n |-> n]], phase, core.host)
      BY <2>7 DEF ArmIn
    <3>2. [ep0 EXCEPT !.in = [ena |-> 1, nak |-> 0, n |-> n]] \in Ep0Type
      BY <2>t DEF Ep0Type, EpType
    <3> QED
      BY <2>7, <3>1, <3>2, <2>r, <2>t DEF ArmIn, Guest
  <2>8. CASE ArmOut
    <3>1. PICK n \in 1 .. 2, nak \in {0, ep0.out.nak} :
              Run(ctl, [ep0 EXCEPT !.out = [ena |-> 1, nak |-> nak, n |-> n]], phase, core.host)
      BY <2>8 DEF ArmOut
    <3>2. nak \in 0 .. 1
      BY <2>t DEF Ep0Type, EpType
    <3>3. [ep0 EXCEPT !.out = [ena |-> 1, nak |-> nak, n |-> n]] \in Ep0Type
      BY <2>t, <3>2 DEF Ep0Type, EpType
    <3> QED
      BY <2>8, <3>1, <3>3, <2>r, <2>t DEF ArmOut, Guest
  <2>9. CASE StallEp0
    <3>1. [ep0 EXCEPT !.stall = 1] \in Ep0Type
      BY <2>t DEF Ep0Type
    <3> QED
      BY <2>9, <3>1, <2>r, <2>t DEF StallEp0, Guest
  <2>10. CASE AckEp0
    <3>1. [ep0 EXCEPT !.irq = 0] \in Ep0Type
      BY <2>t DEF Ep0Type
    <3> QED
      BY <2>10, <3>1, <2>r, <2>t DEF AckEp0, AckWrite, Guest
  <2>11. VbusChanged \/ AckGint \/ UNCHANGED gadget_vars => UNCHANGED ctl
    BY DEF VbusChanged, AckGint, gadget_vars
  <2>12. ConnectBh \/ DeviceReset \/ HandleReset \/ CancelPacket => UNCHANGED ctl \/ ctl' = Idle
    BY DEF ConnectBh, DeviceReset, HandleReset, CancelPacket, FailPackets, Cancelled
  <2>13. CASE GlobalNak
    <3>1. timer' = timer
      BY <2>13 DEF GlobalNak
    <3> QED
      BY <2>13, <3>1, <2>r, <2>t, NakWrite
  <2> QED
    BY <2>1, <2>2, <2>3, <2>4, <2>5, <2>6, <2>7, <2>8, <2>9, <2>10, <2>11, <2>12, <2>13
    DEF GadgetNext
<1>2. GadgetInv /\ [GadgetNext]_gadget_vars => [Recovered]_gadget_vars
  BY <1>1
<1> QED
  BY <1>2, GadgetInductive, PTL DEF GadgetSpec, SetupAfterRecovery

-----------------------------------------------------------------------------
(* The rings of a GENET DMA engine tile its descriptor table.               *)

\* The descriptors the rings from k on still take
Rest(p, k) == (p.queues - k) * p.bds_per_q

(* Where the loop stands: end leaves room for the rings that follow.          *)
Position ==
    /\ i <= params.queues => end = TOTAL_DESC - Rest(params, i)
    /\ i = params.queues + 1 => start = TOTAL_DESC
    /\ i <= params.queues => start <= end

(* The rings lie in order, the last before start.                             *)
Bounded ==
    \A q \in 0 .. i - 1 : rings[q].first >= 0 /\ rings[q].last < start

(* No window reaches the word where the next ring's begins.                   *)
Walked ==
    \A q \in 0 .. i - 1 : rings[q].upto < start * params.words_per_bd

RingsInv ==
    /\ RingsTypeOK /\ Position /\ Bounded /\ Tiled /\ Walked /\ WindowsApart
    /\ enabled # {} => i = params.queues + 1

(* A product of naturals is one, and each ring takes its share of the rest.   *)
LEMMA RestFacts ==
    ASSUME NEW p \in Params, NEW k \in 0 .. p.queues
    PROVE  /\ Rest(p, k) \in Nat
           /\ Rest(p, k + 1) = Rest(p, k) - p.bds_per_q
           /\ Rest(p, p.queues) = 0
           /\ Rest(p, 0) = p.queues * p.bds_per_q
           /\ p.queues \in Nat /\ p.bds_per_q \in Nat /\ p.words_per_bd \in Nat
<1>1. p.queues \in Nat /\ p.bds_per_q \in Nat /\ p.words_per_bd \in Nat
  BY ParamsAssumption
<1>2. \A m, n \in Nat : m * n \in Nat
  OBVIOUS
<1>3. \A m, n \in Int : (m - 1) * n = m * n - n
  OBVIOUS
<1>4. p.queues - k \in Nat /\ p.queues - (k + 1) = (p.queues - k) - 1
  BY <1>1
<1>5. Rest(p, k) \in Nat
  BY <1>1, <1>2, <1>4 DEF Rest
<1>6. Rest(p, k + 1) = Rest(p, k) - p.bds_per_q
  BY <1>1, <1>3, <1>4 DEF Rest
<1>7. Rest(p, p.queues) = 0 /\ Rest(p, 0) = p.queues * p.bds_per_q
  BY <1>1 DEF Rest
<1> QED BY <1>1, <1>5, <1>6, <1>7

(* Multiplying by the words of a descriptor keeps the order of descriptors.   *)
LEMMA Monotone == \A m, n \in Int : \A w \in Nat : m <= n => m * w <= n * w
<1>1. \A m, n \in Nat : m * n >= 0
  OBVIOUS
<1>2. \A m, n, w \in Int : n * w = m * w + (n - m) * w
  OBVIOUS
<1>3. \A m, w \in Int : m * w \in Int
  OBVIOUS
<1> SUFFICES ASSUME NEW m \in Int, NEW n \in Int, NEW w \in Nat, m <= n
             PROVE  m * w <= n * w
  OBVIOUS
<1>4. n - m \in Nat /\ (n - m) * w >= 0 /\ (n - m) * w \in Int
  BY <1>1, <1>3
<1> QED BY <1>2, <1>3, <1>4

(* The loop starts with no ring and room for all.                             *)
LEMMA InitInv == RingsInit => RingsInv
<1> SUFFICES ASSUME RingsInit PROVE RingsInv
  OBVIOUS
<1>1. params \in Params /\ params.queues \in Nat /\ 0 \in 0 .. params.queues
  BY ParamsAssumption DEF RingsInit
<1>2. Rest(params, 0) = params.queues * params.bds_per_q /\ Rest(params, 0) \in Nat
  BY <1>1, RestFacts
<1>3. params.queues * params.bds_per_q <= TOTAL_DESC
  BY <1>1, ParamsAssumption
<1>4. end = TOTAL_DESC - Rest(params, 0) /\ end \in Nat
  BY <1>2, <1>3, ParamsAssumption DEF RingsInit, Q0Count
<1>5. RingsTypeOK
  BY <1>1, <1>4, ParamsAssumption DEF RingsInit, RingsTypeOK
<1>6. Position /\ Bounded /\ Tiled /\ Walked /\ WindowsApart /\ enabled = {}
  BY <1>1, <1>4 DEF RingsInit, Position, Bounded, Tiled, Walked, WindowsApart
<1> QED BY <1>5, <1>6 DEF RingsInv

(* The next ring takes the descriptors from start to end and no others.       *)
LEMMA InitRingInv == RingsInv /\ InitRing => RingsInv'
<1> SUFFICES ASSUME RingsInv, InitRing PROVE RingsInv'
  OBVIOUS
<1>1. /\ params \in Params /\ params.queues \in Nat /\ params.bds_per_q \in Nat
      /\ params.words_per_bd \in Nat
      /\ i \in 0 .. params.queues /\ start \in Nat /\ end \in Nat /\ TOTAL_DESC \in Nat
      /\ params' = params /\ i' = i + 1 /\ start' = end /\ end' = end + params.bds_per_q
      /\ enabled = {} /\ enabled' = {}
  BY ParamsAssumption DEF RingsInv, RingsTypeOK, InitRing, NumRings
<1>2. /\ Rest(params, i) \in Nat
      /\ Rest(params, i + 1) = Rest(params, i) - params.bds_per_q
      /\ Rest(params, params.queues) = 0
  BY <1>1, RestFacts
<1>3. end = TOTAL_DESC - Rest(params, i) /\ end <= TOTAL_DESC /\ start <= end
  BY <1>1, <1>2 DEF RingsInv, Position
<1>4. Position'
  <2>1. i' <= params'.queues => end' = TOTAL_DESC - Rest(params', i')
    BY <1>1, <1>2, <1>3
  <2>2. i' = params'.queues + 1 => start' = TOTAL_DESC
    BY <1>1, <1>2, <1>3
  <2> QED BY <1>1, <2>1, <2>2 DEF Position, Rest
<1>5. rings' = [q \in 0 .. i |-> IF q = i THEN MakeRing(start, end) ELSE rings[q]]
  BY DEF InitRing
<1>6. \A q \in 0 .. i - 1 : rings'[q] = rings[q] /\ rings[q] \in Ring
  BY <1>1, <1>5 DEF RingsInv, RingsTypeOK
<1>7. /\ MakeRing(start, end) \in Ring /\ rings'[i] = MakeRing(start, end)
      /\ rings'[i].first = start /\ rings'[i].last = end - 1
  <2>1. start * params.words_per_bd \in Int /\ end * params.words_per_bd \in Int
    BY <1>1
  <2>2. rings'[i] = MakeRing(start, end)
    BY <1>1, <1>5
  <2> QED BY <1>1, <2>1, <2>2 DEF MakeRing, Ring
<1>8. 0 .. i' - 1 = 0 .. i /\ \A q \in 0 .. i : q # i => q \in 0 .. i - 1
  BY <1>1
<1>9. RingsTypeOK'
  <2>1. rings' \in [0 .. i' - 1 -> Ring]
    BY <1>5, <1>6, <1>7, <1>8
  <2> QED BY <1>1, <1>3, <2>1 DEF RingsTypeOK
<1>10. Bounded'
  <2>1. rings'[i].first >= 0 /\ rings'[i].last < start'
    BY <1>1, <1>3, <1>7
  <2>2. ASSUME NEW q \in 0 .. i - 1 PROVE rings'[q].first >= 0 /\ rings'[q].last < start'
    <3>1. rings[q].first >= 0 /\ rings[q].last < start /\ rings[q].last \in Int
      BY <1>6 DEF RingsInv, Bounded, Ring
    <3> QED BY <1>1, <1>3, <1>6, <3>1
  <2> QED BY <1>8, <2>1, <2>2 DEF Bounded
<1>11. Tiled'
  <2> DEFINE Old(q, d) == rings[q].first <= d /\ d <= rings[q].last
             New(q, d) == rings'[q].first <= d /\ d <= rings'[q].last
  <2>1. ASSUME NEW d \in 0 .. TOTAL_DESC - 1
        PROVE  /\ d < end => \E q \in 0 .. i : New(q, d)
               /\ d >= end => \A q \in 0 .. i : ~New(q, d)
               /\ \A q, r \in 0 .. i : New(q, d) /\ New(r, d) => q = r
    <3>1. New(i, d) <=> start <= d /\ d < end
      BY <1>1, <1>7
    <3>2. \A q \in 0 .. i - 1 : New(q, d) <=> Old(q, d)
      BY <1>6
    <3>3. /\ d < start => \E q \in 0 .. i - 1 : Old(q, d)
          /\ d >= start => \A q \in 0 .. i - 1 : ~Old(q, d)
          /\ \A q, r \in 0 .. i - 1 : Old(q, d) /\ Old(r, d) => q = r
      BY <2>1 DEF RingsInv, Tiled, Holds
    <3> HIDE DEF Old, New
    <3>4. d \in Int /\ i \in 0 .. i /\ \A q \in 0 .. i - 1 : q \in 0 .. i
      BY <1>1
    <3>5. d < end => \E q \in 0 .. i : New(q, d)
      BY <1>1, <3>1, <3>2, <3>3, <3>4
    <3>6. d >= end => \A q \in 0 .. i : ~New(q, d)
      BY <1>1, <1>3, <1>8, <3>1, <3>2, <3>3, <3>4
    <3>7. \A q, r \in 0 .. i : New(q, d) /\ New(r, d) => q = r
      BY <1>1, <1>8, <3>1, <3>2, <3>3, <3>4
    <3> QED BY <3>5, <3>6, <3>7
  <2> QED BY <1>1, <1>8, <2>1 DEF Tiled, Holds
<1>12. Walked' /\ WindowsApart'
  <2> DEFINE s == start * params.words_per_bd
             e == end * params.words_per_bd
  <2>1. s \in Int /\ e \in Int /\ s <= e
    BY <1>1, <1>3, Monotone
  <2>2. /\ rings'[i].from = s /\ rings'[i].upto = e - 1
        /\ start' * params'.words_per_bd = e
    <3>1. rings'[i] = [first |-> start, last |-> end - 1, size |-> end - start,
                       from |-> s, upto |-> e - 1]
      BY <1>7, Zenon DEF MakeRing
    <3>2. start' * params'.words_per_bd = e
      BY <1>1, Zenon
    <3> HIDE DEF s, e
    <3> QED BY <3>1, <3>2
  <2>3. \A q \in 0 .. i - 1 : rings'[q].upto < s /\ rings'[q].upto \in Int
    BY <1>6 DEF RingsInv, Walked, Ring
  <2> HIDE DEF s, e
  <2>4. Walked'
    <3>1. \A q \in 0 .. i : rings'[q].upto < e
      BY <1>8, <2>1, <2>2, <2>3
    <3>2. \A q \in 0 .. i' - 1 : rings'[q].upto < start' * params'.words_per_bd
      BY <1>8, <2>2, <3>1, Zenon
    <3> QED BY <3>2, Zenon DEF Walked
  <2>5. ASSUME NEW q \in 0 .. i, NEW r \in 0 .. i, q < r, rings'[q].size > 0
        PROVE  rings'[q].upto < rings'[r].from
    <3>1. q \in 0 .. i - 1
      BY <1>1, <2>5
    <3>2. CASE r = i
      BY <2>2, <2>3, <3>1, <3>2
    <3>3. CASE r # i
      BY <1>6, <1>8, <2>5, <3>1, <3>3 DEF RingsInv, WindowsApart
    <3> QED BY <3>2, <3>3
  <2>6. \A q, r \in 0 .. i' - 1 : q < r /\ rings'[q].size > 0 => rings'[q].upto < rings'[r].from
    BY <1>8, <2>5, Zenon
  <2> QED BY <2>4, <2>6, Zenon DEF WindowsApart
<1> QED BY <1>1, <1>4, <1>9, <1>10, <1>11, <1>12 DEF RingsInv

(* RingsInv is inductive: enabling the rings only ends the loop.                   *)
THEOREM RingsInductive == RingsSpec => []RingsInv
<1>1. RingsInv /\ EnableRings => RingsInv'
  <2> SUFFICES ASSUME RingsInv, EnableRings PROVE RingsInv'
    OBVIOUS
  <2>1. i = params.queues + 1 /\ UNCHANGED <<params, i, start, end, rings>>
    BY DEF EnableRings, NumRings
  <2>2. RingsTypeOK'
    BY <2>1 DEF RingsInv, RingsTypeOK, EnableRings
  <2>3. Position' /\ Bounded'
    BY <2>1 DEF RingsInv, Position, Bounded, Rest
  <2>4. Tiled'
    BY <2>1 DEF RingsInv, Tiled, Holds
  <2>5. Walked' /\ WindowsApart'
    BY <2>1 DEF RingsInv, Walked, WindowsApart
  <2> QED BY <2>1, <2>2, <2>3, <2>4, <2>5 DEF RingsInv
<1>2. RingsInv /\ UNCHANGED rings_vars => RingsInv'
  BY DEF rings_vars, RingsInv, RingsTypeOK, Position, Bounded, Tiled, Walked, WindowsApart, Holds, Rest
<1>3. RingsInv /\ [RingsNext]_rings_vars => RingsInv'
  BY <1>1, <1>2, InitRingInv DEF RingsNext
<1> QED BY InitInv, <1>3, PTL DEF RingsSpec

(* At every turn of bcmgenet_init_tx_queues and bcmgenet_init_rx_queues, and  *)
(* after them, each descriptor before start has exactly one ring.             *)
THEOREM RingsTile == RingsSpec => []Tiled
  BY RingsInductive, PTL DEF RingsInv

(* No ring reaches past the table and the enabled rings fill it.              *)
THEOREM RingsWithinTable == RingsSpec => []WithinTable
<1>1. RingsInv => WithinTable
  <2> SUFFICES ASSUME RingsInv PROVE WithinTable
    OBVIOUS
  <2>1. TOTAL_DESC \in Nat /\ start \in 0 .. TOTAL_DESC
    BY ParamsAssumption DEF RingsInv, RingsTypeOK
  <2>2. ASSUME NEW q \in 0 .. i - 1
        PROVE  rings[q].first >= 0 /\ rings[q].last < TOTAL_DESC
    <3>1. rings[q] \in Ring
      BY <2>2 DEF RingsInv, RingsTypeOK
    <3>2. rings[q].last \in Int
      BY <3>1 DEF Ring
    <3>3. rings[q].first >= 0 /\ rings[q].last < start
      BY <2>2 DEF RingsInv, Bounded
    <3> QED BY <2>1, <3>2, <3>3
  <2>3. enabled # {} => start = TOTAL_DESC
    BY DEF RingsInv, Position
  <2> QED BY <2>2, <2>3 DEF WithinTable
<1> QED BY <1>1, RingsInductive, PTL

(* The windows DMA_START_ADDR and DMA_END_ADDR give the engine do not         *)
(* overlap, whatever the words of a descriptor.                               *)
THEOREM RingsApart == RingsSpec => []WindowsApart
  BY RingsInductive, PTL DEF RingsInv

(* Whatever the parameters, the rings partition the descriptor table.         *)
THEOREM RingsPartition == RingsSpec => []Partitioned
  BY RingsTile, RingsWithinTable, PTL DEF Partitioned
=============================================================================
