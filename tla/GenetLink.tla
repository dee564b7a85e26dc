----------------------------- MODULE GenetLink ------------------------------
(* What the Linux driver makes of a link (bcmmii.c, bcmgenet.c): the PHY      *)
(* state machine calls bcmgenet_mii_setup at each change, ethtool sets the    *)
(* flow control (bcmgenet_set_pauseparam) and the stack the receive mode      *)
(* (bcmgenet_set_rx_mode).  All three write the register UMAC_CMD; the first  *)
(* two hold phydev->lock, and every read-modify-write of it holds reg_lock.   *)
(* The MAC starts in the soft reset bcmgenet_open leaves it in.               *)
EXTENDS Integers

CONSTANTS
    Links       \* the links the PHY may establish: [speed, full, autoneg,
                \* lp_pause, lp_asym, lpi]

ASSUME LinkAssumption ==
    Links \subseteq [speed : {10, 100, 1000}, full : 0 .. 1, autoneg : 0 .. 1,
                    lp_pause : 0 .. 1, lp_asym : 0 .. 1, lpi : 0 .. 1]

VARIABLES
    phy,            \* phydev: link and the fields of Links
    adv,            \* phydev->advertising: [pause, asym]
    phy_lock,       \* who holds phydev->lock: "phy", "ethtool" or "none"
    pause,          \* priv: [autoneg, tx, rx]
    umac,           \* UMAC_CMD
    rgmii_link,     \* RGMII_LINK
    reg_lock,       \* who holds reg_lock
    pc,             \* of "phy", "ethtool" and "stack"
    reg, cmd,       \* UMAC_CMD as each has read it, and bcmgenet_mac_config's cmd_bits
    want,           \* the pause settings and the receive mode asked for
    clk_eee,        \* enable count of the EEE clock
    clk_eee_enabled,
    eee             \* [umac, tbuf, rbuf]: EEE_EN, TBUF_EEE_EN and RBUF_EEE_EN

link_vars == <<phy, adv, phy_lock, pause, umac, rgmii_link, reg_lock, pc, reg, cmd,
          want, clk_eee, clk_eee_enabled, eee>>
eees == <<clk_eee, clk_eee_enabled, eee>>

Actors == {"phy", "ethtool", "stack"}
Bit == 0 .. 1
Bits == [speed : {10, 100, 1000}, hd : Bit, rx_ignore : Bit, tx_ignore : Bit]
Pauses == [autoneg : Bit, tx : Bit, rx : Bit]
NoBits == [speed |-> 10, hd |-> 0, rx_ignore |-> 0, tx_ignore |-> 0]
Down == [link |-> 0, speed |-> 10, full |-> 0, autoneg |-> 1,
         lp_pause |-> 0, lp_asym |-> 0, lpi |-> 0]
Up(l) == [link |-> 1, speed |-> l.speed, full |-> l.full, autoneg |-> l.autoneg,
          lp_pause |-> l.lp_pause, lp_asym |-> l.lp_asym, lpi |-> l.lpi]
Reset == [bits |-> NoBits, promisc |-> 0, reset |-> 1, en |-> 0]

LinkTypeOK ==
    /\ phy \in {Down} \cup {Up(l) : l \in Links}
    /\ adv \in [pause : Bit, asym : Bit]
    /\ {phy_lock, reg_lock} \subseteq Actors \cup {"none"}
    /\ pause \in Pauses
    /\ {umac, reg["phy"], reg["ethtool"], reg["stack"]}
        \subseteq [bits : Bits, promisc : Bit, reset : Bit, en : Bit]
    /\ {cmd["phy"], cmd["ethtool"]} \subseteq Bits
    /\ rgmii_link \in Bit
    /\ want.pause \in Pauses /\ want.promisc \in Bit
    /\ clk_eee \in Bit /\ clk_eee_enabled \in Bit
    /\ eee \in [umac : Bit, tbuf : Bit, rbuf : Bit]

\* bcmgenet_probe: flow control is negotiated, and allowed in both directions.
LinkInit ==
    /\ phy = Down /\ adv = [pause |-> 1, asym |-> 1] /\ phy_lock = "none"
    /\ pause = [autoneg |-> 1, tx |-> 1, rx |-> 1]
    /\ umac = Reset /\ rgmii_link = 0 /\ reg_lock = "none"
    /\ pc = [a \in Actors |-> "idle"]
    /\ reg = [a \in Actors |-> Reset]
    /\ cmd = [a \in {"phy", "ethtool"} |-> NoBits]
    /\ want = [pause |-> pause, promisc |-> 0]
    /\ clk_eee = 0 /\ clk_eee_enabled = 0
    /\ eee = [umac |-> 0, tbuf |-> 0, rbuf |-> 0]

At(a, p) == pc[a] = p
Goto(a, p) == pc' = [pc EXCEPT ![a] = p]
-----------------------------------------------------------------------------
(* bcmgenet_mac_config                                                       *)

\* phy_get_pause: what both ends advertise resolves to
Negotiated ==
    IF adv.pause = 1 /\ phy.lp_pause = 1 THEN [tx |-> 1, rx |-> 1]
    ELSE IF adv.asym = 1 /\ phy.lp_asym = 1
         THEN [tx |-> phy.lp_pause, rx |-> adv.pause]
         ELSE [tx |-> 0, rx |-> 0]

\* What the negotiation permits, where it is asked
Permitted ==
    IF pause.autoneg = 0 THEN [tx |-> 1, rx |-> 1]
    ELSE IF phy.autoneg = 1 THEN Negotiated ELSE [tx |-> 0, rx |-> 0]

CmdBits ==
    IF phy.full = 0
    THEN [speed |-> phy.speed, hd |-> 1, rx_ignore |-> 1, tx_ignore |-> 1]
    ELSE [speed |-> phy.speed, hd |-> 0,
          rx_ignore |-> 1 - pause.rx * Permitted.rx, tx_ignore |-> 1 - pause.tx * Permitted.tx]

MacConfig(a) ==
    /\ At(a, "config")
    /\ cmd' = [cmd EXCEPT ![a] = CmdBits]
    /\ rgmii_link' = 1
    /\ Goto(a, "lock")
    /\ UNCHANGED <<phy, adv, phy_lock, pause, umac, reg_lock, reg, want, eees>>

LockReg(a) == reg_lock = "none"

ReadCmd(a) ==
    /\ At(a, "lock") /\ LockReg(a)
    /\ reg_lock' = a
    /\ reg' = [reg EXCEPT ![a] = umac]
    /\ Goto(a, "write")
    /\ UNCHANGED <<phy, adv, phy_lock, pause, umac, rgmii_link, cmd, want, eees>>

\* The local copy goes out of scope.
Forget(a) == reg' = [reg EXCEPT ![a] = Reset]

\* Taken out of the soft reset, the MAC is enabled by a second write.
WriteCmd(a) ==
    /\ a # "stack" /\ At(a, "write")
    /\ LET r == [reg[a] EXCEPT !.bits = cmd[a]]
       IN IF r.reset = 1
          THEN /\ umac' = [r EXCEPT !.reset = 0]
               /\ reg' = [reg EXCEPT ![a] = [r EXCEPT !.reset = 0, !.en = 1]]
               /\ Goto(a, "enable") /\ UNCHANGED reg_lock
          ELSE /\ umac' = r /\ reg_lock' = "none" /\ Forget(a)
               /\ Goto(a, IF a = "phy" THEN "eee_on" ELSE "unlock")
    /\ cmd' = [cmd EXCEPT ![a] = NoBits]
    /\ UNCHANGED <<phy, adv, phy_lock, pause, rgmii_link, want, eees>>

EnableMac(a) ==
    /\ At(a, "enable")
    /\ umac' = reg[a] /\ reg_lock' = "none" /\ Forget(a)
    /\ Goto(a, IF a = "phy" THEN "eee_on" ELSE "unlock")
    /\ UNCHANGED <<phy, adv, phy_lock, pause, rgmii_link, cmd, want, eees>>
-----------------------------------------------------------------------------
(* The PHY state machine, in bcmgenet_mii_setup.                             *)
MiiSetup ==
    /\ At("phy", "idle") /\ phy_lock = "none"
    /\ phy_lock' = "phy"
    /\ \/ phy.link = 0 /\ \E l \in Links : phy' = Up(l)
       \/ phy.link = 1 /\ phy' = Down
    /\ IF phy'.link = 1 THEN Goto("phy", "config") /\ UNCHANGED rgmii_link
       ELSE rgmii_link' = 0 /\ Goto("phy", "eee_on")
    /\ UNCHANGED <<adv, pause, umac, reg_lock, reg, cmd, want, eees>>

\* bcmgenet_eee_enable_set: the clock first ...
EeeOn ==
    IF phy.lpi = 1 /\ clk_eee_enabled = 0
    THEN clk_eee' = clk_eee + 1 /\ clk_eee_enabled' = 1
    ELSE UNCHANGED <<clk_eee, clk_eee_enabled>>

EeeClockOn ==
    /\ At("phy", "eee_on") /\ EeeOn
    /\ Goto("phy", "eee_regs")
    /\ UNCHANGED <<phy, adv, phy_lock, pause, umac, rgmii_link, reg_lock, reg, cmd, want, eee>>

\* ... then the same bit in each of three blocks ...
EeeValue(block) == phy.lpi

EeeRegs ==
    /\ At("phy", "eee_regs")
    /\ eee' = [umac |-> EeeValue("umac"), tbuf |-> EeeValue("tbuf"), rbuf |-> EeeValue("rbuf")]
    /\ Goto("phy", "eee_off")
    /\ UNCHANGED <<phy, adv, phy_lock, pause, umac, rgmii_link, reg_lock, reg, cmd, want,
                   clk_eee, clk_eee_enabled>>

\* ... and the clock off last.
EeeClockOff ==
    /\ At("phy", "eee_off")
    /\ IF phy.lpi = 0 /\ clk_eee_enabled = 1
       THEN clk_eee' = clk_eee - 1 /\ clk_eee_enabled' = 0
       ELSE UNCHANGED <<clk_eee, clk_eee_enabled>>
    /\ phy_lock' = "none" /\ Goto("phy", "idle")
    /\ UNCHANGED <<phy, adv, pause, umac, rgmii_link, reg_lock, reg, cmd, want, eee>>
-----------------------------------------------------------------------------
(* ethtool, in bcmgenet_set_pauseparam.                                      *)
SetPause ==
    /\ At("ethtool", "idle")
    /\ \E p \in Pauses : want' = [want EXCEPT !.pause = p]
    /\ pause' = [pause EXCEPT !.autoneg = want'.pause.autoneg]
    /\ Goto("ethtool", "tx")
    /\ UNCHANGED <<phy, adv, phy_lock, umac, rgmii_link, reg_lock, reg, cmd, eees>>

SetTxPause ==
    /\ At("ethtool", "tx")
    /\ pause' = [pause EXCEPT !.tx = want.pause.tx]
    /\ Goto("ethtool", "rx")
    /\ UNCHANGED <<phy, adv, phy_lock, umac, rgmii_link, reg_lock, reg, cmd, want, eees>>

SetRxPause ==
    /\ At("ethtool", "rx")
    /\ pause' = [pause EXCEPT !.rx = want.pause.rx]
    /\ Goto("ethtool", "advertise")
    /\ UNCHANGED <<phy, adv, phy_lock, umac, rgmii_link, reg_lock, reg, cmd, want, eees>>

\* bcmgenet_phy_pause_set changes the advertisement, not under the lock; the
\* negotiation it restarts shows as a link that goes down and up.
Advertise ==
    /\ At("ethtool", "advertise")
    /\ adv' = [pause |-> pause.rx, asym |-> IF pause.rx + pause.tx > 0 THEN 1 ELSE 0]
    /\ Goto("ethtool", "phy")
    /\ UNCHANGED <<phy, phy_lock, pause, umac, rgmii_link, reg_lock, reg, cmd, want, eees>>

M_LockPhy_Free == TRUE
LockPhy == phy_lock = "none"

PhyPauseSet ==
    /\ At("ethtool", "phy") /\ LockPhy
    /\ phy_lock' = "ethtool"
    /\ Goto("ethtool", IF phy.link = 1 THEN "config" ELSE "unlock")
    /\ UNCHANGED <<phy, adv, pause, umac, rgmii_link, reg_lock, reg, cmd, want, eees>>

PauseSetEnds ==
    /\ At("ethtool", "unlock")
    /\ phy_lock' = "none" /\ Goto("ethtool", "idle")
    /\ UNCHANGED <<phy, adv, pause, umac, rgmii_link, reg_lock, reg, cmd, want, eees>>
-----------------------------------------------------------------------------
(* The stack, in bcmgenet_set_rx_mode.                                       *)
SetRxMode ==
    /\ At("stack", "idle")
    /\ \E b \in Bit : want' = [want EXCEPT !.promisc = b]
    /\ Goto("stack", "lock")
    /\ UNCHANGED <<phy, adv, phy_lock, pause, umac, rgmii_link, reg_lock, reg, cmd, eees>>

WriteRxMode ==
    /\ At("stack", "write")
    /\ umac' = [reg["stack"] EXCEPT !.promisc = want.promisc]
    /\ reg_lock' = "none" /\ Forget("stack") /\ Goto("stack", "idle")
    /\ UNCHANGED <<phy, adv, phy_lock, pause, rgmii_link, cmd, want, eees>>

LinkNext ==
    \/ \E a \in {"phy", "ethtool"} : MacConfig(a) \/ WriteCmd(a) \/ EnableMac(a)
    \/ \E a \in Actors : ReadCmd(a)
    \/ MiiSetup \/ EeeClockOn \/ EeeRegs \/ EeeClockOff
    \/ SetPause \/ SetTxPause \/ SetRxPause \/ Advertise \/ PhyPauseSet \/ PauseSetEnds
    \/ SetRxMode \/ WriteRxMode

LinkSpec == LinkInit /\ [][LinkNext]_link_vars
-----------------------------------------------------------------------------
Quiet == \A a \in {"phy", "ethtool"} : At(a, "idle")

(* Once a link change and a change of the flow control settings have both     *)
(* run to their ends, in whatever interleaving, the MAC of a link that is up  *)
(* sends pause frames only if the user allows it and, where the negotiation   *)
(* is asked, only to a partner that honours them; it obeys them only if the   *)
(* user allows it; and at half duplex it does neither (bcmgenet_mac_config).  *)
PauseRespected ==
    Quiet /\ phy.link = 1 =>
        /\ umac.bits.tx_ignore = 0 =>
            /\ phy.full = 1 /\ want.pause.tx = 1
            /\ want.pause.autoneg = 1 => phy.autoneg = 1 /\ phy.lp_pause = 1
        /\ umac.bits.rx_ignore = 0 =>
            /\ phy.full = 1 /\ want.pause.rx = 1
            /\ want.pause.autoneg = 1 => phy.autoneg = 1

(* And it uses all the flow control that both ends then agree on: no stale    *)
(* cmd_bits, computed before the settings or the link changed, is the last    *)
(* to be written.                                                             *)
LinkInForce ==
    Quiet /\ phy.link = 1 =>
        umac.bits = CmdBits /\ umac.reset = 0 /\ umac.en = 1 /\ rgmii_link = 1

(* No read-modify-write of UMAC_CMD undoes another: the promiscuous bit is    *)
(* what bcmgenet_set_rx_mode last wrote whatever bcmgenet_mac_config does.    *)
RxModeKept == At("stack", "idle") => umac.promisc = want.promisc

(* Energy-efficient Ethernet is on in no block whose clock is off, the clock's *)
(* count is never off by one, and between two link changes the three blocks   *)
(* agree with what the PHY negotiated.                                        *)
EeeClocked ==
    /\ 1 \in {eee.umac, eee.tbuf, eee.rbuf} => clk_eee = 1
    /\ clk_eee = clk_eee_enabled
    /\ At("phy", "idle") => {eee.umac, eee.tbuf, eee.rbuf, clk_eee} = {phy.lpi}

(* However a link change, a change of the flow control settings and one of    *)
(* the receive mode interleave, none undoes another and the settings in force *)
(* are those of the link and of the user (bcmgenet_mac_config,                *)
(* bcmgenet_set_pause_param, bcmgenet_set_rx_mode).                           *)
LinkAsAgreed ==
    LinkTypeOK /\ PauseRespected /\ LinkInForce /\ RxModeKept /\ EeeClocked
=============================================================================
