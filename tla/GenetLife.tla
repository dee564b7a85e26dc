----------------------------- MODULE GenetLife ------------------------------
(* The life of a Linux bcmgenet interface (bcmgenet.c, bcmgenet_wol.c,       *)
(* bcmmii.c): probe and remove, open and close with their error paths, and   *)
(* suspend and resume with and without Wake-on-LAN, while the interrupt      *)
(* handler bcmgenet_isr0, its bottom half and the PHY state machine run.     *)
(*                                                                           *)
(* The tasks that open, close, suspend and resume exclude each other; pc is  *)
(* the next piece of the one that runs.  Between two pieces the others step. *)
EXTENDS Integers

CONSTANTS
    Faults      \* "alloc": no memory or interrupt, "abort": a suspend is
                \* given up, "power": the MAC loses its state in its sleep

VARIABLES
    pc,
    pm,             \* "on", "suspended", "asleep", "woken", or "failed" to resume
    mii,            \* 1: the MDIO bus is registered
    bound,          \* 0, 1 once probed, 2 once removed
    running,        \* netif_running
    attached,       \* netif_device_attach
    wolopts,        \* "none", "magic" or "filter"
    wake_depth,     \* enable_irq_wake calls less disable_irq_wake calls
    clk, clk_wol,   \* enable counts
    gphy,           \* 1: the internal PHY is powered
    umac,           \* UMAC_CMD: [reset, rx, tx, crc]
    crc_fwd_en,
    skip_fcs,       \* RBUF_SKIP_FCS
    mpd, acpi,      \* MPD_EN, RBUF_ACPI_EN
    tdma, rdma,     \* DMA_EN
    cbs,            \* allocations of rx_cbs, tx_cbs and the receive buffers
    rx_napi, tx_napi,   \* "none", "off" or "on"
    irqs,           \* interrupt lines requested
    irq1_depth,     \* disable_irq calls less enable_irq calls
    unmasked, stat, \* INTRL2 0: events unmasked, events pending
    isr0,           \* the status a running bcmgenet_isr0 has read
    irq0_stat,
    work,           \* bcmgenet_irq_work: "idle" or "queued"
    tasked,         \* the status a running bcmgenet_irq_task has taken
    late,           \* 1: bcmgenet_isr0 still ran when interrupts were masked
    phy,            \* "none", "ready" (connected or stopped) or "running"
    kick,           \* 1: the PHY state machine is to look at the link
    link, mii_link  \* the link, and as bcmgenet_mii_setup last saw it

task == <<pc, pm, mii, bound, running, attached>>
wol == <<wolopts, wake_depth, mpd, acpi>>
clocks == <<clk, clk_wol, gphy>>
mac == <<umac, crc_fwd_en, skip_fcs>>
dma == <<tdma, rdma, cbs, rx_napi, tx_napi>>
lines == <<irqs, irq1_depth>>
intr == <<unmasked, stat>>
bh == <<isr0, irq0_stat, work, tasked, late>>
phys == <<phy, kick, link, mii_link>>
vars == <<task, wol, clocks, mac, dma, lines, intr, bh, phys>>

Events == {"link", "mdio", "wake"}
Off == [reset |-> 0, rx |-> 0, tx |-> 0, crc |-> 0]

TypeOK ==
    /\ pm \in {"on", "suspended", "asleep", "woken", "failed"}
    /\ mii \in 0 .. 1 /\ bound \in 0 .. 2
    /\ running \in 0 .. 1 /\ attached \in 0 .. 1
    /\ wolopts \in {"none", "magic", "filter"} /\ wake_depth \in 0 .. 1
    /\ clk \in 0 .. 1 /\ clk_wol \in 0 .. 1 /\ gphy \in 0 .. 1
    /\ umac \in [reset : 0 .. 1, rx : 0 .. 1, tx : 0 .. 1, crc : 0 .. 1]
    /\ crc_fwd_en \in 0 .. 1 /\ skip_fcs \in 0 .. 1
    /\ mpd \in 0 .. 1 /\ acpi \in 0 .. 1
    /\ tdma \in 0 .. 1 /\ rdma \in 0 .. 1 /\ cbs \in 0 .. 1
    /\ {rx_napi, tx_napi} \subseteq {"none", "off", "on"}
    /\ irqs \in 0 .. 2 /\ irq1_depth \in 0 .. 1
    /\ {unmasked, stat, isr0, irq0_stat, tasked} \subseteq SUBSET Events
    /\ work \in {"idle", "queued"} /\ late \in 0 .. 1
    /\ phy \in {"none", "ready", "running"}
    /\ kick \in 0 .. 1 /\ link \in 0 .. 1 /\ mii_link \in 0 .. 1

Init ==
    /\ pc = "idle" /\ pm = "on" /\ mii = 0 /\ bound = 0
    /\ running = 0 /\ attached = 1
    /\ wolopts = "none" /\ wake_depth = 0 /\ mpd = 0 /\ acpi = 0
    /\ clk = 0 /\ clk_wol = 0 /\ gphy = 0
    /\ umac = Off /\ crc_fwd_en = 0 /\ skip_fcs = 0
    /\ tdma = 0 /\ rdma = 0 /\ cbs = 0 /\ rx_napi = "none" /\ tx_napi = "none"
    /\ irqs = 0 /\ irq1_depth = 0
    /\ unmasked = {} /\ stat = {}
    /\ isr0 = {} /\ irq0_stat = {} /\ work = "idle" /\ tasked = {} /\ late = 0
    /\ phy = "none" /\ kick = 0 /\ link = 0 /\ mii_link = 0

At(p) == pc = p
Goto(p) == pc' = p /\ UNCHANGED <<pm, mii, bound, running, attached>>
-----------------------------------------------------------------------------
(* Pieces shared by several operations.                                      *)

\* bcmgenet_umac_reset and reset_umac leave the MAC in soft reset; init_umac
\* goes on to mask and clear all interrupts and to unmask MDIO's.
InitUmac ==
    /\ umac' = [Off EXCEPT !.reset = 1]
    /\ skip_fcs' = crc_fwd_en
    /\ unmasked' = {"mdio"} /\ stat' = {}

\* umac_enable_set does nothing while the MAC is in soft reset.
EnableSet(rx, tx) ==
    IF umac.reset = 1 THEN umac ELSE [umac EXCEPT !.rx = rx, !.tx = tx]

\* bcmgenet_power_up and bcmgenet_power_down, in mode GENET_POWER_PASSIVE
PowerUp == gphy' = 1

PowerDown == gphy' = 0

\* bcmgenet_init_dma
InitDma ==
    /\ cbs' = cbs + 1 /\ tdma' = 1 /\ rdma' = 1
    /\ rx_napi' = "off" /\ tx_napi' = "off"

\* bcmgenet_fini_dma; netif_napi_del may find a NAPI context deleted before.
FiniDma ==
    /\ cbs' = cbs - 1
    /\ rx_napi' = "none" /\ tx_napi' = "none"

\* bcmgenet_mac_config, with the link up
MacConfig ==
    IF umac.reset = 1 THEN [umac EXCEPT !.reset = 0, !.rx = 1, !.tx = 1] ELSE umac
-----------------------------------------------------------------------------
(* Probe and remove.                                                         *)
Probe ==
    /\ At("idle") /\ bound = 0 /\ pm = "on"
    /\ clk' = clk + 1 /\ PowerUp
    /\ umac' = [Off EXCEPT !.reset = 1]
    /\ Goto("probe_mii")
    /\ UNCHANGED <<wol, clk_wol, crc_fwd_en, skip_fcs, dma, lines, intr, bh, phys>>

\* bcmgenet_mii_init undoes its own failures.
ProbeMii ==
    /\ At("probe_mii")
    /\ clk' = clk - 1
    /\ \/ mii' = 1 /\ pc' = "probe_register"
       \/ "alloc" \in Faults /\ pc' = "idle" /\ UNCHANGED mii
    /\ UNCHANGED <<pm, bound, running, attached, wol, clk_wol, gphy, mac, dma, lines,
                   intr, bh, phys>>

\* register_netdev
ProbeRegister ==
    /\ At("probe_register")
    /\ \/ bound' = 1 /\ UNCHANGED mii
       \/ "alloc" \in Faults /\ mii' = mii - 1 /\ UNCHANGED bound
    /\ pc' = "idle"
    /\ UNCHANGED <<pm, running, attached, wol, clocks, mac, dma, lines, intr,
                   bh, phys>>

\* unregister_netdev closes the interface first.
Remove ==
    /\ At("idle") /\ bound = 1 /\ running = 0 /\ pm = "on"
    /\ bound' = 2 /\ mii' = mii - 1
    /\ UNCHANGED <<pc, pm, running, attached, wol, clocks, mac, dma, lines,
                   intr, bh, phys>>
-----------------------------------------------------------------------------
(* Open.                                                                     *)
Open ==
    /\ At("idle") /\ bound = 1 /\ running = 0 /\ pm = "on"
    /\ clk' = clk + 1 /\ PowerUp
    /\ InitUmac
    /\ crc_fwd_en' = umac'.crc     \* bcmgenet_set_features
    /\ Goto("open_dma")
    /\ UNCHANGED <<wol, clk_wol, dma, lines, bh, phys>>

OpenDma ==
    /\ At("open_dma")
    /\ InitDma
    /\ Goto("open_irq")
    /\ UNCHANGED <<wol, clocks, mac, lines, intr, bh, phys>>

\* bcmgenet_init_dma fails: err_clk_disable
OpenNoDma ==
    /\ At("open_dma") /\ "alloc" \in Faults
    /\ clk' = clk - 1 /\ PowerDown
    /\ Goto("idle")
    /\ UNCHANGED <<wol, clk_wol, mac, dma, lines, intr, bh, phys>>

\* request_irq for irq0, then for irq1
OpenIrq ==
    /\ At("open_irq")
    /\ irqs' = irqs + 1
    /\ Goto(IF irqs = 0 THEN "open_irq" ELSE "open_phy")
    /\ UNCHANGED <<wol, clocks, mac, dma, irq1_depth, intr, bh, phys>>

\* bcmgenet_mii_probe
OpenPhy ==
    /\ At("open_phy")
    /\ phy' = "ready" /\ mii_link' = 0
    /\ Goto("start")
    /\ UNCHANGED <<wol, clocks, mac, dma, lines, intr, bh, kick, link>>

\* free_irq for what was requested
FreeIrqs == 0

\* err_irq1, err_irq0, err_fini_dma, err_clk_disable; free_irq waits for the
\* handlers.
OpenFails ==
    /\ pc \in {"open_irq", "open_phy"} /\ "alloc" \in Faults
    /\ isr0 = {}
    /\ irqs' = FreeIrqs
    /\ tdma' = 0 /\ rdma' = 0
    /\ FiniDma
    /\ clk' = clk - 1 /\ PowerDown
    /\ Goto("idle")
    /\ UNCHANGED <<wol, clk_wol, mac, irq1_depth, intr, bh, phys>>

\* bcmgenet_netif_start up to bcmgenet_enable_tx_napi
Start ==
    /\ At("start")
    /\ rx_napi' = "on"
    /\ umac' = EnableSet(1, 1)
    /\ tx_napi' = "on"
    /\ Goto("start_phy")
    /\ UNCHANGED <<wol, clocks, crc_fwd_en, skip_fcs, tdma, rdma, cbs, lines,
                   intr, bh, phys>>

\* bcmgenet_link_intr_enable, phy_start, and the end of bcmgenet_open or of
\* bcmgenet_resume
StartPhy ==
    /\ At("start_phy")
    /\ unmasked' = unmasked \cup {"link"}
    /\ phy' = "running" /\ kick' = 1 /\ late' = 0
    /\ running' = 1 /\ attached' = 1 /\ pm' = "on" /\ pc' = "idle"
    /\ UNCHANGED <<mii, bound, wol, clocks, mac, dma, lines, stat, isr0, irq0_stat,
                   work, tasked, link, mii_link>>
-----------------------------------------------------------------------------
(* bcmgenet_netif_stop, in bcmgenet_close (pm is "on" or "failed") and       *)
(* without Wake-on-LAN in bcmgenet_suspend.                                  *)
Close ==
    /\ At("idle") /\ running = 1 /\ pm \in {"on", "failed"}
    /\ umac' = EnableSet(0, umac.tx)
    /\ Goto("stop_dma")
    /\ UNCHANGED <<wol, clocks, crc_fwd_en, skip_fcs, dma, lines, intr, bh, phys>>

Suspend ==
    /\ At("idle") /\ running = 1 /\ pm \in {"on", "failed"} /\ wolopts = "none"
    /\ umac' = EnableSet(0, umac.tx)
    /\ attached' = 0 /\ pm' = (IF pm = "on" THEN "suspended" ELSE pm)
    /\ pc' = "stop_phy"
    /\ UNCHANGED <<mii, bound, running, wol, clocks, crc_fwd_en, skip_fcs, dma,
                   lines, intr, bh, phys>>

StopPhy ==
    /\ At("stop_phy")
    /\ phy' = "ready" /\ kick' = 0
    /\ Goto("stop_dma")
    /\ UNCHANGED <<wol, clocks, mac, dma, lines, intr, bh, link, mii_link>>

\* bcmgenet_dma_teardown, and the MAC's transmitter
StopDma ==
    /\ At("stop_dma")
    /\ tdma' = 0 /\ rdma' = 0
    /\ umac' = EnableSet(umac.rx, 0)
    /\ Goto("stop_napi")
    /\ UNCHANGED <<wol, clocks, crc_fwd_en, skip_fcs, cbs, rx_napi, tx_napi,
                   lines, intr, bh, phys>>

\* napi_disable, which waits for ever if NAPI is not enabled, and
\* bcmgenet_intr_disable
StopNapi ==
    /\ At("stop_napi")
    /\ rx_napi = "on" /\ tx_napi = "on"
    /\ rx_napi' = "off" /\ tx_napi' = "off"
    /\ unmasked' = {} /\ stat' = {}
    /\ late' = IF "link" \in isr0 THEN 1 ELSE 0
    /\ Goto("stop_work")
    /\ UNCHANGED <<wol, clocks, mac, tdma, rdma, cbs, lines, isr0, irq0_stat, work,
                   tasked, phys>>

M_CancelWork_Not == work

\* cancel_work_sync drops a queued work item and waits for a running one.
CancelWork == "idle"

StopWork ==
    /\ At("stop_work") /\ tasked = {}
    /\ work' = CancelWork
    /\ Goto("stop_fini")
    /\ UNCHANGED <<wol, clocks, mac, dma, lines, intr, isr0, irq0_stat, tasked,
                   late, phys>>

StopFini ==
    /\ At("stop_fini")
    /\ FiniDma
    /\ Goto(IF pm = "on" THEN "close_phy" ELSE "idle")
    /\ UNCHANGED <<wol, clocks, mac, tdma, rdma, lines, intr, bh, phys>>

\* phy_disconnect
ClosePhy ==
    /\ At("close_phy")
    /\ phy' = "none" /\ kick' = 0
    /\ Goto("close_irq")
    /\ UNCHANGED <<wol, clocks, mac, dma, lines, intr, bh, link, mii_link>>

\* free_irq, which waits for a running handler, and the clock
CloseIrq ==
    /\ At("close_irq") /\ isr0 = {}
    /\ irqs' = FreeIrqs
    /\ clk' = clk - 1 /\ PowerDown
    /\ running' = 0 /\ pc' = "idle"
    /\ UNCHANGED <<pm, mii, bound, attached, wol, clk_wol, mac, dma, irq1_depth,
                   intr, bh, phys>>
-----------------------------------------------------------------------------
(* Suspend and resume.                                                       *)

\* bcmgenet_suspend with Wake-on-LAN: reception stays on.
SuspendWol ==
    /\ At("idle") /\ running = 1 /\ pm \in {"on", "failed"} /\ wolopts # "none"
    /\ rx_napi = "on" /\ tx_napi = "on"     \* for napi_disable
    /\ attached' = 0 /\ pm' = "suspended"
    /\ unmasked' = {} /\ stat' = {}
    /\ tdma' = 0
    /\ rx_napi' = "off" /\ tx_napi' = "none"
    /\ irq1_depth' = irq1_depth + 1
    /\ UNCHANGED <<pc, mii, bound, running, wol, clocks, mac, rdma, cbs, irqs,
                   bh, phys>>

\* Link updates stop while the device sleeps.
PhyAsleep == "ready"

\* bcmgenet_wol_power_down_cfg, when the MAC reaches WoL mode
WolPowerDown ==
    /\ mpd' = IF wolopts = "magic" THEN 1 ELSE mpd
    /\ acpi' = 1
    /\ phy' = PhyAsleep
    /\ clk_wol' = clk_wol + 1
    /\ crc_fwd_en' = 1
    /\ umac' = [umac EXCEPT !.reset = 0, !.rx = 1, !.crc = 1]
    /\ unmasked' = unmasked \cup {"wake"}

\* bcmgenet_suspend_noirq.  Device interrupts are off and handlers have
\* returned.
SuspendNoirq ==
    /\ At("idle") /\ pm = "suspended" /\ isr0 = {}
    /\ IF wolopts = "none"
       THEN /\ PowerDown
            /\ UNCHANGED <<clk_wol, umac, crc_fwd_en, mpd, acpi, unmasked, phy>>
       ELSE WolPowerDown /\ UNCHANGED gphy
    /\ clk' = clk - 1
    /\ pm' = "asleep"
    /\ UNCHANGED <<pc, mii, bound, running, attached, wolopts, wake_depth,
                   skip_fcs, dma, lines, stat, bh, kick, link, mii_link>>

\* Asleep, a packet wakes the system, or the MAC loses its registers.
WakeEvent ==
    /\ pm = "asleep" /\ "wake" \in unmasked
    /\ stat' = stat \cup {"wake"}
    /\ UNCHANGED <<task, wol, clocks, mac, dma, lines, unmasked, bh, phys>>

PowerLost ==
    /\ pm = "asleep" /\ "power" \in Faults
    /\ umac' = Off /\ skip_fcs' = 0 /\ mpd' = 0 /\ acpi' = 0
    /\ tdma' = 0 /\ rdma' = 0 /\ unmasked' = {} /\ stat' = {}
    /\ UNCHANGED <<task, wolopts, wake_depth, clocks, crc_fwd_en, cbs, rx_napi,
                   tx_napi, lines, bh, phys>>

\* CMD_CRC_FWD is cleared.
CrcOff == [umac EXCEPT !.crc = 0]

\* The MAC has not been reset since bcmgenet_wol_power_down_cfg.
InWolMode == acpi = 1 /\ (wolopts = "magic" => mpd = 1)

\* bcmgenet_wol_power_up_cfg, which gives up at the first bit found cleared
WolPowerUp ==
    /\ clk_wol' = clk_wol - 1 /\ crc_fwd_en' = 0
    /\ unmasked' = (unmasked \ {"wake"}) \cup {"mdio"}
    /\ mpd' = IF wolopts = "magic" THEN 0 ELSE mpd
    /\ IF InWolMode THEN acpi' = 0 /\ umac' = CrcOff /\ phy' = "running"
                    ELSE UNCHANGED <<acpi, phy>>

\* bcmgenet_resume_noirq: without Wake-on-LAN, and if it was lost, the PHY is
\* powered and the MAC reset.
ResumeNoirq ==
    /\ At("idle") /\ pm = "asleep"
    /\ clk' = clk + 1
    /\ IF wolopts = "none" THEN UNCHANGED <<clk_wol, crc_fwd_en, unmasked, mpd, acpi, phy>>
                           ELSE WolPowerUp
    /\ IF wolopts # "none" /\ InWolMode THEN UNCHANGED gphy
                                        ELSE PowerUp /\ umac' = Off
    /\ pm' = "woken"
    /\ UNCHANGED <<pc, mii, bound, running, attached, wolopts, wake_depth,
                   skip_fcs, dma, lines, stat, bh, kick, link, mii_link>>

\* The framework calls bcmgenet_resume after bcmgenet_resume_noirq, or without
\* it if the suspend is given up, be it that the MAC does not reach WoL mode.
Resuming ==
    /\ At("idle")
    /\ pm = "woken" \/ (pm = "suspended" /\ "abort" \in Faults)

\* enable_irq(priv->irq1)
EnableIrq1 == irq1_depth - 1

M_PhyKicked_Not == kick

\* phy_start_machine
PhyKicked == 1

\* bcmgenet_resume, with reception still on: only data flows are resumed.
ResumeFlows ==
    /\ Resuming /\ wolopts # "none" /\ umac.rx = 1
    /\ rx_napi' = "on" /\ tdma' = 1 /\ tx_napi' = "on"
    /\ unmasked' = unmasked \cup {"link"}
    /\ kick' = PhyKicked
    /\ attached' = 1 /\ pm' = "on"
    /\ irq1_depth' = EnableIrq1
    /\ UNCHANGED <<pc, mii, bound, running, wol, clocks, mac, rdma, cbs, irqs,
                   stat, bh, phy, link, mii_link>>

\* bcmgenet_rdma_disable
RdmaOff == 0

\* The MAC was reset: bcmgenet_netif_stop is completed.
ResumeReset ==
    /\ Resuming /\ wolopts # "none" /\ umac.rx = 0
    /\ umac' = EnableSet(0, 0)
    /\ rdma' = RdmaOff
    /\ unmasked' = {} /\ stat' = {}
    /\ FiniDma
    /\ irq1_depth' = EnableIrq1
    /\ Goto("resume_init")
    /\ UNCHANGED <<wol, clocks, crc_fwd_en, skip_fcs, tdma, irqs, bh, phys>>

ResumeCold ==
    /\ Resuming /\ wolopts = "none"
    /\ Goto("resume_init")
    /\ UNCHANGED <<wol, clocks, mac, dma, lines, intr, bh, phys>>

\* init_umac and the rest of bcmgenet_resume up to bcmgenet_init_dma
ResumeInit ==
    /\ At("resume_init")
    /\ InitUmac
    /\ crc_fwd_en' = umac'.crc
    /\ Goto("resume_dma")
    /\ UNCHANGED <<wol, clocks, dma, lines, bh, phys>>

ResumeDma ==
    /\ At("resume_dma")
    /\ InitDma
    /\ Goto("start")
    /\ UNCHANGED <<wol, clocks, mac, lines, intr, bh, phys>>

\* bcmgenet_init_dma fails: out_clk_disable.  The framework goes on with a device
\* that is still netif_running.
ResumeNoDma ==
    /\ At("resume_dma") /\ "alloc" \in Faults
    /\ clk' = clk - 1 /\ PowerDown
    /\ pm' = "failed" /\ pc' = "idle"
    /\ UNCHANGED <<mii, bound, running, attached, wol, clk_wol, mac, dma, lines, intr,
                   bh, phys>>
-----------------------------------------------------------------------------
(* Wake-on-LAN settings, interrupts, and the link.                           *)

\* Enabled and disabled once each, by wol_irq_disabled.
WakeDepth(o) ==
    IF o = "none" /\ wolopts # "none" THEN wake_depth - 1
    ELSE IF o # "none" /\ wolopts = "none" THEN wake_depth + 1
    ELSE wake_depth

\* bcmgenet_set_wol
SetWol(o) ==
    /\ At("idle") /\ bound = 1 /\ pm = "on"
    /\ wolopts' = o /\ wake_depth' = WakeDepth(o)
    /\ UNCHANGED <<task, mpd, acpi, clocks, mac, dma, lines, intr, bh, phys>>

\* bcmgenet_isr0 reads and clears the status ...
Isr0Read ==
    /\ irqs > 0 /\ pm # "asleep" /\ isr0 = {}
    /\ stat \cap unmasked # {}
    /\ isr0' = stat \cap unmasked /\ stat' = stat \ unmasked
    /\ UNCHANGED <<task, wol, clocks, mac, dma, lines, unmasked, irq0_stat, work,
                   tasked, late, phys>>

\* ... and schedules its bottom half.
Isr0Schedule ==
    /\ isr0 # {}
    /\ isr0' = {}
    /\ irq0_stat' = irq0_stat \cup (isr0 \cap {"link"})
    /\ work' = IF "link" \in isr0 THEN "queued" ELSE work
    /\ UNCHANGED <<task, wol, clocks, mac, dma, lines, intr, tasked, late, phys>>

\* bcmgenet_irq_task takes irq0_stat under priv->lock ...
IrqTask ==
    /\ work = "queued" /\ tasked = {}
    /\ work' = "idle" /\ tasked' = irq0_stat /\ irq0_stat' = {}
    /\ UNCHANGED <<task, wol, clocks, mac, dma, lines, intr, isr0, late, phys>>

\* ... and phy_mac_interrupt triggers the PHY's state machine, whether or not
\* dev->phydev is there.
IrqTaskPhy ==
    /\ tasked # {}
    /\ tasked' = {} /\ kick' = 1
    /\ UNCHANGED <<task, wol, clocks, mac, dma, lines, intr, isr0, irq0_stat,
                   work, late, phy, link, mii_link>>

\* The PHY sees its link come or go.
LinkChange ==
    /\ link' = 1 - link
    /\ stat' = IF clk = 1 THEN stat \cup {"link"} ELSE stat
    /\ UNCHANGED <<task, wol, clocks, mac, dma, lines, unmasked, bh, phy, kick,
                   mii_link>>

\* An MDIO transfer ends, one of phylib's or of bcmgenet_resume's.
MdioDone ==
    /\ phy # "none" /\ (pm = "on" \/ At("resume_dma"))
    /\ stat' = stat \cup {"mdio"}
    /\ UNCHANGED <<task, wol, clocks, mac, dma, lines, unmasked, bh, phys>>

\* phylib's state machine calls bcmgenet_mii_setup.
PhyStateMachine ==
    /\ phy = "running" /\ kick = 1
    /\ kick' = 0 /\ mii_link' = link
    /\ umac' = IF link = 1 THEN MacConfig ELSE umac
    /\ UNCHANGED <<task, wol, clocks, crc_fwd_en, skip_fcs, dma, lines, intr, bh,
                   phy, link>>

Suspending ==
    \/ SuspendWol \/ SuspendNoirq \/ WakeEvent \/ PowerLost
    \/ ResumeNoirq \/ ResumeFlows \/ ResumeReset \/ ResumeCold
    \/ ResumeInit \/ ResumeDma \/ ResumeNoDma

Opening ==
    \/ Open \/ OpenDma \/ OpenNoDma \/ OpenIrq \/ OpenPhy \/ OpenFails
    \/ Start \/ StartPhy

Stopping ==
    \/ Close \/ Suspend \/ StopPhy \/ StopDma \/ StopNapi \/ StopWork
    \/ StopFini \/ ClosePhy \/ CloseIrq

Probing == Probe \/ ProbeMii \/ ProbeRegister \/ Remove

Next ==
    \/ Probing
    \/ Opening
    \/ Stopping
    \/ Suspending
    \/ \E o \in {"none", "magic", "filter"} : SetWol(o)
    \/ Isr0Read \/ Isr0Schedule \/ IrqTask \/ IrqTaskPhy
    \/ LinkChange \/ MdioDone \/ PhyStateMachine

\* Handlers, work items and the PHY state machine run when they are due.
Fairness ==
    /\ WF_vars(Isr0Read) /\ WF_vars(Isr0Schedule)
    /\ WF_vars(IrqTask) /\ WF_vars(IrqTaskPhy)
    /\ WF_vars(PhyStateMachine)

Spec == Init /\ [][Next]_vars

FairSpec == Spec /\ Fairness
-----------------------------------------------------------------------------
(* An interface that is up and not being suspended, resumed or closed works: *)
(* whatever path led there, its clocks, DMA engines, NAPI contexts,          *)
(* interrupt lines and PHY are all on, once, and Wake-on-LAN is off.         *)
RunningReady ==
    At("idle") /\ running = 1 /\ pm = "on" =>
        /\ clk = 1 /\ clk_wol = 0 /\ attached = 1
        /\ cbs = 1 /\ tdma = 1 /\ rdma = 1
        /\ rx_napi = "on" /\ tx_napi = "on"
        /\ irqs = 2 /\ irq1_depth = 0 /\ "link" \in unmasked
        /\ mpd = 0 /\ acpi = 0 /\ phy = "running" /\ gphy = 1

(* An interface that is down, after bcmgenet_close or a bcmgenet_open that   *)
(* failed at any of its steps, holds nothing.                                *)
ClosedClean ==
    At("idle") /\ running = 0 =>
        /\ clk = 0 /\ clk_wol = 0 /\ cbs = 0 /\ tdma = 0 /\ rdma = 0
        /\ rx_napi = "none" /\ tx_napi = "none"
        /\ irqs = 0 /\ isr0 = {} /\ phy = "none"

(* Nothing that may touch a register runs while the clocks are off: neither  *)
(* the handlers, nor a poll, nor the PHY state machine with                  *)
(* bcmgenet_mii_setup, nor the bottom half of bcmgenet_isr0, unless that     *)
(* handler was caught by bcmgenet_netif_stop or bcmgenet_resume failed.      *)
RegistersClocked ==
    pm # "failed" =>
        /\ isr0 # {} \/ rx_napi = "on" \/ tx_napi = "on" \/ phy = "running" => clk = 1
        /\ tasked # {} /\ late = 0 => clk = 1 \/ clk_wol = 1

(* Once bcmgenet_netif_stop has cancelled the work item, none is scheduled   *)
(* or running, and none meets an interface without a PHY, unless             *)
(* bcmgenet_isr0 had already read a link event when interrupts were masked:  *)
(* "Since interrupts are disabled no new work will be scheduled" holds only  *)
(* then.                                                                     *)
WorkStops ==
    late = 0 /\ (pc \in {"stop_fini", "close_phy", "close_irq"} \/ phy = "none")
        => work = "idle" /\ tasked = {}

(* A bcmgenet_resume that finds no memory holds neither clock nor DMA, and   *)
(* the interface stays detached.                                             *)
FailedClean ==
    pm = "failed" =>
        /\ clk = 0 /\ clk_wol = 0 /\ gphy = 0 /\ attached = 0
        /\ cbs = 0 /\ tdma = 0 /\ rdma = 0 /\ rx_napi = "none" /\ tx_napi = "none"

(* Frames are received with the settings bcmgenet_desc_rx assumes: the MAC   *)
(* forwards the CRC, and the checksum block skips it, just when crc_fwd_en   *)
(* says so, although Wake-on-LAN turns it on and the MAC may be reset        *)
(* meanwhile.                                                                *)
CrcAgrees == rx_napi = "on" => crc_fwd_en = umac.crc /\ skip_fcs = crc_fwd_en

(* The receive engine never runs on buffers that have been freed.            *)
BuffersSafe == cbs = 0 => rdma = 0 /\ tdma = 0

(* The link state the driver acted on catches up with the PHY's, also when   *)
(* the link changed while interrupts were masked for a suspend.              *)
LinkTracked ==
    running = 1 /\ pm = "on" /\ link # mii_link
        ~> link = mii_link \/ running = 0 \/ pm # "on" \/ pc # "idle"

(* MDIO completion interrupts are enabled while the interface is up.         *)
MdioEnabled ==
    At("idle") /\ running = 1 /\ pm = "on" => "mdio" \in unmasked

(* Once bcmgenet_mii_setup has seen the link come up, the MAC receives and   *)
(* transmits.                                                                *)
LinkUpTransmits ==
    At("idle") /\ running = 1 /\ pm = "on" /\ mii_link = 1 /\ kick = 0
        => umac.tx = 1 /\ umac.rx = 1
=============================================================================
