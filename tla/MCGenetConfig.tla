--------------------------- MODULE MCGenetConfig ----------------------------
(* The parts of the GENET driver around its rings, side by side: the life of  *)
(* the interface, the flow filter, the address filter, the link configuration *)
(* and interrupt moderation.  Each has registers and fields of its own; Init  *)
(* picks the one that moves.                                                  *)
EXTENDS GenetLink, GenetCoalesce

CONSTANTS a1, a2, a3, a4, Broadcast

VARIABLES part,
          task, pm, mii, bound, ifup, attached, wolopts, wake_depth, clk, clk_wol, gphy, mac,
          crc_fwd_en, skip_fcs, mpd, acpi, tdma, rdma, cbs, rx_napi, tx_napi, irqs, irq1_depth,
          unmasked, stat, isr0, irq0_stat, irq_work, tasked, late_isr, phydev, kick, link,
          mii_link,
          rules, list, flt_enable, hfb_en, index2ring, flt_len, words, asleep,
          dev_addr, wanted, flags, up, promisc, mdf, mdf_ctrl, todo

\* An interface with every fault of its environment
Life == INSTANCE GenetLife WITH Faults <- {"alloc", "abort", "power"}, pc <- task, umac <- mac,
                                running <- ifup, work <- irq_work, late <- late_isr,
                                phy <- phydev

\* The flows exercise each field, odd offsets, half-byte masks, a VLAN tag and
\* FLOW_MAC_EXT, also where the flow has a destination address of its own;
\* "odd" is a mask of other bits, which is refused.
SomeFlows ==
    {[type |-> "ether", mac_ext |-> "none",
      masks |-> [h_dest |-> "all", h_source |-> "lo", h_proto |-> "all"]],
     [type |-> "ether", mac_ext |-> "all",
      masks |-> [h_dest |-> "lo", h_source |-> "all"]],
     [type |-> "ether", mac_ext |-> "all", masks |-> [h_proto |-> "all"]],
     [type |-> "ether", mac_ext |-> "none",
      masks |-> [h_dest |-> "hi", h_proto |-> "all", vlan_tci |-> "lo"]],
     [type |-> "ip", mac_ext |-> "all",
      masks |-> [tos |-> "hi", ip4src |-> "all"]],
     [type |-> "ip", mac_ext |-> "none",
      masks |-> [tos |-> "all", proto |-> "all", ip4dst |-> "lo", l4 |-> "all",
                 vlan_etype |-> "all", vlan_tci |-> "all"]],
     [type |-> "ip", mac_ext |-> "none", masks |-> [proto |-> "odd"]]}

Filter == INSTANCE GenetFilter WITH MAX_NUM_OF_FS_RULES <- 2, RxQueues <- 1,
                                    hfb_filter_size <- 128, Flows <- SomeFlows

\* Four addresses and a filter of four entries: one too few
Mdf == INSTANCE GenetMdf WITH MAX_MDF_FILTER <- 4, Addresses <- {a1, a2, a3, a4},
                              running <- up

\* A symmetric and an asymmetric partner, one without negotiation, half duplex
SomeLinks == {
    [speed |-> 1000, full |-> 1, autoneg |-> 1, lp_pause |-> 1, lp_asym |-> 1, lpi |-> 1],
    [speed |-> 1000, full |-> 1, autoneg |-> 1, lp_pause |-> 0, lp_asym |-> 1, lpi |-> 0],
    [speed |-> 100, full |-> 1, autoneg |-> 0, lp_pause |-> 0, lp_asym |-> 0, lpi |-> 0],
    [speed |-> 100, full |-> 0, autoneg |-> 1, lp_pause |-> 1, lp_asym |-> 0, lpi |-> 1]}

\* Zero, the limit of each field and one past it; one of net_dim's profiles
MCUsecs == {0, 524281, 524282}
MCPkts == {0, 512}
MCTxPkts == {1, 512}
MCProfile == [usecs |-> 8, pkts |-> 256]
MCProfiles == {MCProfile}
MCRings == 0 .. 1
-----------------------------------------------------------------------------
life_vars == <<task, pm, mii, bound, ifup, attached, wolopts, wake_depth, clk, clk_wol, gphy,
               mac, crc_fwd_en, skip_fcs, mpd, acpi, tdma, rdma, cbs, rx_napi, tx_napi, irqs,
               irq1_depth, unmasked, stat, isr0, irq0_stat, irq_work, tasked, late_isr, phydev,
               kick, link, mii_link>>
filter_vars == <<rules, list, flt_enable, hfb_en, index2ring, flt_len, words, asleep>>
mdf_vars == <<dev_addr, wanted, flags, up, promisc, mdf, mdf_ctrl, todo>>

\* Filters are large values: they are there for the part they belong to.
FilterAbsent ==
    /\ rules = <<>> /\ list = <<>> /\ flt_enable = {} /\ hfb_en = 0
    /\ index2ring = <<>> /\ flt_len = <<>> /\ words = <<>> /\ asleep = "no"

ConfigInit ==
    /\ part \in {"interface", "filter", "mdf", "link", "coalesce"}
    /\ Life!Init /\ Mdf!Init /\ LinkInit /\ CoalesceInit
    /\ IF part = "filter" THEN Filter!Init ELSE FilterAbsent
    /\ part # "mdf" => dev_addr = a1

ConfigNext ==
    /\ \/ /\ part = "interface" /\ Life!Next
          /\ UNCHANGED <<filter_vars, mdf_vars, link_vars, coalesce_vars>>
       \/ /\ part = "filter" /\ Filter!Next
          /\ UNCHANGED <<life_vars, mdf_vars, link_vars, coalesce_vars>>
       \/ /\ part = "mdf" /\ Mdf!Next
          /\ UNCHANGED <<life_vars, filter_vars, link_vars, coalesce_vars>>
       \/ /\ part = "link" /\ LinkNext
          /\ UNCHANGED <<life_vars, filter_vars, mdf_vars, coalesce_vars>>
       \/ /\ part = "coalesce" /\ CoalesceNext
          /\ UNCHANGED <<life_vars, filter_vars, mdf_vars, link_vars>>
    /\ UNCHANGED part

\* The fairness is the interface's; no action of it is enabled initially.
ConfigSpec ==
    /\ ConfigInit
    /\ [][ConfigNext]_<<part, life_vars, filter_vars, mdf_vars, link_vars, coalesce_vars>>
    /\ Life!Fairness
-----------------------------------------------------------------------------
(* An interface that is up has all it needs, one that is down or failed to    *)
(* resume holds nothing, its work item is stopped with it, nothing touches a  *)
(* register without a clock, the receive path and the MAC agree about the     *)
(* CRC, and no DMA engine runs on freed buffers, whichever of open, close,    *)
(* suspend, resume and Wake-on-LAN went through or failed.  The exceptions,   *)
(* an interrupt caught by the stop and what follows a resume that failed, are *)
(* GenetLife's.                                                               *)
InterfaceSafe ==
    part = "interface" =>
        /\ Life!TypeOK /\ Life!RunningReady /\ Life!ClosedClean
        /\ Life!RegistersClocked /\ Life!CrcAgrees /\ Life!BuffersSafe
        /\ Life!WorkStops /\ Life!FailedClean

(* The driver catches up with the link (bcmgenet_mii_setup, bcmgenet_resume). *)
LinkTracked == Life!LinkTracked

(* The hardware filters do what was asked of them: each flow rule compares    *)
(* exactly its bytes and sends what matches where it says, also after         *)
(* Wake-on-LAN used the filters (bcmgenet_hfb_create_rxnfc_filter); and the   *)
(* address filter accepts the device's addresses and, unless they are too     *)
(* many, nothing else (bcmgenet_set_rx_mode).                                 *)
FiltersAsAsked ==
    /\ part = "filter" =>
          /\ Filter!TypeOK /\ Filter!FilterMatchesRule /\ Filter!LengthCovers
          /\ Filter!EnabledExactly /\ Filter!Routed /\ Filter!ListExact
    /\ part = "mdf" =>
          Mdf!TypeOK /\ Mdf!WantedReceived /\ Mdf!NothingElse /\ Mdf!FloodsLate
=============================================================================
