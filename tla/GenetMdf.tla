------------------------------ MODULE GenetMdf ------------------------------
(* The addresses a Linux bcmgenet interface receives: bcmgenet_set_rx_mode   *)
(* and bcmgenet_set_mac_addr against the MAC's destination address filter    *)
(* (MDF), whose entries are programmed one at a time while frames arrive.    *)
EXTENDS Integers, FiniteSets, SequencesExt

CONSTANTS
    MAX_MDF_FILTER,
    Addresses,          \* unicast and multicast addresses
    Broadcast

VARIABLES
    dev_addr, wanted,   \* the device's address; its address lists
    flags,              \* 1: IFF_PROMISC or IFF_ALLMULTI
    running,
    promisc,            \* CMD_PROMISC
    mdf,                \* UMAC_MDF_ADDR
    mdf_ctrl,           \* UMAC_MDF_CTRL: the bits set
    todo                \* entries bcmgenet_set_rx_mode still has to write

net == <<dev_addr, wanted, flags, running>>
vars == <<net, promisc, mdf, mdf_ctrl, todo>>

Entries == 0 .. MAX_MDF_FILTER - 1

\* Bit MAX_MDF_FILTER - 1 - i of UMAC_MDF_CTRL enables entry i.
Enabled(i) == MAX_MDF_FILTER - 1 - i \in mdf_ctrl

TypeOK ==
    /\ dev_addr \in Addresses /\ wanted \subseteq Addresses \ {dev_addr}
    /\ flags \in 0 .. 1 /\ running \in 0 .. 1 /\ promisc \in 0 .. 1
    /\ mdf \in [Entries -> Addresses \cup {Broadcast}]
    /\ mdf_ctrl \subseteq Entries
    /\ Len(todo) <= MAX_MDF_FILTER

Init ==
    /\ dev_addr \in Addresses /\ wanted = {} /\ flags = 0 /\ running = 0
    /\ promisc = 0 /\ mdf = [i \in Entries |-> Broadcast] /\ mdf_ctrl = {}
    /\ todo = <<>>

Idle == todo = <<>>

\* The lists, the broadcast address and the device's own
Nfilter(w) == Cardinality(w) + 2

\* When the filters do not do
Floods(w, f) == f = 1 \/ Nfilter(w) > MAX_MDF_FILTER

\* bcmgenet_set_rx_mode up to its first bcmgenet_set_mdf_addr
SetRxMode(a, w, f) ==
    IF Floods(w, f)
    THEN promisc' = 1 /\ mdf_ctrl' = {} /\ UNCHANGED <<mdf, todo>>
    ELSE /\ promisc' = 0
         /\ todo' = <<Broadcast, a>> \o SetToSeq(w)
         /\ UNCHANGED <<mdf, mdf_ctrl>>

\* The stack changes the lists or flags of an interface that is up.
Change(w, f) ==
    /\ Idle /\ running = 1
    /\ wanted' = w \ {dev_addr} /\ flags' = f
    /\ SetRxMode(dev_addr, w \ {dev_addr}, f)
    /\ UNCHANGED <<dev_addr, running>>

\* The lists of one that is down are remembered.
ChangeDown(w, f) ==
    /\ Idle /\ running = 0
    /\ wanted' = w \ {dev_addr} /\ flags' = f
    /\ UNCHANGED <<dev_addr, running, promisc, mdf, mdf_ctrl, todo>>

\* bcmgenet_open and bcmgenet_netif_start, after a reset of the MAC
Open ==
    /\ Idle /\ running = 0
    /\ running' = 1
    /\ SetRxMode(dev_addr, wanted, flags)
    /\ UNCHANGED <<dev_addr, wanted, flags>>

Close ==
    /\ Idle /\ running = 1
    /\ running' = 0
    /\ UNCHANGED <<dev_addr, wanted, flags, promisc, mdf, mdf_ctrl, todo>>

\* bcmgenet_set_mac_addr refuses while the interface is up.
SetMacAddr(a) ==
    /\ Idle /\ running = 0
    /\ dev_addr' = a /\ wanted' = wanted \ {a}
    /\ UNCHANGED <<flags, running, promisc, mdf, mdf_ctrl, todo>>

\* GENMASK(MAX_MDF_FILTER - 1, MAX_MDF_FILTER - nfilter)
Enables(n) == MAX_MDF_FILTER - n .. MAX_MDF_FILTER - 1

\* The entry to be written next
Slot == Nfilter(wanted) - Len(todo)

\* bcmgenet_set_mdf_addr, and the enable bits after the last one
SetMdfAddr ==
    /\ todo # <<>>
    /\ mdf' = [mdf EXCEPT ![Slot] = Head(todo)]
    /\ todo' = Tail(todo)
    /\ mdf_ctrl' = IF Len(todo) > 1 THEN mdf_ctrl
                   ELSE Enables(Nfilter(wanted))
    /\ UNCHANGED <<net, promisc>>

Next ==
    \/ \E w \in SUBSET Addresses, f \in 0 .. 1 : Change(w, f)
    \/ \E w \in SUBSET Addresses, f \in 0 .. 1 : ChangeDown(w, f)
    \/ Open
    \/ Close
    \/ \E a \in Addresses : SetMacAddr(a)
    \/ SetMdfAddr

Spec == Init /\ [][Next]_vars
-----------------------------------------------------------------------------
\* The addresses the MAC accepts
Accepted == {mdf[i] : i \in {j \in Entries : Enabled(j)}}

(* Once bcmgenet_set_rx_mode is done, a frame for any address of the device  *)
(* is received: by its entry, or because the entries are too few.            *)
WantedReceived ==
    running = 1 /\ Idle =>
        promisc = 1 \/ {Broadcast, dev_addr} \cup wanted \subseteq Accepted

(* Nothing else is received unless the interface has to flood: an entry left *)
(* over from a longer list is never enabled.                                 *)
NothingElse ==
    running = 1 /\ Idle /\ promisc = 0 =>
        Accepted = {Broadcast, dev_addr} \cup wanted

(* The device does not flood while its addresses fit the filter.             *)
FloodsLate ==
    running = 1 /\ Idle /\ flags = 0 =>
        (promisc = 1 <=> Cardinality({Broadcast, dev_addr} \cup wanted) > MAX_MDF_FILTER)
=============================================================================
