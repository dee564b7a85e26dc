------------------------------ MODULE GemFilter ------------------------------
(* Which frames the Cadence GEM model accepts: gem_mac_address_filter        *)
(* against the specific address registers, which the guest writes one half   *)
(* at a time, and the hash.                                                  *)
(* A MAC address is the set of its 48 bits that are set, each <<byte, bit>>. *)
EXTENDS Integers, Sequences, FiniteSets, FiniteSetsExt

CONSTANTS
    Macs,               \* addresses the guest programs, and frames carry
    Hashes,             \* contents of the hash registers: sets of 0 .. 63
    OwnMac,             \* conf.macaddr
    Sars                \* specific address registers in use, out of 0 .. 3

VARIABLES
    promisc, no_broadcast, multicast_hash, unicast_hash,   \* NWCFG bits
    hash,               \* HASHHI and HASHLO
    spaddr,             \* the address registers
    sar_active,
    writing,            \* driver: the register and the address it is writing
    wanted,             \* driver: the addresses it has asked for
    verdict             \* the last frame, and gem_mac_address_filter's answer

cfg == <<promisc, no_broadcast, multicast_hash, unicast_hash>>
vars == <<cfg, hash, spaddr, sar_active, writing, wanted, verdict>>

Bits == (0 .. 5) \X (0 .. 7)
Broadcast == Bits
NoMac == {<<6, 0>>}
Low(mac) == {b \in mac : b[1] < 4}      \* as in SPADDRnLO
High(mac) == {b \in mac : b[1] >= 4}    \* as in SPADDRnHI

Idle == [sar |-> 0, mac |-> NoMac]
-----------------------------------------------------------------------------
get_bit(mac, n) == IF <<n \div 8, n % 8>> \in mac THEN 1 ELSE 0

\* Bit i of the index is the exclusive or of every sixth bit.
calc_mac_hash(mac) ==
    SumSet({2 ^ i : i \in {j \in 0 .. 5 :
        SumFunction([n \in 0 .. 7 |-> get_bit(mac, j + 6 * n)]) % 2 = 1}})

IsMulticast(mac) == <<0, 0>> \in mac

\* The registers that match, of which the highest one is reported
Matching(mac) == {i \in Sars : sar_active[i] = 1 /\ spaddr[i] = mac}

gem_mac_address_filter(mac) ==
    CASE promisc = 1 -> "promiscuous"
      [] promisc = 0 /\ mac = Broadcast ->
             IF no_broadcast = 1 THEN "reject" ELSE "broadcast"
      [] OTHER ->
             IF /\ (IF IsMulticast(mac) THEN multicast_hash ELSE unicast_hash) = 1
                /\ calc_mac_hash(mac) \in hash
             THEN "hash"
             ELSE IF Matching(mac) # {} THEN "sar" ELSE "reject"

Receive(mac) ==
    /\ verdict' = [mac |-> mac, accept |-> gem_mac_address_filter(mac)]
    /\ UNCHANGED <<cfg, hash, spaddr, sar_active, writing, wanted>>
-----------------------------------------------------------------------------
NoVerdict == [mac |-> NoMac, accept |-> "reject"]

Init ==
    /\ promisc = 0 /\ no_broadcast = 0 /\ multicast_hash = 0 /\ unicast_hash = 0
    /\ hash = {}
    /\ spaddr = [i \in Sars |-> IF i = 0 THEN OwnMac ELSE {}]
    /\ sar_active = [i \in Sars |-> 0]
    /\ writing = Idle /\ wanted = [i \in Sars |-> NoMac]
    /\ verdict = NoVerdict

\* NWCFG
SetConfig(p, b, m, u) ==
    /\ promisc' = p /\ no_broadcast' = b /\ multicast_hash' = m /\ unicast_hash' = u
    /\ verdict' = NoVerdict
    /\ UNCHANGED <<hash, spaddr, sar_active, writing, wanted>>

\* HASHLO and HASHHI
SetHash(h) ==
    /\ hash' = h /\ verdict' = NoVerdict
    /\ UNCHANGED <<cfg, spaddr, sar_active, writing, wanted>>

M_ActiveAfterLow_Kept(i) == sar_active

\* Writing the low half takes the register out of use.
ActiveAfterLow(i) == [sar_active EXCEPT ![i] = 0]

WriteLow(i, mac) ==
    /\ writing = Idle
    /\ spaddr' = [spaddr EXCEPT ![i] = Low(mac) \cup High(@)]
    /\ sar_active' = ActiveAfterLow(i)
    /\ writing' = [sar |-> i, mac |-> mac]
    /\ wanted' = [wanted EXCEPT ![i] = NoMac]
    /\ verdict' = NoVerdict
    /\ UNCHANGED <<cfg, hash>>

\* Index of the register whose high half is written
HighRegister(i) == i

\* Writing the high half puts it to use. It ends the write of an address, or a
\* driver writes it alone, for an address with the low half that stands there.
WriteHigh(i, mac) ==
    /\ writing \in {Idle, [sar |-> i, mac |-> mac]}
    /\ spaddr' = [spaddr EXCEPT ![i] = Low(@) \cup High(mac)]
    /\ sar_active' = [sar_active EXCEPT ![HighRegister(i)] = 1]
    /\ wanted' = [wanted EXCEPT ![i] =
                     IF writing = Idle THEN Low(spaddr[i]) \cup High(mac) ELSE mac]
    /\ writing' = Idle
    /\ verdict' = NoVerdict
    /\ UNCHANGED <<cfg, hash>>

\* gem_reset puts the device's own address into the first register, out of use.
Reset ==
    /\ promisc' = 0 /\ no_broadcast' = 0 /\ multicast_hash' = 0 /\ unicast_hash' = 0
    /\ hash' = {}
    /\ spaddr' = [i \in Sars |-> IF i = 0 THEN OwnMac ELSE {}]
    /\ sar_active' = [i \in Sars |-> 0]
    /\ writing' = Idle /\ wanted' = [i \in Sars |-> NoMac]
    /\ verdict' = NoVerdict

Next ==
    \/ \E mac \in Macs \cup {Broadcast} : Receive(mac)
    \/ \E p, b, m, u \in 0 .. 1 : SetConfig(p, b, m, u)
    \/ \E h \in Hashes : SetHash(h)
    \/ \E i \in Sars, mac \in Macs : WriteLow(i, mac)
    \/ \E i \in Sars, mac \in Macs : WriteHigh(i, mac)
    \/ Reset

Spec == Init /\ [][Next]_vars
-----------------------------------------------------------------------------
TypeOK ==
    /\ {promisc, no_broadcast, multicast_hash, unicast_hash} \subseteq 0 .. 1
    /\ hash \subseteq 0 .. 63
    /\ \A i \in Sars : spaddr[i] \subseteq Bits 
    /\ sar_active \in [Sars -> 0 .. 1]
    /\ verdict.accept \in {"promiscuous", "broadcast", "hash", "sar", "reject"}

\* The hash as the exclusive or of the eight groups of six bits: groups are
\* taken one after the other from bit 0 of byte 0 on.
Group(mac, n) == {b[1] * 8 + b[2] - 6 * n : b \in {c \in mac : (c[1] * 8 + c[2]) \div 6 = n}}
XorOf(mac) == {i \in 0 .. 5 : Cardinality({n \in 0 .. 7 : i \in Group(mac, n)}) % 2 = 1}
InHash(mac) == \E k \in hash : k = SumSet({2 ^ i : i \in XorOf(mac)})

(* No frame is accepted by address unless the driver has asked for that very *)
(* address, by its two halves or by a high half for the low half that stood  *)
(* there: halves of an old and of a new address in a register, or the        *)
(* address a reset left there, are never matched.                            *)
NothingHalfWritten ==
    verdict.accept = "sar" => \E i \in Sars : wanted[i] = verdict.mac

(* An address the driver has asked for is received, in every mode.           *)
WantedAccepted ==
    verdict.accept = "reject" /\ verdict # NoVerdict =>
        \A i \in Sars : wanted[i] # verdict.mac

(* A frame passes the hash if and only if the registers have its bit, for    *)
(* the kind of address that hash matching is enabled for.                    *)
HashDecides ==
    verdict # NoVerdict /\ promisc = 0 /\ verdict.mac # Broadcast =>
        (verdict.accept = "hash" <=>
            /\ InHash(verdict.mac)
            /\ IsMulticast(verdict.mac) => multicast_hash = 1
            /\ ~IsMulticast(verdict.mac) => unicast_hash = 1)
=============================================================================
