---------------------------- MODULE GenetFilter -----------------------------
(* Receive flow rules of the Linux bcmgenet driver (ethtool -N) and the      *)
(* Hardware Filter Block they are translated to, through open, close,        *)
(* suspend with Wake-on-LAN, and resume.                                     *)
(*                                                                           *)
(* A byte of a header field is the pair of the field's name and the byte's   *)
(* number, so that it can be followed into the filter's words; a mask selects*)
(* nothing, the low or high half, or all of each byte of its field.          *)
EXTENDS Integers, Sequences, TLC

CONSTANTS
    MAX_NUM_OF_FS_RULES,
    RxQueues,           \* hw_params->rx_queues
    hfb_filter_size,    \* words of a filter
    Flows               \* flow specifications users ask for

VARIABLES
    rules,              \* rxnfc_rules in use: location -> [flow, cookie]
    list,               \* rxnfc_list: locations, oldest first
    flt_enable,         \* HFB_FLT_ENABLE_V3PLUS: enabled filters
    hfb_en,             \* RBUF_HFB_EN
    index2ring,         \* DMA_INDEX2RING: the ring of each filter
    flt_len,            \* HFB_FLT_LEN_V3PLUS, in bytes
    words,              \* the filters' contents: each word written since it was cleared
    asleep              \* suspended with Wake-on-LAN: "no", "magic", "filter"

hw == <<flt_enable, hfb_en, index2ring, flt_len, words>>
vars == <<rules, list, hw, asleep>>

Locations == 0 .. MAX_NUM_OF_FS_RULES - 1
Filters == 0 .. MAX_NUM_OF_FS_RULES
RX_CLS_FLOW_DISC == -1
RX_CLS_FLOW_WAKE == -2
Cookies == (0 .. RxQueues) \cup {RX_CLS_FLOW_DISC, RX_CLS_FLOW_WAKE}
Masks == {"none", "lo", "hi", "all"}

\* A byte of a filter: what it is compared with, and which part of it is.
Blank == [val |-> "zero", mask |-> "none"]
BlankWord == [hi |-> Blank, lo |-> Blank]
BlankFilter == <<>>
Word(w, i) == IF i \in DOMAIN w THEN w[i] ELSE BlankWord

\* Which half of its word the byte at an offset is in.
Lane(offset) == IF offset % 2 = 1 THEN "lo" ELSE "hi"

\* bcmgenet_hfb_insert_data: size bytes of a field, from offset on.  Each word
\* is read before it is changed, and written when its low half, or the last
\* byte, is in it.
InsertData(w, offset, field, mask, size) ==
    LET cell(k) == [val |-> <<field, k>>, mask |-> IF mask \in Masks THEN mask ELSE "none"]
        insert[k \in 0 .. size] ==
            IF k = 0 THEN w
            ELSE LET o == offset + k - 1
                 IN  (o \div 2 :> [Word(insert[k - 1], o \div 2) EXCEPT ![Lane(o)] = cell(k - 1)])
                       @@ insert[k - 1]
    IN  insert[size]

\* The fields after the place of a VLAN tag move by VLAN_HLEN.
VLAN_HLEN == 4
ETH_HLEN == 14

\* A specification gives each field of its flow type a mask; "none" where the
\* user left it out.
Mask(flow, name) == IF name \in DOMAIN flow.masks THEN flow.masks[name] ELSE "none"

\* bcmgenet_validate_flow: masks the filter cannot express are refused.
ValidateFlow(flow) ==
    flow.mac_ext \in Masks /\ \A n \in DOMAIN flow.masks : flow.masks[n] \in Masks

Tagged(flow) == Mask(flow, "vlan_etype") # "none" \/ Mask(flow, "vlan_tci") # "none"
Shift(flow) == IF Tagged(flow) THEN VLAN_HLEN ELSE 0

\* The part of bcmgenet_hfb_create_rxnfc_filter for FLOW_EXT
VlanWords(w, flow) ==
    IF ~Tagged(flow) THEN w
    ELSE InsertData(InsertData(w, 12, "vlan_etype", Mask(flow, "vlan_etype"), 2),
                    14, "vlan_tci", Mask(flow, "vlan_tci"), 2)

EtherWords(w, flow) ==
    LET w1 == InsertData(w, 0, "h_dest", Mask(flow, "h_dest"), 6)
        w2 == InsertData(w1, 6, "h_source", Mask(flow, "h_source"), 6)
    IN  InsertData(w2, 12 + Shift(flow), "h_proto", Mask(flow, "h_proto"), 2)

IpWords(w, flow) ==
    LET s == Shift(flow)
        w1 == InsertData(w, 12 + s, "ETH_P_IP", "all", 2)
        w2 == InsertData(w1, 15 + s, "tos", Mask(flow, "tos"), 1)
        w3 == InsertData(w2, 23 + s, "proto", Mask(flow, "proto"), 1)
        w4 == InsertData(w3, 26 + s, "ip4src", Mask(flow, "ip4src"), 4)
        w5 == InsertData(w4, 30 + s, "ip4dst", Mask(flow, "ip4dst"), 4)
        w6 == InsertData(w5, ETH_HLEN + s, "ihl", "all", 1)
        w7 == InsertData(w6, ETH_HLEN + 20 + s, "l4", Mask(flow, "l4"), 4)
    IN  IF Mask(flow, "l4") = "none" THEN w5 ELSE w7

\* The destination address of FLOW_MAC_EXT comes first, so that an ETHER_FLOW's
\* own overwrites it.
FilterWords(w, flow) ==
    LET w1 == IF flow.mac_ext = "none" THEN w
              ELSE InsertData(w, 0, "ext_dest", flow.mac_ext, 6)
        w2 == VlanWords(w1, flow)
    IN  IF flow.type = "ether" THEN EtherWords(w2, flow) ELSE IpWords(w2, flow)

\* Twice f_length, the number of words compared
Length(flow) ==
    Shift(flow) + ETH_HLEN + (IF flow.type = "ether" THEN 0
                              ELSE IF Mask(flow, "l4") = "none" THEN 20 ELSE 24)
-----------------------------------------------------------------------------
(* The filter block.                                                         *)

\* bcmgenet_hfb_clear: filter 0 sends what no rule matches to ring 0.
Cleared ==
    [flt_enable |-> {0}, hfb_en |-> 1,
     index2ring |-> [f \in Filters |-> 0],
     flt_len |-> [f \in Filters |-> IF f = 0 THEN 4 ELSE 0],
     words |-> [f \in Filters |-> BlankFilter]]

\* A ring that is not there discards.
Ring(cookie) ==
    CASE cookie = RX_CLS_FLOW_WAKE -> 0
      [] cookie = RX_CLS_FLOW_DISC -> RxQueues + 1
      [] OTHER -> cookie

Hw == [flt_enable |-> flt_enable, hfb_en |-> hfb_en, index2ring |-> index2ring,
       flt_len |-> flt_len, words |-> words]

SetHw(h) ==
    /\ flt_enable' = h.flt_enable /\ hfb_en' = h.hfb_en
    /\ index2ring' = h.index2ring /\ flt_len' = h.flt_len /\ words' = h.words

\* bcmgenet_hfb_enable_filter
Enable(h, f) == [h EXCEPT !.flt_enable = @ \cup {f}, !.hfb_en = 1]

\* bcmgenet_hfb_disable_filter: the block is off once no filter is enabled.
Disable(h, f) ==
    LET left == h.flt_enable \ {f}
    IN  [h EXCEPT !.flt_enable = left, !.hfb_en = IF left = {} THEN 0 ELSE @]

M_ClearFilter_LengthOnly(h, f) == [h EXCEPT !.flt_len[f] = 0]

\* bcmgenet_hfb_clear_filter
ClearFilter(h, f) == [h EXCEPT !.flt_len[f] = 0, !.words[f] = BlankFilter]

\* bcmgenet_hfb_create_rxnfc_filter
CreateFilter(h, loc, rule) ==
    LET f == loc + 1
        h1 == [h EXCEPT !.words[f] = FilterWords(@, rule.flow),
                        !.flt_len[f] = Length(rule.flow),
                        !.index2ring[f] = Ring(rule.cookie)]
    IN  Enable(h1, f)

Used == DOMAIN rules

\* The filter of a rule that is replaced or deleted.
DropFilter(h, loc) ==
    IF loc \notin Used THEN h ELSE ClearFilter(Disable(h, loc + 1), loc + 1)

Without(loc) == SelectSeq(list, LAMBDA l : l # loc)

Init ==
    /\ rules = <<>> /\ list = <<>>
    /\ flt_enable = Cleared.flt_enable /\ hfb_en = Cleared.hfb_en
    /\ index2ring = Cleared.index2ring /\ flt_len = Cleared.flt_len
    /\ words = Cleared.words
    /\ asleep = "no"
-----------------------------------------------------------------------------
(* ethtool.                                                                  *)

\* bcmgenet_insert_flow for a valid rule and a location
InsertAt(loc, rule) ==
    /\ asleep = "no"
    /\ hfb_filter_size >= 128
    /\ ValidateFlow(rule.flow)
    /\ SetHw(CreateFilter(DropFilter(Hw, loc), loc, rule))
    /\ rules' = [l \in Used \cup {loc} |-> IF l = loc THEN rule ELSE rules[l]]
    /\ list' = Append(Without(loc), loc)
    /\ UNCHANGED asleep

\* The first location with no rule
FirstUnused ==
    CHOOSE l \in Locations \ Used : \A m \in Locations \ Used : l <= m

\* With RX_CLS_LOC_ANY a rule that exists is found again; if there is no
\* location left the insertion fails (-ENOSPC).
InsertAny(rule) ==
    /\ \A l \in Used : rules[l] # rule
    /\ Used # Locations
    /\ InsertAt(FirstUnused, rule)

\* bcmgenet_delete_flow
Delete(loc) ==
    /\ asleep = "no"
    /\ loc \in Used
    /\ SetHw(DropFilter(Hw, loc))
    /\ rules' = [l \in Used \ {loc} |-> rules[l]]
    /\ list' = Without(loc)
    /\ UNCHANGED asleep
-----------------------------------------------------------------------------
(* Open, suspend and resume.                                                 *)

\* bcmgenet_hfb_init: rules do not survive bcmgenet_open.
Reopen ==
    /\ asleep = "no"
    /\ SetHw(Cleared)
    /\ rules' = <<>> /\ list' = <<>>
    /\ UNCHANGED asleep

\* bcmgenet_suspend with Wake-on-LAN by magic packet or also by filters: only
\* the filters that may wake the system stay enabled.
Wakers(mode) ==
    IF mode = "magic" THEN {}
    ELSE {l + 1 : l \in {m \in Used : rules[m].cookie = RX_CLS_FLOW_WAKE}}

SuspendWol(mode) ==
    /\ asleep = "no"
    /\ asleep' = mode
    /\ flt_enable' = Wakers(mode)
    /\ hfb_en' = IF Wakers(mode) = {} THEN 0 ELSE hfb_en
    /\ UNCHANGED <<rules, list, index2ring, flt_len, words>>

\* The filters enabled again by bcmgenet_resume.
Resumed == flt_enable \cup {l + 1 : l \in Used} \cup {0}

ResumeFlows ==
    /\ asleep # "no"
    /\ asleep' = "no"
    /\ flt_enable' = Resumed /\ hfb_en' = 1
    /\ UNCHANGED <<rules, list, index2ring, flt_len, words>>

\* The MAC was reset, or slept without Wake-on-LAN: bcmgenet_hfb_clear, and
\* each rule is translated again.
ResumeReset ==
    /\ asleep' = "no"
    /\ LET create[n \in 0 .. Len(list)] ==
               IF n = 0 THEN Cleared
               ELSE CreateFilter(create[n - 1], list[n], rules[list[n]])
       IN  SetHw(create[Len(list)])
    /\ UNCHANGED <<rules, list>>

Rule == [flow : Flows, cookie : Cookies]

Next ==
    \/ \E loc \in Locations, r \in Rule : InsertAt(loc, r)
    \/ \E r \in Rule : InsertAny(r)
    \/ \E loc \in Locations : Delete(loc)
    \/ Reopen
    \/ \E m \in {"magic", "filter"} : SuspendWol(m)
    \/ ResumeFlows
    \/ ResumeReset

Spec == Init /\ [][Next]_vars
-----------------------------------------------------------------------------
TypeOK ==
    /\ Used \subseteq Locations /\ \A l \in Used : rules[l] \in Rule
    /\ list \in Seq(Locations)
    /\ flt_enable \subseteq Filters /\ hfb_en \in 0 .. 1
    /\ index2ring \in [Filters -> 0 .. RxQueues + 1]
    /\ flt_len \in [Filters -> 0 .. 255]
    /\ \A f \in Filters : DOMAIN words[f] \subseteq 0 .. hfb_filter_size - 1
    /\ asleep \in {"no", "magic", "filter"}

\* What a filter compares at each offset, as a relation.
Compared(f) ==
    LET at(o) == words[f][o \div 2][IF o % 2 = 0 THEN "hi" ELSE "lo"]
        offsets == UNION {{2 * i, 2 * i + 1} : i \in DOMAIN words[f]}
    IN  {<<o, at(o)>> : o \in {x \in offsets : at(x).mask # "none"}}

\* What the user asked to compare: each masked field at its place in a frame
\* that has a VLAN tag just if the rule mentions one.  (An ETHER_FLOW with
\* FLOW_MAC_EXT names the destination twice.  Its own is the one that counts,
\* and if that has no mask then none is compared at all.)
Place(flow) ==
    [name \in DOMAIN flow.masks |->
        CASE name = "vlan_etype" -> 12 [] name = "vlan_tci" -> 14
          [] name = "h_dest" -> 0 [] name = "h_source" -> 6
          [] name = "h_proto" -> 12 + Shift(flow) [] name = "tos" -> 15 + Shift(flow)
          [] name = "proto" -> 23 + Shift(flow) [] name = "ip4src" -> 26 + Shift(flow)
          [] name = "ip4dst" -> 30 + Shift(flow) [] name = "l4" -> 34 + Shift(flow)]

Size(name) ==
    CASE name \in {"h_dest", "h_source"} -> 6 [] name \in {"tos", "proto"} -> 1
      [] name \in {"ip4src", "ip4dst", "l4"} -> 4 [] OTHER -> 2

Bytes(offset, field, mask, size) ==
    IF mask = "none" THEN {}
    ELSE {<<offset + k, [val |-> <<field, k>>, mask |-> mask]>> : k \in 0 .. size - 1}

Asked(flow) ==
    UNION {Bytes(Place(flow)[n], n, flow.masks[n], Size(n)) : n \in DOMAIN flow.masks}
      \cup (IF flow.type = "ip" THEN Bytes(0, "ext_dest", flow.mac_ext, 6) ELSE {})
      \cup (IF flow.type = "ip" THEN Bytes(12 + Shift(flow), "ETH_P_IP", "all", 2) ELSE {})
      \cup (IF Mask(flow, "l4") # "none" THEN Bytes(14 + Shift(flow), "ihl", "all", 1) ELSE {})

(* The filter of each rule compares exactly the bytes the rule names, each   *)
(* with its own value and mask, however the fields overlap in the filter's   *)
(* 16-bit words and whatever rule had the location before.                   *)
FilterMatchesRule == \A l \in Used : Compared(l + 1) = Asked(rules[l].flow)

(* No byte a rule names lies beyond the length the filter compares.          *)
LengthCovers ==
    \A l \in Used : \A c \in Compared(l + 1) : c[1] < flt_len[l + 1]

(* The block runs with the default filter and one filter per rule, also      *)
(* after Wake-on-LAN disabled some of them; asleep only rules that may wake  *)
(* the system are on.                                                        *)
EnabledExactly ==
    IF asleep = "no"
    THEN hfb_en = 1 /\ flt_enable = {0} \cup {l + 1 : l \in Used}
    ELSE \A f \in flt_enable : f > 0 /\ rules[f - 1].cookie = RX_CLS_FLOW_WAKE

(* Each frame goes to the ring its rule names, to ring 0 by default or to    *)
(* wake the system, and to a ring that is not there if its rule discards it. *)
Routed ==
    /\ index2ring[0] = 0
    /\ \A l \in Used : LET cookie == rules[l].cookie
                           ring == index2ring[l + 1]
                       IN  /\ cookie >= 0 => ring = cookie
                           /\ cookie = RX_CLS_FLOW_WAKE => ring = 0
                           /\ cookie = RX_CLS_FLOW_DISC => ring > RxQueues

(* rxnfc_list names every location in use once, so that the counts and       *)
(* locations bcmgenet_get_rxnfc reports are those of the rules.              *)
ListExact ==
    /\ {list[i] : i \in 1 .. Len(list)} = Used
    /\ \A i, j \in 1 .. Len(list) : list[i] = list[j] => i = j
=============================================================================
