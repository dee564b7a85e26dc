-------------------------------- MODULE MCGem --------------------------------
(* The Cadence GEM model's transmit path, receive path, address filter and    *)
(* screeners, side by side; Init picks the one that runs.  The receive path   *)
(* takes frames for any queue that passed the filter, and no path writes what *)
(* another reads, so each can be looked at alone.                             *)
EXTENDS Integers

VARIABLES path,
          descs, tx_desc_addr, pc, q, at, cur, gathered, total, tx_isr, tx_irq, head, posted,
          bell, astray, desc_first, undone,
          mem, rx_desc_addr, rx_desc, based, enabled, fcs_remove, isr, irq, frame, left, part, held,
          tail, told,
          promisc, no_broadcast, multicast_hash, unicast_hash, hash, spaddr, sar_active,
          writing, wanted, verdict,
          type1, type2, screened, step, i, j, matched, mismatched, queue

Tx == INSTANCE GemTx WITH NumQueues <- 1, Ring <- 4, MaxBuf <- 3, Lengths <- {1, 2},
                          DescLen <- 2, isr <- tx_isr, irq <- tx_irq

\* Frames of one, two and three buffers; a ring of three
Rx == INSTANCE GemRx WITH NumQueues <- 1, Ring <- 3, BufSize <- 2, MinFrame <- 2, Fcs <- 1,
                          MaxFrame <- 6, MaxBuf <- 5, Sizes <- {1, 3, 5}, MaxHeld <- 1

\* Two unicast addresses that share no half, the two mixtures of their halves,
\* and a multicast address; hashes of none, of two bits and of one
A == {<<0, 1>>, <<3, 5>>, <<4, 0>>}
B == {<<1, 2>>, <<5, 7>>}
LowBytes(m) == {b \in m : b[1] < 4}
Mixtures == {LowBytes(A) \cup (B \ LowBytes(B)), LowBytes(B) \cup (A \ LowBytes(A))}
Filter == INSTANCE GemFilter WITH
              Macs <- {A, B, {<<0, 0>>, <<5, 7>>}} \cup Mixtures,
              Hashes <- {{}, {33, 48}, {38}}, OwnMac <- A, Sars <- {0, 1}

\* Comparisons that are off, two at each place, and one without a mask
Off == [en |-> 0, from |-> 0, offset |-> 0, compare |-> {}, mask |-> {}, disable_mask |-> 0]
On(from, mask, dm) ==
    [en |-> 1, from |-> from, offset |-> 0, compare |-> {0}, mask |-> mask, disable_mask |-> dm]
Comparisons ==
    {<<Off, Off, Off>>, <<On(0, {0}, 0), Off, Off>>, <<On(3, {0, 1}, 1), Off, Off>>,
     <<Off, On(2, {0, 1}, 0), On(1, {0}, 0)>>}

\* Each criterion is off or asks for one of two values; words before the
\* ethertype, after it, after IP, after UDP and the one behind
Screen == INSTANCE GemScreen WITH
              Eth <- 1, Ip <- 1, Udp <- 1, Type1 <- 1, Type2 <- 2,
              Screeners1 <- [port_en : 0 .. 1, port : {"v"}, dstc_en : 0 .. 1, dstc : {"w"},
                             queue : {1}],
              Screeners2 <- [type_en : 0 .. 1, type : {"v"}, compare : Comparisons,
                             queue : {2, 3}],
              Frames <- [port : {"v", "w"}, dscp : {"v", "w"}, type : {"v", "w"},
                         words : {[n \in 0 .. 4 |-> IF n \in S THEN {0} ELSE {0, 1}]
                                     : S \in {{}, 0 .. 2, 0 .. 3, {1, 4}}}],
              frame <- screened, pc <- step

tx_vars == <<descs, tx_desc_addr, pc, q, at, cur, gathered, total, tx_isr, tx_irq, head, posted,
             bell, astray, desc_first, undone>>
rx_vars == <<mem, rx_desc_addr, rx_desc, based, enabled, fcs_remove, isr, irq, frame, left, part, held,
             tail, told>>
filter_vars == <<promisc, no_broadcast, multicast_hash, unicast_hash, hash, spaddr, sar_active,
                 writing, wanted, verdict>>
screen_vars == <<type1, type2, screened, step, i, j, matched, mismatched, queue>>

NoScreen ==
    /\ type1 = <<>> /\ type2 = <<>> /\ screened = <<>> /\ step = "done"
    /\ i = 0 /\ j = 0 /\ matched = 0 /\ mismatched = 0 /\ queue = 0

GemInit ==
    /\ path \in {"tx", "rx", "filter", "screen"}
    /\ Tx!Init /\ Rx!Init /\ Filter!Init
    /\ path # "rx" => fcs_remove = 0
    /\ IF path = "screen" THEN Screen!Init ELSE NoScreen

GemNext ==
    /\ \/ path = "tx" /\ Tx!Next /\ UNCHANGED <<rx_vars, filter_vars, screen_vars>>
       \/ path = "rx" /\ Rx!Next /\ UNCHANGED <<tx_vars, filter_vars, screen_vars>>
       \/ path = "filter" /\ Filter!Next /\ UNCHANGED <<tx_vars, rx_vars, screen_vars>>
       \/ path = "screen" /\ Screen!Next /\ UNCHANGED <<tx_vars, rx_vars, filter_vars>>
    /\ UNCHANGED path

\* gem_transmit goes on until it returns.
GemSpec ==
    /\ GemInit /\ [][GemNext]_<<path, tx_vars, rx_vars, filter_vars, screen_vars>>
    /\ WF_tx_vars(Tx!Transmit)
-----------------------------------------------------------------------------
(* The packets that go out are the ones the guest posted, whole and in order, *)
(* none is overlooked because it was posted while gem_transmit walked the     *)
(* ring, unless the write-back of a sent packet's descriptor undid the post,  *)
(* and gem_transmit ends unless the guest goes on posting for ever.           *)
GemTransmits ==
    /\ [](path = "tx" => Tx!TypeOK /\ Tx!SentPosted /\ Tx!NoneOverlooked)
    /\ Tx!TransmitEnds

(* A frame fills consecutive buffers between a start and an end mark, only    *)
(* buffers the driver gave to the device are written, and frames wait for     *)
(* want of buffers only after the driver was told (gem_receive).              *)
GemReceives ==
    /\ [](path = "rx" => Rx!TypeOK /\ Rx!FramesWhole /\ Rx!WaitAnnounced)
    /\ Rx!OwnedUntouched

(* A frame is accepted for an address the guest wants, never for one that is  *)
(* half written, and by the hash only if its bit is set                       *)
(* (gem_mac_address_filter); it goes to the queue of the first screener all   *)
(* of whose enabled criteria it meets (get_queue_from_screen).                *)
GemSorts ==
    /\ path = "filter" =>
          /\ Filter!TypeOK /\ Filter!NothingHalfWritten
          /\ Filter!WantedAccepted /\ Filter!HashDecides
    /\ path = "screen" => Screen!FirstMatch
=============================================================================
