-------------------------------- MODULE GemTx --------------------------------
(* Transmission of the Cadence GEM model: gem_transmit walks the descriptor  *)
(* rings of its priority queues, gathers the fragments of each packet and    *)
(* hands it to QEMU, while the guest's driver goes on filling the rings.     *)
(* A descriptor is [used, len, last]; the last one of a ring has the wrap    *)
(* bit.  Length 0 stands for a length or a buffer address of zero.  All      *)
(* interrupts are unmasked; local loopback is left out.                      *)
EXTENDS Integers, Sequences

CONSTANTS
    NumQueues,          \* num_priority_queues
    Ring,               \* descriptors of each ring
    MaxBuf,             \* gem_get_max_buf_len
    Lengths,            \* fragment lengths the driver uses
    DescLen             \* gem_get_desc_len: words of a descriptor, 2, 4 or 6

VARIABLES
    descs,              \* the rings, in guest memory
    tx_desc_addr,       \* where each queue goes on
    pc, q,              \* gem_transmit: "idle", "queue", "desc", "mark"; its queue
    at, cur,            \* packet_desc_addr and the descriptor read from it
    gathered, total,    \* descriptors in tx_packet, and total_bytes
    desc_first,         \* the descriptors read to mark a packet's first one
    isr, irq,           \* interrupt status and line of each queue
    head,               \* driver: next descriptor it fills
    posted,             \* driver: packets not yet sent, as lists of descriptors
    bell,               \* driver: 1 while TRANSMIT_START is to be written
    astray,             \* 1: a packet handed over was not the oldest one posted
    undone              \* 1: a write-back has undone what the driver wrote

hw == <<tx_desc_addr, isr, irq>>
vars == <<descs, pc, q, at, cur, gathered, total, desc_first, posted, bell, astray, head, undone, hw>>

Queues == 0 .. NumQueues - 1
Slots == 0 .. Ring - 1
Desc == [used : 0 .. 1, len : Lengths \cup {0}, last : 0 .. 1]
Blank == [used |-> 1, len |-> 0, last |-> 0]

Init ==
    /\ descs = [k \in Queues |-> [i \in Slots |-> Blank]]
    /\ tx_desc_addr = [k \in Queues |-> 0]
    /\ pc = "idle" /\ q = 0 /\ at = 0 /\ cur = Blank
    /\ gathered = <<>> /\ total = 0
    /\ isr = [k \in Queues |-> {}] /\ irq = [k \in Queues |-> 0]
    /\ head = [k \in Queues |-> 0] /\ posted = [k \in Queues |-> <<>>]
    /\ bell = 0 /\ astray = 0
    /\ desc_first = <<>> /\ undone = 0

\* The descriptor after i: the wrap bit leads back to the ring's start.
After(i) == IF i + 1 = Ring THEN 0 ELSE i + 1
-----------------------------------------------------------------------------
(* The guest's driver.                                                       *)

\* Descriptors of packets the device has not given back
Busy(k) ==
    UNION {{posted[k][n][j] : j \in 1 .. Len(posted[k][n])} : n \in 1 .. Len(posted[k])}

\* A packet of one or two fragments, followed by a descriptor that is marked
\* used; its first descriptor is given to the device last.
Post(k, lens) ==
    /\ LET i == head[k]
           slots == IF Len(lens) = 1 THEN <<i>> ELSE <<i, After(i)>>
           end == After(slots[Len(slots)])
           d(n) == [used |-> 0, len |-> lens[n], last |-> IF n = Len(lens) THEN 1 ELSE 0]
       IN  /\ \A n \in 1 .. Len(lens) : slots[n] \notin Busy(k)
           /\ end \notin Busy(k) \cup {slots[n] : n \in 1 .. Len(lens)}
           /\ descs' = [descs EXCEPT ![k] = [j \in Slots |->
                  CASE j = slots[1] -> d(1)
                    [] j = slots[Len(lens)] -> d(Len(lens))
                    [] j = end -> [@[j] EXCEPT !.used = 1]
                    [] OTHER -> @[j]]]
           /\ head' = [head EXCEPT ![k] = end]
           /\ posted' = [posted EXCEPT ![k] = Append(@, slots)]
    /\ bell' = 1
    /\ UNCHANGED <<pc, q, at, cur, gathered, total, desc_first, astray, undone, hw>>

\* It writes NWCTRL without ENABLE_TRANSMIT and builds its rings anew: each
\* queue starts again at its base.
Disable ==
    /\ pc = "idle"
    /\ tx_desc_addr' = [k \in Queues |-> 0]
    /\ descs' = [k \in Queues |-> [i \in Slots |-> Blank]]
    /\ head' = [k \in Queues |-> 0] /\ posted' = [k \in Queues |-> <<>>]
    /\ bell' = 0 /\ undone' = 0
    /\ UNCHANGED <<pc, q, at, cur, gathered, total, desc_first, astray, isr, irq>>

\* It reads the interrupt status of a queue, which clears it.
ReadIsr(k) ==
    /\ pc = "idle" /\ isr[k] # {}
    /\ isr' = [isr EXCEPT ![k] = {}]
    /\ irq' = [j \in Queues |-> IF isr'[j] = {} THEN 0 ELSE 1]
    /\ UNCHANGED <<descs, tx_desc_addr, pc, q, at, cur, gathered, total, desc_first, posted,
                   bell, astray, head, undone>>
-----------------------------------------------------------------------------
(* gem_transmit, one descriptor at a time.                                   *)

Flag(k, flag) == [isr EXCEPT ![k] = @ \cup {flag}]

\* gem_update_int_status
UpdateIrq == irq' = [k \in Queues |-> IF isr'[k] = {} THEN 0 ELSE 1]

\* NWCTRL is written with TRANSMIT_START and ENABLE_TRANSMIT.
TransmitStart ==
    /\ pc = "idle" /\ bell = 1
    /\ bell' = 0
    /\ pc' = "queue" /\ q' = NumQueues - 1
    /\ UNCHANGED <<descs, at, cur, gathered, total, desc_first, posted, astray, head, undone, hw>>

\* The next descriptor is read from guest memory.
Read(i, mem) == at' = i /\ cur' = mem[q][i]

Queue ==
    /\ pc = "queue"
    /\ pc' = "desc"
    /\ Read(tx_desc_addr[q], descs)
    /\ UNCHANGED <<descs, q, gathered, total, desc_first, posted, bell, astray, head, undone, hw>>

\* The loop over the queues goes on, with what tx_packet holds.
NextQueue ==
    /\ at' = 0 /\ cur' = Blank
    /\ IF q = 0
       THEN pc' = "idle" /\ gathered' = <<>> /\ total' = 0 /\ UNCHANGED q
       ELSE pc' = "queue" /\ q' = q - 1 /\ UNCHANGED <<gathered, total>>

Used ==
    /\ pc = "desc" /\ cur.used = 1
    /\ isr' = IF q = 0 THEN Flag(0, "TX_USED") ELSE isr
    /\ UpdateIrq
    /\ NextQueue
    /\ UNCHANGED <<descs, desc_first, posted, bell, astray, head, undone,
                   tx_desc_addr>>

Invalid ==
    /\ pc = "desc" /\ cur.used = 0 /\ cur.len = 0
    /\ NextQueue
    /\ UNCHANGED <<descs, desc_first, posted, bell, astray, head, undone, hw>>

\* The room left in tx_packet
Fits(len) == len <= MaxBuf - total

\* The interrupt line is not updated here.
TooLarge ==
    /\ pc = "desc" /\ cur.used = 0 /\ cur.len # 0
    /\ ~Fits(cur.len)
    /\ isr' = Flag(q, "AMBA_ERROR")
    /\ NextQueue
    /\ UNCHANGED <<descs, desc_first, posted, bell, astray, head, undone,
                   tx_desc_addr, irq>>

Gather ==
    /\ pc = "desc" /\ cur.used = 0 /\ cur.len # 0
    /\ Fits(cur.len)
    /\ cur.last = 0
    /\ gathered' = Append(gathered, <<q, at>>) /\ total' = total + cur.len
    /\ Read(After(at), descs)
    /\ UNCHANGED <<descs, pc, q, desc_first, posted, bell, astray, head, undone, hw>>

M_Marked_Next(k) == After(at)

\* The descriptor that is marked used: the packet's first
Marked(k) == tx_desc_addr[k]

\* Where the queue goes on: after the packet's last descriptor
Resume(k) == After(at)

\* The descriptors of the oldest packet posted
Due(k) ==
    LET p == IF posted[k] = <<>> THEN <<>> ELSE Head(posted[k])
    IN  [n \in 1 .. Len(p) |-> <<k, p[n]>>]

Without(s) == IF s = <<>> THEN s ELSE Tail(s)

\* desc_first has room for the longest descriptor; what is read and written
\* back of shorter ones includes the next, up to the end of the ring here.
DESC_MAX_NUM_WORDS == 6
Span(i) == {j \in Slots : j >= i /\ j * DescLen + 1 < i * DescLen + DESC_MAX_NUM_WORDS}

ReadFirst ==
    /\ pc = "desc" /\ cur.used = 0 /\ cur.len # 0
    /\ Fits(cur.len)
    /\ cur.last = 1
    /\ pc' = "mark"
    /\ desc_first' = [j \in Span(Marked(q)) |-> descs[q][j]]
    /\ UNCHANGED <<descs, q, at, cur, gathered, total, posted, bell, astray, head, undone, hw>>

\* tx_desc_set_used and the write-back, and the hand-over to QEMU
SendPacket ==
    /\ pc = "mark" /\ pc' = "desc"
    /\ LET first == [desc_first EXCEPT ![Marked(q)].used = 1]
           mem == [descs EXCEPT ![q] = [j \in Slots |-> IF j \in DOMAIN first THEN first[j] ELSE @[j]]]
       IN  descs' = mem /\ Read(After(at), mem)
    /\ desc_first' = <<>>
    /\ undone' = IF \E j \in DOMAIN desc_first : desc_first[j] # descs[q][j] THEN 1 ELSE undone
    /\ tx_desc_addr' = [tx_desc_addr EXCEPT ![q] = Resume(q)]
    /\ isr' = Flag(q, "XMIT_COMPLETE") /\ UpdateIrq
    /\ astray' = IF Append(gathered, <<q, at>>) = Due(q) THEN astray ELSE 1
    /\ posted' = [posted EXCEPT ![q] = Without(@)]
    /\ gathered' = <<>> /\ total' = 0
    /\ UNCHANGED <<q, bell, head>>

Transmit == Queue \/ Used \/ Invalid \/ TooLarge \/ Gather \/ ReadFirst \/ SendPacket

Fragments == Lengths \cup {0}

PostAny ==
    \/ \E k \in Queues, a \in Fragments : Post(k, <<a>>)
    \/ \E k \in Queues, a, b \in Fragments : Post(k, <<a, b>>)

Next ==
    \/ PostAny
    \/ Disable
    \/ \E k \in Queues : ReadIsr(k)
    \/ TransmitStart
    \/ Transmit

Spec == Init /\ [][Next]_vars
LiveSpec == Spec /\ WF_vars(Transmit)
-----------------------------------------------------------------------------
TypeOK ==
    /\ descs \in [Queues -> [Slots -> Desc]]
    /\ tx_desc_addr \in [Queues -> Slots] /\ head \in [Queues -> Slots]
    /\ pc \in {"idle", "queue", "desc", "mark"} /\ q \in Queues
    /\ at \in Slots /\ cur \in Desc
    /\ total \in 0 .. MaxBuf
    /\ irq \in [Queues -> 0 .. 1] /\ bell \in 0 .. 1
    /\ astray \in 0 .. 1 /\ undone \in 0 .. 1

(* Each packet QEMU gets is one the driver posted, complete, in its queue's  *)
(* order and once: the fragments gathered are the descriptors of the oldest  *)
(* packet that was waiting, also when a write-back has undone a later post.  *)
SentPosted == astray = 0

\* A queue whose next packet the device refuses
Refused(k) ==
    LET p == Head(posted[k])
    IN  \/ \E n \in 1 .. Len(p) : descs[k][p[n]].len = 0
        \/ Len(p) = 1 /\ descs[k][p[1]].len > MaxBuf
        \/ Len(p) = 2 /\ descs[k][p[1]].len + descs[k][p[2]].len > MaxBuf

(* When gem_transmit is done and no doorbell is due, nothing waits behind it *)
(* but packets the device refuses: none is overlooked because it was posted  *)
(* while the ring was being walked.  The exception is a packet posted between*)
(* the read and the write-back of a first descriptor shorter than            *)
(* DESC_MAX_NUM_WORDS, in one of the descriptors behind it: it is used again *)
(* and waits for ever.                                                       *)
NoneOverlooked ==
    pc = "idle" /\ bell = 0 /\ undone = 0 =>
        \A k \in Queues : posted[k] # <<>> => Refused(k)

(* gem_transmit ends, whatever the rings hold, unless the driver goes on     *)
(* posting packets for ever while it runs.                                   *)
TransmitEnds == (pc # "idle" ~> pc = "idle") \/ []<><<PostAny>>_vars

(* The interrupt line of each queue follows its status.                      *)
IrqFollowsStatus ==
    pc = "idle" => \A k \in Queues : irq[k] = 1 <=> isr[k] # {}
=============================================================================
