-------------------------------- MODULE GemRx --------------------------------
(* Reception of the Cadence GEM model: gem_receive fits a frame into the     *)
(* receive descriptors of a queue, one buffer at a time, from a descriptor   *)
(* it has read earlier, while the guest's driver gives buffers back.         *)
(* All interrupts are unmasked; loopback is left out.                        *)
EXTENDS Integers, Sequences

CONSTANTS
    NumQueues,          \* num_priority_queues
    Ring,               \* descriptors of each ring
    BufSize,            \* DMACFG.RX_BUF_SIZE, in bytes
    MinFrame,           \* 60
    Fcs,                \* 4: size of the frame check sequence
    MaxFrame,           \* MAX_FRAME_SIZE
    MaxBuf,             \* gem_get_max_buf_len
    Sizes,              \* sizes of the frames that come in
    MaxHeld             \* bound: frames the net layer holds

VARIABLES
    mem,                \* descriptors and buffers, in guest memory
    rx_desc_addr,
    rx_desc,            \* ownership bit of the descriptor each queue has read
    based,              \* 1: RXQBASE holds the ring's start, 0: cleared
    enabled,            \* NWCTRL.ENABLE_RECEIVE
    fcs_remove,         \* NWCFG.FCS_REMOVE
    isr, irq,           \* of all queues together
    frame,              \* gem_receive: the frame, or None
    left, part,         \* bytes_to_copy and the number of the next buffer
    held,               \* frames queued by the net layer
    tail,               \* driver: next descriptor it looks at
    told                \* driver: 1 after it read RX_USED

vars == <<mem, rx_desc_addr, rx_desc, based, enabled, fcs_remove, isr, irq, frame,
          left, part, held, tail, told>>

Queues == 0 .. NumQueues - 1
Slots == 0 .. Ring - 1
Frames == [size : Sizes, q : Queues]
None == [size |-> 0, q |-> 0]
Free == [own |-> 0, sof |-> 0, eof |-> 0, length |-> 0, part |-> 0, bytes |-> 0]

\* rx_desc_get_wrap
After(i) == IF i + 1 = Ring THEN 0 ELSE i + 1

Init ==
    /\ mem = [k \in Queues |-> [i \in Slots |-> Free]]
    /\ rx_desc_addr = [k \in Queues |-> 0] /\ rx_desc = [k \in Queues |-> 0]
    /\ based = [k \in Queues |-> 0]
    /\ enabled = 0 /\ fcs_remove \in 0 .. 1
    /\ isr = {} /\ irq = 0
    /\ frame = None /\ left = 0 /\ part = 0
    /\ held = <<>>
    /\ tail = [k \in Queues |-> 0] /\ told = 0

UpdateIrq == irq' = IF isr' = {} THEN 0 ELSE 1
-----------------------------------------------------------------------------
M_CanReceive_AnyBuffer == enabled = 1

\* gem_can_receive: one queue with a free buffer will do.
CanReceive == enabled = 1 /\ \E k \in Queues : rx_desc[k] = 0

\* The frame as the driver will see it: padded, and with or without the FCS
Padded(size) == IF size < MinFrame THEN MinFrame ELSE size
Cut(n) == IF n > MaxFrame - Fcs THEN MaxFrame - Fcs ELSE n
Length(size) == IF fcs_remove = 1 THEN Padded(size) ELSE Cut(Padded(size)) + Fcs

\* The bytes that are copied
Bytes(size) == IF fcs_remove = 1 THEN size ELSE Length(size)

\* gem_receive up to its loop; a frame that is refused leaves no trace but
\* AMBA_ERROR, for which the interrupt line is not updated.
Begin(f) ==
    IF Length(f.size) > MaxBuf
    THEN /\ isr' = isr \cup {"AMBA_ERROR"}
         /\ UNCHANGED <<frame, left, part>>
    ELSE /\ frame' = f /\ left' = Bytes(f.size) /\ part' = 1
         /\ UNCHANGED isr

\* Neither gem_receive nor the flush of held frames is under way.
Quiet == frame = None /\ (held = <<>> \/ ~CanReceive)

\* A frame comes in; gem_mac_address_filter and the length check let it pass.
Arrive(f) ==
    /\ Quiet
    /\ IF CanReceive
       THEN Begin(f) /\ UNCHANGED held
       ELSE /\ Len(held) < MaxHeld
            /\ held' = Append(held, f)
            /\ UNCHANGED <<frame, left, part, isr>>
    /\ UNCHANGED <<mem, rx_desc_addr, rx_desc, based, enabled, fcs_remove, irq, tail, told>>

\* qemu_flush_queued_packets goes on as long as the device can receive.
Deliver ==
    /\ frame = None
    /\ held # <<>> /\ CanReceive
    /\ Begin(Head(held)) /\ held' = Tail(held)
    /\ UNCHANGED <<mem, rx_desc_addr, rx_desc, based, enabled, fcs_remove, irq, tail, told>>

\* No buffer is left in the middle of a frame: it is dropped.
Abort ==
    /\ frame # None /\ left > 0
    /\ ~CanReceive
    /\ frame' = None /\ left' = 0 /\ part' = 0
    /\ UNCHANGED <<mem, rx_desc_addr, rx_desc, based, enabled, fcs_remove, isr, irq, held,
                   tail, told>>

\* gem_get_rx_desc of a descriptor the driver owns
Announce(own) == IF own = 1 THEN {"RX_USED"} ELSE {}

Sof == IF part = 1 THEN 1 ELSE 0

\* One buffer, its descriptor, and the next descriptor
Copy ==
    /\ frame # None /\ left > 0
    /\ CanReceive
    /\ LET k == frame.q
           i == rx_desc_addr[k]
           n == IF left < BufSize THEN left ELSE BufSize
           d == [own |-> 1, sof |-> Sof, eof |-> IF left = n THEN 1 ELSE 0,
                 length |-> IF left = n THEN Length(frame.size) ELSE 0,
                 part |-> part, bytes |-> n]
           own == IF After(i) = i THEN 1 ELSE mem[k][After(i)].own
       IN  /\ mem' = [mem EXCEPT ![k][i] = d]
           /\ rx_desc_addr' = [rx_desc_addr EXCEPT ![k] = After(i)]
           /\ rx_desc' = [rx_desc EXCEPT ![k] = own]
           /\ left' = left - n /\ part' = part + 1
           /\ isr' = isr \cup Announce(own)
    /\ IF Announce(rx_desc'[frame.q]) = {} THEN UNCHANGED irq ELSE UpdateIrq
    /\ UNCHANGED <<based, enabled, fcs_remove, frame, held, tail, told>>

\* The end of gem_receive
Complete ==
    /\ frame # None /\ left = 0
    /\ frame' = None /\ part' = 0
    /\ isr' = isr \cup {"RECV_COMPLETE"} /\ UpdateIrq
    /\ UNCHANGED <<mem, rx_desc_addr, rx_desc, based, enabled, fcs_remove, left, held,
                   tail, told>>
-----------------------------------------------------------------------------
(* The guest.                                                                *)

\* Its driver takes a buffer and gives the descriptor back, at any time.
GiveBack(k) ==
    /\ mem[k][tail[k]].own = 1
    /\ mem' = [mem EXCEPT ![k][tail[k]] = Free]
    /\ tail' = [tail EXCEPT ![k] = After(@)]
    /\ UNCHANGED <<rx_desc_addr, rx_desc, based, enabled, fcs_remove, isr, irq, frame, left,
                   part, held, told>>

\* It writes NWCTRL with ENABLE_RECEIVE: each queue reads its descriptor again,
\* which updates the interrupt line for one that the driver owns. A driver has
\* written the rings' bases by then: a wrap would go to address 0 without them.
Enable ==
    /\ Quiet
    /\ \A k \in Queues : based[k] = 1
    /\ enabled' = 1
    /\ rx_desc' = [k \in Queues |-> mem[k][rx_desc_addr[k]].own]
    /\ LET used == UNION {Announce(rx_desc'[k]) : k \in Queues}
       IN  /\ isr' = isr \cup used
           /\ IF used = {} THEN UNCHANGED irq ELSE UpdateIrq
    /\ told' = 0
    /\ UNCHANGED <<mem, rx_desc_addr, based, fcs_remove, frame, left, part, held, tail>>

Disable ==
    /\ Quiet /\ enabled = 1
    /\ enabled' = 0
    /\ UNCHANGED <<mem, rx_desc_addr, rx_desc, based, fcs_remove, isr, irq, frame, left, part,
                   held, tail, told>>

\* With reception off it builds a ring and writes its base.
SetQBase(k) ==
    /\ Quiet /\ enabled = 0
    /\ mem' = [mem EXCEPT ![k] = [i \in Slots |-> Free]]
    /\ rx_desc_addr' = [rx_desc_addr EXCEPT ![k] = 0]
    /\ tail' = [tail EXCEPT ![k] = 0]
    /\ based' = [based EXCEPT ![k] = 1]
    /\ UNCHANGED <<rx_desc, enabled, fcs_remove, isr, irq, frame, left, part, held,
                   told>>

\* It reads ISR, which clears it.
ReadIsr ==
    /\ Quiet /\ isr # {}
    /\ isr' = {} /\ UpdateIrq
    /\ told' = IF "RX_USED" \in isr THEN 1 ELSE told
    /\ UNCHANGED <<mem, rx_desc_addr, rx_desc, based, enabled, fcs_remove, frame, left, part,
                   held, tail>>

\* gem_reset clears the registers, RXQBASE among them, and leaves the ring
\* positions and the descriptors it has read alone.
Reset ==
    /\ Quiet
    /\ enabled' = 0 /\ isr' = {} /\ UpdateIrq /\ fcs_remove' = 0
    /\ based' = [k \in Queues |-> 0]
    /\ UNCHANGED <<mem, rx_desc_addr, rx_desc, frame, left, part, held, tail, told>>

Next ==
    \/ \E f \in Frames : Arrive(f)
    \/ Deliver
    \/ Abort
    \/ Copy
    \/ Complete
    \/ \E k \in Queues : GiveBack(k)
    \/ Enable
    \/ Disable
    \/ \E k \in Queues : SetQBase(k)
    \/ ReadIsr
    \/ Reset

Spec == Init /\ [][Next]_vars
-----------------------------------------------------------------------------
TypeOK ==
    /\ mem \in [Queues -> [Slots -> [own : 0 .. 1, sof : 0 .. 1, eof : 0 .. 1,
                                     length : 0 .. MaxBuf, part : 0 .. MaxBuf,
                                     bytes : 0 .. BufSize]]]
    /\ rx_desc_addr \in [Queues -> Slots] /\ rx_desc \in [Queues -> 0 .. 1]
    /\ based \in [Queues -> 0 .. 1] /\ enabled \in 0 .. 1 /\ irq \in 0 .. 1 /\ told \in 0 .. 1
    /\ isr \subseteq {"RX_USED", "RECV_COMPLETE", "AMBA_ERROR"}
    /\ frame \in Frames \cup {None} /\ left \in 0 .. MaxBuf
    /\ tail \in [Queues -> Slots] /\ Len(held) <= MaxHeld

\* The descriptor n places before i
Before(i, n) == (i - n) % Ring

(* A frame the driver sees complete is one frame: the descriptors from its   *)
(* SOF to its EOF hold its parts in order, also after a frame before it was  *)
(* dropped half way for want of buffers. (Parts given back are gone.)        *)
FramesWhole ==
    \A k \in Queues, i \in Slots :
        mem[k][i].own = 1 /\ mem[k][i].eof = 1 =>
            \A n \in 0 .. mem[k][i].part - 1 :
                LET d == mem[k][Before(i, n)]
                IN  n <= Before(i, tail[k]) =>
                        /\ d.own = 1 /\ d.part = mem[k][i].part - n
                        /\ d.sof = 1 <=> d.part = 1
                        /\ d.eof = 1 <=> n = 0

(* The device writes only buffers the driver has given to it.                *)
OwnedUntouched ==
    [][\A k \in Queues, i \in Slots :
          Copy /\ k = frame.q /\ i = rx_desc_addr[k] => mem[k][i].own = 0]_vars

(* Frames wait in the net layer only while the device cannot receive, and if *)
(* that is for want of buffers the driver was told so by RX_USED.            *)
WaitAnnounced ==
    held # <<>> /\ enabled = 1 /\ frame = None =>
        \/ CanReceive
        \/ "RX_USED" \in isr \/ told = 1

(* The length reported for a frame that took one buffer was written.         *)
LengthWritten ==
    \A k \in Queues, i \in Slots :
        mem[k][i].eof = 1 /\ mem[k][i].sof = 1 => mem[k][i].length <= mem[k][i].bytes
=============================================================================
