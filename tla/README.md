# Verification of rpi-qemu

rpi-qemu runs unmodified Raspberry Pi operating systems on QEMU. The repository
carries the changes to QEMU and U-Boot as patch files (`ci/qemu-patches`,
`ci/uboot-patches`), the drivers and devices they were written against
(`resources`), and the Python harnesses that boot and exercise the result (`ci`,
`run-*.py`). This directory holds TLA+ models of that code, TLC models that
check them on small instances, and TLAPS proofs that hold for every instance.

Source positions are line numbers of the files in the repository; for QEMU code
those are lines of the patch file. `0037` and the like name patches in
`ci/qemu-patches`.

## 1. The system

| Part | Operations | What makes it hard |
|---|---|---|
| usbip-server (0037): connection, enumeration, URBs | chardev open, close, read, writable; timers; completions and wakeups of the USB core; plug, unplug, machine reset | the parse loop is re-entered from completions; the USB core's queue and the server's must agree; NAKs, stalls and unlinks reorder; a slow client; a device that leaves in mid-enumeration |
| usbip-server (0040): isochronous pacing | submit, retry pass, unlink, connection reset, SET_INTERFACE | the server runs late, several endpoints share a timer |
| DWC2 device mode and dwc2-gadget (0038, 0039) | register writes of the guest, packets and resets of the host, VBUS, bottom half, reset timer | guest and host race; a bus reset is two shots of one timer; one transfer of the host may span several of the guest's |
| PM watchdog (0023), system timer (0034) | register writes, timers, machine reset | a keepalive races the timer; a compare value that has just passed |
| RNG200 (0002) | register reads and writes, deliveries of the entropy backend | deliveries are late, short, and may cross a reset |
| Property mailbox | one request of several tags | lengths written by the guest; settings applied at the end; OTP rows that lock |
| GENET device (0004 with 0009-0012, 0024-0026) | register writes, frame reception | index wrap; a full ring holds frames back until the driver consumes |
| Linux bcmgenet driver | xmit, NAPI polls, interrupts, open, close, suspend, resume, ethtool | several threads and the hardware share rings and registers |
| U-Boot bcmgenet driver; config.txt parser | start, send, recv, free_pkt; parse a line | the peer of the GENET device; section filters and includes |
| Cadence GEM reference device | transmit and receive rings, address filter, screeners | the guest's driver changes descriptors while the device walks them |

How they interact: the guest's driver programs the DWC2 device registers; the
gadget appears as a USB device on usbip-server's port; a USB/IP client (Linux
`vhci_hcd`, or `ci/usbip_client.py`) imports it over a socket. GENET and its two
drivers form a second cluster. The timers, the RNG and the mailbox serve the guest
each on its own.

Everything inside QEMU runs under its big lock: one callback is one atomic
action. Interleaving happens between callbacks, and inside a callback only where
the code calls itself back. The Linux driver is different: its threads, interrupt
handlers and the hardware interleave between register accesses, except under
the locks the code takes.

## 2. Modules

| Module | Models | Source |
|---|---|---|
| `USBIPEndpoint` | the URBs of one endpoint as operators on a record (queue, held, waiting), with the USB core's queueing rules | 0037 |
| `USBIPServer` | the server's state machine over those endpoints | 0037 |
| `USBIPContract`, `USBIPRefinement` | what a client may rely on, and the mapping under which `USBIPServer` implements it | |
| `USBIPIso` | isochronous URBs, the schedule and `iso_timer` | 0040 |
| `Gadget` | session, VBUS, pull-up, connection, bus reset, EP0 | 0039 |
| `GadgetIn`, `GadgetOut` | a data endpoint in each direction, packet by packet | 0039 |
| `Powermgt`, `SysTmr`, `Rng200` | watchdog; compare registers; random number generator | 0023, 0034, 0002 |
| `Property` | the walk over a mailbox request, OTP rows, framebuffer settings | `qemu-bcm2835-property.c` |
| `GenetTx`, `GenetRx` | one ring with its NAPI poll, interrupts and DMA engine | `bcmgenet.c` |
| `GenetTxFifo`, `GenetRxFifo`, `GenetTxRefinement`, `GenetRxRefinement` | the queue each ring implements, and the mappings | |
| `GenetRings` | the division of the descriptors among the rings | `bcmgenet.c` |
| `GenetLife` | probe, remove, open, close, suspend, resume, Wake-on-LAN, link interrupts | `bcmgenet.c`, `bcmgenet_wol.c`, `bcmmii.c` |
| `GenetFilter`, `GenetMdf` | flow rules in the hardware filter block; the address filter | `bcmgenet.c` |
| `GenetLink`, `GenetCoalesce` | speed, pause, EEE and receive mode; interrupt moderation | `bcmmii.c`, `bcmgenet.c` |
| `UbootGenet` | U-Boot's driver on the emulated GENET | U-Boot `bcmgenet.c`, 0004, 0025, 0026 |
| `Cfgtxt` | U-Boot's config.txt parser and `cfgtxt clear` | U-Boot patch 0001 |
| `GemTx`, `GemRx`, `GemFilter`, `GemScreen` | the Cadence GEM's rings, address filter and screeners | `qemu-cadence-gem.c` |
| `*Proofs`, `*Lemmas` | theorems about the module they are named after; `USBIPClient*` about what `USBIPServer` is to its client, `DeviceProofs` about `Powermgt`, `SysTmr`, `Gadget` and `GenetRings` | |
| `MC*` | the instances TLC checks | |

Definitions whose names begin with `M_` are mutations: plausible mistakes in the
definition after them. Substituted one at a time, each makes a property fail,
which shows that the property depends on that piece of the code.

### USBIPServer and USBIPEndpoint

`conn` is `s->conn`; `device` says whether a device sits on the port; `ep[k]` is one
endpoint queue (`usbip_urb_key`): `queue` the URBs given to the USB core, `held` the
one in state `USB_PACKET_ASYNC`, `waiting` the list `s->waiting[key]`. The other
variables are the fields of the same or similar names; `urb` is history: what the
client was told about each URB. URBs are numbers in submission order, so "in order"
is "increasing"; the server's own enumeration URB is number 0. A device answers a
packet with NAK, ASYNC or DONE, chosen freely.

Each callback of the code is one action, except `usbip_parse`. Its loop is one action
per message (`ParseMalformed`, `ParseOp`, `ParseSubmit`, `ParseUnlink`, `ParseEnd`);
the variable `parse` keeps every other action out until the loop ends, and `cont`
records that `usbip_retry` is its caller and goes on afterwards. This keeps the code's
atomicity and its re-entry.

The USB core is not part of the repository. `HandlePacket`, `Status` and
`PacketComplete` model its queueing as the server uses it: a packet is given to the
device only if its endpoint's queue is empty; completing the head starts the next; a
stall returns those behind it through `usbip_port_complete`; cancelling the head does
not start the next, which is why `usbip_requeue_behind` exists. The core asserts
that a device never NAKs a packet it starts from the queue.

Abstractions: `USBIP_MAX_URB_BYTES` is a second limit of the same form as
`USBIP_MAX_URBS`, and only the count is kept; `ep->halted` is set when the core empties
a queue and cleared with the next packet, so it is left out; `port_resetting` hides a
detach inside `usbip_enumerate` from the server; a wakeup during a parse has the effect
of one right after it.

`USBIPContract` has three variables: the link, the accepted and unanswered URBs per
endpoint, and the answer each URB got. `KeepsContract` says that `USBIPServer`
implements it with `conn` as the link, `Order(ep[k])` as the pending URBs and `urb` as the
answers.

### USBIPIso

An ISO URB stays in `waiting[k]` until its last packet; a pass of `usbip_retry` services
at most one packet of each endpoint's first URB, and goes on to the next URB only if this
one completed. A pass may start at any time (`Poll` stands for the retry timer and
bottom half) and the ISO timer may be arbitrarily late. A pass is one action per URB
it tries, with `pass` naming the queue it is at. `frames` and `lastAt` are history.

### Gadget, GadgetIn, GadgetOut

`Gadget` has the bits of GOTGCTL, DCTL, GUSBCFG and DSTS that decide whether the host sees
the device (`core`), `connect_bh` (`bh`), the phases of a bus reset with its timer, and one
control transfer (`ctl`) against the guest's EP0 registers (`ep0`). `Ep0Run` is
`dwc2_ep0_run`, which ends every register write; it moves as far as it can, in the
same step. `asleep` and `enumd` record what the guest driver concludes from interrupts.
`GadgetIn` and `GadgetOut` cut transfers into packets of `Mps` bytes and compare them with
what a wire would carry: the guest's transfers end on short packets, the host's on
short packets or when full, and neither knows how the other cut its buffer. Data
endpoints share nothing with EP0 while the host is attached. DMA addresses are valid.

### Powermgt, SysTmr, Rng200, Property

`Powermgt` keeps the ticks the watchdog still has to run (`left`), so no clock needs a
bound; `request` holds what was asked of QEMU's main loop, which acts later, and
the guest may write registers in between. `SysTmr` lets any time pass between the guest's
read of the counter and its write of a compare register, also while the register is armed with
an earlier value; `ahead` is the true distance to the moment the guest asked for, which the
32-bit registers know only modulo their range, and `asked` that of the moment an armed
register was last written for.
`Rng200` counts bytes. The backend answers requests in order and keeps those made
before a reset; two instances are checked, one with full and one with short deliveries.
`Property` counts words: a tag is its name, buffer size and first two words, and each
pass through the loop is a step, so that settings told to the guest early and applied at the
end can be compared. The walk reads whatever stands at its offset (`Here`), the middle of a
tag included. `HasRoom` and `LaidOut` name what a well-formed request is: the buffers hold
what the tags return and the lengths lead from tag to tag; `RequestServed` speaks of those,
because the code checks neither.

### The Linux driver

`GenetTx` and `GenetRx` have the driver's indices and control blocks on one side and the DMA
engine's on the other; the interrupt status and mask, the NAPI state and the place in the poll are
variables, because an interrupt may come between any two of the poll's accesses. `ring->lock`
makes `bcmgenet_xmit` and the body of the reclaim exclude each other: each is one action. A
transmit timeout is four (`TimeoutClear`, `TimeoutDrop`, `TimeoutRewind`, `TimeoutWake`), with
`dog` the place in it: the lock keeps xmit and the poll out, and nothing keeps the hardware from
sending in between. `dog` is "lost" once it has sent a packet that the timeout dropped; from then
on driver and hardware no longer agree, and the properties make no claim (section 5). `faults`, a
member of `FaultSets` chosen in the initial state and kept, says what may go wrong (a failing
mapping, no room for the status block, a timeout, a reopening). The hardware is modelled from how
the driver uses it, and marked external. `GenetTxRefinement` and `GenetRxRefinement` map the rings
to queues: packets are sent in the order accepted and given back after that; frames come up once
each, in order.

`GenetLife` cuts open, close, suspend and resume into the pieces between which interrupts, the
work item and the PHY state machine can run; `pc` is the next piece and error paths are
pieces of their own. A `bcmgenet_resume` that cannot initialise DMA ends in `pm = "failed"`.
`late` counts the interrupt handlers that had read a link event when the interrupts were masked.
The PHY detection event is left out: `bcmgenet_link_intr_enable` unmasks it for GENET v1 to v3
only (`bcmgenet.c:2590`), and the Pi's is v5. `GenetFilter` follows each byte of a rule into
the filter's words.
`GenetMdf` programs the address filter one entry at a time while frames arrive. `GenetLink`
interleaves three writers of `UMAC_CMD` under the locks they take. `GenetCoalesce` keeps
the register widths: a timeout that does not fit is the case at issue.

### UbootGenet, Cfgtxt

`UbootGenet` composes U-Boot's driver with the emulated controller and the net layer that
holds frames while it cannot receive. PROD_INDEX is a 32-bit register and the consumer index
wraps at `IndexMod`, as in the code. `Cfgtxt` reads files line by line, with a stack of the
files being included; a line is already split into the kinds the parser tells apart. It is
checked against a reference definition that evaluates a whole file at once.

### GEM

`GemTx` and `GemRx` walk descriptor rings one descriptor at a time, with the driver's writes
between. `GemTx` reads descriptors of `DescLen` words and writes back `DESC_MAX_NUM_WORDS`
of them, as the code does. A driver of `GemRx` writes the ring's base after a reset and before it
enables reception. `GemFilter` writes specific addresses in two halves, in either order and
either one alone; `GemScreen` runs
`get_queue_from_screen` step by step against a definition of the first match.

## 3. Runs

Parts that share no variable are checked side by side in one run: a tag (`device`, `part`
or `path`), chosen in the initial state, picks the part that moves, and the others
rest in an initial state of theirs or are absent. A behaviour of the part that moves is a
behaviour of its own specification and the other way round, so nothing is gained or lost; a
property of the run is the conjunction of the parts' properties.

| Run | Model | Properties | States |
|---|---|---|---|
| `timers` | `MCTimers`: `Powermgt`, `SysTmr`, `Gadget` | `FiresOnTime`, `WatchdogHonest`, `Barks`, `GadgetLive` | 119 k |
| `devices` | `MCDevices`: `Gadget`, `GadgetIn`, `GadgetOut`, `Rng200`, `Property` | `AnsweredOnce`, `DeviceSafe`, `DataOnWire`, `RngServes`, `RequestServed`, `SetupAfterRecovery`, `OtpProtected` | 793 k |
| `usbip_order` | `MCUSBIPServer.cfg` | `EndpointOrder`, `NothingStranded`, `HeldRightly` | 696 k |
| `usbip_limits` | `MCUSBIPLimits.cfg` | `WithinLimits`, `KeepsContract` | 699 k |
| `usbip_live` | `MCUSBIPLive.cfg` | `Progress` | 24 k |
| `usbip_iso` | `USBIPIso.cfg` | `OnePerFrame`, `IsoTimerArmed`, `CatchesUp` | 1345 k |
| `genet_dma` | `MCGenetDma`: `GenetTx`, `GenetRx` | `RingConsistent`, `TdmaReadsMapped`, `TxSafe`, `RxSafe`, `KeepsRxFifo` | 750 k |
| `genet_rings` | `MCGenetRings`: `GenetRings`, `GenetTx`, `GenetRx` | `Partitioned`, `WindowsApart`, `KeepsFifo`, `QueuesDrain` | 43 k |
| `genet_config` | `MCGenetConfig`: `GenetLife`, `GenetFilter`, `GenetMdf`, `GenetLink`, `GenetCoalesce` | `InterfaceSafe`, `FiltersAsAsked`, `LinkAsAgreed`, `ModerationSafe`, `LinkTracked` | 367 k |
| `uboot` | `MCUboot`: `UbootGenet`, `Cfgtxt` | `UbootSafe`, `HeldDelivered`, `ConfigRead` | 302 k |
| `gem` | `MCGem`: `GemTx`, `GemRx`, `GemFilter`, `GemScreen` | `GemTransmits`, `GemReceives`, `GemSorts` | 532 k |
| `uboot_genet_wrap` | `UbootGenetWrap.cfg` | `SendSucceeds`, violated | |

What they show:
- **timers**: a compare written late by less than half the range fires at once, any other at
  its moment; only a guest that armed the watchdog is rebooted, never before its countdown,
  and eventually if nobody feeds or stops it; a bus reset ends and the host sees the pull-up.
- **devices**: no control transfer is dropped or answered twice; the connection the host
  sees, the driver's wakefulness and EP0 agree; data endpoints carry what a wire would and
  leave nothing waiting that could go on; no SETUP during a reset or its recovery; the
  generator's COUNT, budget and interrupt are honest; every tag is answered within its buffer,
  settings told are settings applied, a locked OTP stays as it is.
- **usbip_order**: NAKs, retries, stalls and unlinks keep each endpoint's URBs in submission
  order; no packet or waiting URB is left without a mover; an enumeration holds exactly its own
  URB; URBs are only held for a device that is there.
- **usbip_limits**: `s->nurbs` counts what is held on every path, the output buffer is bounded
  although a client need not read, and each accepted URB gets one answer, in order, and none
  after an unlink or a close.
- **usbip_live**: accepted URBs are answered, enumerations end, reading resumes.
- **usbip_iso**: at most one packet per frame and endpoint, the shared timer is never later
  than a scheduled packet, and a late server is back on schedule at once.
- **genet_dma**: driver and hardware agree about both rings through failing mappings,
  reopenings, and timeouts during which the hardware sends none of the packets dropped; the
  hardware reads mapped packets only, except between a timeout's drop and its rewind; the
  accounting is exact with failing mappings and skbs without room for the status block, and
  the rest (see `GenetTx` in section 4) without any fault; buffers have one owner; the
  receive ring is a queue.
- **genet_rings**: the rings partition the descriptors for every version's parameters; the
  transmit ring is a queue; packets are freed, stopped queues restart, frames are taken.
- **genet_config**: an interface that is up has what it needs, one that is down or could not be
  resumed holds nothing, and the work item is gone once it has been cancelled, unless an
  interrupt handler was already under way; filters match exactly what was asked; link, pause and
  receive mode do not undo each other; moderation never turns interrupts off, keeps the user's
  values but for a work item that was already computing others, and goes on adapting.
- **uboot**: each send goes out once, also across index wrap and restarts; the ring
  holds what was accepted; held frames are received; config.txt is read as its sections say.
- **gem**: packets go out whole, in order, and none is overlooked except as section 5 says;
  `gem_transmit` ends unless the driver posts for ever; received frames fill only buffers the
  driver gave; a half-written address matches nothing; the first matching screener decides.
- **uboot_genet_wrap**: see section 5.

Bounds. For usbip-server, two endpoint queues are the least in which EP0 (enumeration) and
a data endpoint interact. Three URBs on one endpoint are one the device holds and two
behind it, the least in which the order of those returned after a stall or an unlink can go
wrong; `usbip_limits` puts them on both endpoints with a limit of two. `MaxBatch` of 2 lets a
message arrive behind an `OP_REQ_*` in the same read. `HIGH_WATER` is 0: one buffered reply
already stops the reading. `MaxSeq` bounds a whole run: reconnects continue the numbering. For
the schedule: frames of two ticks, URBs of one or two packets, intervals of one or two frames,
five ticks and three URBs over two endpoints. The gadget gets two control transfers, two bus
resets and three changes of VBUS, pull-up, role or a controller reset, so that a second event
meets an unfinished first; data endpoints three transfers of each side with packets of two
bytes, empty, odd and full ones. The watchdog has a three-bit countdown and is given values
beyond it; the system timer starts at every position of an eight-value counter. The transmit
ring has four descriptors, packets of one or two and indices modulo eight in `genet_dma`, a
multiple of the ring's size as 65536 is, and modulo five in `genet_rings`, so that ring and
indices wrap at different places; the receive ring two descriptors and three buffers.
The address filter is one entry too small for its addresses; filters have the real
`hfb_filter_size` of 128 words.
U-Boot's rings have three descriptors with indices modulo six, and `MaxProd` 8 lets them wrap;
config.txt files have four lines out of eleven kinds, with five include files; another instance
has no include callback, as `cfgtxt import` does, with include lines all the same. GEM rings have
four and three descriptors and frames of up to three buffers; transmit descriptors have two
words, so that a write-back covers three of them. The RNG's FIFO holds six bytes; of the
two budgets, one allows a single filling and with the other the 7-bit counter wraps.

Fairness. Safety runs assume none. `FairSpec` of `USBIPServer` assumes that the parse loop runs
on (it is one C call); that QEMU's main loop gets to every ready timer, bottom half and watch,
strongly because a parse keeps them out for its duration; that a client reads its replies; and
that the device completes what it holds and does not NAK the same URB for ever. The last two
are assumptions about peers: the code cannot answer an URB the device never finishes, and does
not try to. Nothing is assumed about the client sending anything. The watchdog's and the gadget's
liveness assume that virtual time passes, that the main loop runs due timers, bottom halves and
requests, and that the guest driver acknowledges interrupts. The rings' assume that unmasked
interrupts are delivered, that a scheduled poll runs to its end, that the hardware sends, and
that the stack ends the batches it begins (`xmit_more`). `LinkTracked` assumes that interrupt
handlers, the work item and the PHY state machine run when due. `HeldDelivered` assumes that
U-Boot goes on calling recv and free_pkt while the interface is up; `GemTransmits` that
`gem_transmit`, one C call, goes on. All of these are weak except the main loop's in
`USBIPServer`. An action of a part that rests is not enabled, or its fairness names the tag.

Deadlock is checked in the usbip and `genet_dma` runs. In the others some part may really stop: a
machine that has shut down, a parser at the end of its file, a removed driver, a guest whose
bounded events are used up.

## 4. Proofs

| Module | Theorems | State |
|---|---|---|
| `DeviceProofs` | `WdogTypeCorrect`, `OnlyArmed`, `CountdownRuns`, `Honest` | `WatchdogHonest` of `Powermgt` and its two parts, for every countdown width |
| | `Punctual` | `FiresOnTime` of `SysTmr`, for every counter width and number of timers |
| | `HostAnswered`, `SeenByHost`, `DriverAwake`, `NoTransferForgotten`, `GadgetSafe`, `SetupOutsideReset` | `AnsweredOnce`, `DeviceSafe` and its parts, `SetupAfterRecovery` of `Gadget`, for any transfers and any number of events |
| | `RingsTile`, `RingsWithinTable`, `RingsPartition`, `RingsApart` | `Partitioned` and `WindowsApart` of `GenetRings`, for every division that fits the table |
| `USBIPServerLemmas` | `InitIInv` and lemmas | what each operator of `USBIPEndpoint` does to the order of an endpoint; the inductive invariant of `USBIPServer` and the steps its callbacks are made of |
| `USBIPServerProofs` | `TypeCorrect`, `SubmissionOrder`, `NoQueueStuck`, `NoUrbForgotten`, `NeverStranded`, `NoReplyStuck`, `EnumeratesAlone`, `NeverWithoutDevice`, `HoldsOnlyItsOwn` | `EndpointOrder`, `NothingStranded`, `HeldRightly`, `OutputWatched`, for any endpoints, URBs and limits |
| `USBIPClientLemmas` | lemmas only | a second invariant, what the server owes its client, and the steps that keep it |
| `USBIPClientProofs` | `HeldAnswered`, `LimitsKept`, `ContractKept` | `WithinLimits`, and that `USBIPServer` implements `USBIPContract` (`KeepsContract`), for any endpoints, URBs and limits |
| `USBIPIsoProofs` | `TypeCorrect`, `NeverTwiceInAFrame`, `NeverSleptThrough`, `BackOnSchedule` | `OnePerFrame`, `IsoTimerArmed`, `CatchesUp`, for any frame length, intervals and delays |
| `GenetTxProofs` | `RingSafe`, `TdmaFollows`, `RingsAgree`, `TdmaSafe`, `TransmitExact` | `RingConsistent`, `TdmaReadsMapped`, `TxSafe`, for every ring size, fragment limit, index width and set of faults |
| `GenetRxProofs` | `ReceiveSafe`, `RxFifoKept` | `RxSafe`, and that `GenetRx` implements `GenetRxFifo` (`KeepsRxFifo`), for every ring size, budget and set of buffers |

Assumptions are those named in the modules: a non-empty countdown range and natural WDOG values; a
positive half range; natural transfer lengths; finitely many endpoints, EP0 among them, natural
limits and at least one message per read; positive frame length and packet counts, any integers as
intervals; a transmit ring with more than `MAX_SKB_FRAGS + 2` descriptors and fewer than the
indices' range; a receive ring smaller than that range; queues whose descriptors fit the table and
have at least one word each. `Property`, `Rng200`, `GenetLink`, `GenetCoalesce` and `UbootGenet`
name theirs too, for the runs alone: well-formed requests, a FIFO smaller than the counter's
range, links a PHY can establish, profiles that fit their registers, an index range the ring's
size divides. The bounds of the runs (`MaxSeq`, `MaxBatch`, `MaxTime`, `MaxUrbs`, `MaxReqs`,
`MaxResets`, `MaxToggles`, `MaxBql`, `MaxDropped`) are arbitrary in the proofs.

**Powermgt.** `OnlyArmedExpires` needs that a pending timer implies `V_RSTC_RESET`, and
`NeverEarly` that `left` and `since` together cover the countdown in WDOG. `WdogInv` is `TypeOK`
with those two.

**SysTmr.** The registers know a moment only modulo the counter's range. The invariant says that
the compare value a guest holds, or an armed register, denotes the moment it asked for, while the
guest is late by less than half the range, which is assumed of it; `DelayIsDistance` then shows
that the code's signed comparison recovers the true distance.

**Gadget.** Four invariants, each with one proof step per action. `CtlInv`: the stage of the
control transfer, its lengths and the host's waiting agree; it rests on `RunFacts`, what one
run of `dwc2_ep0_run` may do. `BusInv`: the session follows VBUS, the timer runs exactly
during a reset, and `connect_bh` is pending whenever the connection is out of date. `WakeInv`:
once the end of a session has been or is about to be reported, WkUpInt is on its way or the
core is still suspended. `NoSilentWait` is inductive with them: `Ep0Run` stops only where it
can do nothing more or where it raised the EP0 interrupt, and what could undo that is followed
by another run of it in the same step.

**USBIPServer.** Order alone is not preserved by a submit: a new URB must be later than every
held one, and must not go to the device past a waiting one. `IInv` joins the shape and order of
each endpoint (`AllGood`), what may be held in each state of the connection (`Linked`,
`Present`), and that the CMD_SUBMITs still in `rx` are in order and later than every URB held
(`RxFresh`, `UrbsFresh`). The facts about sequences and what the callbacks have in common
(reset, enumeration, retry, read) are in `USBIPServerLemmas`, and `USBIPServerProofs` has one lemma
per remaining action and the theorems.

The limits and the contract relate the server's lists to what the client was told, so they
need a second invariant on top of the first. `LInv` says that the URBs held on an endpoint are
exactly those the client waits for there, that an URB still to be parsed has no answer,
that `nurbs` is the number waited for, that output buffered, messages unparsed and a running
enumeration together stay within the bound, and that a chunk is only read with the output
below its mark. Every action of the server is one of a few kinds of step (`Steps`: reset,
enumeration, read, submit, unlink, completion of some front of each endpoint, or nothing the
client sees); each kind keeps `LInv`, and each is a step or a stutter of `USBIPContract`
(`StepsKeep`). The contract asks for the front of an endpoint to be answered first, which is
where the order proved for `IInv` is used.

**USBIPIso.** `OnePerFrame` speaks of the past, so `IInv` relates it to the future: all due times
lie on frame boundaries, every frame used so far is before the endpoint's `nextDue`, and only the
first URB of a queue is scheduled. `IsoTimerArmed` holds in the middle of a pass only for the
queues already visited, which is why its statement mentions `pass`.

**GenetTx.** Every index is a distance, modulo the indices' range, from the driver's consumer
index: `Split` names the three distances (hardware's consumer, doorbell, producer) as
ordinary numbers in order, each action moves one of them, and `Join` goes back to indices.
A transmit timeout is the case that makes the invariant an inequality for `free_bds`, and
the hardware may send between any two of its steps: `RingInv` says at each place in the timeout
what still holds, and nothing is claimed once the hardware has sent a dropped packet.
That the hardware reads mapped packets only needs `Mapped`: every outstanding slot belongs to a
packet the driver holds and whose last slot is not behind it. It survives all faults, but for
the time between a timeout's drop and its rewind. What
is exact only without some of them is kept under that condition (`AllInv`): without
timeouts and reopenings the accounting is an equality and each packet has exactly its
own slots; without any fault idle blocks are empty, the doorbell has been rung outside a batch,
a running queue has room for any packet, and byte queue limits hear of each completion once.

**GenetRx.** `RxInv` adds to `RxSafe` that what the poll has taken and has still to take is within
its budget, so `todo` never exceeds what is filled. The refinement mapping lists the filled slots
from `read_ptr` on; `StoreStep` and `TakeStep` show that a frame written is an `Append` to that
list and a frame taken its `Tail`, because the slot written is none of the filled ones and
each filled slot has a buffer of its own.

**GenetRings.** The loop keeps `end` so far from the table's end that the rings that follow fit.
`WindowsApart` follows from the tiling: words per descriptor are positive, so the windows of words
are ordered as the descriptors are.

Only model-checked: liveness; `KeepsFifo`, whose mapping selects from the slots in use those a
packet ends at, and what a selection computes takes an induction over the sequence; `DataOnWire`
and `ConfigRead`, because the definitions of `GadgetIn`, `GadgetOut` and `Cfgtxt` are recursive;
and the modules no theorem is about yet: `Rng200`, `Property`, `GenetLife`, `GenetFilter`,
`GenetMdf`, `GenetLink`, `GenetCoalesce`, `UbootGenet` and the GEM's.

## 5. Where the code and its comments disagree

`uboot_genet_wrap` is a run of its own: `bcmgenet_gmac_eth_send` (U-Boot `bcmgenet.c:310`) compares
the 16 bits of CONS_INDEX with a producer index it counts in 32 bits, and the emulated
controller stores PROD_INDEX as written (0004, line 753). From the 65536th send after a start on,
every send is reported as timed out although its packet went out; 0025, line 38, says
"PROD_INDEX/CONS_INDEX are 16-bit counters: wrap like the hardware." `UbootSafe` states what
does hold: the packet goes out exactly once, and no send times out before.

The following are definitions of the modules that TLC finds violated when a configuration checks
them. No run lists them; the properties of the passing runs are stated so as to exclude exactly
these cases, as their comments say. Line numbers are those of the code; what the comment
there promises is quoted.

| Definition | Code | What happens |
|---|---|---|
| `GenetTx!NoStaleCb`, with fault `map` | `bcmgenet.c:2243` | `bcmgenet_put_txcb` returns the control block at `write_ptr` before it rewinds, so after a failed mapping the head's block keeps its mapping and a pointer to the freed skb. 2241: "Unmap successfully mapped control blocks" |
| `GenetTx!DoorbellRung`, with faults `tsb` or `map` | `bcmgenet.c:2158` | a packet that fails in the middle of a batch returns past the doorbell, so what the batch queued before waits for the next packet. 2229: "Packets are ready, update producer index" |
| `GenetTx!RingAccounted`, with fault `timeout` | `bcmgenet.c:1985` | `bcmgenet_tx_reclaim` of everything rewinds the indices without giving the dropped descriptors back to `free_bds`. `bcmgenet.h:548`: "# of free bds for each ring" |
| `GenetLife!WorkStops`, without its `late = 0` | `bcmgenet.c:3406` | a `bcmgenet_isr0` that has read a link event when the interrupts are masked schedules the work item after `cancel_work_sync`; it may then run without a clock, or without a PHY. 3403: "Since interrupts are disabled no new work will be scheduled." |
| `GenetLife!MdioEnabled`, with fault `abort` | `bcmgenet.c:4196` | a suspend with Wake-on-LAN that is given up before its noirq phase leaves MDIO interrupts masked. 2660: "Enable MDIO interrupts on GENET v3+" |
| `GenetLife!LinkUpTransmits` | `bcmgenet_wol.c:195` | an interface that slept with Wake-on-LAN before its first link-up never gets CMD_TX_EN. `bcmgenet.c:4185`: "Successfully exited WoL, just resume data flows" |
| `GemTx!SentPosted`, with two queues | `qemu-cadence-gem.c:1342` | fragments of a packet refused on one queue are sent in front of the next queue's packet. 1302: "Packets scattered across multiple descriptors are gathered to this one contiguous buffer first." |
| `GemTx!NoneOverlooked`, without its `undone = 0` | `qemu-cadence-gem.c:1366` | 24 bytes are read and written back whatever the descriptors' length, so a packet the driver posts in between, in one of the two descriptors behind the first, is used again and waits for ever. 1359: "Modify the 1st descriptor of this packet to be owned by the processor." |
| `GemTx!IrqFollowsStatus` | `qemu-cadence-gem.c:1341` | an AMBA error is recorded without updating the interrupt line. 697: "Raise or lower interrupt based on current status." |
| `GemRx!OwnedUntouched`, with two queues | `qemu-cadence-gem.c:1159` | `gem_can_receive` is content with a free buffer in any queue, and `gem_receive` writes to the frame's own queue. 1059: "Fit a packet handed to us by QEMU into the receive descriptor ring." |
| `GemRx!LengthWritten` | `qemu-cadence-gem.c:1103` | a short frame received with FCS_REMOVE is reported as 60 bytes although fewer were written. 1112: "Pad to minimum length." |
| `Cfgtxt!ListsKept`, with overlays in an included file | U-Boot patch 0001:715 | the counters of multi-value keys start at zero again in an included file. 588: "For keys like dtoverlay that can appear multiple times." |
| `Cfgtxt!ClearsAll`, with more names than `MaxNames` (256 in the code) | U-Boot patch 0001:752 | names beyond the table are not cleared. 213: "Remove all rpi_cfg_* environment variables" |

Some exceptions in the properties contradict no comment, and are worth knowing all the same:

- `bcmgenet_timeout` reclaims every ring and halts neither TDMA nor interrupts. Between the frees in
  `bcmgenet_tx_reclaim` and its write of PROD_INDEX the hardware may read a packet that has been
  freed, and once it has sent one CONS_INDEX is ahead of the PROD_INDEX the driver writes: the next
  reclaim takes back a descriptor that is not in use. `dog` in `GenetTx` is "lost" from there until
  a reopening.
- A `bcmgenet_resume` that fails in `bcmgenet_init_dma` turns the clocks off and leaves an
  interface that `netif_running` calls up, with its interrupts requested and its NAPI contexts
  disabled: a handler would read registers without a clock and a later close would wait in
  `napi_disable`. `GenetLife` stops at that point; `FailedClean` says what the failed resume
  itself leaves behind.
- An ethtool rule for `ETHER_FLOW` with `FLOW_MAC_EXT` is accepted, and its extended destination is
  overwritten by the one of the flow itself (`bcmgenet.c:608`, `636`).
- `bcmgenet_dim_work` that was already computing when the user set fixed values applies its
  profile over them once. Cancelling a queued `dim_work` leaves `dim->state` waiting for it, and
  the ring never adapts again.
- `gem_transmit` ends only if the driver stops posting behind it.
- The property mailbox checks neither that a tag's buffer holds its answer nor that the tags lie
  within the request (`HasRoom`, `LaidOut`).

The GEM and the Linux driver are reference sources the repository keeps for comparison; the
board does not run that GEM model.

## 6. Not modelled

- **usbip-server**: a chardev write that fails may deliver `CHR_EVENT_CLOSED` from inside the
  write; whether it does depends on the chardev backend, which is outside this repository, and
  the models deliver it as an event of its own. USB streams and pipelined endpoints: the
  server submits without a stream and the gadget asks for neither. Descriptor contents,
  device records and message layouts: no property speaks of them.
- **dwc2-gadget**: isochronous endpoints, DMA errors, FIFO sizes, the masking of GINTSTS and
  DAINT, and removal of the device.
- **The gadget on usbip-server's port** is not one composed model. Each is checked against a peer
  that acts freely: the server against a device that answers as it likes, the gadget against
  a host that submits, cancels and resets as it likes. Alone they have up to 700 thousand states
  each, and their product was not attempted.
- **GENET device**: interrupts, MDIO, filters, checksums and the choice of a receive ring. They
  are computed from registers in one step.
- **Linux driver**: statistics and register dumps, parameters by hardware version, MDIO bus
  registration, PHY power sequences: straight-line code.
- **U-Boot**: MDIO, address registers and device-tree parsing; splitting config.txt into lines
  and keys, and empty values (patch 0001:857), whose effect is that of `env_set`; cmdline.txt, which
  copies one line.
- **GEM**: interrupt masks, statistics, PHY registers, migration, loopback, time stamps, checksum
  offload, and properties across several queues other than the two in section 5.
- **PM power domains, ASB bridges, DWC2 host interrupts**: each acknowledge or summary bit is
  computed from its inputs within one register write; there is no state between the two.
- **MPHI, SD erase, PL011**: changes of a few lines to upstream devices whose source is not
  in the repository.
- **PCIe root complex, thermal sensor**: register files without behaviour of their own.
- **Board set-up, device-tree fixups**: run once, before the guest starts.
- **USB/IP test client, harnesses, build scripts**: sequential scripts; input and output only. What
  a client may see is `USBIPContract`.
