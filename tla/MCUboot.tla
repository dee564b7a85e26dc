------------------------------ MODULE MCUboot -------------------------------
(* U-Boot on the emulated board, side by side: its Ethernet driver against    *)
(* the GENET model (rings of a few descriptors, indices that wrap soon) and   *)
(* its config.txt parser.  They share no state; Init picks the one that runs. *)
EXTENDS UbootGenet

CONSTANTS p1, p2, f1, f2

MCPackets == {p1, p2}
MCFrames == {f1, f2}

VARIABLES part, content, stack, single, indexed, counted, commands, fresh

\* For liveness, the driver receives only, and one frame in the system is f2, so
\* that it can be followed.
Among(f, s) == {i \in 1 .. Len(s) : s[i] = f}
OneF2 == \A i, j \in Among(f2, held) : i = j
-----------------------------------------------------------------------------
MCOpts == [model |-> "pi400", serial |-> "s1", partition |-> "p1", tryboot |-> 0,
           include_cb |-> 1]
Header(k, v) == [t |-> "section", kind |-> k, v |-> v]
Value(k, v) == [t |-> "single", set |-> [x \in {k} |-> v]]
Overlay(v) == [t |-> "list", key |-> "dtoverlay", v |-> v]
Inc == [t |-> "include", v |-> "inc"]
Initramfs == [t |-> "single", set |-> [initramfs |-> "i", initramfs_addr |-> "followkernel"]]

Headers == {Header("all", ""), Header("none", ""), Header("broken", ""),
            Header("model", "pi4"), Header("model", "pi3"), Header("serial", "s1"),
            Header("gpio", "4")}
Directives == {Value("kernel", "a"), Initramfs, Overlay("x"), Inc}

\* Every config.txt with four headers or directives, the last one a directive,
\* and include files one of which includes itself
Mains == {h \o <<d>> : h \in [1 .. 3 -> Headers \cup Directives],
                       d \in {Value("kernel", "b"), Overlay("y")}}
Included == {<<>>,
             <<Value("kernel", "c"), [t |-> "other"], [t |-> "include", v |-> "absent"]>>,
             <<Header("model", "pi3"), Value("kernel", "c")>>,
             <<Header("tryboot", ""), Overlay("z"), Header("all", ""), Inc>>,
             <<Inc, Value("initramfs", "j"), Inc>>}

\* Sections of the kinds that Headers leaves out
MoreHeaders == {Header(k, v) : k \in {"serial", "partition"}, v \in {"s1", "p1"}}
               \cup {Header("tryboot", ""), Header("edid", "e"), Header("model", "cm4"),
                     Header("model", "pi400"), Header("all", ""), Header("none", "")}

Keys == {"kernel", "initramfs", "initramfs_addr"}

\* One import of every file by a caller that loads include files, as the header
\* provides for; and imports and clears of simpler files in turn, without a
\* callback, as do_cfgtxt_import does it
Cfg == INSTANCE Cfgtxt WITH
           Contents <- {[main |-> m, inc |-> i] : m \in Mains, i \in Included},
           Main <- "main", Opts <- MCOpts, Lists <- {"dtoverlay"},
           MaxDepth <- 2, MaxNames <- 16, MaxIndex <- 6, MaxCommands <- 1
More == INSTANCE Cfgtxt WITH
            Contents <- {[main |-> h \o <<Value("kernel", "a"), Overlay("x")>>]
                            : h \in [1 .. 3 -> MoreHeaders \cup {[Inc EXCEPT !.v = "main"]}]},
            Main <- "main", Opts <- [MCOpts EXCEPT !.include_cb = 0], Lists <- {"dtoverlay"},
            MaxDepth <- 2, MaxNames <- 16, MaxIndex <- 6, MaxCommands <- 3

cfg_vars == <<content, stack, single, indexed, counted, commands, fresh>>

NoConfig ==
    /\ content = <<>> /\ stack = <<>> /\ commands = 0 /\ fresh = 0
    /\ single = <<>> /\ indexed = <<>> /\ counted = <<>>

UbootInit ==
    \/ part \in {"driver", "receiver"} /\ Init /\ NoConfig
    \/ part = "config" /\ Init /\ Cfg!Init
    \/ part = "sections" /\ Init /\ More!Init

UbootNext ==
    /\ \/ part = "driver" /\ Next /\ UNCHANGED cfg_vars
       \/ part = "receiver" /\ Next /\ OneF2' /\ asked' = None /\ UNCHANGED cfg_vars
       \/ part = "config" /\ Cfg!Next /\ UNCHANGED vars
       \/ part = "sections" /\ More!Next /\ UNCHANGED vars
    /\ UNCHANGED part

\* Fairness as in UbootGenet, for the driver that receives
UbootSpec ==
    /\ UbootInit /\ [][UbootNext]_<<part, vars, cfg_vars>>
    /\ WF_vars(part = "receiver" /\ Recv) /\ WF_vars(part = "receiver" /\ FreePkt)
-----------------------------------------------------------------------------
(* A frame held because the ring was full is received as long as the          *)
(* interface stays up: each free_pkt makes the controller take held frames.   *)
HeldDelivered ==
    (part = "receiver" /\ state = "up" /\ Among(f2, held) # {})
        ~> (state # "up" \/ Among(f2, held) = {})

(* config.txt is read as its sections, includes and repeated keys say, as     *)
(* deep as rpi_cfgtxt.h promises, and "cfgtxt clear" leaves nothing behind of *)
(* so few variables (eval_section_header, handle_directive, set_env_indexed,  *)
(* rpi_cfgtxt_clear).                                                         *)
ConfigRead ==
    /\ [](part = "config" =>
            /\ Cfg!TypeOK /\ Cfg!FiltersExact /\ Cfg!LastWins
            /\ Cfg!ListsOfMain /\ Cfg!DepthBounded)
    /\ [](part = "sections" => More!TypeOK /\ More!FiltersExact /\ More!LastWins)
    /\ Cfg!ClearsAll
=============================================================================
