------------------------------- MODULE Property -------------------------------
(* The property mailbox: bcm2835_property_mbox_push walks the tags of a      *)
(* request in guest memory, answers each in place and applies a new          *)
(* framebuffer configuration at the end.  Sizes and offsets count 32-bit     *)
(* words; a tag is [tag, size, a, b, at]: name, buffer size, first two words *)
(* and offset in the request.                                                *)
(* The guest leaves the request alone until it is answered.                  *)
EXTENDS Integers, Sequences, Functions

CONSTANTS
    Requests,           \* sequences of tags
    CustomerLen,        \* BCM2835_OTP_CUSTOMER_OTP_LEN: its rows come first
    KeyLen,             \* BCM2835_OTP_PRIVATE_KEY_LEN: its rows follow
    LockNum1, LockNum2, \* the magic numbers that lock the OTP
    CommandLine,        \* length of the command line
    RowValues           \* values of OTP rows

VARIABLES
    config,             \* fbdev->config
    rows, locked,       \* OTP rows, and the lock bit of row 32
    req, tot_len,       \* the request, and the length in its header
    pc, offset,         \* "idle", else pending: "tags", "done"; value - addr
    fbconfig, fbconfig_updated,
    answer,             \* of each tag: resplen and words written, or NoAnswer
    told                \* what the guest was last told of each setting

device == <<config, rows, locked>>
local == <<pc, offset, fbconfig, fbconfig_updated>>
mailbox_vars == <<device, local, req, tot_len, answer, told>>

\* Settings of two words (the offset is like the sizes) and of one word (pixel
\* order and alpha mode are like the depth)
Fields == {"physical", "virtual", "depth"}
Rows == 0 .. CustomerLen + KeyLen - 1
Values == 0 .. 2
NoAnswer == [resplen |-> -1, written |-> 0]
Unknown == -1

SetTag == [set_physical |-> "physical", set_virtual |-> "virtual", set_depth |-> "depth"]
GetTag == [get_physical |-> "physical", get_virtual |-> "virtual", get_depth |-> "depth"]

\* Words a setting takes
Words(field) == IF field = "depth" THEN 1 ELSE 2

MailboxInit ==
    /\ config = [f \in Fields |-> 1]
    /\ rows = [r \in Rows |-> 0] /\ locked = 0
    /\ req = <<>> /\ tot_len = 0
    /\ pc = "idle" /\ offset = 0
    /\ fbconfig = config /\ fbconfig_updated = 0
    /\ answer = <<>>
    /\ told = [f \in Fields |-> Unknown]

\* Where a tag ends, and where the last one does: the guest lays the tags out
\* one behind the other.
EndOf(t) == t.at + 3 + t.size
Length(r) == IF r = <<>> THEN 2 ELSE EndOf(r[Len(r)])

\* The guest writes a request to memory, and its address to the mailbox, which
\* hands it on when no answer is pending.
Push(r) ==
    /\ pc = "idle"
    /\ req' = r /\ tot_len' = Length(r)
    /\ pc' = "tags" /\ offset' = 2
    /\ fbconfig' = config /\ fbconfig_updated' = 0
    /\ answer' = [i \in 1 .. Len(r) |-> NoAnswer]
    /\ told' = [f \in Fields |-> Unknown]
    /\ UNCHANGED device

\* bcm2835_fb_validate_config brings each setting into its range.
Validate(v) == IF v = 0 THEN 1 ELSE IF v > 2 THEN 2 ELSE v
-----------------------------------------------------------------------------
More == offset + 2 <= tot_len

\* What stands at the offset: a tag of the request, or words that are none
Here == {t \in Range(req) : t.at = offset}
Tag == IF Here = {} THEN [tag |-> "unknown", size |-> 0, a |-> 0, b |-> 0, at |-> offset]
       ELSE CHOOSE t \in Here : TRUE
IsTag(t) == pc = "tags" /\ More /\ Tag.tag = t

NextOffset == offset + Tag.size + 3

\* The end of the loop's body
Answered(resplen, written) ==
    /\ answer' = [i \in DOMAIN req |-> IF req[i].at = offset
                     THEN [resplen |-> resplen, written |-> written] ELSE answer[i]]
    /\ offset' = NextOffset
    /\ UNCHANGED <<pc, req, tot_len>>

\* Replies of fixed length, and the words of them that are written: the
\* firmware revision, a board model that is not written, ...  The colours of a
\* palette go to video memory.
Fixed ==
    [firmware_revision |-> <<1, 1>>, board_model |-> <<1, 0>>,
     board_revision |-> <<1, 1>>, board_mac |-> <<2, 2>>, board_serial |-> <<2, 0>>,
     arm_memory |-> <<2, 2>>, vc_memory |-> <<2, 2>>, set_power |-> <<2, 2>>,
     clock_state |-> <<2, 2>>, set_clock |-> <<2, 0>>, clock_rate |-> <<2, 2>>,
     clocks |-> <<2, 2>>, temperature |-> <<2, 2>>, allocate |-> <<2, 2>>,
     release |-> <<0, 0>>, blank |-> <<1, 0>>, test_size |-> <<2, 0>>,
     test_depth |-> <<1, 0>>, pitch |-> <<1, 1>>,
     overscan |-> <<4, 4>>, palette |-> <<1, 1>>, displays |-> <<1, 1>>,
     dma_channels |-> <<1, 1>>, throttled |-> <<1, 1>>, vchiq |-> <<1, 1>>, unknown |-> <<0, 0>>]

FixedTag ==
    /\ \E t \in DOMAIN Fixed : IsTag(t) /\ Answered(Fixed[t][1], Fixed[t][2])
    /\ UNCHANGED <<device, fbconfig, fbconfig_updated, told>>

\* What is stored in the copy, and told
Stored(v) == Validate(v)

M_Updated_Changed(f, v) == IF config[f] = v THEN fbconfig_updated ELSE 0

Updated(f, v) == 1

\* FRAMEBUFFER_SET_...: the copy is changed, and the reply falls through to
\* that of the GET.
SetConfig ==
    \E t \in DOMAIN SetTag :
        LET f == SetTag[t]
        IN  /\ IsTag(t)
            /\ fbconfig' = [fbconfig EXCEPT ![f] = Stored(Tag.a)]
            /\ fbconfig_updated' = Updated(f, Stored(Tag.a))
            /\ told' = [told EXCEPT ![f] = fbconfig'[f]]
            /\ Answered(Words(f), Words(f))
            /\ UNCHANGED device

GetConfig ==
    \E t \in DOMAIN GetTag :
        LET f == GetTag[t]
        IN  /\ IsTag(t)
            /\ told' = [told EXCEPT ![f] = fbconfig[f]]
            /\ Answered(Words(f), Words(f))
            /\ UNCHANGED <<device, fbconfig, fbconfig_updated>>

\* A buffer that is too short is left alone.
CopyLine(bufsize) == bufsize >= CommandLine

GetCommandLine ==
    /\ IsTag("command_line")
    /\ Answered(CommandLine, IF CopyLine(Tag.size) THEN CommandLine ELSE 0)
    /\ UNCHANGED <<device, fbconfig, fbconfig_updated, told>>
-----------------------------------------------------------------------------
(* OTP: tags for the rows of an area, from row a on, b of them.              *)
Base(t) == IF t \in {"get_customer", "set_customer"} THEN 0 ELSE CustomerLen

AreaLen(t) == IF t \in {"get_customer", "set_customer"} THEN CustomerLen ELSE KeyLen

\* The rows the loop reaches
Reached(t, start, number) ==
    {Base(t) + k : k \in {j \in start .. start + number - 1 : j < AreaLen(t)}} \cap Rows

GetOtp ==
    \E t \in {"get_customer", "get_key"} :
        /\ IsTag(t)
        /\ LET k == AreaLen(t) - Tag.a
           IN  Answered(2 + Tag.b, IF k <= 0 THEN 0 ELSE 2 + (IF Tag.b < k THEN Tag.b ELSE k))
        /\ UNCHANGED <<device, fbconfig, fbconfig_updated, told>>

IsLock(t) == t = "set_customer" /\ Tag.a = LockNum1 /\ Tag.b = LockNum2

Lock ==
    /\ IsTag("set_customer") /\ IsLock(Tag.tag)
    /\ locked' = 1
    /\ Answered(1, 0)
    /\ UNCHANGED <<config, rows, fbconfig, fbconfig_updated, told>>

M_Writable_Customer(t) == t = "set_key" \/ locked = 0

Writable(t) == locked = 0

SetOtp(v) ==
    \E t \in {"set_customer", "set_key"} :
        /\ IsTag(t) /\ ~IsLock(t)
        /\ rows' = IF Writable(t)
                   THEN [r \in Rows |-> IF r \in Reached(t, Tag.a, Tag.b) THEN v ELSE rows[r]]
                   ELSE rows
        /\ Answered(1, 0)
        /\ UNCHANGED <<config, locked, fbconfig, fbconfig_updated, told>>
-----------------------------------------------------------------------------
(* The requests of a driver: tags one behind the other, from the third word   *)
(* to the length in the header, each with room for its reply.                 *)
LaidOut(r) ==
    /\ r # <<>> => r[1].at = 2
    /\ \A i \in 1 .. Len(r) - 1 : r[i + 1].at = EndOf(r[i])
    /\ \A i \in 1 .. Len(r) : EndOf(r[i]) <= Length(r)

HasRoom(t) ==
    /\ t.tag \in DOMAIN Fixed => t.size >= Fixed[t.tag][2]
    /\ t.tag \in DOMAIN SetTag => t.size >= Words(SetTag[t.tag])
    /\ t.tag \in DOMAIN GetTag => t.size >= Words(GetTag[t.tag])
    /\ t.tag \in {"get_customer", "get_key"} => t.size >= 2 + t.b

ASSUME MailboxAssumption ==
    /\ \A r \in Requests :
          /\ r \in Seq([tag : STRING, size : Nat, a : Nat, b : Nat, at : Nat])
          /\ LaidOut(r) /\ \A i \in 1 .. Len(r) : HasRoom(r[i])
    /\ CustomerLen \in Nat /\ KeyLen \in Nat /\ CommandLine \in Nat /\ 0 \in RowValues
-----------------------------------------------------------------------------
\* PROPERTY_END, or the end of the buffer: the framebuffer is reconfigured
\* and the buffer's response code is set.
Finish ==
    /\ pc = "tags"
    /\ More => Tag.tag = "end"
    /\ config' = IF fbconfig_updated = 1 THEN fbconfig ELSE config
    /\ pc' = "done"
    /\ UNCHANGED <<rows, locked, offset, fbconfig, fbconfig_updated, req, tot_len,
                   answer, told>>

\* The guest reads the answer from the mailbox: pending and the interrupt are
\* cleared.
ReadData ==
    /\ pc = "done"
    /\ pc' = "idle" /\ offset' = 0 /\ fbconfig' = config /\ fbconfig_updated' = 0
    /\ req' = <<>> /\ tot_len' = 0 /\ answer' = <<>> /\ told' = [f \in Fields |-> Unknown]
    /\ UNCHANGED device

MailboxNext ==
    \/ \E r \in Requests : Push(r)
    \/ FixedTag \/ SetConfig \/ GetConfig \/ GetCommandLine
    \/ GetOtp \/ Lock
    \/ \E v \in RowValues : SetOtp(v)
    \/ Finish \/ ReadData

MailboxSpec == MailboxInit /\ [][MailboxNext]_mailbox_vars
-----------------------------------------------------------------------------
MailboxTypeOK ==
    /\ config \in [Fields -> Values] /\ fbconfig \in [Fields -> Values]
    /\ rows \in [Rows -> RowValues] /\ locked \in 0 .. 1
    /\ pc \in {"idle", "tags", "done"}
    /\ offset \in 0 .. tot_len /\ fbconfig_updated \in 0 .. 1

\* The tags before the first "end"
Before(i) == \A j \in 1 .. i : req[j].tag # "end"

(* When a request is done, each tag before its end has been answered and no  *)
(* tag behind it has: the walk keeps in step with the buffer.                *)
AllAnswered ==
    pc = "done" => \A i \in 1 .. Len(req) : answer[i] # NoAnswer <=> Before(i)

(* No reply is longer than the buffer the guest has set aside for it, so no  *)
(* tag overwrites the next one.                                              *)
BufferKept == \A i \in 1 .. Len(req) : answer[i].written <= req[i].size

(* When a request is done, what the guest was told last of a setting is what *)
(* the framebuffer uses.                                                     *)
ToldIsApplied == pc = "done" => \A f \in Fields : told[f] \in {Unknown, config[f]}

(* bcm2835_property_mbox_push answers every tag of a request before its end,  *)
(* within the buffer the guest set aside for it, and what it told the guest   *)
(* last of a setting is what the framebuffer uses.                            *)
RequestServed == MailboxTypeOK /\ AllAnswered /\ BufferKept /\ ToldIsApplied

(* Once the OTP is locked no row changes again, whichever area it is in and  *)
(* also for tags of the request that locked it.                              *)
LockHolds == [][locked = 1 => rows' = rows /\ locked' = 1]_mailbox_vars

(* Setting rows of one area leaves the other one alone, also when the range  *)
(* runs past the area's end.                                                 *)
AreasApart ==
    [][\A r \in Rows : rows'[r] # rows[r] =>
          Tag.tag = IF r < CustomerLen THEN "set_customer" ELSE "set_key"]_mailbox_vars

(* A locked OTP never changes again, and a row only by a tag of its own area. *)
OtpProtected == LockHolds /\ AreasApart
=============================================================================
