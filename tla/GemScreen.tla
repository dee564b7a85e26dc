------------------------------ MODULE GemScreen ------------------------------
(* get_queue_from_screen of the Cadence GEM model: the loops over the type 1 *)
(* and type 2 screeners, step by step.  A frame is what they look at: its    *)
(* UDP port, its DS field, its ethertype and the words at offsets.  An       *)
(* offset is counted from one of four places in the frame.                   *)
EXTENDS Integers, Sequences

CONSTANTS
    Eth, Ip, Udp,           \* headers that are skipped: 14, 20 and 8 bytes
    Screeners1, Screeners2, \* contents of the screener registers
    Type1, Type2,           \* number of screeners of each type
    Frames

VARIABLES
    type1, type2,           \* the screener registers
    frame,
    pc,                     \* "type1", "type2", "done"
    i,                      \* screener
    j,                      \* type 2: next comparison; 0: the ethertype
    matched, mismatched,
    queue                   \* result

regs == <<type1, type2>>
vars == <<regs, frame, pc, i, j, matched, mismatched, queue>>

Init ==
    /\ type1 \in [1 .. Type1 -> Screeners1]
    /\ type2 \in [1 .. Type2 -> Screeners2]
    /\ frame \in Frames
    /\ pc = "type1" /\ i = 1 /\ j = 0
    /\ matched = 0 /\ mismatched = 0
    /\ queue = 0

\* One criterion: if it is enabled it sets one of the two flags.
Criterion(enabled, equal) ==
    /\ matched' = IF enabled = 1 /\ equal THEN 1 ELSE matched
    /\ mismatched' = IF enabled = 1 /\ ~equal THEN 1 ELSE mismatched

Decision(hit, miss) == hit = 1 /\ miss = 0

\* Both criteria of a type 1 screener, and its decision
Screen1 ==
    /\ pc = "type1" /\ i <= Type1
    /\ LET s == type1[i]
           hit == \/ s.port_en = 1 /\ s.port = frame.port
                  \/ s.dstc_en = 1 /\ s.dstc = frame.dscp
           miss == \/ s.port_en = 1 /\ s.port # frame.port
                   \/ s.dstc_en = 1 /\ s.dstc # frame.dscp
       IN  IF Decision(IF hit THEN 1 ELSE 0, IF miss THEN 1 ELSE 0)
           THEN pc' = "done" /\ queue' = s.queue /\ UNCHANGED i
           ELSE i' = i + 1 /\ UNCHANGED <<pc, queue>>
    /\ UNCHANGED <<regs, frame, matched, mismatched, j>>

Type1Done ==
    /\ pc = "type1" /\ i > Type1
    /\ pc' = "type2" /\ i' = 1
    /\ UNCHANGED <<regs, frame, matched, mismatched, j, queue>>

EtherType ==
    /\ pc = "type2" /\ i <= Type2 /\ j = 0
    /\ Criterion(type2[i].type_en, type2[i].type = frame.type)
    /\ j' = 1
    /\ UNCHANGED <<regs, frame, pc, i, queue>>

\* The cases fall through: each skips the headers before it as well.
Offset(c) ==
    c.offset + (IF c.from >= 3 THEN Udp ELSE 0) + (IF c.from >= 2 THEN Ip ELSE 0)
             + (IF c.from >= 1 THEN Eth ELSE 0)

\* Without a mask two words are compared, else one, under the mask. Words and
\* masks are sets of bits; offsets count words. The load is little-endian and
\* MASK_VALUE is the lower half of the register: it meets the first word.
Equal(c) ==
    IF c.disable_mask = 1
    THEN /\ frame.words[Offset(c)] = c.mask
         /\ frame.words[Offset(c) + 1] = c.compare
    ELSE frame.words[Offset(c)] \cap c.mask = c.compare \cap c.mask

Compare ==
    /\ pc = "type2" /\ i <= Type2 /\ j \in 1 .. 3
    /\ Criterion(type2[i].compare[j].en, Equal(type2[i].compare[j]))
    /\ j' = j + 1
    /\ UNCHANGED <<regs, frame, pc, i, queue>>

\* The flags of one screener do not carry over to the next.
Flags == matched' = 0 /\ mismatched' = 0

Screen2 ==
    /\ pc = "type2" /\ i <= Type2 /\ j = 4
    /\ IF Decision(matched, mismatched)
       THEN pc' = "done" /\ queue' = type2[i].queue /\ UNCHANGED i
       ELSE i' = i + 1 /\ UNCHANGED <<pc, queue>>
    /\ Flags /\ j' = 0
    /\ UNCHANGED <<regs, frame>>

Default ==
    /\ pc = "type2" /\ i > Type2
    /\ pc' = "done"
    /\ UNCHANGED <<regs, frame, i, matched, mismatched, j, queue>>

Next == Screen1 \/ Type1Done \/ EtherType \/ Compare \/ Screen2 \/ Default

Spec == Init /\ [][Next]_vars
-----------------------------------------------------------------------------
\* What a screener asks for: the set of its enabled criteria, each TRUE if it
\* holds of the frame.
Asked1(s) ==
    {s.port = frame.port : x \in {y \in {1} : s.port_en = y}} \cup
    {s.dstc = frame.dscp : x \in {y \in {1} : s.dstc_en = y}}
Asked2(s) ==
    {s.type = frame.type : x \in {y \in {1} : s.type_en = y}} \cup
    {Equal(s.compare[n]) : n \in {m \in 1 .. 3 : s.compare[m].en = 1}}

Hits1 == {n \in 1 .. Type1 : Asked1(type1[n]) = {TRUE}}
Hits2 == {n \in 1 .. Type2 : Asked2(type2[n]) = {TRUE}}
First(S) == CHOOSE n \in S : \A m \in S : n <= m

(* The queue is that of the first screener, type 1 before type 2, that asks  *)
(* for something and all of whose criteria hold; without one it is queue 0.  *)
FirstMatch ==
    pc = "done" =>
        queue = IF Hits1 # {} THEN type1[First(Hits1)].queue
                ELSE IF Hits2 # {} THEN type2[First(Hits2)].queue ELSE 0
=============================================================================
