--------------------------- MODULE USBIPIsoProofs ---------------------------
(* The isochronous schedule for any frame length, any intervals and URBs and *)
(* any number of endpoints.  The inductive invariant adds that every due     *)
(* time is on a frame boundary, that the frames used so far are before the   *)
(* endpoint's next due time, and that only the first URB of a queue is       *)
(* scheduled.                                                               *)
EXTENDS USBIPIso, SequenceTheorems, TLAPS

(* RemoveAt, element by element.                                             *)
LEMMA RemoveAtElements ==
    ASSUME NEW S, NEW s \in Seq(S), NEW i \in 1 .. Len(s)
    PROVE  /\ RemoveAt(s, i) \in Seq(S)
           /\ Len(RemoveAt(s, i)) = Len(s) - 1
           /\ \A j \in 1 .. Len(s) - 1 :
                 RemoveAt(s, i)[j] = IF j < i THEN s[j] ELSE s[j + 1]
<1>1. PICK a : a = SubSeq(s, 1, i - 1)
    OBVIOUS
<1>2. PICK b : b = SubSeq(s, i + 1, Len(s))
    OBVIOUS
<1>3. \A j \in 1 .. Len(s) : s[j] \in S
    BY ElementOfSeq
<1>4. /\ a \in Seq(S)
      /\ Len(a) = i - 1
      /\ \A j \in 1 .. i - 1 : a[j] = s[j]
    <2>1. \A j \in 1 .. i - 1 : s[j] \in S
        BY <1>3
    <2> QED
        BY <1>1, <2>1, SubSeqProperties
<1>5. /\ b \in Seq(S)
      /\ Len(b) = Len(s) - i
      /\ \A j \in 1 .. Len(s) - i : b[j] = s[i + j]
    <2>1. \A j \in i + 1 .. Len(s) : s[j] \in S
        BY <1>3
    <2> QED
        BY <1>2, <2>1, SubSeqProperties
<1>6. /\ a \o b \in Seq(S)
      /\ Len(a \o b) = Len(a) + Len(b)
      /\ \A j \in 1 .. Len(a) + Len(b) :
            (a \o b)[j] = IF j <= Len(a) THEN a[j] ELSE b[j - Len(a)]
    BY <1>4, <1>5, ConcatProperties
<1>7. \A j \in 1 .. Len(s) - 1 :
          (a \o b)[j] = IF j < i THEN s[j] ELSE s[j + 1]
    BY <1>4, <1>5, <1>6
<1>8. RemoveAt(s, i) = a \o b
    BY <1>1, <1>2 DEF RemoveAt
<1>9. Len(a \o b) = Len(s) - 1
    BY <1>4, <1>5, <1>6
<1> QED
    BY <1>6, <1>7, <1>8, <1>9

Aligned(t) == \E d \in Nat : t = d * Frame

\* The frames used, fr, given the endpoint's next due time nd.
FramesOK(fr, nd) ==
    /\ \A i \in 1 .. Len(fr) : fr[i] * Frame < nd
    /\ \A i, j \in 1 .. Len(fr) : i < j => fr[i] < fr[j]

\* A queue q, given the next due time nd and the last time of service la.
UrbOK(u, nd, la) ==
    /\ Aligned(u.due) /\ Aligned(u.period)
    /\ ~Unscheduled(u) => nd <= u.due
    /\ u.next > 0 => la < u.due /\ u.due <= la + u.period

QueueOK(q, nd, la) ==
    /\ \A i \in 1 .. Len(q) : UrbOK(q[i], nd, la)
    /\ \A i \in 2 .. Len(q) : Unscheduled(q[i])

KeyOK(k) ==
    /\ Aligned(nextDue[k])
    /\ FramesOK(frames[k], nextDue[k])
    /\ QueueOK(waiting[k], nextDue[k], lastAt[k])

\* iso_timer covers the first URB of queue k.
ArmedAt(k) ==
    waiting[k] # <<>> /\ ~Unscheduled(Head(waiting[k]))
        => iso # Off /\ iso <= Head(waiting[k]).due

IInv ==
    /\ TypeOK
    /\ \A k \in Keys : KeyOK(k)
    /\ IsoTimerArmed
-----------------------------------------------------------------------------
(* Arithmetic of the schedule.                                               *)

(* The do loop of usbip_urb_iso ends on the schedule, in the future, and     *)
(* within one interval.                                                      *)
LEMMA AfterLater ==
    ASSUME now \in Nat, NEW due \in Nat, NEW period \in Nat \ {0}, due <= now
    PROVE  /\ After(due, period) \in Nat
           /\ now < After(due, period)
           /\ After(due, period) <= now + period
<1>1. PICK m : m = (now - due) \div period
    OBVIOUS
<1>2. m \in Nat /\ period * m <= now - due /\ now - due < period * (m + 1)
    BY <1>1
<1>3. After(due, period) = due + period * (m + 1)
    BY <1>1 DEF After
<1>4. period * (m + 1) \in Nat /\ period * (m + 1) = period * m + period
    BY <1>2
<1> QED
    BY <1>2, <1>3, <1>4

(* And on a frame boundary, as due and the interval are.                     *)
LEMMA AfterAligned ==
    ASSUME now \in Nat, NEW due \in Nat, NEW period \in Nat \ {0}, due <= now,
           Aligned(due), Aligned(period)
    PROVE  Aligned(After(due, period))
<1>1. PICK d \in Nat : due = d * Frame
    BY DEF Aligned
<1>2. PICK p \in Nat : period = p * Frame
    BY DEF Aligned
<1>3. PICK m : m = (now - due) \div period + 1
    OBVIOUS
<1>4. m \in Nat
    BY <1>3
<1>5. After(due, period) = due + period * m
    BY <1>3 DEF After
<1>6. (d * Frame) + (p * Frame) * m = (d + p * m) * Frame
    BY <1>4, FrameAssumption
<1>7. d + p * m \in Nat
    BY <1>4
<1> QED
    BY <1>1, <1>2, <1>5, <1>6, <1>7 DEF Aligned

(* QEMU_ALIGN_UP gives a frame boundary.                                     *)
LEMMA AlignUpAligned ==
    ASSUME NEW t \in Nat
    PROVE  AlignUp(t) \in Nat /\ Aligned(AlignUp(t))
<1>1. PICK d : d = (t + Frame - 1) \div Frame
    OBVIOUS
<1>2. d \in Nat
    BY <1>1, FrameAssumption
<1>3. AlignUp(t) = d * Frame /\ d * Frame \in Nat
    BY <1>1, <1>2, FrameAssumption DEF AlignUp
<1> QED
    BY <1>2, <1>3 DEF Aligned

(* A period of usbip_urb_iso is a whole number of frames, never none.        *)
LEMMA PeriodAligned ==
    ASSUME NEW i \in Int
    PROVE  Period(i) \in Nat \ {0} /\ Aligned(Period(i))
<1>1. PICK p : p = IF i > 1 THEN i ELSE 1
    OBVIOUS
<1>2. p \in Nat \ {0}
    BY <1>1
<1>3. Period(i) = p * Frame /\ p * Frame \in Nat \ {0}
    BY <1>1, <1>2, FrameAssumption DEF Period
<1> QED
    BY <1>2, <1>3 DEF Aligned

(* The due time of a URB not yet scheduled counts as a frame boundary.       *)
LEMMA ZeroAligned == Aligned(0)
BY FrameAssumption DEF Aligned

(* A frame starts before the times within it.                                *)
LEMMA FrameStarts ==
    ASSUME NEW t \in Nat
    PROVE  t \div Frame \in Nat /\ (t \div Frame) * Frame \in Nat
           /\ (t \div Frame) * Frame <= t
<1>1. PICK g : g = t \div Frame
    OBVIOUS
<1>2. g \in Nat /\ g * Frame <= t
    BY <1>1, FrameAssumption
<1>3. g * Frame \in Nat
    BY <1>2, FrameAssumption
<1> QED
    BY <1>1, <1>2, <1>3

(* The frame of a packet serviced at or after nd comes after all before nd.  *)
LEMMA FrameLater ==
    ASSUME NEW nd \in Nat, Aligned(nd), NEW t \in Nat, nd <= t,
           NEW f \in Nat, f * Frame < nd
    PROVE  t \div Frame \in Nat /\ f < t \div Frame /\ (t \div Frame) * Frame <= t
<1>1. PICK d \in Nat : nd = d * Frame
    BY DEF Aligned
<1>2. PICK g : g = t \div Frame
    OBVIOUS
<1>3. g \in Nat /\ g * Frame <= t /\ t < (g + 1) * Frame
    BY <1>2, FrameAssumption
<1>4. f < d
    BY <1>1, FrameAssumption
<1>5. d < g + 1
    BY <1>1, <1>3, FrameAssumption
<1> QED
    BY <1>2, <1>3, <1>4, <1>5
-----------------------------------------------------------------------------
(* usbip_urb_iso on the first URB of a queue, or on one just submitted.      *)

(* A packet is due on a frame boundary that its endpoint has not used yet.   *)
LEMMA DueOK ==
    ASSUME TypeOK, NEW k \in Keys, KeyOK(k), NEW u \in Urbs,
           UrbOK(u, nextDue[k], lastAt[k])
    PROVE  /\ Due(k, u) \in Nat /\ Aligned(Due(k, u)) /\ nextDue[k] <= Due(k, u)
           /\ ~Unscheduled(u) => Due(k, u) = u.due
<1>1. now \in Nat /\ nextDue[k] \in Nat /\ u.due \in Nat
    BY DEF TypeOK, Urbs
<1>2. AlignUp(now) \in Nat /\ Aligned(AlignUp(now))
    BY <1>1, AlignUpAligned
<1>3. Aligned(nextDue[k]) /\ Aligned(u.due) /\ (~Unscheduled(u) => nextDue[k] <= u.due)
    BY DEF KeyOK, UrbOK
<1>4. CASE ~Unscheduled(u)
    BY <1>1, <1>3, <1>4 DEF Due
<1>5. CASE Unscheduled(u) /\ AlignUp(now) > nextDue[k]
    BY <1>1, <1>2, <1>5 DEF Due
<1>6. CASE Unscheduled(u) /\ ~(AlignUp(now) > nextDue[k])
    BY <1>1, <1>2, <1>3, <1>6 DEF Due
<1> QED
    BY <1>4, <1>5, <1>6

(* A URB that usbip_urb_iso finds not yet due is now scheduled.              *)
LEMMA NotDueOK ==
    ASSUME TypeOK, NEW k \in Keys, KeyOK(k), NEW u \in Urbs,
           UrbOK(u, nextDue[k], lastAt[k]), ~(now >= Due(k, u))
    PROVE  /\ Serviced(k, u) \in Urbs
           /\ UrbOK(Serviced(k, u), nextDue[k], lastAt[k])
<1>1. PICK d : d = Due(k, u)
    OBVIOUS
<1>2. /\ d \in Nat /\ Aligned(d) /\ nextDue[k] <= d
      /\ ~Unscheduled(u) => d = u.due
    BY <1>1, DueOK
<1>3. PICK v : v = [u EXCEPT !.due = d]
    OBVIOUS
<1>4. Serviced(k, u) = v
    BY <1>1, <1>3 DEF Serviced
<1>5. v \in Urbs /\ v.due = d /\ v.next = u.next /\ v.period = u.period
    BY <1>2, <1>3 DEF Urbs
<1>6. u.next > 0 => d = u.due
    BY <1>2 DEF Unscheduled, Urbs
<1>7. UrbOK(v, nextDue[k], lastAt[k])
    BY <1>2, <1>5, <1>6 DEF UrbOK
<1> QED
    BY <1>4, <1>5, <1>7

(* A packet serviced by usbip_urb_iso takes a frame later than all before it, *)
(* and leaves a due time in the future.                                      *)
LEMMA ServicedOK ==
    ASSUME TypeOK, NEW k \in Keys, KeyOK(k), NEW u \in Urbs,
           UrbOK(u, nextDue[k], lastAt[k]), now >= Due(k, u)
    PROVE  /\ Serviced(k, u) \in Urbs
           /\ Aligned(Serviced(k, u).due)
           /\ UrbOK(Serviced(k, u), Serviced(k, u).due, now)
           /\ Append(frames[k], now \div Frame) \in Seq(Nat)
           /\ FramesOK(Append(frames[k], now \div Frame), Serviced(k, u).due)
<1>1. PICK d : d = Due(k, u)
    OBVIOUS
<1>2. d \in Nat /\ Aligned(d) /\ nextDue[k] <= d /\ d <= now
    BY <1>1, DueOK DEF TypeOK
<1>3. now \in Nat /\ u.period \in Nat \ {0} /\ u.next \in Nat /\ nextDue[k] \in Nat
      /\ frames[k] \in Seq(Nat)
    BY DEF TypeOK, Urbs
<1>4. PICK a : a = After(d, u.period)
    OBVIOUS
<1>5. a \in Nat /\ now < a /\ a <= now + u.period
    BY <1>2, <1>3, <1>4, AfterLater
<1>6. Aligned(a) /\ Aligned(u.period)
    BY <1>2, <1>3, <1>4, AfterAligned DEF UrbOK
<1>7. PICK v : v = [u EXCEPT !.next = @ + 1, !.due = a]
    OBVIOUS
<1>8. Serviced(k, u) = v
    BY <1>1, <1>4, <1>7 DEF Serviced
<1>9. v \in Urbs /\ v.due = a /\ v.next = u.next + 1 /\ v.period = u.period
    <2>1. PICK c : c = u.next + 1
        OBVIOUS
    <2>2. c \in Nat
        BY <1>3, <2>1
    <2>3. v = [u EXCEPT !.next = c, !.due = a]
        BY <1>7, <2>1
    <2>4. v \in Urbs /\ v.due = a /\ v.next = c /\ v.period = u.period
        BY <1>5, <2>2, <2>3 DEF Urbs
    <2> QED
        BY <2>1, <2>4
<1>10. UrbOK(v, a, now)
    BY <1>5, <1>6, <1>9 DEF UrbOK
<1>11. PICK g : g = now \div Frame
    OBVIOUS
<1>12. g \in Nat /\ g * Frame \in Nat /\ g * Frame <= now
    BY <1>3, <1>11, FrameStarts
<1>13. PICK fr : fr = Append(frames[k], g)
    OBVIOUS
<1>14. /\ fr \in Seq(Nat) /\ Len(fr) = Len(frames[k]) + 1 /\ Len(frames[k]) \in Nat
       /\ \A i \in 1 .. Len(frames[k]) : fr[i] = frames[k][i]
       /\ fr[Len(frames[k]) + 1] = g
    BY <1>3, <1>12, <1>13, AppendProperties
<1>15. \A i \in 1 .. Len(frames[k]) : fr[i] \in Nat /\ fr[i] * Frame < nextDue[k]
    BY <1>3, <1>14, ElementOfSeq DEF KeyOK, FramesOK
<1>16. \A i \in 1 .. Len(frames[k]) : fr[i] < g
    <2>1. Aligned(nextDue[k]) /\ nextDue[k] <= now
        BY <1>2, <1>3 DEF KeyOK
    <2> QED
        BY <1>3, <1>11, <1>15, <2>1, FrameLater
<1>17. \A i \in 1 .. Len(fr) : i \in 1 .. Len(frames[k]) \/ i = Len(frames[k]) + 1
    BY <1>14
<1>18. \A i \in 1 .. Len(fr) : fr[i] * Frame < a
    <2> TAKE i \in 1 .. Len(fr)
    <2>1. CASE i \in 1 .. Len(frames[k])
        <3>1. fr[i] * Frame < nextDue[k] /\ fr[i] * Frame \in Nat
            BY <1>15, <2>1, FrameAssumption
        <3> QED
            BY <1>2, <1>3, <1>5, <3>1
    <2>2. CASE i = Len(frames[k]) + 1
        <3>1. fr[i] * Frame <= now /\ fr[i] * Frame \in Nat
            BY <1>12, <1>14, <2>2
        <3> QED
            BY <1>3, <1>5, <3>1
    <2> QED
        BY <1>17, <2>1, <2>2
<1>19. ASSUME NEW i \in 1 .. Len(fr), NEW j \in 1 .. Len(fr), i < j
       PROVE  fr[i] < fr[j]
    <2>1. i \in 1 .. Len(frames[k])
        BY <1>14, <1>19
    <2>2. CASE j \in 1 .. Len(frames[k])
        <3>1. frames[k][i] < frames[k][j]
            BY <1>19, <2>1, <2>2 DEF KeyOK, FramesOK
        <3> QED
            BY <1>14, <2>1, <2>2, <3>1
    <2>3. CASE j = Len(frames[k]) + 1
        BY <1>14, <1>16, <2>1, <2>3
    <2> QED
        BY <1>17, <2>2, <2>3
<1>20. FramesOK(fr, a)
    BY <1>18, <1>19 DEF FramesOK
<1> QED
    BY <1>6, <1>8, <1>9, <1>10, <1>11, <1>13, <1>14, <1>20

(* usbip_urb_try keeps its endpoint's schedule, and when the URB is to wait  *)
(* iso_timer goes off no later than it is due.                               *)
LEMMA TryOK ==
    ASSUME TypeOK, NEW k \in Keys, KeyOK(k), NEW u \in Urbs,
           UrbOK(u, nextDue[k], lastAt[k]), Try(k, u)
    PROVE  /\ nextDue' \in [Keys -> Nat] /\ frames' \in [Keys -> Seq(Nat)]
           /\ lastAt' \in [Keys -> Nat] /\ iso' \in Nat \cup {Off}
           /\ \A j \in Keys \ {k} : /\ nextDue'[j] = nextDue[j]
                                    /\ frames'[j] = frames[j]
                                    /\ lastAt'[j] = lastAt[j]
           /\ Aligned(nextDue'[k]) /\ FramesOK(frames'[k], nextDue'[k])
           /\ iso # Off => iso' # Off /\ iso' <= iso
           /\ ~Complete(k, u) =>
                /\ Serviced(k, u) \in Urbs
                /\ UrbOK(Serviced(k, u), nextDue'[k], lastAt'[k])
                /\ iso' # Off /\ iso' <= Serviced(k, u).due
<1>0. /\ now \in Nat /\ iso \in Nat \cup {Off}
      /\ nextDue \in [Keys -> Nat] /\ frames \in [Keys -> Seq(Nat)]
      /\ lastAt \in [Keys -> Nat]
      /\ Aligned(nextDue[k]) /\ FramesOK(frames[k], nextDue[k])
    BY DEF TypeOK, KeyOK
<1>1. CASE type[k] # "iso"
    <2>1. Complete(k, u) /\ UNCHANGED <<nextDue, frames, lastAt, iso>>
        BY <1>1 DEF Complete, Try
    <2>2. iso # Off => iso' # Off /\ iso' <= iso
        BY <1>0, <2>1 DEF Off
    <2> QED
        BY <1>0, <2>1, <2>2
<1>2. CASE type[k] = "iso"
    <2>1. PICK v : v = Serviced(k, u)
        OBVIOUS
    <2>2. v \in Urbs /\ v.due \in Nat
        BY <2>1, NotDueOK, ServicedOK DEF Urbs
    <2>3. iso' = IF Complete(k, u) THEN iso ELSE Anticipate(v.due)
        BY <1>2, <2>1 DEF Try
    <2>4. /\ iso' \in Nat \cup {Off}
          /\ iso # Off => iso' # Off /\ iso' <= iso
          /\ ~Complete(k, u) => iso' # Off /\ iso' <= v.due
        <3>1. CASE Complete(k, u)
            BY <1>0, <2>3, <3>1 DEF Off
        <3>2. CASE ~Complete(k, u)
            BY <1>0, <2>2, <2>3, <3>2 DEF Off, Anticipate
        <3> QED
            BY <3>1, <3>2
    <2>5. CASE now >= Due(k, u)
        <3>1. PICK fr : fr = Append(frames[k], now \div Frame)
            OBVIOUS
        <3>2. /\ nextDue' = [nextDue EXCEPT ![k] = v.due]
              /\ frames' = [frames EXCEPT ![k] = fr]
              /\ lastAt' = [lastAt EXCEPT ![k] = now]
            BY <1>2, <2>1, <2>5, <3>1 DEF Try
        <3>3. /\ nextDue' \in [Keys -> Nat] /\ nextDue'[k] = v.due
              /\ \A j \in Keys \ {k} : nextDue'[j] = nextDue[j]
            BY <1>0, <2>2, <3>2
        <3>4. fr \in Seq(Nat) /\ FramesOK(fr, v.due) /\ Aligned(v.due)
              /\ UrbOK(v, v.due, now)
            BY <2>1, <2>5, <3>1, ServicedOK
        <3>5. /\ frames' \in [Keys -> Seq(Nat)] /\ frames'[k] = fr
              /\ \A j \in Keys \ {k} : frames'[j] = frames[j]
            BY <1>0, <3>2, <3>4
        <3>6. /\ lastAt' \in [Keys -> Nat] /\ lastAt'[k] = now
              /\ \A j \in Keys \ {k} : lastAt'[j] = lastAt[j]
            BY <1>0, <3>2
        <3> QED
            BY <2>1, <2>2, <2>4, <3>3, <3>4, <3>5, <3>6
    <2>6. CASE ~(now >= Due(k, u))
        <3>1. UNCHANGED <<nextDue, frames, lastAt>>
            BY <1>2, <2>6 DEF Try
        <3>2. UrbOK(v, nextDue[k], lastAt[k])
            BY <2>1, <2>6, NotDueOK
        <3> QED
            BY <1>0, <2>1, <2>2, <2>4, <3>1, <3>2
    <2> QED
        BY <2>5, <2>6
<1> QED
    BY <1>1, <1>2
-----------------------------------------------------------------------------
(* Queues.                                                                   *)

(* A URB that is not scheduled is as good for any later schedule.            *)
LEMMA UnscheduledOK ==
    ASSUME NEW u \in Urbs, Unscheduled(u), Aligned(u.period), NEW nd, NEW la
    PROVE  UrbOK(u, nd, la)
<1>1. u.due = 0 /\ ~(u.next > 0)
    BY DEF Unscheduled, Urbs
<1> QED
    BY <1>1, ZeroAligned DEF UrbOK

(* QTAILQ_REMOVE of the first URB, after a completion.                       *)
LEMMA QueueTail ==
    ASSUME NEW q \in Seq(Urbs), q # <<>>, NEW nd, NEW la, QueueOK(q, nd, la),
           NEW nd2, NEW la2
    PROVE  /\ Tail(q) \in Seq(Urbs) /\ QueueOK(Tail(q), nd2, la2)
           /\ Tail(q) # <<>> => Unscheduled(Head(Tail(q)))
<1>1. PICK r : r = Tail(q)
    OBVIOUS
<1>2. r \in Seq(Urbs) /\ Len(q) \in Nat \ {0} /\ Len(r) = Len(q) - 1
      /\ \A i \in 1 .. Len(r) : r[i] = q[i + 1]
    BY <1>1, HeadTailProperties, EmptySeq, LenProperties
<1>3. ASSUME NEW i \in 1 .. Len(r)
      PROVE  Unscheduled(r[i]) /\ UrbOK(r[i], nd2, la2)
    <2>1. i + 1 \in 2 .. Len(q) /\ i + 1 \in 1 .. Len(q)
        BY <1>2
    <2>2. r[i] = q[i + 1] /\ Unscheduled(q[i + 1]) /\ UrbOK(q[i + 1], nd, la)
        BY <1>2, <2>1 DEF QueueOK
    <2>3. Aligned(r[i].period) /\ r[i] \in Urbs /\ Unscheduled(r[i])
        BY <1>2, <2>2, ElementOfSeq DEF UrbOK
    <2> QED
        BY <2>3, UnscheduledOK
<1>4. QueueOK(r, nd2, la2)
    BY <1>2, <1>3 DEF QueueOK
<1>5. r # <<>> => Head(r) = r[1] /\ 1 \in 1 .. Len(r)
    BY <1>2, HeadTailProperties, EmptySeq
<1> QED
    BY <1>1, <1>2, <1>3, <1>4, <1>5

(* QTAILQ_INSERT_HEAD of the URB just tried, now v.                          *)
LEMMA QueueHead ==
    ASSUME NEW q \in Seq(Urbs), q # <<>>, NEW nd, NEW la, QueueOK(q, nd, la),
           NEW nd2, NEW la2, NEW v \in Urbs, UrbOK(v, nd2, la2)
    PROVE  /\ <<v>> \o Tail(q) \in Seq(Urbs) /\ QueueOK(<<v>> \o Tail(q), nd2, la2)
           /\ Head(<<v>> \o Tail(q)) = v
<1>1. PICK r : r = Tail(q)
    OBVIOUS
<1>2. r \in Seq(Urbs) /\ Len(q) \in Nat \ {0} /\ Len(r) = Len(q) - 1
      /\ \A i \in 1 .. Len(r) : r[i] = q[i + 1]
    BY <1>1, HeadTailProperties, EmptySeq, LenProperties
<1>3. QueueOK(r, nd2, la2)
    BY <1>1, QueueTail
<1>4. \A i \in 1 .. Len(r) : Unscheduled(r[i])
    BY <1>2 DEF QueueOK
<1>5. PICK w : w = <<v>> \o r
    OBVIOUS
<1>6. <<v>> \in Seq(Urbs) /\ Len(<<v>>) = 1 /\ <<v>>[1] = v
    OBVIOUS
<1>7. /\ w \in Seq(Urbs) /\ Len(w) = Len(r) + 1 /\ w[1] = v
      /\ \A i \in 2 .. Len(w) : w[i] = r[i - 1] /\ i - 1 \in 1 .. Len(r)
    BY <1>2, <1>5, <1>6, ConcatProperties
<1>8. \A i \in 1 .. Len(w) : i = 1 \/ i \in 2 .. Len(w)
    BY <1>2, <1>7
<1>9. \A i \in 1 .. Len(w) : UrbOK(w[i], nd2, la2)
    BY <1>3, <1>7, <1>8 DEF QueueOK
<1>10. QueueOK(w, nd2, la2)
    BY <1>4, <1>7, <1>9 DEF QueueOK
<1>11. Head(w) = v
    BY <1>2, <1>7, HeadTailProperties, EmptySeq
<1> QED
    BY <1>1, <1>5, <1>7, <1>10, <1>11

(* QTAILQ_INSERT_TAIL of a new URB behind the ones that wait.                *)
LEMMA QueueAppend ==
    ASSUME NEW q \in Seq(Urbs), q # <<>>, NEW nd, NEW la, QueueOK(q, nd, la),
           NEW u \in Urbs, Unscheduled(u), Aligned(u.period)
    PROVE  /\ Append(q, u) \in Seq(Urbs) /\ QueueOK(Append(q, u), nd, la)
           /\ Append(q, u) # <<>> /\ Head(Append(q, u)) = Head(q)
<1>1. PICK r : r = Append(q, u)
    OBVIOUS
<1>2. /\ r \in Seq(Urbs) /\ Len(q) \in Nat \ {0} /\ Len(r) = Len(q) + 1
      /\ \A i \in 1 .. Len(q) : r[i] = q[i]
      /\ r[Len(q) + 1] = u
    BY <1>1, AppendProperties, EmptySeq, LenProperties
<1>3. \A i \in 1 .. Len(r) : i \in 1 .. Len(q) \/ i = Len(q) + 1
    BY <1>2
<1>4. UrbOK(u, nd, la)
    BY UnscheduledOK
<1>5. \A i \in 1 .. Len(r) : UrbOK(r[i], nd, la)
    BY <1>2, <1>3, <1>4 DEF QueueOK
<1>6. \A i \in 2 .. Len(r) : i \in 2 .. Len(q) \/ i = Len(q) + 1
    BY <1>2
<1>7. \A i \in 2 .. Len(r) : Unscheduled(r[i])
    BY <1>2, <1>6 DEF QueueOK
<1>8. r # <<>> /\ Head(r) = r[1] /\ Head(q) = q[1] /\ 1 \in 1 .. Len(q)
    BY <1>2, HeadTailProperties, EmptySeq
<1> QED
    BY <1>1, <1>2, <1>5, <1>7, <1>8 DEF QueueOK

(* QTAILQ_REMOVE of an unlinked URB; the new first URB, if the first one     *)
(* went, is not scheduled.                                                   *)
LEMMA QueueRemove ==
    ASSUME NEW q \in Seq(Urbs), NEW nd, NEW la, QueueOK(q, nd, la),
           NEW i \in 1 .. Len(q)
    PROVE  /\ RemoveAt(q, i) \in Seq(Urbs) /\ QueueOK(RemoveAt(q, i), nd, la)
           /\ RemoveAt(q, i) # <<>> =>
                 \/ Head(RemoveAt(q, i)) = Head(q)
                 \/ Unscheduled(Head(RemoveAt(q, i)))
<1>1. PICK r : r = RemoveAt(q, i)
    OBVIOUS
<1>2. /\ r \in Seq(Urbs) /\ Len(q) \in Nat \ {0} /\ Len(r) = Len(q) - 1
      /\ \A j \in 1 .. Len(r) : r[j] = IF j < i THEN q[j] ELSE q[j + 1]
    <2>1. Len(q) \in Nat \ {0}
        BY LenProperties
    <2>2. /\ r \in Seq(Urbs) /\ Len(r) = Len(q) - 1
          /\ \A j \in 1 .. Len(q) - 1 : r[j] = IF j < i THEN q[j] ELSE q[j + 1]
        BY <1>1, RemoveAtElements
    <2> QED
        BY <2>1, <2>2
<1>3. ASSUME NEW j \in 1 .. Len(r)
      PROVE  UrbOK(r[j], nd, la)
    <2>1. j \in 1 .. Len(q) /\ j + 1 \in 1 .. Len(q)
        BY <1>2
    <2> QED
        BY <1>2, <2>1 DEF QueueOK
<1>4. ASSUME NEW j \in 2 .. Len(r)
      PROVE  Unscheduled(r[j])
    <2>1. j \in 2 .. Len(q) /\ j + 1 \in 2 .. Len(q) /\ j \in 1 .. Len(r)
        BY <1>2
    <2> QED
        BY <1>2, <2>1 DEF QueueOK
<1>5. QueueOK(r, nd, la)
    BY <1>3, <1>4 DEF QueueOK
<1>6. ASSUME r # <<>>
      PROVE  Head(r) = Head(q) \/ Unscheduled(Head(r))
    <2>1. Head(r) = r[1] /\ Head(q) = q[1] /\ 1 \in 1 .. Len(r)
        BY <1>2, <1>6, HeadTailProperties, EmptySeq
    <2>2. CASE 1 < i
        BY <1>2, <2>1, <2>2
    <2>3. CASE ~(1 < i)
        <3>1. 2 \in 2 .. Len(q) /\ r[1] = q[2]
            BY <1>2, <2>1, <2>3
        <3> QED
            BY <2>1, <3>1 DEF QueueOK
    <2> QED
        BY <2>2, <2>3
<1> QED
    BY <1>1, <1>2, <1>5, <1>6
-----------------------------------------------------------------------------
(* A step leaves an endpoint alone.                                          *)
LEMMA SameKey ==
    ASSUME NEW j, KeyOK(j),
           nextDue'[j] = nextDue[j], frames'[j] = frames[j],
           lastAt'[j] = lastAt[j], waiting'[j] = waiting[j]
    PROVE  KeyOK(j)'
BY DEF KeyOK

(* A step changes one endpoint, k, and its queue is in order.                *)
LEMMA OneKey ==
    ASSUME NEW k \in Keys, \A j \in Keys : KeyOK(j),
           Aligned(nextDue'[k]), FramesOK(frames'[k], nextDue'[k]),
           QueueOK(waiting'[k], nextDue'[k], lastAt'[k]),
           \A j \in Keys \ {k} : /\ nextDue'[j] = nextDue[j]
                                 /\ frames'[j] = frames[j]
                                 /\ lastAt'[j] = lastAt[j]
                                 /\ waiting'[j] = waiting[j]
    PROVE  (\A j \in Keys : KeyOK(j))'
<1>1. KeyOK(k)'
    BY DEF KeyOK
<1>2. ASSUME NEW j \in Keys, j # k
      PROVE  KeyOK(j)'
    BY <1>2, SameKey
<1>3. \A j \in Keys : KeyOK(j)'
    BY <1>1, <1>2
<1> QED
    BY <1>3 DEF Keys

(* A step leaves a queue alone, and iso_timer is not put off.                *)
LEMMA KeptArmed ==
    ASSUME TypeOK, NEW j \in Keys, ArmedAt(j), waiting'[j] = waiting[j],
           iso' \in Nat \cup {Off}, iso # Off => iso' # Off /\ iso' <= iso
    PROVE  ArmedAt(j)'
<1>1. SUFFICES ASSUME waiting'[j] # <<>>, ~Unscheduled(Head(waiting'[j]))
               PROVE  iso' # Off /\ iso' <= Head(waiting'[j]).due
    BY DEF ArmedAt, Unscheduled
<1>2. PICK u : u = Head(waiting[j])
    OBVIOUS
<1>3. waiting[j] \in Seq(Urbs) /\ iso \in Nat \cup {Off}
    BY DEF TypeOK
<1>4. u \in Urbs
    BY <1>1, <1>2, <1>3, HeadTailProperties
<1>5. u.due \in Nat
    BY <1>4 DEF Urbs
<1>6. iso # Off /\ iso <= u.due
    BY <1>1, <1>2 DEF ArmedAt
<1> QED
    BY <1>2, <1>3, <1>5, <1>6 DEF Off

(* IsoTimerArmed, queue by queue.                                            *)
LEMMA ArmedByKey ==
    ASSUME pass \in 0 .. NumKeys
    PROVE  IsoTimerArmed <=> \A j \in Keys : (pass = 0 \/ j < pass) => ArmedAt(j)
BY DEF IsoTimerArmed, ArmedAt

(* And after a step.                                                         *)
LEMMA ArmedByKeyNext ==
    ASSUME \A j \in Keys : (pass' = 0 \/ j < pass') => ArmedAt(j)'
    PROVE  IsoTimerArmed'
BY DEF IsoTimerArmed, ArmedAt, Keys

(* A submitted URB is tried at once, or queued behind the ones that wait.    *)
LEMMA SubmitIInv ==
    ASSUME IInv, NEW k \in Keys, NEW n \in Packets, NEW i \in Intervals,
           Submit(k, n, i)
    PROVE  IInv'
<1> USE DEF IInv
<1>1. PICK u : u = [n |-> n, period |-> Period(i), next |-> 0, due |-> 0]
    OBVIOUS
<1>2. u \in Urbs /\ Unscheduled(u) /\ Aligned(u.period)
    <2>1. Period(i) \in Nat \ {0} /\ Aligned(Period(i)) /\ n \in Nat \ {0}
        BY PeriodAligned, PacketsAssumption, IntervalsAssumption
    <2> QED
        BY <1>1, <2>1 DEF Urbs, Unscheduled
<1>3. UrbOK(u, nextDue[k], lastAt[k])
    BY <1>2, UnscheduledOK
<1>4. /\ now' = now /\ pass' = pass /\ type' = type /\ pass = 0
      /\ submitted' = submitted + 1
    BY DEF Submit
<1>5. /\ now' \in Nat /\ pass' \in 0 .. NumKeys /\ submitted' \in Nat
      /\ type' \in [Keys -> {"iso", "other"}]
      /\ waiting \in [Keys -> Seq(Urbs)] /\ waiting[k] \in Seq(Urbs)
      /\ iso \in Nat \cup {Off}
    BY <1>4 DEF TypeOK
<1>6. \A j \in Keys : ArmedAt(j)
    BY <1>4, ArmedByKey DEF TypeOK
<1>7. CASE waiting[k] # <<>>
    <2>1. PICK q : q = Append(waiting[k], u)
        OBVIOUS
    <2>2. /\ waiting' = [waiting EXCEPT ![k] = q]
          /\ UNCHANGED <<nextDue, frames, lastAt, iso>>
        BY <1>1, <1>7, <2>1 DEF Submit
    <2>3. q \in Seq(Urbs) /\ QueueOK(q, nextDue[k], lastAt[k])
          /\ q # <<>> /\ Head(q) = Head(waiting[k])
        BY <1>2, <1>5, <1>7, <2>1, QueueAppend DEF KeyOK
    <2>4. /\ waiting' \in [Keys -> Seq(Urbs)] /\ waiting'[k] = q
          /\ \A j \in Keys \ {k} : waiting'[j] = waiting[j]
        BY <1>5, <2>2, <2>3
    <2>5. TypeOK'
        BY <1>5, <2>2, <2>4 DEF TypeOK
    <2>6. (\A j \in Keys : KeyOK(j))'
        <3>1. /\ Aligned(nextDue'[k]) /\ FramesOK(frames'[k], nextDue'[k])
              /\ QueueOK(waiting'[k], nextDue'[k], lastAt'[k])
            BY <2>2, <2>3, <2>4 DEF KeyOK
        <3> QED
            BY <2>2, <2>4, <3>1, OneKey
    <2>7. \A j \in Keys : ArmedAt(j)'
        BY <1>6, <1>7, <2>2, <2>3, <2>4 DEF ArmedAt
    <2> QED
        BY <2>5, <2>6, <2>7, ArmedByKeyNext
<1>8. CASE waiting[k] = <<>>
    <2>1. Try(k, u)
        BY <1>1, <1>8 DEF Submit
    <2>2. /\ nextDue' \in [Keys -> Nat] /\ frames' \in [Keys -> Seq(Nat)]
          /\ lastAt' \in [Keys -> Nat] /\ iso' \in Nat \cup {Off}
          /\ \A j \in Keys \ {k} : /\ nextDue'[j] = nextDue[j]
                                   /\ frames'[j] = frames[j]
                                   /\ lastAt'[j] = lastAt[j]
          /\ Aligned(nextDue'[k]) /\ FramesOK(frames'[k], nextDue'[k])
          /\ iso # Off => iso' # Off /\ iso' <= iso
        BY <1>2, <1>3, <2>1, TryOK
    <2>3. PICK q : q = IF Complete(k, u) THEN <<>> ELSE <<Serviced(k, u)>>
        OBVIOUS
    <2>4. waiting' = [waiting EXCEPT ![k] = q]
        <3>1. waiting' = IF Complete(k, u) THEN waiting
                         ELSE [waiting EXCEPT ![k] = <<Serviced(k, u)>>]
            BY <1>1, <1>8 DEF Submit
        <3> QED
            BY <1>5, <1>8, <2>3, <3>1
    <2>5. /\ q \in Seq(Urbs) /\ QueueOK(q, nextDue'[k], lastAt'[k])
          /\ q # <<>> => iso' # Off /\ iso' <= Head(q).due
        <3>1. CASE Complete(k, u)
            <4>1. q = <<>>
                BY <2>3, <3>1
            <4> QED
                BY <4>1 DEF QueueOK
        <3>2. CASE ~Complete(k, u)
            <4>1. PICK v : v = Serviced(k, u)
                OBVIOUS
            <4>2. v \in Urbs /\ UrbOK(v, nextDue'[k], lastAt'[k])
                  /\ iso' # Off /\ iso' <= v.due
                BY <1>2, <1>3, <2>1, <3>2, <4>1, TryOK
            <4>3. q = <<v>> /\ q \in Seq(Urbs) /\ Len(q) = 1 /\ q[1] = v
                  /\ Head(q) = v
                BY <2>3, <3>2, <4>1, <4>2
            <4>4. \A h \in 1 .. Len(q) : h = 1
                BY <4>3
            <4>5. QueueOK(q, nextDue'[k], lastAt'[k])
                BY <4>2, <4>3, <4>4 DEF QueueOK
            <4> QED
                BY <4>2, <4>3, <4>5
        <3> QED
            BY <3>1, <3>2
    <2>6. /\ waiting' \in [Keys -> Seq(Urbs)] /\ waiting'[k] = q
          /\ \A j \in Keys \ {k} : waiting'[j] = waiting[j]
        BY <1>5, <2>4, <2>5
    <2>7. TypeOK'
        BY <1>5, <2>2, <2>6 DEF TypeOK
    <2>8. (\A j \in Keys : KeyOK(j))'
        BY <2>2, <2>5, <2>6, OneKey
    <2>9. ArmedAt(k)'
        BY <2>5, <2>6 DEF ArmedAt
    <2>10. \A j \in Keys : ArmedAt(j)'
        BY <1>6, <2>2, <2>6, <2>9, KeptArmed
    <2> QED
        BY <2>7, <2>8, <2>10, ArmedByKeyNext
<1> QED
    BY <1>7, <1>8

(* usbip_retry tries the first URB of queue k, and goes on to the next queue *)
(* only with iso_timer set for this one.                                     *)
LEMMA RetryTryIInv ==
    ASSUME IInv, NEW k \in Keys, RetryTry(k)
    PROVE  IInv'
<1> USE DEF IInv
<1>1. PICK u : u = Head(waiting[k])
    OBVIOUS
<1>2. /\ pass = k /\ waiting[k] # <<>> /\ Try(k, u)
      /\ now' = now /\ type' = type /\ submitted' = submitted
    BY <1>1 DEF RetryTry
<1>3. /\ now' \in Nat /\ submitted' \in Nat /\ k \in 1 .. NumKeys /\ NumKeys \in Nat
      /\ type' \in [Keys -> {"iso", "other"}]
      /\ waiting \in [Keys -> Seq(Urbs)] /\ waiting[k] \in Seq(Urbs)
    BY <1>2, NumKeysAssumption DEF TypeOK, Keys
<1>4. u \in Urbs /\ u = waiting[k][1] /\ 1 \in 1 .. Len(waiting[k])
    BY <1>1, <1>2, <1>3, HeadTailProperties, EmptySeq, LenProperties
<1>5. KeyOK(k) /\ QueueOK(waiting[k], nextDue[k], lastAt[k])
    BY DEF KeyOK
<1>6. UrbOK(u, nextDue[k], lastAt[k])
    BY <1>4, <1>5 DEF QueueOK
<1>7. /\ nextDue' \in [Keys -> Nat] /\ frames' \in [Keys -> Seq(Nat)]
      /\ lastAt' \in [Keys -> Nat] /\ iso' \in Nat \cup {Off}
      /\ \A j \in Keys \ {k} : /\ nextDue'[j] = nextDue[j]
                               /\ frames'[j] = frames[j]
                               /\ lastAt'[j] = lastAt[j]
      /\ Aligned(nextDue'[k]) /\ FramesOK(frames'[k], nextDue'[k])
      /\ iso # Off => iso' # Off /\ iso' <= iso
    BY <1>2, <1>4, <1>5, <1>6, TryOK
<1>8. PICK q : q = IF Complete(k, u) THEN Tail(waiting[k])
                   ELSE <<Serviced(k, u)>> \o Tail(waiting[k])
    OBVIOUS
<1>9. /\ waiting' = [waiting EXCEPT ![k] = q]
      /\ pass' = IF Complete(k, u) THEN pass ELSE NextKey(k)
    BY <1>1, <1>8 DEF RetryTry
<1>10. /\ q \in Seq(Urbs) /\ QueueOK(q, nextDue'[k], lastAt'[k])
       /\ ~Complete(k, u) => iso' # Off /\ iso' <= Head(q).due
    <2>1. CASE Complete(k, u)
        BY <1>2, <1>3, <1>5, <1>8, <2>1, QueueTail
    <2>2. CASE ~Complete(k, u)
        <3>1. PICK v : v = Serviced(k, u)
            OBVIOUS
        <3>2. v \in Urbs /\ UrbOK(v, nextDue'[k], lastAt'[k])
              /\ iso' # Off /\ iso' <= v.due
            BY <1>2, <1>4, <1>5, <1>6, <2>2, <3>1, TryOK
        <3>3. q = <<v>> \o Tail(waiting[k])
            BY <1>8, <2>2, <3>1
        <3>4. q \in Seq(Urbs) /\ QueueOK(q, nextDue'[k], lastAt'[k]) /\ Head(q) = v
            BY <1>2, <1>3, <1>5, <3>2, <3>3, QueueHead
        <3> QED
            BY <3>2, <3>4
    <2> QED
        BY <2>1, <2>2
<1>11. /\ waiting' \in [Keys -> Seq(Urbs)] /\ waiting'[k] = q
       /\ \A j \in Keys \ {k} : waiting'[j] = waiting[j]
    BY <1>3, <1>9, <1>10
<1>12. pass' \in 0 .. NumKeys
    BY <1>2, <1>3, <1>9 DEF NextKey
<1>13. TypeOK'
    BY <1>3, <1>7, <1>11, <1>12 DEF TypeOK
<1>14. (\A j \in Keys : KeyOK(j))'
    BY <1>7, <1>10, <1>11, OneKey
<1>15. ASSUME NEW j \in Keys, pass' = 0 \/ j < pass'
       PROVE  ArmedAt(j)'
    <2>1. j \in 1 .. NumKeys
        BY DEF Keys
    <2>2. j < k \/ (j = k /\ ~Complete(k, u))
        <3>1. CASE Complete(k, u)
            BY <1>2, <1>3, <1>9, <1>15, <2>1, <3>1
        <3>2. CASE ~Complete(k, u)
            BY <1>3, <1>9, <1>15, <2>1, <3>2 DEF NextKey
        <3> QED
            BY <3>1, <3>2
    <2>3. CASE j < k
        <3>1. ArmedAt(j)
            BY <1>2, <2>3, ArmedByKey DEF TypeOK
        <3>2. j # k
            BY <1>3, <2>1, <2>3
        <3> QED
            BY <1>7, <1>11, <3>1, <3>2, KeptArmed
    <2>4. CASE j = k /\ ~Complete(k, u)
        BY <1>10, <1>11, <2>4 DEF ArmedAt
    <2> QED
        BY <2>2, <2>3, <2>4
<1> QED
    BY <1>13, <1>14, <1>15, ArmedByKeyNext

(* usbip_retry goes on from an empty queue.                                  *)
LEMMA RetryEmptyIInv ==
    ASSUME IInv, NEW k \in Keys, RetryEmpty(k)
    PROVE  IInv'
<1> USE DEF IInv
<1>1. /\ pass = k /\ waiting[k] = <<>> /\ pass' = NextKey(k)
      /\ UNCHANGED <<now, waiting, nextDue, iso, type, submitted, frames, lastAt>>
    BY DEF RetryEmpty
<1>2. k \in 1 .. NumKeys /\ NumKeys \in Nat
    BY NumKeysAssumption DEF Keys
<1>3. TypeOK'
    BY <1>1, <1>2 DEF TypeOK, NextKey
<1>4. \A j \in Keys : KeyOK(j)'
    BY <1>1, SameKey
<1>5. ASSUME NEW j \in Keys, pass' = 0 \/ j < pass'
      PROVE  ArmedAt(j)'
    <2>1. j \in 1 .. NumKeys
        BY DEF Keys
    <2>2. j < k \/ j = k
        BY <1>1, <1>2, <1>5, <2>1 DEF NextKey
    <2>3. CASE j < k
        <3>1. ArmedAt(j)
            BY <1>1, <2>3, ArmedByKey DEF TypeOK
        <3> QED
            BY <1>1, <3>1 DEF ArmedAt
    <2>4. CASE j = k
        BY <1>1, <2>4 DEF ArmedAt
    <2> QED
        BY <2>2, <2>3, <2>4
<1>6. IsoTimerArmed'
    BY <1>5, ArmedByKeyNext
<1>7. (\A j \in Keys : KeyOK(j))'
    BY <1>4 DEF Keys
<1> QED
    BY <1>3, <1>6, <1>7

(* Unlinking a URB uncovers at most one that is not scheduled.               *)
LEMMA UnlinkIInv ==
    ASSUME IInv, NEW k \in Keys, NEW i \in 1 .. Len(waiting[k]), Unlink(k, i)
    PROVE  IInv'
<1> USE DEF IInv
<1>1. PICK q : q = RemoveAt(waiting[k], i)
    OBVIOUS
<1>2. /\ pass = 0 /\ waiting' = [waiting EXCEPT ![k] = q]
      /\ UNCHANGED <<now, nextDue, iso, pass, type, submitted, frames, lastAt>>
    BY <1>1 DEF Unlink
<1>3. waiting \in [Keys -> Seq(Urbs)] /\ waiting[k] \in Seq(Urbs)
      /\ QueueOK(waiting[k], nextDue[k], lastAt[k])
    BY DEF TypeOK, KeyOK
<1>4. /\ q \in Seq(Urbs) /\ QueueOK(q, nextDue[k], lastAt[k])
      /\ q # <<>> => Head(q) = Head(waiting[k]) \/ Unscheduled(Head(q))
    BY <1>1, <1>3, QueueRemove
<1>5. /\ waiting' \in [Keys -> Seq(Urbs)] /\ waiting'[k] = q
      /\ \A j \in Keys \ {k} : waiting'[j] = waiting[j]
    BY <1>2, <1>3, <1>4
<1>6. TypeOK'
    BY <1>2, <1>5 DEF TypeOK
<1>7. (\A j \in Keys : KeyOK(j))'
    <2>1. /\ Aligned(nextDue'[k]) /\ FramesOK(frames'[k], nextDue'[k])
          /\ QueueOK(waiting'[k], nextDue'[k], lastAt'[k])
        BY <1>2, <1>4, <1>5 DEF KeyOK
    <2> QED
        BY <1>2, <1>5, <2>1, OneKey
<1>8. \A j \in Keys : ArmedAt(j)
    BY <1>2, ArmedByKey DEF TypeOK
<1>9. waiting[k] # <<>>
    BY <1>3, EmptySeq
<1>10. \A j \in Keys : ArmedAt(j)'
    BY <1>2, <1>4, <1>5, <1>8, <1>9 DEF ArmedAt
<1> QED
    BY <1>6, <1>7, <1>10, ArmedByKeyNext

(* A new pass of usbip_retry, of a timer or of retry_bh, has no queue behind *)
(* it yet.                                                                   *)
LEMMA PassIInv ==
    ASSUME IInv, Poll \/ IsoTimer
    PROVE  IInv'
<1> USE DEF IInv
<1>1. /\ pass' = 1 /\ iso' \in {iso, Off}
      /\ UNCHANGED <<now, waiting, nextDue, type, submitted, frames, lastAt>>
    BY DEF Poll, IsoTimer
<1>2. TypeOK'
    BY <1>1, NumKeysAssumption DEF TypeOK
<1>3. \A j \in Keys : KeyOK(j)'
    BY <1>1, SameKey
<1>4. \A j \in Keys : ~(pass' = 0 \/ j < pass')
    BY <1>1, NumKeysAssumption DEF Keys
<1>5. IsoTimerArmed'
    BY <1>4, ArmedByKeyNext
<1>6. (\A j \in Keys : KeyOK(j))'
    BY <1>3 DEF Keys
<1> QED
    BY <1>2, <1>5, <1>6

(* A SET_INTERFACE and the clock leave the queues and iso_timer alone.       *)
LEMMA ElsewhereIInv ==
    ASSUME IInv, (\E k \in Keys : SetInterface(k)) \/ Tick
    PROVE  IInv'
<1> USE DEF IInv
<1>1. UNCHANGED <<waiting, nextDue, iso, pass, submitted, frames, lastAt>>
    BY DEF SetInterface, Tick
<1>2. now' \in Nat
    BY DEF SetInterface, Tick, TypeOK
<1>3. type' \in [Keys -> {"iso", "other"}]
    BY DEF SetInterface, Tick, TypeOK
<1>4. TypeOK'
    BY <1>1, <1>2, <1>3 DEF TypeOK
<1>5. \A j \in Keys : KeyOK(j)'
    BY <1>1, SameKey
<1>6. IsoTimerArmed'
    BY <1>1 DEF IsoTimerArmed, Unscheduled
<1>7. (\A j \in Keys : KeyOK(j))'
    BY <1>5 DEF Keys
<1> QED
    BY <1>4, <1>6, <1>7

(* usbip_reset_connection frees the URBs and starts a new schedule, and so   *)
(* does the realized device.                                                 *)
LEMMA EmptyOK ==
    ASSUME NEW la
    PROVE  Aligned(0) /\ FramesOK(<<>>, 0) /\ QueueOK(<<>>, 0, la)
BY ZeroAligned DEF FramesOK, QueueOK

(* After it nothing waits.                                                   *)
LEMMA ResetConnectionIInv ==
    ASSUME IInv, ResetConnection
    PROVE  IInv'
<1> USE DEF IInv
<1>1. /\ pass = 0 /\ iso' = Off
      /\ UNCHANGED <<now, pass, type, submitted, lastAt>>
      /\ waiting' = [k \in Keys |-> <<>>] /\ nextDue' = [k \in Keys |-> 0]
      /\ frames' = [k \in Keys |-> <<>>]
    BY DEF ResetConnection
<1>2. TypeOK'
    <2>1. /\ waiting' \in [Keys -> Seq(Urbs)] /\ nextDue' \in [Keys -> Nat]
          /\ frames' \in [Keys -> Seq(Nat)]
        BY <1>1
    <2> QED
        BY <1>1, <2>1 DEF TypeOK
<1>3. \A j \in Keys : waiting'[j] = <<>> /\ nextDue'[j] = 0 /\ frames'[j] = <<>>
    BY <1>1
<1>4. \A j \in Keys : KeyOK(j)'
    BY <1>3, EmptyOK DEF KeyOK
<1>5. \A j \in Keys : ArmedAt(j)'
    BY <1>3 DEF ArmedAt
<1>6. (\A j \in Keys : KeyOK(j))'
    BY <1>4 DEF Keys
<1> QED
    BY <1>2, <1>5, <1>6, ArmedByKeyNext

(* The realized device satisfies the inductive invariant.                    *)
THEOREM InitIInv == Init => IInv
<1> SUFFICES ASSUME Init PROVE IInv
    OBVIOUS
<1>1. TypeOK
    <2>1. /\ waiting \in [Keys -> Seq(Urbs)] /\ nextDue \in [Keys -> Nat]
          /\ frames \in [Keys -> Seq(Nat)] /\ lastAt \in [Keys -> Nat]
          /\ type \in [Keys -> {"iso", "other"}]
        BY DEF Init
    <2>2. now \in Nat /\ iso \in Nat \cup {Off} /\ submitted \in Nat
          /\ pass \in 0 .. NumKeys
        BY NumKeysAssumption DEF Init
    <2> QED
        BY <2>1, <2>2 DEF TypeOK
<1>2. \A j \in Keys : waiting[j] = <<>> /\ nextDue[j] = 0 /\ frames[j] = <<>>
    BY DEF Init
<1>3. \A j \in Keys : KeyOK(j)
    BY <1>2, EmptyOK DEF KeyOK
<1>4. IsoTimerArmed
    BY <1>2 DEF IsoTimerArmed
<1> QED
    BY <1>1, <1>3, <1>4 DEF IInv

(* Every step of the server, its timers and its client keeps it.             *)
THEOREM NextIInv == IInv /\ [Next]_vars => IInv'
<1> SUFFICES ASSUME IInv, [Next]_vars PROVE IInv'
    OBVIOUS
<1>1. CASE UNCHANGED vars
    <2>1. TypeOK'
        BY <1>1 DEF IInv, TypeOK, vars
    <2>2. \A j \in Keys : KeyOK(j)'
        BY <1>1, SameKey DEF IInv, vars
    <2>3. IsoTimerArmed'
        BY <1>1 DEF IInv, IsoTimerArmed, vars, Unscheduled
    <2>4. (\A j \in Keys : KeyOK(j))'
        BY <2>2 DEF Keys
    <2> QED
        BY <2>1, <2>3, <2>4 DEF IInv
<1>2. CASE \E k \in Keys : \E n \in Packets, i \in Intervals : Submit(k, n, i)
    BY <1>2, SubmitIInv
<1>3. CASE \E k \in Keys : RetryTry(k) \/ RetryEmpty(k)
    BY <1>3, RetryTryIInv, RetryEmptyIInv
<1>4. CASE \E k \in Keys : \E i \in 1 .. Len(waiting[k]) : Unlink(k, i)
    BY <1>4, UnlinkIInv
<1>5. CASE (\E k \in Keys : SetInterface(k)) \/ Tick
    BY <1>5, ElsewhereIInv
<1>6. CASE Poll \/ IsoTimer
    BY <1>6, PassIInv
<1>7. CASE ResetConnection
    BY <1>7, ResetConnectionIInv
<1> QED
    BY <1>1, <1>2, <1>3, <1>4, <1>5, <1>6, <1>7 DEF Next

(* So it always holds.                                                       *)
THEOREM Invariance == Spec => []IInv
BY InitIInv, NextIInv, PTL DEF Spec

(* The state of the isochronous schedule is always well formed.              *)
THEOREM TypeCorrect == Spec => []TypeOK
<1>1. IInv => TypeOK
    BY DEF IInv
<1> QED
    BY <1>1, Invariance, PTL

(* For any frame length, interval and delay, an endpoint gets at most one    *)
(* packet in a frame, in order.                                              *)
THEOREM NeverTwiceInAFrame == Spec => []OnePerFrame
<1>1. IInv => OnePerFrame
    BY DEF IInv, KeyOK, FramesOK, OnePerFrame
<1> QED
    BY <1>1, Invariance, PTL

(* iso_timer, shared by all endpoints, sleeps past no scheduled packet.      *)
THEOREM NeverSleptThrough == Spec => []IsoTimerArmed
<1>1. IInv => IsoTimerArmed
    BY DEF IInv
<1> QED
    BY <1>1, Invariance, PTL

(* However far it fell behind, the server's next packet of a URB is due in   *)
(* the future of the last one and within one interval.                       *)
THEOREM BackOnSchedule == Spec => []CatchesUp
<1>1. IInv => CatchesUp
    BY DEF IInv, KeyOK, QueueOK, UrbOK, CatchesUp
<1> QED
    BY <1>1, Invariance, PTL
=============================================================================
