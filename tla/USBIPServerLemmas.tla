------------------------- MODULE USBIPServerLemmas --------------------------
(* The inductive invariant of usbip-server, and that the steps its callbacks *)
(* are made of keep it: connection resets, enumeration, the retry pass and   *)
(* reads.  None of the invariants is inductive alone: the order of an        *)
(* endpoint needs that a message not yet parsed is later than every URB held *)
(* (Fresh), what usbip_retry does to the internal URB needs that nothing     *)
(* else is held while the server enumerates (Linked), and that needs the     *)
(* device to be there (Present).                                             *)
EXTENDS USBIPServer, SequenceTheorems, FiniteSetTheorems, TLAPS

(* What the list operations do to the URBs of one endpoint, for queues of    *)
(* any length: an endpoint in good order is one increasing sequence, either  *)
(* all with the device or all waiting.                                       *)

\* All URBs of s are with the device.
WithDevice(s) == [queue |-> s, held |-> Head(s), waiting |-> <<>>]

\* All URBs of s wait.
AllWaiting(s) == [queue |-> <<>>, held |-> None, waiting |-> s]

Good(S, e) == e \in Endpoints(S) /\ Moving(e) /\ InOrder(e)
-----------------------------------------------------------------------------
(* Sequences of URBs.                                                        *)

(* Dropping the first URBs keeps the order of the others.                    *)
LEMMA RestIncreasing ==
    ASSUME NEW S \in SUBSET Nat, NEW s \in Seq(S), Increasing(s),
           NEW n \in 0 .. Len(s)
    PROVE  /\ Rest(s, n) \in Seq(S)
           /\ Len(Rest(s, n)) = Len(s) - n
           /\ Increasing(Rest(s, n))
           /\ ToSet(Rest(s, n)) \subseteq ToSet(s)
           /\ \A i \in 1 .. Len(s) - n : Rest(s, n)[i] = s[n + i]
<1> DEFINE t == SubSeq(s, n + 1, Len(s))
<1>1. \A i \in n + 1 .. Len(s) : s[i] \in S
    BY ElementOfSeq
<1>2. /\ t \in Seq(S)
      /\ Len(t) = IF n + 1 <= Len(s) THEN Len(s) - (n + 1) + 1 ELSE 0
      /\ \A i \in 1 .. Len(s) - (n + 1) + 1 : t[i] = s[(n + 1) + i - 1]
    BY <1>1, SubSeqProperties
<1> QED
    BY <1>2 DEF Rest, Increasing, ToSet

(* A later URB goes to the end.                                              *)
LEMMA AppendIncreasing ==
    ASSUME NEW S \in SUBSET Nat, NEW s \in Seq(S), Increasing(s),
           NEW u \in S, \A v \in ToSet(s) : v < u
    PROVE  /\ Append(s, u) \in Seq(S)
           /\ Append(s, u) # <<>>
           /\ Increasing(Append(s, u))
           /\ ToSet(Append(s, u)) = ToSet(s) \cup {u}
           /\ s # <<>> => Head(Append(s, u)) = Head(s)
<1>1. /\ Append(s, u) \in Seq(S)
      /\ Len(Append(s, u)) = Len(s) + 1
      /\ \A i \in 1 .. Len(s) : Append(s, u)[i] = s[i]
      /\ Append(s, u)[Len(s) + 1] = u
    BY AppendProperties
<1>2. \A i \in 1 .. Len(s) : s[i] \in ToSet(s) /\ s[i] < u
    BY DEF ToSet
<1>3. Increasing(Append(s, u))
    BY <1>1, <1>2 DEF Increasing
<1>4. ToSet(Append(s, u)) = ToSet(s) \cup {u}
    BY <1>1 DEF ToSet
<1>5. s # <<>> => Head(Append(s, u)) = Head(s)
    BY HeadTailAppend
<1>6. Append(s, u) # <<>>
    BY AppendProperties
<1> QED
    BY <1>1, <1>3, <1>4, <1>5, <1>6

(* RemoveAt, element by element.                                             *)
LEMMA RemoveAtElements ==
    ASSUME NEW S, NEW s \in Seq(S), NEW i \in 1 .. Len(s)
    PROVE  /\ RemoveAt(s, i) \in Seq(S)
           /\ Len(RemoveAt(s, i)) = Len(s) - 1
           /\ \A j \in 1 .. Len(s) - 1 :
                 RemoveAt(s, i)[j] = IF j < i THEN s[j] ELSE s[j + 1]
<1>1. PICK a : a = SubSeq(s, 1, i - 1)
    OBVIOUS
<1>2. PICK b : b = SubSeq(s, i + 1, Len(s))
    OBVIOUS
<1>3. \A j \in 1 .. Len(s) : s[j] \in S
    BY ElementOfSeq
<1>4. /\ a \in Seq(S)
      /\ Len(a) = i - 1
      /\ \A j \in 1 .. i - 1 : a[j] = s[j]
    <2>1. \A j \in 1 .. i - 1 : s[j] \in S
        BY <1>3
    <2> QED
        BY <1>1, <2>1, SubSeqProperties
<1>5. /\ b \in Seq(S)
      /\ Len(b) = Len(s) - i
      /\ \A j \in 1 .. Len(s) - i : b[j] = s[i + j]
    <2>1. \A j \in i + 1 .. Len(s) : s[j] \in S
        BY <1>3
    <2> QED
        BY <1>2, <2>1, SubSeqProperties
<1>6. /\ a \o b \in Seq(S)
      /\ Len(a \o b) = Len(a) + Len(b)
      /\ \A j \in 1 .. Len(a) + Len(b) :
            (a \o b)[j] = IF j <= Len(a) THEN a[j] ELSE b[j - Len(a)]
    BY <1>4, <1>5, ConcatProperties
<1>7. \A j \in 1 .. Len(s) - 1 :
          (a \o b)[j] = IF j < i THEN s[j] ELSE s[j + 1]
    BY <1>4, <1>5, <1>6
<1>8. RemoveAt(s, i) = a \o b
    BY <1>1, <1>2 DEF RemoveAt
<1>9. Len(a \o b) = Len(s) - 1
    BY <1>4, <1>5, <1>6
<1> QED
    BY <1>6, <1>7, <1>8, <1>9

(* Taking one URB out keeps the order of the others.                         *)
LEMMA WithoutIncreasing ==
    ASSUME NEW S \in SUBSET Nat, NEW s \in Seq(S), Increasing(s),
           NEW u \in ToSet(s)
    PROVE  /\ Without(s, u) \in Seq(S)
           /\ Increasing(Without(s, u))
           /\ ToSet(Without(s, u)) = ToSet(s) \ {u}
           /\ Len(Without(s, u)) = Len(s) - 1
           /\ s[1] # u => Without(s, u) # <<>> /\ Head(Without(s, u)) = Head(s)
<1>1. PICK i \in 1 .. Len(s) : s[i] = u /\ Without(s, u) = RemoveAt(s, i)
    <2>1. \E i \in 1 .. Len(s) : s[i] = u
        BY DEF ToSet
    <2> DEFINE c == CHOOSE i \in 1 .. Len(s) : s[i] = u
    <2>2. c \in 1 .. Len(s) /\ s[c] = u
        BY <2>1
    <2>3. Without(s, u) = RemoveAt(s, c)
        BY DEF Without
    <2> QED
        BY <2>2, <2>3
<1>2. PICK t : t = RemoveAt(s, i)
    OBVIOUS
<1>3. /\ t \in Seq(S)
      /\ Len(t) = Len(s) - 1
      /\ \A j \in 1 .. Len(s) - 1 : t[j] = IF j < i THEN s[j] ELSE s[j + 1]
    BY <1>2, RemoveAtElements
<1>4. \A j \in 1 .. Len(s) : s[j] \in Nat
    BY ElementOfSeq
<1>5. \A j, k \in 1 .. Len(s) : j < k => s[j] < s[k]
    BY DEF Increasing
<1>6. Increasing(t)
    <2> SUFFICES ASSUME NEW j \in 1 .. Len(t), NEW k \in 1 .. Len(t), j < k
                 PROVE  t[j] < t[k]
        BY DEF Increasing
    <2>1. j \in 1 .. Len(s) - 1 /\ k \in 1 .. Len(s) - 1
        BY <1>3
    <2>2. CASE k < i
        BY <1>3, <1>5, <2>1, <2>2
    <2>3. CASE j < i /\ k >= i
        <3>1. t[j] = s[j] /\ t[k] = s[k + 1]
            BY <1>3, <2>1, <2>3
        <3> QED
            BY <1>5, <2>1, <3>1
    <2>4. CASE j >= i
        <3>1. t[j] = s[j + 1] /\ t[k] = s[k + 1]
            BY <1>3, <2>1, <2>4
        <3> QED
            BY <1>5, <2>1, <3>1
    <2> QED
        BY <2>1, <2>2, <2>3, <2>4
<1>7. ToSet(t) = ToSet(s) \ {u}
    <2>1. ASSUME NEW v \in ToSet(t) PROVE v \in ToSet(s) \ {u}
        <3>1. PICK j \in 1 .. Len(s) - 1 : t[j] = v
            BY <1>3 DEF ToSet
        <3>2. PICK k \in 1 .. Len(s) : v = s[k] /\ k # i
            BY <1>3, <3>1
        <3>3. v # u
            BY <1>1, <1>4, <1>5, <3>2
        <3> QED
            BY <3>2, <3>3 DEF ToSet
    <2>2. ASSUME NEW v \in ToSet(s) \ {u} PROVE v \in ToSet(t)
        <3>1. PICK k \in 1 .. Len(s) : s[k] = v
            BY DEF ToSet
        <3>2. PICK j \in 1 .. Len(s) - 1 : t[j] = v
            <4>1. CASE k < i
                BY <1>3, <3>1, <4>1
            <4>2. CASE k > i
                <5>1. t[k - 1] = v /\ k - 1 \in 1 .. Len(s) - 1
                    BY <1>3, <3>1, <4>2
                <5> QED
                    BY <5>1
            <4> QED
                BY <1>1, <3>1, <4>1, <4>2
        <3> QED
            BY <1>3, <3>2 DEF ToSet
    <2> QED
        BY <2>1, <2>2
<1>8. s[1] # u => t # <<>> /\ Head(t) = Head(s)
    <2> SUFFICES ASSUME s[1] # u PROVE t # <<>> /\ Head(t) = Head(s)
        OBVIOUS
    <2>1. 1 < i /\ 1 \in 1 .. Len(s) - 1
        BY <1>1
    <2>2. t[1] = s[1] /\ Len(t) >= 1
        BY <1>3, <2>1
    <2> QED
        BY <1>3, <2>2
<1> QED
    BY <1>1, <1>2, <1>3, <1>6, <1>7, <1>8
-----------------------------------------------------------------------------
(* The two shapes of an endpoint in good order.                              *)

(* An empty list holds no URB.                                               *)
LEMMA EmptyToSet == ToSet(<<>>) = {}
BY DEF ToSet

(* The URBs of an endpoint in good order are one increasing sequence, either *)
(* all with the device or all waiting.                                       *)
LEMMA GoodShape ==
    ASSUME NEW S \in SUBSET Nat, NEW e, Good(S, e)
    PROVE  \E s \in Seq(S) :
               /\ Increasing(s)
               /\ Held(e) = ToSet(s)
               /\ \/ s # <<>> /\ e = WithDevice(s)
                  \/ e = AllWaiting(s)
<1>1. /\ e.queue \in Seq(S) /\ e.waiting \in Seq(S)
      /\ e = [queue |-> e.queue, held |-> e.held, waiting |-> e.waiting]
    BY DEF Good, Endpoints
<1>2. Increasing(e.queue \o e.waiting)
    BY DEF Good, InOrder, Order
<1>3. CASE e.queue # <<>>
    <2>1. e.waiting = <<>> /\ e.held = Head(e.queue)
        BY <1>3 DEF Good, Moving
    <2>2. Increasing(e.queue)
        BY <1>1, <1>2, <2>1, ConcatEmptySeq
    <2>3. Held(e) = ToSet(e.queue)
        BY <2>1, EmptyToSet DEF Held
    <2>4. e = WithDevice(e.queue)
        BY <1>1, <2>1 DEF WithDevice
    <2> QED
        BY <1>1, <1>3, <2>2, <2>3, <2>4
<1>4. CASE e.queue = <<>>
    <2>1. e.held = None
        BY <1>4 DEF Good, Moving
    <2>2. Increasing(e.waiting)
        BY <1>1, <1>2, <1>4, ConcatEmptySeq
    <2>3. Held(e) = ToSet(e.waiting)
        BY <1>4, EmptyToSet DEF Held
    <2>4. e = AllWaiting(e.waiting)
        BY <1>1, <1>4, <2>1 DEF AllWaiting
    <2> QED
        BY <1>1, <2>2, <2>3, <2>4
<1> QED
    BY <1>3, <1>4

(* Conversely, an increasing sequence with the device is in good order.      *)
LEMMA WithDeviceGood ==
    ASSUME NEW S \in SUBSET Nat, NEW s \in Seq(S), Increasing(s), s # <<>>
    PROVE  Good(S, WithDevice(s)) /\ Held(WithDevice(s)) = ToSet(s)
<1>1. Head(s) \in S
    BY HeadTailProperties
<1>2. WithDevice(s) \in Endpoints(S)
    BY <1>1, EmptySeq DEF WithDevice, Endpoints
<1>3. Moving(WithDevice(s))
    BY DEF Moving, WithDevice
<1>4. Order(WithDevice(s)) = s
    BY ConcatEmptySeq DEF Order, WithDevice
<1>5. Held(WithDevice(s)) = ToSet(s)
    BY EmptyToSet DEF Held, WithDevice
<1> QED
    BY <1>2, <1>3, <1>4, <1>5 DEF Good, InOrder

(* And so is one that waits.                                                 *)
LEMMA AllWaitingGood ==
    ASSUME NEW S \in SUBSET Nat, NEW s \in Seq(S), Increasing(s)
    PROVE  Good(S, AllWaiting(s)) /\ Held(AllWaiting(s)) = ToSet(s)
<1>2. AllWaiting(s) \in Endpoints(S)
    BY EmptySeq DEF AllWaiting, Endpoints
<1>3. Moving(AllWaiting(s))
    BY DEF Moving, AllWaiting
<1>4. Order(AllWaiting(s)) = s
    BY ConcatEmptySeq DEF Order, AllWaiting
<1>5. Held(AllWaiting(s)) = ToSet(s)
    BY EmptyToSet DEF Held, AllWaiting
<1> QED
    BY <1>2, <1>3, <1>4, <1>5 DEF Good, InOrder

(* An endpoint for which the server holds no URB is idle.                    *)
LEMMA HeldNothing ==
    ASSUME NEW S \in SUBSET Nat, NEW e, Good(S, e), Held(e) = {}
    PROVE  e = Idle
<1>1. e.queue \in Seq(S) /\ e.waiting \in Seq(S)
      /\ e = [queue |-> e.queue, held |-> e.held, waiting |-> e.waiting]
    BY DEF Good, Endpoints
<1>2. \A s \in Seq(S) : s # <<>> => s[1] \in ToSet(s)
    BY DEF ToSet
<1>3. e.queue = <<>> /\ e.waiting = <<>>
    BY <1>1, <1>2 DEF Held
<1>4. e.held = None
    BY <1>3 DEF Good, Moving
<1> QED
    BY <1>1, <1>3, <1>4 DEF Idle

(* An idle endpoint is in good order.                                        *)
LEMMA IdleGood ==
    ASSUME NEW S \in SUBSET Nat
    PROVE  Good(S, Idle) /\ Held(Idle) = {} /\ Idle = AllWaiting(<<>>)
<1>1. Idle = AllWaiting(<<>>)
    BY DEF Idle, AllWaiting
<1>2. <<>> \in Seq(S) /\ Increasing(<<>>)
    BY EmptySeq DEF Increasing
<1> QED
    BY <1>1, <1>2, AllWaitingGood, EmptyToSet
-----------------------------------------------------------------------------
(* The operations keep an endpoint in good order.                            *)

(* usbip_urb_submit of an URB later than all that are held: it either        *)
(* completes, and nothing changes, or is held behind the others.             *)
LEMMA UrbSubmitGood ==
    ASSUME NEW S \in SUBSET Nat, NEW e, Good(S, e), NEW u \in S,
           \A v \in Held(e) : v < u, NEW r \in Responses
    PROVE  /\ Good(S, UrbSubmit(e, u, r))
           /\ Completes(e, r) => UrbSubmit(e, u, r) = e
           /\ ~Completes(e, r) =>
                  Held(UrbSubmit(e, u, r)) = Held(e) \cup {u}
<1>1. PICK s \in Seq(S) :
          /\ Increasing(s)
          /\ Held(e) = ToSet(s)
          /\ \/ s # <<>> /\ e = WithDevice(s)
             \/ e = AllWaiting(s)
    BY GoodShape
<1>2. PICK t : t = Append(s, u)
    OBVIOUS
<1>3. /\ t \in Seq(S) /\ t # <<>> /\ Increasing(t)
      /\ ToSet(t) = ToSet(s) \cup {u}
      /\ s # <<>> => Head(t) = Head(s)
    BY <1>1, <1>2, AppendIncreasing
<1>4. /\ Good(S, WithDevice(t)) /\ Held(WithDevice(t)) = ToSet(t)
      /\ Good(S, AllWaiting(t)) /\ Held(AllWaiting(t)) = ToSet(t)
    BY <1>3, WithDeviceGood, AllWaitingGood
<1>5. CASE s # <<>> /\ e = WithDevice(s)
    <2>1. UrbSubmit(e, u, r) = WithDevice(t) /\ ~Completes(e, r)
        BY <1>2, <1>3, <1>5
        DEF UrbSubmit, Completes, Status, HandlePacket, WithDevice
    <2> QED
        BY <1>1, <1>3, <1>4, <2>1
<1>6. CASE e = AllWaiting(s) /\ (s # <<>> \/ r = "NAK")
    <2>1. UrbSubmit(e, u, r) = AllWaiting(t) /\ ~Completes(e, r)
        BY <1>2, <1>6 DEF UrbSubmit, Completes, Status, AllWaiting
    <2> QED
        BY <1>1, <1>3, <1>4, <2>1
<1>7. CASE e = AllWaiting(s) /\ s = <<>> /\ r = "ASYNC"
    <2>1. t = <<u>> /\ Head(t) = u
        BY <1>2, <1>7
    <2>2. UrbSubmit(e, u, r) = WithDevice(t) /\ ~Completes(e, r)
        BY <1>7, <2>1
        DEF UrbSubmit, Completes, Status, HandlePacket, AllWaiting, WithDevice
    <2> QED
        BY <1>1, <1>3, <1>4, <2>2
<1>8. CASE e = AllWaiting(s) /\ s = <<>> /\ r = "DONE"
    <2>1. UrbSubmit(e, u, r) = e /\ Completes(e, r)
        BY <1>8 DEF UrbSubmit, Completes, Status, HandlePacket, AllWaiting
    <2> QED
        BY <2>1
<1> QED
    BY <1>1, <1>5, <1>6, <1>7, <1>8 DEF Responses

(* usbip_urb_unlink takes exactly its URB away.  If the device held it, the  *)
(* others wait.                                                              *)
LEMMA UrbUnlinkGood ==
    ASSUME NEW S \in SUBSET Nat, NEW e, Good(S, e), NEW u \in Held(e)
    PROVE  /\ Good(S, UrbUnlink(e, u))
           /\ Held(UrbUnlink(e, u)) = Held(e) \ {u}
           /\ UrbUnlink(e, u).waiting # <<>> =>
                  e.waiting # <<>> \/ e.held = u
<1>1. PICK s \in Seq(S) :
          /\ Increasing(s)
          /\ Held(e) = ToSet(s)
          /\ \/ s # <<>> /\ e = WithDevice(s)
             \/ e = AllWaiting(s)
    BY GoodShape
<1>2. PICK t : t = Without(s, u)
    OBVIOUS
<1>3. /\ t \in Seq(S) /\ Increasing(t) /\ ToSet(t) = ToSet(s) \ {u}
      /\ s[1] # u => t # <<>> /\ Head(t) = Head(s)
    BY <1>1, <1>2, WithoutIncreasing
<1>4. Good(S, AllWaiting(t)) /\ Held(AllWaiting(t)) = ToSet(t)
    BY <1>3, AllWaitingGood
<1>5. CASE e = WithDevice(s) /\ s # <<>> /\ s[1] = u
    <2>1. Head(s) = u
        BY <1>5
    <2>2. t \o <<>> = t
        BY <1>3, ConcatEmptySeq
    <2>3. UrbUnlink(e, u) = AllWaiting(t)
        BY <1>1, <1>2, <1>5, <2>1, <2>2
        DEF UrbUnlink, RequeueBehind, WithDevice, AllWaiting
    <2>4. e.held = u
        BY <1>5, <2>1 DEF WithDevice
    <2> QED
        BY <1>1, <1>3, <1>4, <2>3, <2>4
<1>6. CASE e = WithDevice(s) /\ s # <<>> /\ s[1] # u
    <2>1. Head(s) # u
        BY <1>6
    <2>2. UrbUnlink(e, u) = WithDevice(t)
        BY <1>1, <1>2, <1>3, <1>6, <2>1 DEF UrbUnlink, WithDevice
    <2>3. Good(S, WithDevice(t)) /\ Held(WithDevice(t)) = ToSet(t)
        BY <1>3, <1>6, WithDeviceGood
    <2>4. WithDevice(t).waiting = <<>>
        BY DEF WithDevice
    <2> QED
        BY <1>1, <1>3, <2>2, <2>3, <2>4
<1>7. CASE e = AllWaiting(s)
    <2>1. UrbUnlink(e, u) = AllWaiting(t)
        BY <1>2, <1>7, EmptyToSet DEF UrbUnlink, AllWaiting
    <2>2. e.waiting # <<>>
        BY <1>1, <1>7, EmptyToSet DEF AllWaiting
    <2> QED
        BY <1>1, <1>3, <1>4, <2>1, <2>2
<1> QED
    BY <1>1, <1>5, <1>6, <1>7

(* usbip_retry: the URBs that did not complete stay, in order.               *)
LEMMA RetryGood ==
    ASSUME NEW S \in SUBSET Nat, NEW e, Good(S, e), NEW n \in RetryCounts(e),
           NEW r \in {"NAK", "ASYNC"}
    PROVE  /\ Good(S, Retry(e, n, r))
           /\ Held(Retry(e, n, r)) \subseteq Held(e)
           /\ e.queue # <<>> => Retry(e, n, r) = e
<1>1. PICK s \in Seq(S) :
          /\ Increasing(s)
          /\ Held(e) = ToSet(s)
          /\ \/ s # <<>> /\ e = WithDevice(s)
             \/ e = AllWaiting(s)
    BY GoodShape
<1>2. CASE s # <<>> /\ e = WithDevice(s)
    <2>1. s \o <<>> = s
        BY ConcatEmptySeq
    <2>2. e.queue = s /\ e.waiting = <<>>
        BY <1>2 DEF WithDevice
    <2>3. Retry(e, n, r) = [e EXCEPT !.queue = s, !.waiting = <<>>]
        BY <1>2, <2>1, <2>2 DEF Retry
    <2>4. Retry(e, n, r) = e
        BY <1>2, <2>3 DEF WithDevice
    <2> QED
        BY <2>4
<1>3. CASE e = AllWaiting(s)
    <2>1. n \in 0 .. Len(s) /\ e.queue = <<>>
        BY <1>3 DEF RetryCounts, AllWaiting
    <2>2. PICK t : t = Rest(s, n)
        OBVIOUS
    <2>3. /\ t \in Seq(S) /\ Increasing(t) /\ Len(t) = Len(s) - n
          /\ ToSet(t) \subseteq ToSet(s)
          /\ \A i \in 1 .. Len(s) - n : t[i] = s[n + i]
        BY <1>1, <2>1, <2>2, RestIncreasing
    <2>4. CASE n = Len(s)
        <3>1. Retry(e, n, r) = Idle
            BY <1>3, <2>4 DEF Retry, AllWaiting, Idle
        <3> QED
            BY <2>1, <3>1, IdleGood
    <2>5. CASE n # Len(s) /\ r = "NAK"
        <3>1. Retry(e, n, r) = AllWaiting(t)
            BY <1>3, <2>2, <2>5 DEF Retry, AllWaiting
        <3> QED
            BY <1>1, <2>1, <2>3, <3>1, AllWaitingGood
    <2>6. CASE n # Len(s) /\ r = "ASYNC"
        <3>1. Len(t) \in Nat \ {0}
            BY <2>1, <2>3, <2>6
        <3>2. t # <<>> /\ Head(t) = s[n + 1]
            BY <2>1, <2>3, <3>1
        <3>3. Retry(e, n, r) = WithDevice(t)
            BY <1>3, <2>2, <2>6, <3>2 DEF Retry, AllWaiting, WithDevice
        <3> QED
            BY <1>1, <2>1, <2>3, <3>2, <3>3, WithDeviceGood
    <2> QED
        BY <2>4, <2>5, <2>6
<1> QED
    BY <1>1, <1>2, <1>3

(* usb_packet_complete: the URBs behind the completed ones stay, in order,   *)
(* and wait only if the endpoint halted.                                     *)
LEMMA PacketCompleteGood ==
    ASSUME NEW S \in SUBSET Nat, NEW e, Good(S, e), NEW n \in 1 .. Len(e.queue),
           NEW halts \in BOOLEAN
    PROVE  /\ Good(S, PacketComplete(e, n, halts))
           /\ Held(PacketComplete(e, n, halts)) \subseteq Held(e)
           /\ PacketComplete(e, n, halts).waiting # <<>> =>
                  halts /\ n < Len(e.queue)
           /\ n = Len(e.queue) => PacketComplete(e, n, halts) = Idle
<1>1. PICK s \in Seq(S) :
          /\ Increasing(s)
          /\ Held(e) = ToSet(s)
          /\ \/ s # <<>> /\ e = WithDevice(s)
             \/ e = AllWaiting(s)
    BY GoodShape
<1>2. CASE e = AllWaiting(s)
    BY <1>2 DEF AllWaiting
<1>3. CASE s # <<>> /\ e = WithDevice(s)
    <2>1. e.queue = s /\ n \in 0 .. Len(s)
        BY <1>3 DEF WithDevice
    <2>2. PICK t : t = Rest(s, n)
        OBVIOUS
    <2>3. /\ t \in Seq(S) /\ Increasing(t) /\ Len(t) = Len(s) - n
          /\ ToSet(t) \subseteq ToSet(s)
        BY <1>1, <2>1, <2>2, RestIncreasing
    <2>4. CASE t = <<>>
        <3>1. PacketComplete(e, n, halts) = Idle
            BY <1>3, <2>1, <2>2, <2>4 DEF PacketComplete, WithDevice, Idle
        <3>2. Idle.waiting = <<>>
            BY DEF Idle
        <3> QED
            BY <3>1, <3>2, IdleGood
    <2>5. CASE t # <<>> /\ halts
        <3>1. <<>> \o t = t
            BY <2>3, ConcatEmptySeq
        <3>2. PacketComplete(e, n, halts) = AllWaiting(t)
            BY <1>3, <2>1, <2>2, <2>5, <3>1
            DEF PacketComplete, WithDevice, AllWaiting
        <3>3. n < Len(s)
            BY <2>1, <2>3, <2>5
        <3>4. n # Len(s)
            BY <2>1, <3>3
        <3> QED
            BY <1>1, <2>1, <2>3, <2>5, <3>2, <3>3, <3>4, AllWaitingGood
    <2>6. CASE t # <<>> /\ ~halts
        <3>1. PacketComplete(e, n, halts) = WithDevice(t)
            BY <1>3, <2>1, <2>2, <2>6 DEF PacketComplete, WithDevice
        <3>2. WithDevice(t).waiting = <<>>
            BY DEF WithDevice
        <3>3. n # Len(s)
            BY <2>1, <2>3, <2>6
        <3> QED
            BY <1>1, <2>1, <2>3, <2>6, <3>1, <3>2, <3>3, WithDeviceGood
    <2> QED
        BY <2>4, <2>5, <2>6
<1> QED
    BY <1>1, <1>2, <1>3
-----------------------------------------------------------------------------
(* The operations on the sequence of URBs an endpoint holds.                 *)

(* The URBs of an endpoint in good order, as one sequence.                   *)
LEMMA GoodOrder ==
    ASSUME NEW S \in SUBSET Nat, NEW e, Good(S, e)
    PROVE  /\ Order(e) \in Seq(S) /\ Increasing(Order(e)) /\ Held(e) = ToSet(Order(e))
           /\ \/ Order(e) # <<>> /\ e = WithDevice(Order(e)) /\ e.queue = Order(e)
              \/ e = AllWaiting(Order(e)) /\ e.waiting = Order(e) /\ e.queue = <<>>
<1>1. PICK s \in Seq(S) :
          /\ Increasing(s)
          /\ Held(e) = ToSet(s)
          /\ \/ s # <<>> /\ e = WithDevice(s)
             \/ e = AllWaiting(s)
    BY GoodShape
<1>2. Order(WithDevice(s)) = s /\ Order(AllWaiting(s)) = s
    BY ConcatEmptySeq DEF Order, WithDevice, AllWaiting
<1>3. WithDevice(s).queue = s /\ AllWaiting(s).waiting = s /\ AllWaiting(s).queue = <<>>
    BY DEF WithDevice, AllWaiting
<1> QED
    BY <1>1, <1>2, <1>3

(* An endpoint made from a sequence holds that sequence.                     *)
LEMMA OrderOf ==
    ASSUME NEW S, NEW s \in Seq(S)
    PROVE  Order(WithDevice(s)) = s /\ Order(AllWaiting(s)) = s
BY ConcatEmptySeq DEF Order, WithDevice, AllWaiting

(* An idle endpoint holds nothing.                                           *)
LEMMA IdleOrder == Order(Idle) = <<>>
BY DEF Order, Idle

(* usbip_urb_submit appends the URB, or completes it with nothing held.      *)
LEMMA SubmitOrder ==
    ASSUME NEW S \in SUBSET Nat, NEW e, Good(S, e), NEW u \in S, NEW r \in Responses
    PROVE  /\ Completes(e, r) => Order(e) = <<>>
           /\ ~Completes(e, r) => Order(UrbSubmit(e, u, r)) = Append(Order(e), u)
<1>1. PICK s \in Seq(S) : s = Order(e)
    BY GoodOrder
<1>2. \/ s # <<>> /\ e = WithDevice(s)
      \/ e = AllWaiting(s)
    BY <1>1, GoodOrder
<1>3. PICK t \in Seq(S) : t = Append(s, u)
    BY AppendProperties
<1>4. Order(WithDevice(t)) = t /\ Order(AllWaiting(t)) = t
    BY <1>3, OrderOf
<1>5. CASE s # <<>> /\ e = WithDevice(s)
    <2>1. Head(t) = Head(s)
        BY <1>3, <1>5, HeadTailAppend
    <2>2. UrbSubmit(e, u, r) = WithDevice(t) /\ ~Completes(e, r)
        BY <1>3, <1>5, <2>1
        DEF UrbSubmit, Completes, Status, HandlePacket, WithDevice
    <2> QED
        BY <1>1, <1>3, <1>4, <2>2
<1>6. CASE e = AllWaiting(s) /\ (s # <<>> \/ r = "NAK")
    <2>1. UrbSubmit(e, u, r) = AllWaiting(t) /\ ~Completes(e, r)
        BY <1>3, <1>6 DEF UrbSubmit, Completes, Status, AllWaiting
    <2> QED
        BY <1>1, <1>3, <1>4, <2>1
<1>7. CASE e = AllWaiting(s) /\ s = <<>> /\ r = "ASYNC"
    <2>1. t = <<u>> /\ Head(t) = u
        BY <1>3, <1>7
    <2>2. UrbSubmit(e, u, r) = WithDevice(t) /\ ~Completes(e, r)
        BY <1>7, <2>1
        DEF UrbSubmit, Completes, Status, HandlePacket, AllWaiting, WithDevice
    <2> QED
        BY <1>1, <1>3, <1>4, <2>2
<1>8. CASE e = AllWaiting(s) /\ s = <<>> /\ r = "DONE"
    BY <1>1, <1>8 DEF Completes, Status, AllWaiting
<1> QED
    BY <1>2, <1>5, <1>6, <1>7, <1>8 DEF Responses

(* usbip_urb_unlink takes the URB from its place.                            *)
LEMMA UnlinkOrder ==
    ASSUME NEW S \in SUBSET Nat, NEW e, Good(S, e), NEW u \in Held(e)
    PROVE  \E i \in 1 .. Len(Order(e)) :
               Order(e)[i] = u /\ Order(UrbUnlink(e, u)) = RemoveAt(Order(e), i)
<1>1. PICK s \in Seq(S) : s = Order(e)
    BY GoodOrder
<1>2. /\ Increasing(s) /\ u \in ToSet(s)
      /\ \/ s # <<>> /\ e = WithDevice(s)
         \/ e = AllWaiting(s)
    BY <1>1, GoodOrder
<1>3. PICK i \in 1 .. Len(s) : s[i] = u /\ Without(s, u) = RemoveAt(s, i)
    <2>1. \E i \in 1 .. Len(s) : s[i] = u
        BY <1>2 DEF ToSet
    <2> DEFINE c == CHOOSE i \in 1 .. Len(s) : s[i] = u
    <2>2. c \in 1 .. Len(s) /\ s[c] = u
        BY <2>1
    <2> QED
        BY <2>2 DEF Without
<1>4. PICK t \in Seq(S) : t = Without(s, u)
    BY <1>2, WithoutIncreasing
<1>5. Order(UrbUnlink(e, u)) = t
    <2>1. Order(AllWaiting(t)) = t /\ t \o <<>> = t
        BY <1>4, OrderOf, ConcatEmptySeq
    <2>2. CASE e = WithDevice(s) /\ e.held = u
        <3>1. UrbUnlink(e, u) = AllWaiting(t)
            BY <1>2, <1>4, <2>1, <2>2 DEF UrbUnlink, RequeueBehind, WithDevice, AllWaiting
        <3> QED
            BY <2>1, <3>1
    <2>3. CASE e = WithDevice(s) /\ e.held # u
        <3>1. UrbUnlink(e, u).queue = t /\ UrbUnlink(e, u).waiting = <<>>
            BY <1>2, <1>4, <2>3 DEF UrbUnlink, WithDevice
        <3> QED
            BY <2>1, <3>1 DEF Order
    <2>4. CASE e = AllWaiting(s)
        <3>1. UrbUnlink(e, u) = AllWaiting(t)
            BY <1>4, <2>4, EmptyToSet DEF UrbUnlink, AllWaiting
        <3> QED
            BY <2>1, <3>1
    <2> QED
        BY <1>2, <2>2, <2>3, <2>4
<1> QED
    BY <1>1, <1>3, <1>4, <1>5

(* The first URBs of a queue and the rest have nothing in common.            *)
LEMMA RestSplit ==
    ASSUME NEW S \in SUBSET Nat, NEW s \in Seq(S), Increasing(s), NEW n \in 0 .. Len(s)
    PROVE  /\ ToSet(SubSeq(s, 1, n)) \subseteq ToSet(s)
           /\ ToSet(Rest(s, n)) = ToSet(s) \ ToSet(SubSeq(s, 1, n))
<1>1. \A i \in 1 .. n : s[i] \in S
    BY ElementOfSeq
<1>2. PICK q : q = SubSeq(s, 1, n)
    OBVIOUS
<1>3. Len(q) = n /\ \A i \in 1 .. n : q[i] = s[i]
    BY <1>1, <1>2, SubSeqProperties
<1>4. PICK t : t = Rest(s, n)
    OBVIOUS
<1>5. Len(t) = Len(s) - n /\ \A i \in 1 .. Len(s) - n : t[i] = s[n + i]
    BY <1>4, RestIncreasing
<1>6. ToSet(q) = {s[i] : i \in 1 .. n}
    BY <1>3 DEF ToSet
<1>7. ToSet(t) = {s[i] : i \in n + 1 .. Len(s)}
    <2>1. \A i \in n + 1 .. Len(s) : i - n \in 1 .. Len(s) - n /\ t[i - n] = s[i]
        BY <1>5
    <2>2. \A i \in 1 .. Len(s) - n : n + i \in n + 1 .. Len(s)
        OBVIOUS
    <2> QED
        BY <1>5, <2>1, <2>2 DEF ToSet
<1>8. \A i \in 1 .. n, j \in n + 1 .. Len(s) : s[i] # s[j]
    <2> TAKE i \in 1 .. n, j \in n + 1 .. Len(s)
    <2>1. i \in 1 .. Len(s) /\ j \in 1 .. Len(s) /\ i < j
        OBVIOUS
    <2>2. s[i] < s[j] /\ s[i] \in Nat /\ s[j] \in Nat
        BY <2>1, ElementOfSeq DEF Increasing
    <2> QED
        BY <2>2
<1>9. \A i \in 1 .. Len(s) : i \in 1 .. n \/ i \in n + 1 .. Len(s)
    OBVIOUS
<1>10. ToSet(s) = {s[i] : i \in 1 .. Len(s)}
    BY DEF ToSet
<1> QED
    BY <1>2, <1>4, <1>6, <1>7, <1>8, <1>9, <1>10

(* usbip_retry takes the URBs that complete from the front.                  *)
LEMMA RetryOrder ==
    ASSUME NEW S \in SUBSET Nat, NEW e, Good(S, e), NEW n \in RetryCounts(e),
           NEW r \in {"NAK", "ASYNC"}
    PROVE  /\ n \in 0 .. Len(Order(e))
           /\ SubSeq(e.waiting, 1, n) = SubSeq(Order(e), 1, n)
           /\ Order(Retry(e, n, r)) = Rest(Order(e), n)
<1>1. PICK s \in Seq(S) : s = Order(e) /\ Increasing(s)
    BY GoodOrder
<1>2. CASE s # <<>> /\ e = WithDevice(s) /\ e.queue = s
    <2>1. n = 0 /\ Retry(e, n, r) = e
        BY <1>2, RetryGood DEF RetryCounts
    <2>2. SubSeq(e.waiting, 1, 0) = <<>> /\ SubSeq(s, 1, 0) = <<>>
        BY SubSeqEmpty
    <2>3. 0 \in 0 .. Len(s) /\ Rest(s, 0) = s
        <3>1. PICK t \in Seq(S) : t = Rest(s, 0) /\ Len(t) = Len(s)
                                  /\ \A i \in 1 .. Len(s) : t[i] = s[i]
            <4>1. Len(s) - 0 = Len(s) /\ 0 \in 0 .. Len(s) /\ \A i \in 1 .. Len(s) : s[0 + i] = s[i]
                OBVIOUS
            <4> QED
                BY <1>1, <4>1, RestIncreasing
        <3> QED
            BY <3>1, SeqEqual
    <2> QED
        BY <1>1, <2>1, <2>2, <2>3
<1>3. CASE e = AllWaiting(s) /\ e.waiting = s /\ e.queue = <<>>
    <2>1. n \in 0 .. Len(s)
        BY <1>3 DEF RetryCounts
    <2>2. PICK t \in Seq(S) : t = Rest(s, n) /\ Len(t) = Len(s) - n
        BY <1>1, <2>1, RestIncreasing
    <2>3. <<>> \o t = t /\ t \o <<>> = t
        BY <2>2, ConcatEmptySeq
    <2>4. CASE n = Len(s)
        <3>1. Retry(e, n, r) = Idle
            BY <1>3, <2>4 DEF Retry, AllWaiting, Idle
        <3>2. t = <<>>
            BY <2>2, <2>4
        <3> QED
            BY <1>1, <1>3, <2>1, <2>2, <3>1, <3>2, IdleOrder
    <2>5. CASE n # Len(s) /\ r = "NAK"
        <3>1. Retry(e, n, r) = AllWaiting(t)
            BY <1>3, <2>2, <2>5 DEF Retry, AllWaiting
        <3> QED
            BY <1>1, <1>3, <2>1, <2>2, <3>1, OrderOf
    <2>6. CASE n # Len(s) /\ r = "ASYNC"
        <3>1. Retry(e, n, r).queue = t /\ Retry(e, n, r).waiting = <<>>
            BY <1>3, <2>2, <2>6 DEF Retry, AllWaiting
        <3> QED
            BY <1>1, <1>3, <2>1, <2>2, <2>3, <3>1 DEF Order
    <2> QED
        BY <2>4, <2>5, <2>6
<1> QED
    BY <1>1, <1>2, <1>3, GoodOrder

(* So does usb_packet_complete.                                              *)
LEMMA CompleteOrder ==
    ASSUME NEW S \in SUBSET Nat, NEW e, Good(S, e), NEW n \in 1 .. Len(e.queue),
           NEW halts \in BOOLEAN
    PROVE  /\ n \in 0 .. Len(Order(e)) /\ e.queue = Order(e)
           /\ Order(PacketComplete(e, n, halts)) = Rest(Order(e), n)
<1>1. PICK s \in Seq(S) : s = Order(e) /\ Increasing(s)
    BY GoodOrder
<1>2. e.queue # <<>>
    OBVIOUS
<1>3. s # <<>> /\ e = WithDevice(s) /\ e.queue = s
    BY <1>1, <1>2, GoodOrder
<1>4. n \in 0 .. Len(s)
    BY <1>3
<1>5. PICK t \in Seq(S) : t = Rest(s, n)
    BY <1>1, <1>4, RestIncreasing
<1>6. t \o <<>> = t /\ <<>> \o t = t
    BY <1>5, ConcatEmptySeq
<1>7. CASE t = <<>>
    <2>1. PacketComplete(e, n, halts) = Idle
        BY <1>3, <1>5, <1>7 DEF PacketComplete, WithDevice, Idle
    <2> QED
        BY <1>1, <1>3, <1>4, <1>5, <1>7, <2>1, IdleOrder
<1>8. CASE t # <<>> /\ halts
    <2>1. PacketComplete(e, n, halts) = AllWaiting(t)
        BY <1>3, <1>5, <1>6, <1>8 DEF PacketComplete, WithDevice, AllWaiting
    <2> QED
        BY <1>1, <1>3, <1>4, <1>5, <2>1, OrderOf
<1>9. CASE t # <<>> /\ ~halts
    <2>1. PacketComplete(e, n, halts) = WithDevice(t)
        BY <1>3, <1>5, <1>9 DEF PacketComplete, WithDevice
    <2> QED
        BY <1>1, <1>3, <1>4, <1>5, <2>1, OrderOf
<1> QED
    BY <1>7, <1>8, <1>9
-----------------------------------------------------------------------------
(* The invariant of the server.                                              *)

AllUrbs == 0 .. MaxSeq

AllGood == \A k \in Keys : Good(AllUrbs, ep[k])

\* The endpoints while the server enumerates: e is what EP0 is like.
Enumerating(e) == [k \in Keys |-> IF k = EP0 THEN e ELSE Idle]

\* What is held in each state of the connection.
Linked ==
    /\ conn = "ENUMERATING" <=> enumOp # "none"
    /\ conn \in {"NONE", "OP"} => ep = [k \in Keys |-> Idle]
    /\ conn = "ENUMERATING" =>
          /\ enumStep < 4
          /\ \/ ep = Enumerating(WithDevice(<<Internal>>))
             \/ ep = Enumerating(AllWaiting(<<Internal>>))
    /\ conn = "ATTACHED" => \A k \in Keys : Internal \notin Held(ep[k])

Present ==
    /\ conn \in {"ENUMERATING", "ATTACHED"} => device = "present"
    /\ conn = "ATTACHED" => enumerated = "yes"
    /\ enumerated = "yes" => device = "present"

\* The CMD_SUBMITs not parsed yet come in the client's order.
RxFresh ==
    /\ \A i \in 1 .. Len(rx) : rx[i].op = "SUBMIT" => rx[i].n \in 1 .. sent
    /\ \A i \in 1 .. Len(rx) : rx[i].op = "UNLINK" => rx[i].n \in 1 .. sent
    /\ \A i, j \in 1 .. Len(rx) :
          i < j /\ rx[i].op = "SUBMIT" /\ rx[j].op = "SUBMIT" => rx[i].n < rx[j].n

\* They are later than every URB held.
UrbsFresh ==
    \A k \in Keys : \A v \in Held(ep[k]) :
        /\ v \in 0 .. sent
        /\ \A i \in 1 .. Len(rx) : rx[i].op = "SUBMIT" => v < rx[i].n

IInv ==
    /\ TypeOK
    /\ AllGood
    /\ WaitersRetried
    /\ Linked
    /\ Present
    /\ OutputWatched
    /\ RxFresh
    /\ UrbsFresh
-----------------------------------------------------------------------------
(* URBs, the internal one included, are numbers.                             *)
LEMMA AllUrbsNat == AllUrbs \in SUBSET Nat
BY MaxSeqAssumption DEF AllUrbs

(* usbip_cancel_all leaves every endpoint in good order.                     *)
LEMMA AllIdleGood ==
    /\ \A k \in Keys : Good(AllUrbs, [j \in Keys |-> Idle][k])
    /\ \A k \in Keys : [j \in Keys |-> Idle][k].waiting = <<>>
    /\ \A k \in Keys : Held([j \in Keys |-> Idle][k]) = {}
    /\ [j \in Keys |-> Idle] \in [Keys -> Endpoints(AllUrbs)]
<1>1. Good(AllUrbs, Idle) /\ Held(Idle) = {}
    BY AllUrbsNat, IdleGood
<1>2. Idle.waiting = <<>>
    BY DEF Idle
<1>3. Idle \in Endpoints(AllUrbs)
    BY <1>1 DEF Good
<1> QED
    BY <1>1, <1>2, <1>3

(* The internal URB, alone on EP0, is in good order with the device or       *)
(* waiting.                                                                  *)
LEMMA InternalGood ==
    /\ Good(AllUrbs, WithDevice(<<Internal>>))
    /\ Held(WithDevice(<<Internal>>)) = {Internal}
    /\ WithDevice(<<Internal>>).waiting = <<>>
    /\ WithDevice(<<Internal>>).queue = <<Internal>>
    /\ WithDevice(<<Internal>>).held = Internal
    /\ Good(AllUrbs, AllWaiting(<<Internal>>))
    /\ Held(AllWaiting(<<Internal>>)) = {Internal}
    /\ AllWaiting(<<Internal>>).waiting = <<Internal>>
    /\ AllWaiting(<<Internal>>).queue = <<>>
    /\ AllWaiting(<<Internal>>).held = None
<1>1. <<Internal>> \in Seq(AllUrbs) /\ Increasing(<<Internal>>) /\ <<Internal>> # <<>>
    BY MaxSeqAssumption DEF AllUrbs, Internal, Increasing
<1>2. ToSet(<<Internal>>) = {Internal}
    BY DEF ToSet
<1>3. /\ Good(AllUrbs, WithDevice(<<Internal>>))
      /\ Held(WithDevice(<<Internal>>)) = {Internal}
      /\ Good(AllUrbs, AllWaiting(<<Internal>>))
      /\ Held(AllWaiting(<<Internal>>)) = {Internal}
    BY <1>1, <1>2, AllUrbsNat, WithDeviceGood, AllWaitingGood, Zenon
<1>4. /\ WithDevice(<<Internal>>).waiting = <<>>
      /\ WithDevice(<<Internal>>).queue = <<Internal>>
      /\ WithDevice(<<Internal>>).held = Internal
      /\ AllWaiting(<<Internal>>).waiting = <<Internal>>
      /\ AllWaiting(<<Internal>>).queue = <<>>
      /\ AllWaiting(<<Internal>>).held = None
    BY DEF WithDevice, AllWaiting
<1> QED
    BY <1>3, <1>4

(* The realized device satisfies the inductive invariant.                    *)
THEOREM InitIInv == Init => IInv
<1> SUFFICES ASSUME Init PROVE IInv
    OBVIOUS
<1>1. TypeOK
    BY AllIdleGood, MaxSeqAssumption DEF Init, TypeOK, AllUrbs, Flag
<1>2. AllGood /\ WaitersRetried /\ UrbsFresh
    BY AllIdleGood DEF Init, AllGood, WaitersRetried, UrbsFresh
<1>3. Linked /\ Present /\ OutputWatched /\ RxFresh
    BY DEF Init, Linked, Present, OutputWatched, RxFresh
<1> QED
    BY <1>1, <1>2, <1>3 DEF IInv
-----------------------------------------------------------------------------
(* Everything that ends in usbip_reset_connection: the client is gone and    *)
(* nothing is held for it, wherever the server was.                          *)
LEMMA ResetIInv ==
    ASSUME IInv, NEW to \in {"NONE", "OP"}, ResetConnection(to),
           device' \in {"present", "absent"}, parse' \in {"idle", "reading", "busy"},
           cont' \in {"none", "retry"}, sent' = sent, enumStep' = enumStep
    PROVE  IInv'
<1>1. /\ ep' = [k \in Keys |-> Idle] /\ timer' = "off" /\ conn' = to
      /\ enumOp' = "none" /\ enumerated' = "no" /\ rx' = <<>>
      /\ tx' = 0 /\ watch' = "off"
      /\ nurbs' = nurbs - Cardinality(ClientHeld)
      /\ urb' = [u \in Seqnums |-> IF u \in HeldUrbs THEN "dropped" ELSE urb[u]]
      /\ bh' = IF \E k \in Keys : ep[k].held # None THEN "on" ELSE bh
    BY DEF ResetConnection, CancelAll
<1>2. Cardinality(ClientHeld) \in Nat
    <2>1. \A k \in Keys : Held(ep[k]) \subseteq 0 .. sent
        BY DEF IInv, UrbsFresh
    <2>2. ClientHeld \subseteq 0 .. sent
        BY <2>1 DEF ClientHeld, HeldUrbs
    <2>3. sent \in Nat
        BY MaxSeqAssumption DEF IInv, TypeOK
    <2>4. IsFiniteSet(0 .. sent)
        BY <2>3, FS_Interval
    <2>5. IsFiniteSet(ClientHeld)
        BY <2>2, <2>4, FS_Subset, ZenonT(30)
    <2> QED
        BY <2>5, FS_CardinalityType
<1>3. TypeOK'
    <2>1. nurbs' \in Int
        BY <1>1, <1>2 DEF IInv, TypeOK
    <2>2. urb' \in [Seqnums -> {"new", "pending", "done", "unlinked", "dropped"}]
        BY <1>1 DEF IInv, TypeOK
    <2>3. bh' \in Flag /\ timer' \in Flag /\ watch' \in Flag
        BY <1>1 DEF IInv, TypeOK, Flag
    <2>4. ep' \in [Keys -> Endpoints(0 .. MaxSeq)]
        BY <1>1, AllIdleGood DEF AllUrbs
    <2>5. rx' \in Seq(Messages)
        BY <1>1, EmptySeq
    <2>6. enumStep' \in 0 .. 4 /\ sent' \in 0 .. MaxSeq
        BY DEF IInv, TypeOK
    <2> QED
        BY <1>1, <2>1, <2>2, <2>3, <2>4, <2>5, <2>6 DEF TypeOK
<1>4. AllGood' /\ WaitersRetried' /\ UrbsFresh'
    BY <1>1, AllIdleGood DEF AllGood, WaitersRetried, UrbsFresh
<1>5. Linked' /\ Present' /\ OutputWatched' /\ RxFresh'
    BY <1>1 DEF Linked, Present, OutputWatched, RxFresh
<1> QED
    BY <1>3, <1>4, <1>5 DEF IInv
-----------------------------------------------------------------------------
(* Taking a message off the receive buffer.                                  *)
LEMMA TailFresh ==
    ASSUME IInv, rx # <<>>, rx' = Tail(rx), sent' = sent
    PROVE  /\ rx' \in Seq(Messages)
           /\ RxFresh'
           /\ Head(rx) \in Messages
           /\ ep' = ep => UrbsFresh'
           /\ Head(rx).op = "SUBMIT" =>
                 /\ Head(rx).n \in 1 .. sent
                 /\ \A k \in Keys : \A v \in Held(ep[k]) : v < Head(rx).n
                 /\ \A i \in 1 .. Len(rx') :
                       rx'[i].op = "SUBMIT" => Head(rx).n < rx'[i].n
           /\ Head(rx).op = "UNLINK" => Head(rx).n \in 1 .. sent
           /\ \A k \in Keys : \A v \in Held(ep[k]) : \A i \in 1 .. Len(rx') :
                 rx'[i].op = "SUBMIT" => v < rx'[i].n
<1>1. rx \in Seq(Messages)
    BY DEF IInv, TypeOK
<1>2. /\ Head(rx) \in Messages /\ Tail(rx) \in Seq(Messages)
      /\ Len(Tail(rx)) = Len(rx) - 1
      /\ \A i \in 1 .. Len(Tail(rx)) : Tail(rx)[i] = rx[i + 1]
    BY <1>1, HeadTailProperties
<1>3. Head(rx) = rx[1] /\ Len(rx) \in Nat /\ 1 <= Len(rx)
    BY <1>1
<1>4. \A i \in 1 .. Len(rx') : rx'[i] = rx[i + 1] /\ i + 1 \in 1 .. Len(rx)
    BY <1>2, <1>3
<1>5. RxFresh'
    <2>1. \A i \in 1 .. Len(rx') : rx'[i].op = "SUBMIT" => rx'[i].n \in 1 .. sent'
        BY <1>4 DEF IInv, RxFresh
    <2>3. \A i \in 1 .. Len(rx') : rx'[i].op = "UNLINK" => rx'[i].n \in 1 .. sent'
        BY <1>4 DEF IInv, RxFresh
    <2>2. ASSUME NEW i \in 1 .. Len(rx'), NEW j \in 1 .. Len(rx'),
                 i < j, rx'[i].op = "SUBMIT", rx'[j].op = "SUBMIT"
          PROVE  rx'[i].n < rx'[j].n
        <3>1. /\ rx'[i] = rx[i + 1] /\ i + 1 \in 1 .. Len(rx)
              /\ rx'[j] = rx[j + 1] /\ j + 1 \in 1 .. Len(rx)
            BY <1>4
        <3>2. i + 1 < j + 1
            BY <2>2
        <3> QED
            BY <2>2, <3>1, <3>2 DEF IInv, RxFresh
    <2> QED
        BY <2>1, <2>2, <2>3 DEF RxFresh
<1>6. \A k \in Keys : \A v \in Held(ep[k]) : \A i \in 1 .. Len(rx') :
          rx'[i].op = "SUBMIT" => v < rx'[i].n
    BY <1>4, Zenon DEF IInv, UrbsFresh
<1>7. ep' = ep => UrbsFresh'
    BY <1>6 DEF IInv, UrbsFresh
<1>8. Head(rx).op = "SUBMIT" =>
          /\ Head(rx).n \in 1 .. sent
          /\ \A k \in Keys : \A v \in Held(ep[k]) : v < Head(rx).n
    <2>1. 1 \in 1 .. Len(rx)
        BY <1>3
    <2>2. rx[1].op = "SUBMIT" => rx[1].n \in 1 .. sent
        BY <2>1 DEF IInv, RxFresh
    <2>3. rx[1].op = "SUBMIT" =>
              \A k \in Keys : \A v \in Held(ep[k]) : v < rx[1].n
        BY <2>1, Zenon DEF IInv, UrbsFresh
    <2> QED
        BY <1>3, <2>2, <2>3
<1>9. Head(rx).op = "SUBMIT" =>
          \A i \in 1 .. Len(rx') : rx'[i].op = "SUBMIT" => Head(rx).n < rx'[i].n
    BY <1>3, <1>4 DEF IInv, RxFresh
<1>10. Head(rx).op = "UNLINK" => Head(rx).n \in 1 .. sent
    <2>1. 1 \in 1 .. Len(rx)
        BY <1>3
    <2>2. rx[1].op = "UNLINK" => rx[1].n \in 1 .. sent
        BY <2>1 DEF IInv, RxFresh
    <2> QED
        BY <1>3, <2>2
<1> QED
    BY <1>2, <1>5, <1>6, <1>7, <1>8, <1>9, <1>10
-----------------------------------------------------------------------------
(* usbip_send.                                                               *)
LEMMA SendOutput ==
    ASSUME IInv, NEW n \in Nat, Send(n)
    PROVE  tx' \in Nat /\ watch' \in Flag /\ OutputWatched'
<1>1. tx \in Nat /\ watch \in Flag
    BY DEF IInv, TypeOK
<1>2. tx' \in Nat /\ (tx' > 0 => watch' = "on") /\ watch' \in {watch, "on"}
    BY <1>1 DEF Send
<1> QED
    BY <1>1, <1>2 DEF OutputWatched, Flag

(* What every step of the enumeration leaves alone.                          *)
EnumFrame ==
    /\ device = "present" /\ device' = device
    /\ UNCHANGED <<nurbs, urb, sent>>
    /\ bh' \in Flag
    /\ parse' \in {"idle", "reading", "busy"} /\ cont' \in {"none", "retry"}
    /\ rx' \in Seq(Messages) /\ RxFresh'

(* An enumeration is over, with nothing held.                                *)
LEMMA EnumFinishIInv ==
    ASSUME IInv, EnumFrame, ep' = [k \in Keys |-> Idle], timer' \in Flag,
           enumStep' \in 0 .. 4, enumOp' = "none",
           conn' \in {"OP", "ATTACHED"}, enumerated' \in {"yes", "no"},
           conn' = "ATTACHED" => enumerated' = "yes",
           Send(1)
    PROVE  IInv'
<1>1. tx' \in Nat /\ watch' \in Flag /\ OutputWatched'
    BY SendOutput
<1>2. ep' \in [Keys -> Endpoints(0 .. MaxSeq)]
    BY AllIdleGood DEF AllUrbs
<1>3. TypeOK'
    BY <1>1, <1>2 DEF IInv, TypeOK, EnumFrame
<1>4. AllGood' /\ WaitersRetried' /\ UrbsFresh'
    BY AllIdleGood DEF AllGood, WaitersRetried, UrbsFresh
<1>5. Linked'
    BY AllIdleGood DEF Linked
<1>6. Present'
    BY DEF Present, EnumFrame
<1> QED
    BY <1>1, <1>3, <1>4, <1>5, <1>6 DEF IInv, EnumFrame

(* The internal URB of a step is handed over.                                *)
LEMMA EnumHeldIInv ==
    ASSUME IInv, EnumFrame,
           NEW e \in {WithDevice(<<Internal>>), AllWaiting(<<Internal>>)},
           ep' = Enumerating(e),
           timer' \in Flag, e.waiting # <<>> => timer' = "on",
           enumStep' \in 0 .. 3, enumOp' \in {"DEVLIST", "IMPORT"},
           conn' = "ENUMERATING", enumerated' = "no", UNCHANGED outVars
    PROVE  IInv'
<1>1. Good(AllUrbs, e) /\ Held(e) = {Internal}
    BY InternalGood
<1>2. \A k \in Keys : ep'[k] = IF k = EP0 THEN e ELSE Idle
    BY DEF Enumerating
<1>3. Good(AllUrbs, Idle) /\ Held(Idle) = {} /\ Idle.waiting = <<>>
    BY AllUrbsNat, IdleGood DEF Idle
<1>4. AllGood'
    BY <1>1, <1>2, <1>3 DEF AllGood
<1>5. ep' \in [Keys -> Endpoints(0 .. MaxSeq)]
    BY <1>1, <1>3 DEF Good, AllUrbs, Enumerating
<1>6. TypeOK'
    BY <1>5 DEF IInv, TypeOK, EnumFrame, outVars
<1>7. WaitersRetried'
    BY <1>2, <1>3 DEF WaitersRetried
<1>8. UrbsFresh'
    <2>1. \A k \in Keys : \A v \in Held(ep'[k]) : v = 0
        BY <1>1, <1>2, <1>3 DEF Internal
    <2>2. sent' \in Nat
        BY <1>6, MaxSeqAssumption DEF TypeOK
    <2>3. \A i \in 1 .. Len(rx') : rx'[i].op = "SUBMIT" => 0 < rx'[i].n
        BY <2>2 DEF EnumFrame, RxFresh
    <2> SUFFICES ASSUME NEW k \in Keys, NEW v \in Held(ep'[k])
                 PROVE  /\ v \in 0 .. sent'
                        /\ \A i \in 1 .. Len(rx') : rx'[i].op = "SUBMIT" => v < rx'[i].n
        BY DEF UrbsFresh
    <2>4. v = 0
        BY <2>1
    <2>5. v \in 0 .. sent'
        BY <2>2, <2>4
    <2>6. \A i \in 1 .. Len(rx') : rx'[i].op = "SUBMIT" => v < rx'[i].n
        BY <2>3, <2>4
    <2> QED
        BY <2>5, <2>6
<1>9. Linked' /\ Present'
    BY DEF Linked, Present, EnumFrame
<1>10. OutputWatched'
    BY DEF IInv, OutputWatched, outVars
<1> QED
    BY <1>4, <1>6, <1>7, <1>8, <1>9, <1>10 DEF IInv, EnumFrame

(* usbip_enum_issue, from any step and with nothing else held.               *)
LEMMA EnumIssueIInv ==
    ASSUME IInv, EnumFrame, NEW e, e = Idle,
           NEW op \in {"DEVLIST", "IMPORT"},
           NEW step \in 0 .. 4, NEW t \in Flag,
           \A k \in Keys : k # EP0 => ep[k] = Idle,
           EnumIssue(e, op, step, t)
    PROVE  IInv'
<1>1. ep \in [Keys -> Endpoints(0 .. MaxSeq)]
    BY DEF IInv, TypeOK
<1>2. \A x : [ep EXCEPT ![EP0] = x] = Enumerating(x)
    BY <1>1, Zenon DEF Enumerating
<1>3. [ep EXCEPT ![EP0] = e] = [k \in Keys |-> Idle]
    BY <1>1, Zenon
<1>4. CASE \E st \in step .. 3, r \in {"NAK", "ASYNC"} :
          /\ ep' = [ep EXCEPT ![EP0] = UrbSubmit(e, Internal, r)]
          /\ timer' = IF r = "NAK" THEN "on" ELSE t
          /\ conn' = "ENUMERATING"
          /\ enumOp' = op /\ enumStep' = st /\ enumerated' = "no"
          /\ UNCHANGED outVars
    <2>1. PICK st \in step .. 3, r \in {"NAK", "ASYNC"} :
          /\ ep' = [ep EXCEPT ![EP0] = UrbSubmit(e, Internal, r)]
          /\ timer' = IF r = "NAK" THEN "on" ELSE t
          /\ conn' = "ENUMERATING"
          /\ enumOp' = op /\ enumStep' = st /\ enumerated' = "no"
          /\ UNCHANGED outVars
        BY <1>4, Zenon
    <2>2. st \in 0 .. 3
        OBVIOUS
    <2>3. Append(<<>>, Internal) = <<Internal>> /\ Head(<<Internal>>) = Internal
        OBVIOUS
    <2>4. CASE r = "NAK"
        <3>1. UrbSubmit(e, Internal, r) = AllWaiting(<<Internal>>)
            BY <2>3, <2>4 DEF UrbSubmit, Status, Idle, AllWaiting
        <3>2. timer' = "on"
            BY <2>1, <2>4
        <3> QED
            BY <1>2, <2>1, <2>2, <3>1, <3>2, EnumHeldIInv, Zenon DEF Flag
    <2>5. CASE r = "ASYNC"
        <3>1. UrbSubmit(e, Internal, r) = WithDevice(<<Internal>>)
            BY <2>3, <2>5, Zenon DEF UrbSubmit, Status, HandlePacket, Idle, WithDevice
        <3>2. timer' \in Flag
            BY <2>1, <2>5
        <3> QED
            BY <1>2, <2>1, <2>2, <3>1, <3>2, EnumHeldIInv, InternalGood, Zenon
    <2> QED
        BY <2>4, <2>5
<1>5. CASE \E st \in step .. 3 :
          /\ ep' = [ep EXCEPT ![EP0] = e]
          /\ timer' = t
          /\ enumStep' = st
          /\ EnumFinish(op, FALSE)
    <2>1. enumStep' \in 0 .. 4 /\ ep' = [k \in Keys |-> Idle]
        BY <1>3, <1>5
    <2>2. /\ enumOp' = "none" /\ conn' = "OP" /\ enumerated' = "no"
          /\ timer' \in Flag /\ Send(1)
        BY <1>5 DEF EnumFinish
    <2> QED
        BY <2>1, <2>2, EnumFinishIInv
<1>6. CASE /\ ep' = [ep EXCEPT ![EP0] = e]
           /\ timer' = t
           /\ enumStep' = 4
           /\ EnumFinish(op, TRUE)
    <2>1. enumStep' \in 0 .. 4 /\ ep' = [k \in Keys |-> Idle]
        BY <1>3, <1>6
    <2>2. /\ enumOp' = "none" /\ conn' \in {"OP", "ATTACHED"} /\ enumerated' = "yes"
          /\ timer' \in Flag /\ Send(1)
        BY <1>6 DEF EnumFinish
    <2> QED
        BY <2>1, <2>2, EnumFinishIInv
<1> QED
    BY <1>4, <1>5, <1>6, Zenon DEF EnumIssue
-----------------------------------------------------------------------------
(* usbip_urb_complete.                                                       *)
LEMMA CompleteOutput ==
    ASSUME IInv, NEW S \in SUBSET AllUrbs, UrbsComplete(S)
    PROVE  /\ nurbs' \in Int
           /\ urb' \in [Seqnums -> {"new", "pending", "done", "unlinked", "dropped"}]
           /\ tx' \in Nat /\ watch' \in Flag /\ OutputWatched'
<1>1. IsFiniteSet(AllUrbs)
    BY MaxSeqAssumption, FS_Interval DEF AllUrbs
<1>2. IsFiniteSet(S)
    BY <1>1, FS_Subset
<1>3. Cardinality(S) \in Nat
    BY <1>2, FS_CardinalityType
<1>4. nurbs' \in Int
    BY <1>3 DEF UrbsComplete, IInv, TypeOK
<1>5. urb' \in [Seqnums -> {"new", "pending", "done", "unlinked", "dropped"}]
    BY DEF UrbsComplete, IInv, TypeOK
<1>6. CASE S = {}
    <2>1. UNCHANGED <<tx, watch>>
        BY <1>6 DEF UrbsComplete, outVars
    <2>2. tx' \in Nat /\ watch' \in Flag /\ OutputWatched'
        BY <2>1 DEF IInv, TypeOK, OutputWatched
    <2> QED
        BY <1>4, <1>5, <2>2
<1>7. CASE S # {}
    <2>1. Send(Cardinality(S))
        BY <1>7 DEF UrbsComplete
    <2> QED
        BY <1>3, <1>4, <1>5, <2>1, SendOutput
<1> QED
    BY <1>6, <1>7

(* URBs that go away leave the others as fresh as they were.                 *)
LEMMA ShrinkFresh ==
    ASSUME IInv, \A k \in Keys : Held(ep'[k]) \subseteq Held(ep[k]),
           rx' = rx, sent' = sent
    PROVE  RxFresh' /\ UrbsFresh'
<1>1. RxFresh'
    BY DEF IInv, RxFresh
<1>2. UrbsFresh'
    BY DEF IInv, UrbsFresh
<1> QED
    BY <1>1, <1>2

(* The first URBs of a queue are URBs.                                       *)
LEMMA FirstUrbs ==
    ASSUME NEW s \in Seq(AllUrbs), NEW n \in 0 .. Len(s)
    PROVE  ToSet(SubSeq(s, 1, n)) \subseteq AllUrbs
<1>1. \A i \in 1 .. n : s[i] \in AllUrbs
    BY ElementOfSeq
<1>2. PICK q : q = SubSeq(s, 1, n)
    BY ZenonT(30)
<1>3. q \in Seq(AllUrbs)
    BY <1>1, <1>2, SubSeqProperties
<1> QED
    BY <1>2, <1>3 DEF ToSet

(* usbip_retry over client URBs.                                             *)
LEMMA RetryClientIInv ==
    ASSUME IInv, NEW t \in Flag, Internal \notin ToSet(ep[EP0].waiting),
           RetryClient(t), device' = device, rx' = rx, sent' = sent,
           bh' \in Flag, parse' \in {"idle", "reading", "busy"},
           cont' \in {"none", "retry"}
    PROVE  IInv'
<1>1. PICK n \in [Keys -> 0 .. MaxSeq], r \in [Keys -> {"NAK", "ASYNC"}] :
        /\ \A k \in Keys : n[k] \in RetryCounts(ep[k])
        /\ ep' = [k \in Keys |-> Retry(ep[k], n[k], r[k])]
        /\ UrbsComplete(UNION {ToSet(SubSeq(ep[k].waiting, 1, n[k])) : k \in Keys})
        /\ timer' = IF \E k \in Keys : ep'[k].waiting # <<>> THEN "on" ELSE t
        /\ UNCHANGED <<conn, enumVars>>
    BY Zenon DEF RetryClient
<1>2. \A k \in Keys : /\ ep'[k] = Retry(ep[k], n[k], r[k])
                      /\ Good(AllUrbs, ep'[k])
                      /\ Held(ep'[k]) \subseteq Held(ep[k])
                      /\ ep[k].queue # <<>> => ep'[k] = ep[k]
    <2>1. \A k \in Keys : Good(AllUrbs, ep[k])
        BY DEF IInv, AllGood
    <2> QED
        BY <1>1, <2>1, AllUrbsNat, RetryGood, Zenon
<1>3. \A k \in Keys : ToSet(SubSeq(ep[k].waiting, 1, n[k])) \subseteq AllUrbs
    <2> TAKE k \in Keys
    <2>1. ep[k].waiting \in Seq(AllUrbs)
        BY DEF IInv, TypeOK, Endpoints, AllUrbs
    <2>2. n[k] \in 0 .. Len(ep[k].waiting)
        BY <1>1, <2>1 DEF RetryCounts
    <2> QED
        BY <2>1, <2>2, FirstUrbs
<1>4. /\ nurbs' \in Int
      /\ urb' \in [Seqnums -> {"new", "pending", "done", "unlinked", "dropped"}]
      /\ tx' \in Nat /\ watch' \in Flag /\ OutputWatched'
    <2>1. UNION {ToSet(SubSeq(ep[k].waiting, 1, n[k])) : k \in Keys} \in SUBSET AllUrbs
        BY <1>3
    <2> QED
        BY <1>1, <2>1, CompleteOutput
<1>5. AllGood'
    BY <1>2 DEF AllGood
<1>6. ep' \in [Keys -> Endpoints(0 .. MaxSeq)]
    BY <1>1, <1>2 DEF Good, AllUrbs
<1>7. timer' \in Flag
    BY <1>1 DEF Flag
<1>8. UNCHANGED <<conn, enumOp, enumStep, enumerated>>
    BY <1>1 DEF enumVars
<1>9. TypeOK'
    BY <1>4, <1>6, <1>7, <1>8 DEF IInv, TypeOK
<1>10. WaitersRetried'
    BY <1>1 DEF WaitersRetried
<1>11. Linked'
    <2>1. conn \in {"NONE", "OP"} => ep' = [k \in Keys |-> Idle]
        <3> SUFFICES ASSUME conn \in {"NONE", "OP"}, NEW k \in Keys
                     PROVE  ep'[k] = Idle
            BY <1>6
        <3>1. ep[k] = Idle
            BY DEF IInv, Linked
        <3>2. Held(ep'[k]) = {}
            BY <1>2, <3>1, AllUrbsNat, IdleGood, ZenonT(30)
        <3> QED
            BY <1>2, <3>2, AllUrbsNat, HeldNothing, Zenon
    <2>2. conn = "ENUMERATING" => ep' = Enumerating(WithDevice(<<Internal>>))
        <3> SUFFICES ASSUME conn = "ENUMERATING", NEW k \in Keys
                     PROVE  ep'[k] = IF k = EP0 THEN WithDevice(<<Internal>>) ELSE Idle
            BY <1>6 DEF Enumerating
        <3>1. ep # Enumerating(AllWaiting(<<Internal>>))
            <4>1. Internal \in ToSet(<<Internal>>)
                BY DEF ToSet
            <4>2. Enumerating(AllWaiting(<<Internal>>))[EP0].waiting = <<Internal>>
                BY InternalGood, KeysAssumption DEF Enumerating
            <4> QED
                BY <4>1, <4>2
        <3>2. ep = Enumerating(WithDevice(<<Internal>>))
            BY <3>1 DEF IInv, Linked
        <3>3. ep[k] = IF k = EP0 THEN WithDevice(<<Internal>>) ELSE Idle
            BY <3>2 DEF Enumerating
        <3>4. k = EP0 => ep'[k] = ep[k]
            <4>1. k = EP0 => ep[k].queue = <<Internal>>
                BY <3>3, InternalGood
            <4>2. <<Internal>> # <<>>
                OBVIOUS
            <4> QED
                BY <1>2, <4>1, <4>2, ZenonT(30)
        <3>5. k # EP0 => Held(ep'[k]) = {}
            BY <1>2, <3>3, AllUrbsNat, IdleGood, Zenon
        <3> QED
            BY <1>2, <3>3, <3>4, <3>5, AllUrbsNat, HeldNothing
    <2>3. conn = "ATTACHED" => \A k \in Keys : Internal \notin Held(ep'[k])
        BY <1>2 DEF IInv, Linked
    <2> QED
        BY <1>8, <2>1, <2>2, <2>3 DEF IInv, Linked
<1>12. Present'
    BY <1>8 DEF IInv, Present
<1>13. RxFresh' /\ UrbsFresh'
    BY <1>2, ShrinkFresh
<1> QED
    BY <1>4, <1>5, <1>9, <1>10, <1>11, <1>12, <1>13 DEF IInv

(* The internal URB waits only while the server enumerates, and alone.       *)
LEMMA InternalWaits ==
    ASSUME IInv, Internal \in ToSet(ep[EP0].waiting)
    PROVE  /\ conn = "ENUMERATING"
           /\ ep = Enumerating(AllWaiting(<<Internal>>))
           /\ [ep[EP0] EXCEPT !.waiting = Without(@, Internal)] = Idle
<1>1. Internal \in Held(ep[EP0])
    BY DEF Held
<1>2. conn = "ENUMERATING"
    <2>1. conn \notin {"NONE", "OP"}
        BY <1>1, AllIdleGood, KeysAssumption DEF IInv, Linked
    <2>2. conn # "ATTACHED"
        BY <1>1, KeysAssumption DEF IInv, Linked
    <2> QED
        BY <2>1, <2>2 DEF IInv, TypeOK
<1>3. ep # Enumerating(WithDevice(<<Internal>>))
    BY InternalGood, EmptyToSet, KeysAssumption DEF Enumerating
<1>4. ep = Enumerating(AllWaiting(<<Internal>>))
    BY <1>2, <1>3 DEF IInv, Linked
<1>5. ep[EP0] = AllWaiting(<<Internal>>)
    BY <1>4, KeysAssumption DEF Enumerating
<1>6. Without(<<Internal>>, Internal) = <<>>
    <2>1. /\ <<Internal>> \in Seq(Nat) /\ Increasing(<<Internal>>)
          /\ Len(<<Internal>>) = 1 /\ Internal \in ToSet(<<Internal>>)
        BY DEF Internal, Increasing, ToSet
    <2>2. PICK q : q = Without(<<Internal>>, Internal)
        OBVIOUS
    <2>3. q \in Seq(Nat) /\ Len(q) = 1 - 1
        BY <2>1, <2>2, WithoutIncreasing, Zenon
    <2> QED
        BY <2>2, <2>3
<1>7. [ep[EP0] EXCEPT !.waiting = Without(@, Internal)] = Idle
    BY <1>5, <1>6 DEF AllWaiting, Idle
<1> QED
    BY <1>2, <1>4, <1>7

(* The device holds the internal URB only while the server enumerates.       *)
LEMMA InternalWithDevice ==
    ASSUME IInv, ep[EP0].held = Internal
    PROVE  /\ conn = "ENUMERATING"
           /\ ep = Enumerating(WithDevice(<<Internal>>))
           /\ PacketComplete(ep[EP0], 1, FALSE) = Idle
<1>1. Good(AllUrbs, ep[EP0])
    BY KeysAssumption DEF IInv, AllGood
<1>2. ep[EP0].queue \in Seq(AllUrbs) /\ ep[EP0].queue # <<>>
      /\ Head(ep[EP0].queue) = Internal
    BY <1>1 DEF Good, Endpoints, Moving, None, Internal
<1>3. Internal \in Held(ep[EP0])
    BY <1>2 DEF Held, ToSet
<1>4. conn = "ENUMERATING"
    <2>1. conn \notin {"NONE", "OP"}
        BY <1>3, AllIdleGood, KeysAssumption DEF IInv, Linked
    <2>2. conn # "ATTACHED"
        BY <1>3, KeysAssumption DEF IInv, Linked
    <2> QED
        BY <2>1, <2>2 DEF IInv, TypeOK
<1>5. ep # Enumerating(AllWaiting(<<Internal>>))
    BY InternalGood, KeysAssumption DEF Enumerating, None, Internal
<1>6. ep = Enumerating(WithDevice(<<Internal>>))
    BY <1>4, <1>5 DEF IInv, Linked
<1>7. ep[EP0] = WithDevice(<<Internal>>)
    BY <1>6, KeysAssumption DEF Enumerating
<1>8. Len(ep[EP0].queue) = 1
    <2>1. ep[EP0].queue = <<Internal>>
        BY <1>7, InternalGood
    <2> QED
        BY <2>1
<1>9. PacketComplete(ep[EP0], 1, FALSE) = Idle
    <2>1. 1 \in 1 .. Len(ep[EP0].queue) /\ FALSE \in BOOLEAN
        BY <1>8
    <2> QED
        BY <1>1, <1>8, <2>1, AllUrbsNat, PacketCompleteGood, Zenon
<1> QED
    BY <1>4, <1>6, <1>9, Zenon

(* usbip_retry, whoever called it.                                           *)
LEMMA UsbipRetryIInv ==
    ASSUME IInv, NEW t \in Flag, UsbipRetry(t),
           device' = device, rx' = rx, sent' = sent, bh' \in Flag
    PROVE  IInv'
<1>1. CASE Internal \in ToSet(ep[EP0].waiting)
    <2>1. RetryInternal(t) /\ ThenParse("retry")
        BY <1>1 DEF UsbipRetry
    <2>2. /\ conn = "ENUMERATING"
          /\ ep = Enumerating(AllWaiting(<<Internal>>))
          /\ [ep[EP0] EXCEPT !.waiting = Without(@, Internal)] = Idle
        BY <1>1, InternalWaits
    <2>3. /\ EnumIssue(Idle, enumOp, enumStep, t)
          /\ UNCHANGED <<nurbs, urb>>
        BY <2>1, <2>2 DEF RetryInternal
    <2>4. enumOp \in {"DEVLIST", "IMPORT"} /\ enumStep \in 0 .. 4
        BY <2>2 DEF IInv, Linked, TypeOK
    <2>5. EnumFrame
        <3>1. device = "present"
            BY <2>2 DEF IInv, Present
        <3>2. parse' \in {"idle", "reading", "busy"} /\ cont' \in {"none", "retry"}
            BY <2>1 DEF ThenParse
        <3>3. rx' \in Seq(Messages) /\ RxFresh'
            BY DEF IInv, TypeOK, RxFresh
        <3> QED
            BY <2>3, <3>1, <3>2, <3>3 DEF EnumFrame
    <2>6. \A k \in Keys : k # EP0 => ep[k] = Idle
        BY <2>2 DEF Enumerating
    <2> QED
        BY <2>3, <2>4, <2>5, <2>6, EnumIssueIInv
<1>2. CASE Internal \notin ToSet(ep[EP0].waiting)
    <2>1. RetryClient(t) /\ parse' = "idle" /\ cont' = "none"
        BY <1>2 DEF UsbipRetry
    <2> QED
        BY <1>2, <2>1, RetryClientIInv
<1> QED
    BY <1>1, <1>2
-----------------------------------------------------------------------------
(* One lemma for each action that is not one of the above.                   *)

(* usbip_read appends what the client sent next.                             *)
LEMMA ReceiveIInv ==
    ASSUME IInv, NEW m \in ClientMessages, Receive(m)
    PROVE  IInv'
<1>1. /\ rx' = Append(rx, m)
      /\ sent' = IF m.op = "SUBMIT" THEN sent + 1 ELSE sent
      /\ parse' = "reading"
      /\ UNCHANGED <<conn, device, ep, nurbs, urb, timer, bh, cont,
                     enumOp, enumStep, enumerated, tx, watch>>
    BY DEF Receive, urbVars, retryVars, enumVars, outVars
<1>2. /\ m \in Messages /\ m.n \in 0 .. MaxSeq
      /\ m.op = "SUBMIT" => m.n = sent + 1
      /\ m.op = "UNLINK" => m.n \in 1 .. sent
    BY DEF ClientMessages, Messages
<1>3. rx \in Seq(Messages) /\ sent \in 0 .. MaxSeq
    BY DEF IInv, TypeOK
<1>4. /\ rx' \in Seq(Messages) /\ Len(rx') = Len(rx) + 1 /\ Len(rx) \in Nat
      /\ \A i \in 1 .. Len(rx) : rx'[i] = rx[i]
      /\ rx'[Len(rx) + 1] = m
    BY <1>1, <1>2, <1>3, AppendProperties
<1>5. sent' \in 0 .. MaxSeq /\ sent <= sent' /\ (m.op = "SUBMIT" => m.n = sent')
    BY <1>1, <1>2, <1>3, MaxSeqAssumption
<1>6. \A i \in 1 .. Len(rx') : i \in 1 .. Len(rx) \/ (i = Len(rx) + 1 /\ rx'[i] = m)
    BY <1>4
<1>7. TypeOK'
    BY <1>1, <1>4, <1>5 DEF IInv, TypeOK
<1>8. RxFresh'
    <2>1. ASSUME NEW i \in 1 .. Len(rx'), rx'[i].op = "SUBMIT"
          PROVE  /\ rx'[i].n \in 1 .. sent'
                 /\ i \in 1 .. Len(rx) => rx'[i].n <= sent
        <3>1. CASE i \in 1 .. Len(rx)
            <4>1. rx[i].n \in 1 .. sent
                BY <1>4, <2>1, <3>1 DEF IInv, RxFresh
            <4> QED
                BY <1>3, <1>4, <1>5, <3>1, <4>1
        <3>2. CASE i = Len(rx) + 1 /\ rx'[i] = m
            BY <1>1, <1>2, <1>3, <1>4, <2>1, <3>2
        <3> QED
            BY <1>6, <3>1, <3>2
    <2>2. ASSUME NEW i \in 1 .. Len(rx'), NEW j \in 1 .. Len(rx'), i < j,
                 rx'[i].op = "SUBMIT", rx'[j].op = "SUBMIT"
          PROVE  rx'[i].n < rx'[j].n
        <3>1. i \in 1 .. Len(rx)
            BY <1>4, <2>2
        <3>2. CASE j \in 1 .. Len(rx)
            BY <1>4, <2>2, <3>1, <3>2 DEF IInv, RxFresh
        <3>3. CASE j = Len(rx) + 1 /\ rx'[j] = m
            <4>1. rx'[i].n \in 1 .. sent' /\ rx'[i].n <= sent
                BY <2>1, <2>2, <3>1
            <4>2. rx'[j].n = sent + 1
                BY <1>2, <2>2, <3>3
            <4> QED
                BY <1>3, <4>1, <4>2
        <3> QED
            BY <1>6, <3>2, <3>3
    <2>3. ASSUME NEW i \in 1 .. Len(rx'), rx'[i].op = "UNLINK"
          PROVE  rx'[i].n \in 1 .. sent'
        <3>1. CASE i \in 1 .. Len(rx)
            <4>1. rx[i].n \in 1 .. sent
                BY <1>4, <2>3, <3>1 DEF IInv, RxFresh
            <4> QED
                BY <1>3, <1>4, <1>5, <3>1, <4>1
        <3>2. CASE i = Len(rx) + 1 /\ rx'[i] = m
            BY <1>1, <1>2, <2>3, <3>2
        <3> QED
            BY <1>6, <3>1, <3>2
    <2> QED
        BY <2>1, <2>2, <2>3 DEF RxFresh
<1>9. UrbsFresh'
    <2> SUFFICES ASSUME NEW k \in Keys, NEW v \in Held(ep[k])
                 PROVE  /\ v \in 0 .. sent'
                        /\ \A i \in 1 .. Len(rx') : rx'[i].op = "SUBMIT" => v < rx'[i].n
        BY <1>1 DEF UrbsFresh
    <2>1. v \in 0 .. sent
        BY DEF IInv, UrbsFresh
    <2>2. \A i \in 1 .. Len(rx) : rx[i].op = "SUBMIT" => v < rx[i].n
        BY DEF IInv, UrbsFresh
    <2>3. ASSUME NEW i \in 1 .. Len(rx'), rx'[i].op = "SUBMIT"
          PROVE  v < rx'[i].n
        <3>1. CASE i \in 1 .. Len(rx)
            BY <1>4, <2>2, <2>3, <3>1
        <3>2. CASE i = Len(rx) + 1 /\ rx'[i] = m
            BY <1>2, <1>3, <2>1, <2>3, <3>2
        <3> QED
            BY <1>6, <3>1, <3>2
    <2>4. v \in 0 .. sent'
        BY <1>3, <1>5, <2>1
    <2> QED
        BY <2>3, <2>4
<1>10. AllGood' /\ WaitersRetried' /\ Linked' /\ Present' /\ OutputWatched'
    BY <1>1 DEF IInv, AllGood, WaitersRetried, Linked, Present, OutputWatched
<1> QED
    BY <1>7, <1>8, <1>9, <1>10 DEF IInv
=============================================================================
