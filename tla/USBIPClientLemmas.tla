-------------------------- MODULE USBIPClientLemmas -------------------------
(* What each step of usbip-server is to its client.  The URBs held on an     *)
(* endpoint are exactly those the client waits for there, they are counted,  *)
(* and the buffers keep within their bounds: an invariant on top of the one  *)
(* of USBIPServerLemmas, and the steps that keep it.                         *)
EXTENDS USBIPServerProofs

Pending == {u \in Seqnums : urb[u] = "pending"}

\* The URBs held on an endpoint are those the client waits for there.
Answered ==
    /\ \A k \in Keys : \A u \in Held(ep[k]) : u # Internal => u \in Pending /\ EpOf[u] = k
    /\ \A u \in Pending : u \in Held(ep[EpOf[u]])

\* An URB that is still to be parsed, or to be sent, has no answer yet.
Unsent ==
    /\ \A u \in Seqnums : urb[u] # "new" => u <= sent
    /\ \A i \in 1 .. Len(rx) : rx[i].op = "SUBMIT" => urb[rx[i].n] = "new"

Counted == nurbs = Cardinality(Pending) /\ nurbs <= MAX_URBS

\* Only a running usbip_parse or an enumeration leaves messages in the buffer,
\* and a chunk is read with the output below its mark.
Drained ==
    /\ parse = "idle" /\ conn # "ENUMERATING" => rx = <<>>
    /\ conn = "NONE" => rx = <<>>
    /\ parse = "reading" => tx <= HIGH_WATER /\ conn \in {"OP", "ATTACHED"}

LInv == Answered /\ Unsent /\ Counted /\ OutputBounded /\ Drained

Enums == IF conn = "ENUMERATING" THEN 1 ELSE 0
-----------------------------------------------------------------------------
(* There are finitely many URBs.                                             *)
LEMMA FinitePending == IsFiniteSet(Pending) /\ Cardinality(Pending) \in Nat
<1>1. IsFiniteSet(1 .. MaxSeq)
    BY MaxSeqAssumption, FS_Interval
<1>2. Pending \in SUBSET (1 .. MaxSeq)
    BY DEF Pending, Seqnums
<1>3. IsFiniteSet(Pending)
    BY <1>1, <1>2, FS_Subset
<1> QED
    BY <1>3, FS_CardinalityType

(* The numbers the limits are about.                                         *)
LEMMA Numbers ==
    ASSUME IInv, LInv
    PROVE  /\ tx \in Nat /\ nurbs \in Nat /\ Len(rx) \in Nat /\ Enums \in 0 .. 1
           /\ tx + nurbs + Len(rx) + Enums <= HIGH_WATER + MAX_URBS + MaxBatch
           /\ nurbs <= MAX_URBS
<1>1. tx \in Nat /\ rx \in Seq(Messages)
    BY DEF IInv, TypeOK
<1>2. Len(rx) \in Nat
    BY <1>1
<1>3. nurbs \in Nat /\ nurbs <= MAX_URBS
    BY FinitePending DEF LInv, Counted
<1> QED
    BY <1>1, <1>2, <1>3 DEF LInv, OutputBounded, Enums

(* What is owed to the client only grows by what is read.                    *)
LEMMA OwedBounded ==
    ASSUME IInv, LInv, tx' \in Nat, nurbs' \in Int, Len(rx') \in Nat,
           tx' + nurbs' + Len(rx') + Enums' <= tx + nurbs + Len(rx) + Enums
    PROVE  OutputBounded'
<1>1. PICK a \in Nat, b \in Nat, c \in Nat, d \in 0 .. 1 :
          /\ a = tx /\ b = nurbs /\ c = Len(rx) /\ d = Enums
          /\ a + b + c + d <= HIGH_WATER + MAX_URBS + MaxBatch
    BY Numbers
<1>2. PICK p \in Nat, q \in Int, r \in Nat, s \in 0 .. 1 :
          p = tx' /\ q = nurbs' /\ r = Len(rx') /\ s = Enums'
    <2>1. Enums' \in 0 .. 1
        BY DEF Enums
    <2> QED
        BY <2>1, Zenon
<1>3. p + q + r + s <= a + b + c + d
    BY <1>1, <1>2, Zenon
<1>4. p + q + r + s <= HIGH_WATER + MAX_URBS + MaxBatch
    BY <1>1, <1>3, LimitsAssumption
<1> QED
    BY <1>2, <1>4, Zenon DEF OutputBounded, Enums

(* While there is no imported device, only the internal URB can be held.     *)
LEMMA OnlyInternal ==
    ASSUME IInv, conn # "ATTACHED" \/ ep = [k \in Keys |-> Idle]
    PROVE  \A k \in Keys : Held(ep[k]) \subseteq {Internal}
<1>1. CASE ep = [k \in Keys |-> Idle]
    BY <1>1, AllIdleGood
<1>2. CASE conn \in {"NONE", "OP"}
    BY <1>2, AllIdleGood DEF IInv, Linked
<1>3. CASE conn = "ENUMERATING"
    <2>1. Held(Idle) = {}
        BY AllUrbsNat, IdleGood
    <2>2. \A e, k : k \in Keys => Enumerating(e)[k] = IF k = EP0 THEN e ELSE Idle
        BY DEF Enumerating
    <2>3. \/ ep = Enumerating(WithDevice(<<Internal>>))
          \/ ep = Enumerating(AllWaiting(<<Internal>>))
        BY <1>3 DEF IInv, Linked
    <2>4. ASSUME NEW k \in Keys PROVE Held(ep[k]) \in {{}, {Internal}}
        BY <2>1, <2>2, <2>3, InternalGood
    <2> QED
        BY <2>4
<1> QED
    BY <1>1, <1>2, <1>3 DEF IInv, TypeOK

(* The client URBs held are the pending ones.                                *)
LEMMA HeldPending ==
    ASSUME IInv, LInv
    PROVE  /\ ClientHeld = Pending
           /\ \A u \in Seqnums : u \in HeldUrbs <=> u \in Pending
           /\ conn # "ATTACHED" => Pending = {}
<1>1. \A u \in Seqnums : u # Internal /\ EpOf[u] \in Keys
    BY EpOfAssumption, MaxSeqAssumption DEF Seqnums, Internal
<1>2. \A u \in Pending : u \in Seqnums /\ u \in HeldUrbs /\ u # Internal
    BY <1>1 DEF LInv, Answered, HeldUrbs, Pending
<1>3. \A u \in HeldUrbs : u # Internal => u \in Pending
    BY DEF LInv, Answered, HeldUrbs
<1>4. conn # "ATTACHED" => \A k \in Keys : Held(ep[k]) \subseteq {Internal}
    BY OnlyInternal
<1>5. conn # "ATTACHED" => Pending = {}
    BY <1>2, <1>4 DEF HeldUrbs
<1> QED
    BY <1>1, <1>2, <1>3, <1>5 DEF ClientHeld

(* URBs that are answered are held no more and not counted any more.         *)
LEMMA Taken ==
    ASSUME IInv, LInv, NEW S \in SUBSET Pending, NEW val \in {"done", "unlinked", "dropped"},
           urb' = [u \in Seqnums |-> IF u \in S THEN val ELSE urb[u]],
           \A k \in Keys : Held(ep'[k]) = Held(ep[k]) \ S,
           nurbs' = nurbs - Cardinality(S)
    PROVE  /\ Answered' /\ Counted' /\ Cardinality(S) \in Nat
           /\ \A u \in Seqnums : (urb'[u] = "new") = (urb[u] = "new")
<1>1. \A u \in Seqnums : urb'[u] = IF u \in S THEN val ELSE urb[u]
    OBVIOUS
<1>2. Pending' = Pending \ S
    BY <1>1 DEF Pending
<1>3. Answered'
    <2>1. \A u \in Pending : u \in Seqnums /\ EpOf[u] \in Keys
        BY EpOfAssumption DEF Pending
    <2> QED
        BY <1>2, <2>1 DEF LInv, Answered
<1>4. Pending \cap S = S
    OBVIOUS
<1>5. IsFiniteSet(S) /\ Cardinality(S) \in Nat
    BY FinitePending, FS_Subset, FS_CardinalityType
<1>6. Cardinality(Pending \ S) = Cardinality(Pending) - Cardinality(S)
    BY <1>4, FinitePending, FS_Difference
<1>7. PICK c \in Nat, d \in Nat : c = Cardinality(Pending) /\ d = Cardinality(S)
    BY <1>5, FinitePending
<1>8. nurbs' = c - d /\ nurbs = c /\ c <= MAX_URBS /\ Cardinality(Pending') = c - d
    BY <1>2, <1>6, <1>7 DEF LInv, Counted
<1>9. Counted'
    BY <1>8, LimitsAssumption DEF Counted
<1>10. \A u \in S : urb[u] = "pending"
    BY DEF Pending
<1> QED
    BY <1>1, <1>3, <1>5, <1>9, <1>10

(* A step that answers no URB and holds no other keeps the count.            *)
LEMMA Kept ==
    ASSUME IInv, LInv, urb' = urb, nurbs' = nurbs,
           \A k \in Keys : Held(ep'[k]) \ {Internal} = Held(ep[k]) \ {Internal}
    PROVE  Answered' /\ Counted'
<1>1. Pending' = Pending
    BY DEF Pending
<1>2. \A u \in Pending : u \in Seqnums /\ EpOf[u] \in Keys /\ u # Internal
    BY EpOfAssumption, MaxSeqAssumption DEF Pending, Seqnums, Internal
<1> QED
    BY <1>1, <1>2 DEF LInv, Answered, Counted

(* The messages that are left in the buffer are as new as before.            *)
LEMMA StillUnsent ==
    ASSUME IInv, LInv, sent' = sent, rx' \in {rx, <<>>} \/ (rx # <<>> /\ rx' = Tail(rx)),
           \A u \in Seqnums : (urb'[u] = "new") = (urb[u] = "new")
    PROVE  Unsent'
<1>1. rx \in Seq(Messages)
    BY DEF IInv, TypeOK
<1>2. \A i \in 1 .. Len(rx') : \E j \in 1 .. Len(rx) : rx'[i] = rx[j]
    <2>1. CASE rx' \in {rx, <<>>}
        BY <2>1
    <2>2. CASE rx # <<>> /\ rx' = Tail(rx)
        <3>1. /\ Len(Tail(rx)) = Len(rx) - 1
              /\ \A i \in 1 .. Len(Tail(rx)) : Tail(rx)[i] = rx[i + 1]
            BY <1>1, <2>2, HeadTailProperties
        <3>2. \A i \in 1 .. Len(rx) - 1 : i + 1 \in 1 .. Len(rx)
            BY <1>1
        <3> QED
            BY <2>2, <3>1, <3>2
    <2> QED
        BY <2>1, <2>2
<1>3. \A j \in 1 .. Len(rx) : rx[j].op = "SUBMIT" => rx[j].n \in Seqnums
    <2>1. sent \in 0 .. MaxSeq /\ \A j \in 1 .. Len(rx) : rx[j].op = "SUBMIT" => rx[j].n \in 1 .. sent
        BY DEF IInv, TypeOK, RxFresh
    <2> QED
        BY <2>1, MaxSeqAssumption DEF Seqnums
<1>4. \A i \in 1 .. Len(rx') : rx'[i].op = "SUBMIT" => urb'[rx'[i].n] = "new"
    BY <1>2, <1>3 DEF LInv, Unsent
<1> QED
    BY <1>4 DEF LInv, Unsent
-----------------------------------------------------------------------------
(* Every callback keeps it.                                                  *)

(* usbip_reset_connection answers what was pending, with nothing.            *)
LEMMA ResetLInv ==
    ASSUME IInv, LInv, NEW to \in {"NONE", "OP"}, ResetConnection(to), sent' = sent,
           parse' # "reading"
    PROVE  /\ LInv'
           /\ urb' = [u \in Seqnums |-> IF u \in Pending THEN "dropped" ELSE urb[u]]
<1>1. /\ ep' = [k \in Keys |-> Idle] /\ conn' = to /\ rx' = <<>> /\ tx' = 0
      /\ nurbs' = nurbs - Cardinality(ClientHeld)
      /\ urb' = [u \in Seqnums |-> IF u \in HeldUrbs THEN "dropped" ELSE urb[u]]
    BY DEF ResetConnection, CancelAll
<1>2. /\ nurbs' = nurbs - Cardinality(Pending)
      /\ urb' = [u \in Seqnums |-> IF u \in Pending THEN "dropped" ELSE urb[u]]
    BY <1>1, HeldPending
<1>3. \A k \in Keys : Held(ep'[k]) = {}
    BY <1>1, AllIdleGood
<1>4. \A u \in Seqnums : urb'[u] = IF u \in Pending THEN "dropped" ELSE urb[u]
    BY <1>2
<1>5. Pending' = {}
    BY <1>4 DEF Pending
<1>6. Answered'
    BY <1>3, <1>5 DEF Answered
<1>7. nurbs' = 0
    BY <1>2, FinitePending DEF LInv, Counted
<1>8. Counted'
    BY <1>5, <1>7, LimitsAssumption, FS_EmptySet DEF Counted
<1>9. Unsent'
    <2>1. \A u \in Seqnums : (urb'[u] = "new") = (urb[u] = "new")
        BY <1>4 DEF Pending
    <2> QED
        BY <1>1, <2>1, StillUnsent
<1>10. OutputBounded'
    <2>1. Len(rx') = 0 /\ conn' # "ENUMERATING"
        BY <1>1
    <2> QED
        BY <1>1, <1>7, <2>1, LimitsAssumption DEF OutputBounded
<1>11. Drained'
    BY <1>1 DEF Drained
<1> QED
    BY <1>2, <1>6, <1>8, <1>9, <1>10, <1>11 DEF LInv

(* usbip_read only reads with the output below its mark.                     *)
LEMMA ReceiveLInv ==
    ASSUME IInv, LInv, NEW m \in ClientMessages, Receive(m),
           \/ parse = "idle" /\ CanRead
           \/ parse = "reading" /\ Len(rx) < MaxBatch
    PROVE  LInv'
<1>1. /\ rx' = Append(rx, m)
      /\ sent' = IF m.op = "SUBMIT" THEN sent + 1 ELSE sent
      /\ parse' = "reading"
      /\ UNCHANGED <<conn, ep, nurbs, urb, tx>>
    BY DEF Receive, urbVars, outVars
<1>2. /\ m \in Messages /\ m.n \in 0 .. MaxSeq /\ (m.op = "SUBMIT" => m.n = sent + 1)
      /\ rx \in Seq(Messages) /\ sent \in 0 .. MaxSeq
    BY DEF ClientMessages, Messages, IInv, TypeOK
<1>3. /\ Len(rx') = Len(rx) + 1 /\ Len(rx) \in Nat
      /\ \A i \in 1 .. Len(rx) : rx'[i] = rx[i]
      /\ rx'[Len(rx) + 1] = m
    BY <1>1, <1>2, AppendProperties
<1>4. Answered' /\ Counted'
    BY <1>1, Kept
<1>5. tx <= HIGH_WATER /\ conn \in {"OP", "ATTACHED"} /\ Len(rx) < MaxBatch
    <2>1. CASE parse = "idle" /\ CanRead
        <3>1. rx = <<>>
            BY <2>1 DEF LInv, Drained, CanRead
        <3>2. Len(rx) = 0
            BY <3>1
        <3> QED
            BY <2>1, <3>2, LimitsAssumption DEF CanRead
    <2>2. CASE parse = "reading" /\ Len(rx) < MaxBatch
        BY <2>2 DEF LInv, Drained
    <2> QED
        BY <2>1, <2>2
<1>6. Drained'
    BY <1>1, <1>5 DEF Drained
<1>7. OutputBounded'
    <2>1. PICK a \in Nat, b \in Nat, c \in Nat : a = tx /\ b = nurbs /\ c = Len(rx) /\ b <= MAX_URBS
        BY Numbers
    <2>2. a + b + (c + 1) + 0 <= HIGH_WATER + MAX_URBS + MaxBatch
        BY <1>5, <2>1, LimitsAssumption
    <2>3. conn' # "ENUMERATING" /\ tx' = a /\ nurbs' = b /\ Len(rx') = c + 1
        BY <1>1, <1>3, <1>5, <2>1
    <2> QED
        BY <2>2, <2>3 DEF OutputBounded
<1>8. Unsent'
    <2>1. \A u \in Seqnums : urb[u] # "new" => u <= sent
        BY DEF LInv, Unsent
    <2>2. sent <= sent' /\ sent' \in Nat
        BY <1>1, <1>2
    <2>3. \A u \in Seqnums : urb'[u] # "new" => u <= sent'
        BY <1>1, <1>2, <2>1, <2>2, MaxSeqAssumption DEF Seqnums
    <2>4. m.op = "SUBMIT" => urb[m.n] = "new"
        <3> SUFFICES ASSUME m.op = "SUBMIT" PROVE urb[m.n] = "new"
            OBVIOUS
        <3>1. m.n = sent + 1 /\ m.n \in Seqnums /\ ~(m.n <= sent)
            BY <1>2, MaxSeqAssumption DEF Seqnums
        <3> QED
            BY <2>1, <3>1
    <2>5. ASSUME NEW i \in 1 .. Len(rx'), rx'[i].op = "SUBMIT" PROVE urb'[rx'[i].n] = "new"
        <3>1. CASE i \in 1 .. Len(rx)
            BY <1>1, <1>3, <2>5, <3>1 DEF LInv, Unsent
        <3>2. CASE i = Len(rx) + 1
            BY <1>1, <1>3, <2>4, <2>5, <3>2
        <3> QED
            BY <1>3, <3>1, <3>2
    <2> QED
        BY <2>3, <2>5 DEF Unsent
<1> QED
    BY <1>4, <1>6, <1>7, <1>8 DEF LInv

(* usbip_send of n replies.                                                  *)
LEMMA SendBounded ==
    ASSUME IInv, NEW n \in Nat, Send(n)
    PROVE  tx' \in Nat /\ tx' <= tx + n
<1>1. tx \in Nat /\ tx' \in 0 .. tx + n
    BY DEF IInv, TypeOK, Send
<1> QED
    BY <1>1

(* How usbip_enum_issue ends: with the internal URB held, or with the        *)
(* answer to the OP_REQ_* and nothing held.                                  *)
LEMMA EnumIssueEnds ==
    ASSUME IInv, NEW op, NEW step, NEW t, \A k \in Keys : k # EP0 => ep[k] = Idle,
           EnumIssue(Idle, op, step, t)
    PROVE  \/ conn' = "ENUMERATING" /\ tx' = tx
           \/ /\ conn' \in {"OP", "ATTACHED"} /\ tx' \in Nat /\ tx' <= tx + 1
              /\ ep' = [k \in Keys |-> Idle]
<1>1. ep \in [Keys -> Endpoints(0 .. MaxSeq)]
    BY DEF IInv, TypeOK
<1>2. [ep EXCEPT ![EP0] = Idle] = [k \in Keys |-> Idle]
    BY <1>1, Zenon
<1>3. CASE \E st \in step .. 3, r \in {"NAK", "ASYNC"} :
          /\ ep' = [ep EXCEPT ![EP0] = UrbSubmit(Idle, Internal, r)]
          /\ timer' = IF r = "NAK" THEN "on" ELSE t
          /\ conn' = "ENUMERATING"
          /\ enumOp' = op /\ enumStep' = st /\ enumerated' = "no"
          /\ UNCHANGED outVars
    BY <1>3 DEF outVars
<1>4. ASSUME ep' = [ep EXCEPT ![EP0] = Idle], NEW ok \in BOOLEAN, EnumFinish(op, ok)
      PROVE  /\ conn' \in {"OP", "ATTACHED"} /\ tx' \in Nat /\ tx' <= tx + 1
             /\ ep' = [k \in Keys |-> Idle]
    <2>1. conn' \in {"OP", "ATTACHED"} /\ Send(1)
        BY <1>4 DEF EnumFinish
    <2> QED
        BY <1>2, <1>4, <2>1, SendBounded
<1>5. CASE \E st \in step .. 3 :
          /\ ep' = [ep EXCEPT ![EP0] = Idle]
          /\ timer' = t
          /\ enumStep' = st
          /\ EnumFinish(op, FALSE)
    BY <1>4, <1>5
<1>6. CASE /\ ep' = [ep EXCEPT ![EP0] = Idle]
           /\ timer' = t
           /\ enumStep' = 4
           /\ EnumFinish(op, TRUE)
    BY <1>4, <1>6
<1> QED
    BY <1>3, <1>5, <1>6, Zenon DEF EnumIssue

(* A step of the enumeration, or a request refused.                          *)
EnumStep ==
    /\ conn \in {"OP", "ENUMERATING"}
    /\ UNCHANGED <<urb, nurbs, sent>>
    /\ conn' \in {"OP", "ENUMERATING", "ATTACHED"}
    /\ conn' = "ATTACHED" => ep' = [k \in Keys |-> Idle]

(* It owes the client the one answer.                                        *)
LEMMA EnumLInv ==
    ASSUME IInv, IInv', LInv, EnumStep,
           tx' \in Nat, Len(rx') \in Nat,
           rx' = rx \/ (rx # <<>> /\ rx' = Tail(rx)),
           parse' = "busy" \/ (parse' = "idle" /\ conn' = "ENUMERATING"),
           tx' + Len(rx') + Enums' <= tx + Len(rx) + Enums
    PROVE  LInv'
<1>1. \A k \in Keys : Held(ep[k]) \subseteq {Internal} /\ Held(ep'[k]) \subseteq {Internal}
    <2>1. \A k \in Keys : Held(ep[k]) \subseteq {Internal}
        BY OnlyInternal DEF EnumStep
    <2>2. conn' = "ATTACHED" => \A k \in Keys : Held(ep'[k]) = {}
        BY AllIdleGood DEF EnumStep
    <2>3. conn' \in {"OP", "ENUMERATING"} => \A k \in Keys : Held(ep'[k]) \subseteq {Internal}
        <3>1. CASE conn' = "OP"
            BY <3>1, AllIdleGood DEF IInv, Linked
        <3>2. CASE conn' = "ENUMERATING"
            <4>1. Held(Idle) = {}
                BY AllUrbsNat, IdleGood
            <4>2. \A e, k : k \in Keys => Enumerating(e)[k] = IF k = EP0 THEN e ELSE Idle
                BY DEF Enumerating
            <4>3. \/ ep' = Enumerating(WithDevice(<<Internal>>))
                  \/ ep' = Enumerating(AllWaiting(<<Internal>>))
                BY <3>2 DEF IInv, Linked
            <4>4. ASSUME NEW k \in Keys PROVE Held(ep'[k]) \in {{}, {Internal}}
                BY <4>1, <4>2, <4>3, InternalGood
            <4> QED
                BY <4>4
        <3> QED
            BY <3>1, <3>2
    <2> QED
        BY <2>1, <2>2, <2>3 DEF EnumStep
<1>2. Answered' /\ Counted'
    <2>1. \A k \in Keys : Held(ep'[k]) \ {Internal} = Held(ep[k]) \ {Internal}
        BY <1>1
    <2> QED
        BY <2>1, Kept DEF EnumStep
<1>3. Unsent'
    BY StillUnsent DEF EnumStep
<1>4. OutputBounded'
    <2>1. PICK a \in Nat, b \in Nat, c \in Nat, d \in 0 .. 1 :
              a = tx /\ b = nurbs /\ c = Len(rx) /\ d = Enums
        BY Numbers
    <2>2. PICK p \in Nat, r \in Nat, s \in 0 .. 1 : p = tx' /\ r = Len(rx') /\ s = Enums'
        <3>1. Enums' \in 0 .. 1
            BY DEF Enums
        <3> QED
            BY <3>1, Zenon
    <2>3. nurbs' = b
        BY <2>1, Zenon DEF EnumStep
    <2>4. p + r + s <= a + c + d
        BY <2>1, <2>2, Zenon
    <2>5. p + b + r + s <= a + b + c + d /\ b \in Int
        BY <2>4
    <2> QED
        BY <2>1, <2>2, <2>3, <2>5, OwedBounded
<1>5. Drained'
    BY DEF Drained, EnumStep
<1> QED
    BY <1>2, <1>3, <1>4, <1>5 DEF LInv

(* URBs complete from the front of their queues: the n[k] oldest of each     *)
(* endpoint k, which are client URBs.                                        *)
Done(n) == UNION {ToSet(SubSeq(Order(ep[k]), 1, n[k])) : k \in Keys}

CompleteStep(n) ==
    /\ \A k \in Keys : /\ n[k] \in 0 .. Len(Order(ep[k]))
                       /\ Order(ep'[k]) = Rest(Order(ep[k]), n[k])
                       /\ Internal \notin ToSet(SubSeq(Order(ep[k]), 1, n[k]))
    /\ UrbsComplete(Done(n))
    /\ UNCHANGED <<conn, rx, sent>>

(* What completes was pending.                                               *)
LEMMA CompletesPending ==
    ASSUME IInv, IInv', LInv, NEW n, CompleteStep(n)
    PROVE  /\ Done(n) \in SUBSET Pending
           /\ \A k \in Keys : Held(ep'[k]) = Held(ep[k]) \ Done(n)
<1>0. PICK S : S = Done(n) /\ S = UNION {ToSet(SubSeq(Order(ep[k]), 1, n[k])) : k \in Keys}
    BY DEF Done
<1>1. ASSUME NEW k \in Keys
      PROVE  /\ ToSet(SubSeq(Order(ep[k]), 1, n[k])) \subseteq Held(ep[k])
             /\ Held(ep'[k]) = Held(ep[k]) \ ToSet(SubSeq(Order(ep[k]), 1, n[k]))
    <2>1. Good(AllUrbs, ep[k]) /\ Good(AllUrbs, ep'[k])
        BY DEF IInv, AllGood
    <2>2. PICK s \in Seq(AllUrbs) : s = Order(ep[k]) /\ Increasing(s) /\ Held(ep[k]) = ToSet(s)
        BY <2>1, AllUrbsNat, GoodOrder
    <2>3. Held(ep'[k]) = ToSet(Order(ep'[k]))
        BY <2>1, AllUrbsNat, GoodOrder
    <2>4. n[k] \in 0 .. Len(s) /\ Order(ep'[k]) = Rest(s, n[k])
        BY <2>2 DEF CompleteStep
    <2>5. PICK j \in 0 .. Len(s) : j = n[k]
        BY <2>4
    <2>6. /\ ToSet(SubSeq(s, 1, j)) \subseteq ToSet(s)
          /\ ToSet(Rest(s, j)) = ToSet(s) \ ToSet(SubSeq(s, 1, j))
        BY <2>2, AllUrbsNat, RestSplit
    <2> QED
        BY <2>2, <2>3, <2>4, <2>5, <2>6
<1>2. ASSUME NEW k \in Keys, NEW u \in ToSet(SubSeq(Order(ep[k]), 1, n[k]))
      PROVE  u \in Pending /\ EpOf[u] = k
    <2>1. u \in Held(ep[k]) /\ u # Internal
        BY <1>1, <1>2 DEF CompleteStep
    <2> QED
        BY <2>1 DEF LInv, Answered
<1>3. S \in SUBSET Pending
    BY <1>0, <1>2
<1>4. ASSUME NEW k \in Keys PROVE Held(ep'[k]) = Held(ep[k]) \ S
    <2>1. \A u \in Held(ep[k]) : u # Internal => EpOf[u] = k
        BY DEF LInv, Answered
    <2>2. \A u \in S : u # Internal
        BY <1>0 DEF CompleteStep
    <2>3. \A u \in S : u \in Held(ep[k]) => u \in ToSet(SubSeq(Order(ep[k]), 1, n[k]))
        BY <1>0, <1>2, <2>1, <2>2
    <2>4. ToSet(SubSeq(Order(ep[k]), 1, n[k])) \subseteq S
        BY <1>0
    <2> QED
        BY <1>1, <2>3, <2>4
<1> QED
    BY <1>0, <1>3, <1>4

(* A reply is sent for each, and each is counted no more.                    *)
LEMMA CompleteLInv ==
    ASSUME IInv, IInv', LInv, NEW n, CompleteStep(n), parse' = "idle",
           conn # "ENUMERATING" => rx = <<>>
    PROVE  LInv'
<1>1. PICK S : S = Done(n)
    OBVIOUS
<1>2. S \in SUBSET Pending /\ \A k \in Keys : Held(ep'[k]) = Held(ep[k]) \ S
    BY <1>1, CompletesPending
<1>3. /\ urb' = [u \in Seqnums |-> IF u \in S THEN "done" ELSE urb[u]]
      /\ nurbs' = nurbs - Cardinality(S)
      /\ IF S = {} THEN UNCHANGED outVars ELSE Send(Cardinality(S))
    BY <1>1 DEF CompleteStep, UrbsComplete
<1>4. /\ Answered' /\ Counted' /\ Cardinality(S) \in Nat
      /\ \A u \in Seqnums : (urb'[u] = "new") = (urb[u] = "new")
    BY <1>2, <1>3, Taken
<1>5. Unsent'
    BY <1>4, StillUnsent DEF CompleteStep
<1>6. tx' \in Nat /\ tx' <= tx + Cardinality(S)
    <2>1. CASE S = {}
        BY <1>3, <1>4, <2>1, Numbers DEF outVars
    <2>2. CASE S # {}
        BY <1>3, <1>4, <2>2, SendBounded
    <2> QED
        BY <2>1, <2>2
<1>7. OutputBounded'
    <2>1. PICK a \in Nat, b \in Nat, c \in Nat, d \in 0 .. 1, e \in Nat :
              a = tx /\ b = nurbs /\ c = Len(rx) /\ d = Enums /\ e = Cardinality(S)
        BY <1>4, Numbers
    <2>2. PICK p \in Nat : p = tx' /\ p <= a + e
        BY <1>6, <2>1
    <2>3. nurbs' = b - e /\ Len(rx') = c /\ Enums' = d
        BY <1>3, <2>1 DEF CompleteStep, Enums
    <2>4. p + (b - e) + c + d <= a + b + c + d /\ b - e \in Int
        BY <2>1, <2>2
    <2> QED
        BY <2>1, <2>2, <2>3, <2>4, OwedBounded
<1>8. Drained'
    BY DEF LInv, Drained, CompleteStep
<1> QED
    BY <1>4, <1>5, <1>7, <1>8 DEF LInv

(* usbip_handle_submit, of an URB it accepts: it is answered at once, with   *)
(* nothing held on its endpoint, or held and counted.                        *)
SubmitStep(u) ==
    LET k == EpOf[u]
    IN  /\ conn = "ATTACHED" /\ u \in Seqnums /\ nurbs < MAX_URBS
        /\ \A j \in Keys : j # k => ep'[j] = ep[j]
        /\ \/ /\ Order(ep[k]) = <<>> /\ ep'[k] = ep[k]
              /\ urb' = [urb EXCEPT ![u] = "done"]
              /\ nurbs' = nurbs /\ Send(1)
           \/ /\ Order(ep'[k]) = Append(Order(ep[k]), u)
              /\ Held(ep'[k]) = Held(ep[k]) \cup {u}
              /\ urb' = [urb EXCEPT ![u] = "pending"]
              /\ nurbs' = nurbs + 1 /\ tx' = tx
        /\ rx # <<>> /\ rx' = Tail(rx)
        /\ UNCHANGED <<conn, sent>>

(* What usbip_handle_submit does if it does not close the connection.        *)
LEMMA SubmitEffect ==
    ASSUME IInv, NEW m, ParseSubmit(m), ~(nurbs >= MAX_URBS)
    PROVE  SubmitStep(m.n)
<1>1. /\ conn = "ATTACHED" /\ rx # <<>> /\ m = Head(rx) /\ m.op = "SUBMIT"
      /\ sent' = sent /\ HandleSubmit(m)
    BY DEF ParseSubmit, Parsing
<1> DEFINE k == EpOf[m.n]
           e == ep[k]
<1>2. PICK r \in Responses :
        /\ ep' = [ep EXCEPT ![k] = UrbSubmit(e, m.n, r)]
        /\ IF Completes(e, r)
           THEN /\ urb' = [urb EXCEPT ![m.n] = "done"]
                /\ Send(1)
                /\ UNCHANGED <<nurbs, timer>>
           ELSE /\ urb' = [urb EXCEPT ![m.n] = "pending"]
                /\ nurbs' = nurbs + 1
                /\ timer' = IF ep'[k].waiting # e.waiting
                            THEN "on" ELSE timer
                /\ UNCHANGED outVars
        /\ rx' = Tail(rx)
        /\ UNCHANGED <<conn, bh, enumOp, enumerated>>
    BY <1>1, ZenonT(30) DEF HandleSubmit
<1>3. m.n \in 1 .. sent /\ \A j \in Keys : \A v \in Held(ep[j]) : v < m.n
    BY <1>1, <1>2, TailFresh, ZenonT(30)
<1>4. m.n \in Seqnums /\ m.n \in AllUrbs
    BY <1>3, MaxSeqAssumption DEF IInv, TypeOK, Seqnums, AllUrbs
<1>5. k \in Keys /\ nurbs < MAX_URBS
    BY <1>4, EpOfAssumption, LimitsAssumption DEF IInv, TypeOK
<1> HIDE DEF k
<1>6. Good(AllUrbs, e)
    BY <1>5 DEF IInv, AllGood
<1>7. PICK u \in AllUrbs : u = m.n /\ \A v \in Held(e) : v < u
    BY <1>3, <1>4, <1>5
<1>8. ep'[k] = UrbSubmit(e, u, r) /\ \A j \in Keys : j # k => ep'[j] = ep[j]
    BY <1>2, <1>5, <1>7 DEF IInv, TypeOK
<1> HIDE DEF e
<1>9. /\ Completes(e, r) => UrbSubmit(e, u, r) = e /\ Order(e) = <<>>
      /\ ~Completes(e, r) => /\ Held(UrbSubmit(e, u, r)) = Held(e) \cup {u}
                             /\ Order(UrbSubmit(e, u, r)) = Append(Order(e), u)
    <2>0. \A v \in Held(e) : v < u
        BY <1>7
    <2>1. /\ Completes(e, r) => UrbSubmit(e, u, r) = e
          /\ ~Completes(e, r) => Held(UrbSubmit(e, u, r)) = Held(e) \cup {u}
        BY <1>6, <2>0, AllUrbsNat, UrbSubmitGood
    <2>2. /\ Completes(e, r) => Order(e) = <<>>
          /\ ~Completes(e, r) => Order(UrbSubmit(e, u, r)) = Append(Order(e), u)
        BY <1>6, AllUrbsNat, SubmitOrder
    <2> QED
        BY <2>1, <2>2
<1>10. \/ /\ Order(ep[k]) = <<>> /\ ep'[k] = ep[k]
          /\ urb' = [urb EXCEPT ![u] = "done"]
          /\ nurbs' = nurbs /\ Send(1)
       \/ /\ Order(ep'[k]) = Append(Order(ep[k]), u)
          /\ Held(ep'[k]) = Held(ep[k]) \cup {u}
          /\ urb' = [urb EXCEPT ![u] = "pending"]
          /\ nurbs' = nurbs + 1 /\ tx' = tx
    <2>1. CASE Completes(e, r)
        BY <1>2, <1>7, <1>8, <1>9, <2>1 DEF e
    <2>2. CASE ~Completes(e, r)
        BY <1>2, <1>7, <1>8, <1>9, <2>2 DEF e, outVars
    <2> QED
        BY <2>1, <2>2
<1> QED
    BY <1>1, <1>2, <1>4, <1>5, <1>7, <1>8, <1>10 DEF SubmitStep, k

(* A message taken off the buffer.                                           *)
LEMMA TailLength ==
    ASSUME IInv, rx # <<>>, rx' = Tail(rx)
    PROVE  Len(rx') \in Nat /\ Len(rx') = Len(rx) - 1 /\ Len(rx) \in Nat
<1>1. rx \in Seq(Messages)
    BY DEF IInv, TypeOK
<1>2. Len(Tail(rx)) = Len(rx) - 1 /\ Tail(rx) \in Seq(Messages)
    BY <1>1, HeadTailProperties
<1> QED
    BY <1>1, <1>2

(* It is one more that is held and counted, or one more reply.               *)
LEMMA SubmitLInv ==
    ASSUME IInv, IInv', LInv, NEW u, SubmitStep(u), parse' = "busy",
           Head(rx).op = "SUBMIT", Head(rx).n = u
    PROVE  LInv' /\ urb[u] = "new"
<1> DEFINE k == EpOf[u]
<1>1. /\ conn = "ATTACHED" /\ u \in Seqnums /\ nurbs < MAX_URBS
      /\ rx # <<>> /\ rx' = Tail(rx) /\ conn' = conn /\ sent' = sent
      /\ \A j \in Keys : j # k => ep'[j] = ep[j]
    BY DEF SubmitStep
<1>2. k \in Keys /\ u # Internal
    BY <1>1, EpOfAssumption, MaxSeqAssumption DEF Seqnums, Internal
<1>3. urb \in [Seqnums -> {"new", "pending", "done", "unlinked", "dropped"}]
    BY DEF IInv, TypeOK
<1>4. /\ rx \in Seq(Messages) /\ Len(rx') \in Nat /\ Len(rx) \in Nat
      /\ Len(rx') = Len(rx) - 1 /\ rx[1] = Head(rx)
      /\ \A i \in 1 .. Len(rx') : rx'[i] = rx[i + 1] /\ i + 1 \in 1 .. Len(rx)
    <2>1. rx \in Seq(Messages)
        BY DEF IInv, TypeOK
    <2>2. /\ Len(Tail(rx)) = Len(rx) - 1
          /\ \A i \in 1 .. Len(Tail(rx)) : Tail(rx)[i] = rx[i + 1]
        BY <1>1, <2>1, HeadTailProperties
    <2>3. Len(rx) \in Nat /\ Len(rx) # 0
        BY <1>1, <2>1, EmptySeq
    <2> QED
        BY <1>1, <2>1, <2>2, <2>3
<1>5. 1 \in 1 .. Len(rx)
    BY <1>1, <1>4
<1>6. urb[u] = "new"
    BY <1>4, <1>5 DEF LInv, Unsent
<1>7. u <= sent /\ \A i \in 1 .. Len(rx') : rx'[i].op = "SUBMIT" => rx'[i].n \in Seqnums /\ u < rx'[i].n
    <2>1. RxFresh' /\ u \in 1 .. sent
          /\ \A i \in 1 .. Len(rx') : rx'[i].op = "SUBMIT" => u < rx'[i].n
        BY <1>1, TailFresh
    <2>2. \A i \in 1 .. Len(rx') : rx'[i].op = "SUBMIT" => rx'[i].n \in 1 .. sent'
        BY <2>1 DEF RxFresh
    <2>3. sent \in 0 .. MaxSeq
        BY DEF IInv, TypeOK
    <2>4. 1 .. sent \subseteq Seqnums
        BY <2>3, MaxSeqAssumption DEF Seqnums
    <2> QED
        BY <1>1, <2>1, <2>2, <2>4
<1>8. PICK val \in {"done", "pending"} : urb' = [urb EXCEPT ![u] = val]
    BY DEF SubmitStep
<1>9. /\ urb'[u] = val
      /\ \A v \in Seqnums : v # u => urb'[v] = urb[v]
    BY <1>1, <1>3, <1>8
<1>10. Unsent'
    <2>1. \A v \in Seqnums : urb'[v] # "new" => v <= sent'
        BY <1>1, <1>7, <1>9 DEF LInv, Unsent
    <2>2. ASSUME NEW i \in 1 .. Len(rx'), rx'[i].op = "SUBMIT" PROVE urb'[rx'[i].n] = "new"
        <3>1. rx'[i].n \in Seqnums /\ rx'[i].n # u
            <4>1. rx'[i].n \in Seqnums /\ u < rx'[i].n
                BY <1>7, <2>2, Zenon
            <4>2. \A x, y \in Seqnums : x < y => y # x
                BY MaxSeqAssumption DEF Seqnums
            <4> QED
                BY <1>1, <4>1, <4>2, Zenon
        <3>2. urb[rx'[i].n] = "new"
            BY <1>4, <2>2 DEF LInv, Unsent
        <3> QED
            BY <1>9, <3>1, <3>2
    <2> QED
        BY <2>1, <2>2 DEF Unsent
<1>11. Drained'
    BY <1>1 DEF Drained
<1>12. PICK a \in Nat, b \in Nat, c \in Nat, d \in 0 .. 1 :
          a = tx /\ b = nurbs /\ c = Len(rx) /\ d = Enums
    BY Numbers
<1>13. Len(rx') = c - 1 /\ Enums' = d
    BY <1>1, <1>4, <1>12 DEF Enums
<1>14. CASE /\ ep'[k] = ep[k]
            /\ urb' = [urb EXCEPT ![u] = "done"]
            /\ nurbs' = nurbs /\ Send(1)
    <2>1. Pending' = Pending /\ \A j \in Keys : ep'[j] = ep[j]
        <3>1. \A v \in Seqnums : urb'[v] = IF v = u THEN "done" ELSE urb[v]
            BY <1>1, <1>3, <1>14
        <3> QED
            BY <1>1, <1>6, <1>14, <3>1 DEF Pending
    <2>2. Answered' /\ Counted'
        <3>1. \A v \in Pending : EpOf[v] \in Keys
            BY EpOfAssumption DEF Pending
        <3> QED
            BY <1>14, <2>1, <3>1 DEF LInv, Answered, Counted
    <2>3. PICK p \in Nat : p = tx' /\ p <= a + 1
        BY <1>12, <1>14, SendBounded
    <2>4. nurbs' = b /\ p + b + (c - 1) + d <= a + b + c + d
        BY <1>12, <1>14, <2>3
    <2>5. OutputBounded'
        BY <1>4, <1>12, <1>13, <2>3, <2>4, OwedBounded
    <2> QED
        BY <1>6, <1>10, <1>11, <2>2, <2>5 DEF LInv
<1>15. CASE /\ Held(ep'[k]) = Held(ep[k]) \cup {u}
            /\ urb' = [urb EXCEPT ![u] = "pending"]
            /\ nurbs' = nurbs + 1 /\ tx' = tx
    <2>1. Pending' = Pending \cup {u} /\ u \notin Pending
        <3>1. \A v \in Seqnums : urb'[v] = IF v = u THEN "pending" ELSE urb[v]
            BY <1>1, <1>3, <1>15
        <3> QED
            BY <1>1, <1>6, <3>1 DEF Pending
    <2>2. Answered'
        <3>1. \A v \in Pending : EpOf[v] \in Keys
            BY EpOfAssumption DEF Pending
        <3>2. ASSUME NEW j \in Keys, NEW v \in Held(ep'[j]), v # Internal
              PROVE  v \in Pending' /\ EpOf[v] = j
            BY <1>1, <1>15, <2>1, <3>2 DEF LInv, Answered
        <3>3. ASSUME NEW v \in Pending' PROVE v \in Held(ep'[EpOf[v]])
            BY <1>1, <1>2, <1>15, <2>1, <3>1 DEF LInv, Answered
        <3> QED
            BY <3>2, <3>3 DEF Answered
    <2>3. Counted'
        <3>1. Cardinality(Pending \cup {u}) = Cardinality(Pending) + 1
            BY <2>1, FinitePending, FS_AddElement
        <3> QED
            BY <1>1, <1>12, <1>15, <2>1, <3>1, LimitsAssumption DEF LInv, Counted
    <2>4. nurbs' = b + 1 /\ a + (b + 1) + (c - 1) + d <= a + b + c + d /\ tx' = a
        BY <1>12, <1>15
    <2>5. OutputBounded'
        BY <1>4, <1>12, <1>13, <2>4, OwedBounded
    <2> QED
        BY <1>6, <1>10, <1>11, <2>2, <2>3, <2>5 DEF LInv
<1> QED
    BY <1>14, <1>15 DEF SubmitStep

(* usbip_handle_unlink: the URB is held and taken out of its endpoint's      *)
(* queue, or it is not and nothing changes; there is one reply.              *)
UnlinkStep(u) ==
    LET k == EpOf[u]
    IN  /\ conn = "ATTACHED" /\ u \in Seqnums
        /\ \/ /\ u \in Held(ep[k]) /\ Held(ep'[k]) = Held(ep[k]) \ {u}
              /\ \E i \in 1 .. Len(Order(ep[k])) :
                    /\ Order(ep[k])[i] = u
                    /\ Order(ep'[k]) = RemoveAt(Order(ep[k]), i)
              /\ \A j \in Keys : j # k => ep'[j] = ep[j]
              /\ urb' = [urb EXCEPT ![u] = "unlinked"]
              /\ nurbs' = nurbs - 1
           \/ UNCHANGED <<ep, urb, nurbs>>
        /\ Send(1)
        /\ rx # <<>> /\ rx' = Tail(rx)
        /\ UNCHANGED <<conn, sent>>

(* What usbip_handle_unlink does.                                            *)
LEMMA UnlinkEffect ==
    ASSUME IInv, NEW m, ParseUnlink(m)
    PROVE  UnlinkStep(m.n)
<1>1. /\ conn = "ATTACHED" /\ rx # <<>> /\ rx' = Tail(rx)
      /\ m = Head(rx) /\ m.op = "UNLINK" /\ UNCHANGED <<sent, conn>> /\ Send(1)
    BY DEF ParseUnlink, Parsing
<1>2. m.n \in 1 .. sent /\ sent \in 0 .. MaxSeq
    BY <1>1, TailFresh DEF IInv, TypeOK
<1>3. m.n \in Seqnums
    BY <1>2, MaxSeqAssumption DEF Seqnums
<1> DEFINE k == EpOf[m.n]
           e == ep[k]
<1>4. k \in Keys
    BY <1>3, EpOfAssumption
<1>5. CASE m.n \notin Held(e)
    <2>1. UNCHANGED <<ep, urb, nurbs>>
        BY <1>5 DEF ParseUnlink
    <2> QED
        BY <1>1, <1>3, <2>1 DEF UnlinkStep
<1>6. CASE m.n \in Held(e)
    <2>1. /\ ep' = [ep EXCEPT ![k] = UrbUnlink(@, m.n)]
          /\ urb' = [urb EXCEPT ![m.n] = "unlinked"]
          /\ nurbs' = nurbs - 1
        BY <1>6, ZenonT(30) DEF ParseUnlink
    <2> HIDE DEF k
    <2>2. Good(AllUrbs, e)
        BY <1>4 DEF IInv, AllGood
    <2>3. ep'[k] = UrbUnlink(e, m.n) /\ \A j \in Keys : j # k => ep'[j] = ep[j]
        BY <1>4, <2>1 DEF IInv, TypeOK
    <2> HIDE DEF e
    <2>4. PICK u \in Held(e) : u = m.n
        BY <1>6
    <2>5. Held(UrbUnlink(e, u)) = Held(e) \ {u}
        BY <2>2, AllUrbsNat, UrbUnlinkGood
    <2>6. \E i \in 1 .. Len(Order(e)) :
              Order(e)[i] = u /\ Order(UrbUnlink(e, u)) = RemoveAt(Order(e), i)
        BY <2>2, AllUrbsNat, UnlinkOrder
    <2>7. /\ Held(ep'[k]) = Held(ep[k]) \ {u}
          /\ \E i \in 1 .. Len(Order(ep[k])) :
                Order(ep[k])[i] = u /\ Order(ep'[k]) = RemoveAt(Order(ep[k]), i)
        BY <2>3, <2>4, <2>5, <2>6 DEF e
    <2> QED
        BY <1>1, <1>3, <1>6, <2>1, <2>3, <2>4, <2>7 DEF UnlinkStep, k, e
<1> QED
    BY <1>5, <1>6

(* The reply to the unlink is owed for the message, and one for the URB less.*)
LEMMA UnlinkLInv ==
    ASSUME IInv, IInv', LInv, NEW u, UnlinkStep(u), parse' = "busy"
    PROVE  LInv'
<1> DEFINE k == EpOf[u]
<1>1. /\ conn = "ATTACHED" /\ u \in Seqnums /\ Send(1)
      /\ rx # <<>> /\ rx' = Tail(rx) /\ conn' = conn /\ sent' = sent
    BY DEF UnlinkStep
<1>2. k \in Keys /\ u # Internal
    BY <1>1, EpOfAssumption, MaxSeqAssumption DEF Seqnums, Internal
<1>3. Drained'
    BY <1>1 DEF Drained
<1>4. /\ Answered' /\ Counted' /\ nurbs' \in Int /\ nurbs' <= nurbs
      /\ \A v \in Seqnums : (urb'[v] = "new") = (urb[v] = "new")
    <2>1. CASE /\ u \in Held(ep[k]) /\ Held(ep'[k]) = Held(ep[k]) \ {u}
               /\ \A j \in Keys : j # k => ep'[j] = ep[j]
               /\ urb' = [urb EXCEPT ![u] = "unlinked"]
               /\ nurbs' = nurbs - 1
        <3>1. u \in Pending
            BY <1>2, <2>1 DEF LInv, Answered
        <3>2. PICK S : S = {u}
            OBVIOUS
        <3>3. S \in SUBSET Pending /\ Cardinality(S) = 1
            BY <3>1, <3>2, FS_Singleton
        <3>4. urb' = [v \in Seqnums |-> IF v \in S THEN "unlinked" ELSE urb[v]]
            BY <1>1, <2>1, <3>2 DEF IInv, TypeOK
        <3>5. \A j \in Keys : Held(ep'[j]) = Held(ep[j]) \ S
            <4>1. \A j \in Keys : j # k => u \notin Held(ep[j])
                BY <1>2 DEF LInv, Answered
            <4> QED
                BY <2>1, <3>2, <4>1
        <3>6. Answered' /\ Counted' /\ \A v \in Seqnums : (urb'[v] = "new") = (urb[v] = "new")
            BY <2>1, <3>3, <3>4, <3>5, Taken
        <3>7. nurbs' \in Int /\ nurbs' <= nurbs
            BY <2>1, Numbers
        <3> QED
            BY <3>6, <3>7, Zenon
    <2>2. CASE UNCHANGED <<ep, urb, nurbs>>
        BY <2>2, Kept, Numbers
    <2> QED
        BY <2>1, <2>2 DEF UnlinkStep
<1>5. Unsent'
    BY <1>1, <1>4, StillUnsent
<1>6. OutputBounded'
    <2>1. PICK a \in Nat, b \in Nat, c \in Nat, d \in 0 .. 1 :
              a = tx /\ b = nurbs /\ c = Len(rx) /\ d = Enums
        BY Numbers
    <2>2. Len(rx') \in Nat /\ Len(rx') = c - 1 /\ Enums' = d
        BY <1>1, <2>1, TailLength DEF Enums
    <2>3. PICK p \in Nat : p = tx' /\ p <= a + 1
        BY <1>1, <2>1, SendBounded
    <2>4. PICK q \in Int : q = nurbs' /\ q <= b
        BY <1>4, <2>1
    <2>5. /\ a \in Int /\ b \in Int /\ c \in Int /\ d \in Int /\ p \in Int /\ q \in Int
          /\ p <= a + 1 /\ q <= b
        BY <2>1, <2>3, <2>4
    <2>6. p + q + (c - 1) + d <= a + b + c + d
        BY <2>5
    <2> QED
        BY <2>1, <2>2, <2>3, <2>4, <2>6, OwedBounded
<1> QED
    BY <1>3, <1>4, <1>5, <1>6 DEF LInv

(* The answer to the OP_REQ_* is owed while its message is in the buffer, or  *)
(* while the server enumerates.                                              *)
LEMMA OneOwed ==
    ASSUME NEW a \in Int, NEW c \in Int, NEW p \in Int, NEW q \in Int, p + q <= a + 1
    PROVE  p + (c - 1) + q <= a + c + 0 /\ p + c + q <= a + c + 1
OBVIOUS

(* usbip_handle_op, refused or begun.                                        *)
LEMMA ParseOpStep ==
    ASSUME IInv, IInv', LInv, NEW m, ParseOp(m)
    PROVE  EnumStep /\ LInv'
<1>1. /\ conn = "OP" /\ rx # <<>> /\ rx' = Tail(rx)
      /\ parse' = "busy" /\ UNCHANGED <<sent, nurbs, urb>>
    BY DEF ParseOp, Parsing
<1>2. ep = [k \in Keys |-> Idle]
    BY <1>1 DEF IInv, Linked
<1>3. ep[EP0] = Idle /\ \A k \in Keys : k # EP0 => ep[k] = Idle
    BY <1>2, KeysAssumption
<1>4. \/ conn' = "ENUMERATING" /\ tx' = tx
      \/ /\ conn' \in {"OP", "ATTACHED"} /\ tx' \in Nat /\ tx' <= tx + 1
         /\ ep' = [k \in Keys |-> Idle]
    <2>1. CASE device = "present" /\ m.op # "IMPORT_OTHER"
        <3>1. EnumIssue(Idle, m.op, 0, timer)
            BY <1>3, <2>1 DEF ParseOp
        <3> QED
            BY <1>3, <3>1, EnumIssueEnds
    <2>2. CASE ~(device = "present" /\ m.op # "IMPORT_OTHER")
        <3>1. Send(1) /\ UNCHANGED <<conn, ep>>
            BY <2>2 DEF ParseOp
        <3> QED
            BY <1>1, <1>2, <3>1, SendBounded
    <2> QED
        BY <2>1, <2>2
<1>5. EnumStep
    BY <1>1, <1>4 DEF EnumStep
<1>6. PICK a \in Nat, c \in Nat : a = tx /\ c = Len(rx) /\ Enums = 0
    BY <1>1, Numbers DEF Enums
<1>7. Len(rx') \in Nat /\ Len(rx') = c - 1
    BY <1>1, <1>6, TailLength
<1>8. tx' \in Nat /\ Enums' \in 0 .. 1 /\ tx' + Enums' <= a + 1
    BY <1>4, <1>6 DEF Enums
<1>9. tx' + Len(rx') + Enums' <= tx + Len(rx) + Enums
    <2>1. tx' \in Int /\ Enums' \in Int
        BY <1>8
    <2>2. PICK p \in Int, q \in Int : p = tx' /\ q = Enums' /\ p + q <= a + 1
        BY <1>8, <2>1, Zenon
    <2>3. a \in Int /\ c \in Int
        BY <1>6
    <2>4. p \in Int /\ q \in Int /\ p + q <= a + 1
        BY <2>2
    <2>5. p + (c - 1) + q <= a + c + 0
        BY <2>3, <2>4, OneOwed
    <2> QED
        BY <1>6, <1>7, <2>2, <2>5
<1> QED
    BY <1>1, <1>5, <1>7, <1>8, <1>9, EnumLInv

(* A step of a running enumeration: it goes on, or ends and usbip_parse      *)
(* follows.                                                                  *)
LEMMA EnumGoesOn ==
    ASSUME IInv, IInv', LInv, conn = "ENUMERATING", UNCHANGED <<urb, nurbs, sent, rx>>,
           NEW from, ThenParse(from),
           \/ conn' = "ENUMERATING" /\ tx' = tx
           \/ /\ conn' \in {"OP", "ATTACHED"} /\ tx' \in Nat /\ tx' <= tx + 1
              /\ ep' = [k \in Keys |-> Idle]
    PROVE  EnumStep /\ LInv'
<1>1. EnumStep
    BY DEF EnumStep
<1>2. parse' = "busy" \/ (parse' = "idle" /\ conn' = "ENUMERATING")
    BY DEF ThenParse
<1>3. PICK a \in Nat, c \in Nat : a = tx /\ c = Len(rx) /\ Enums = 1 /\ Len(rx') = c
    BY Numbers DEF Enums
<1>4. tx' \in Nat /\ Enums' \in 0 .. 1 /\ tx' + Enums' <= a + 1
    BY <1>3 DEF Enums
<1>5. tx' + Len(rx') + Enums' <= tx + Len(rx) + Enums
    <2>1. tx' \in Int /\ Enums' \in Int
        BY <1>4
    <2>2. PICK p \in Int, q \in Int : p = tx' /\ q = Enums' /\ p + q <= a + 1
        BY <1>4, <2>1, Zenon
    <2>3. a \in Int /\ c \in Int
        BY <1>3
    <2>4. p \in Int /\ q \in Int /\ p + q <= a + 1
        BY <2>2
    <2>5. p + c + q <= a + c + 1
        BY <2>3, <2>4, OneOwed
    <2> QED
        BY <1>3, <2>2, <2>5
<1> QED
    BY <1>1, <1>2, <1>3, <1>4, <1>5, EnumLInv

(* usbip_enum_done.                                                          *)
LEMMA EnumDoneStep ==
    ASSUME IInv, IInv', LInv, DeviceCompletesInternal
    PROVE  EnumStep /\ LInv'
<1>1. /\ ep[EP0].held = Internal /\ ThenParse("none")
      /\ UNCHANGED <<nurbs, urb, rx, sent>>
    BY DEF DeviceCompletesInternal
<1>2. /\ conn = "ENUMERATING"
      /\ ep = Enumerating(WithDevice(<<Internal>>))
      /\ PacketComplete(ep[EP0], 1, FALSE) = Idle
    BY <1>1, InternalWithDevice, Zenon
<1>3. \/ /\ ep' = [ep EXCEPT ![EP0] = Idle]
         /\ EnumFinish(enumOp, FALSE)
      \/ EnumIssue(Idle, enumOp, enumStep + 1, timer)
    BY <1>2, Zenon DEF DeviceCompletesInternal
<1>4. \A k \in Keys : k # EP0 => ep[k] = Idle
    BY <1>2 DEF Enumerating
<1>5. \/ conn' = "ENUMERATING" /\ tx' = tx
      \/ /\ conn' \in {"OP", "ATTACHED"} /\ tx' \in Nat /\ tx' <= tx + 1
         /\ ep' = [k \in Keys |-> Idle]
    <2>1. CASE ep' = [ep EXCEPT ![EP0] = Idle] /\ EnumFinish(enumOp, FALSE)
        <3>1. [ep EXCEPT ![EP0] = Idle] = [k \in Keys |-> Idle]
            BY <1>4, Zenon DEF IInv, TypeOK
        <3>2. conn' \in {"OP", "ATTACHED"} /\ Send(1)
            BY <2>1 DEF EnumFinish
        <3> QED
            BY <2>1, <3>1, <3>2, SendBounded
    <2>2. CASE EnumIssue(Idle, enumOp, enumStep + 1, timer)
        BY <1>4, <2>2, EnumIssueEnds
    <2> QED
        BY <1>3, <2>1, <2>2
<1> QED
    BY <1>1, <1>2, <1>5, EnumGoesOn
=============================================================================
