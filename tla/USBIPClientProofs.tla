-------------------------- MODULE USBIPClientProofs -------------------------
(* usbip-server keeps its limits and its contract with the client, for any   *)
(* endpoints, any number of URBs and any limits.                             *)
EXTENDS USBIPClientLemmas, USBIPRefinement

(* usbip_retry over client URBs.                                             *)
LEMMA RetryStep ==
    ASSUME IInv, NEW t, Internal \notin ToSet(ep[EP0].waiting), RetryClient(t),
           rx' = rx, sent' = sent
    PROVE  \E n \in [Keys -> 0 .. MaxSeq] : CompleteStep(n)
<1>1. PICK n \in [Keys -> 0 .. MaxSeq], r \in [Keys -> {"NAK", "ASYNC"}] :
        /\ \A k \in Keys : n[k] \in RetryCounts(ep[k])
        /\ ep' = [k \in Keys |-> Retry(ep[k], n[k], r[k])]
        /\ UrbsComplete(UNION {ToSet(SubSeq(ep[k].waiting, 1, n[k])) : k \in Keys})
        /\ conn' = conn
    BY Zenon DEF RetryClient
<1>2. ASSUME NEW k \in Keys
      PROVE  /\ n[k] \in 0 .. Len(Order(ep[k]))
             /\ SubSeq(ep[k].waiting, 1, n[k]) = SubSeq(Order(ep[k]), 1, n[k])
             /\ Order(ep'[k]) = Rest(Order(ep[k]), n[k])
    <2>1. Good(AllUrbs, ep[k]) /\ n[k] \in RetryCounts(ep[k]) /\ r[k] \in {"NAK", "ASYNC"}
        BY <1>1 DEF IInv, AllGood
    <2>2. ep'[k] = Retry(ep[k], n[k], r[k])
        BY <1>1
    <2> QED
        BY <2>1, <2>2, AllUrbsNat, RetryOrder
<1>3. {ToSet(SubSeq(ep[k].waiting, 1, n[k])) : k \in Keys}
        = {ToSet(SubSeq(Order(ep[k]), 1, n[k])) : k \in Keys}
    BY <1>2
<1>4. UrbsComplete(Done(n))
    BY <1>1, <1>3 DEF Done
<1>5. ASSUME NEW k \in Keys, Internal \in ToSet(SubSeq(ep[k].waiting, 1, n[k])) PROVE FALSE
    <2>1. ep[k].waiting \in Seq(AllUrbs) /\ n[k] \in 0 .. Len(ep[k].waiting)
        BY <1>1 DEF IInv, TypeOK, Endpoints, AllUrbs, RetryCounts
    <2>2. Internal \in ToSet(ep[k].waiting)
        <3>1. PICK s \in Seq(AllUrbs) : s = ep[k].waiting
            BY <2>1
        <3>2. PICK j \in 0 .. Len(s) : j = n[k]
            BY <2>1, <3>1
        <3>3. \A i \in 1 .. j : s[i] \in AllUrbs
            BY ElementOfSeq
        <3>4. PICK q : q = SubSeq(s, 1, j)
            OBVIOUS
        <3>5. Len(q) = j /\ \A i \in 1 .. j : q[i] = s[i]
            BY <3>3, <3>4, SubSeqProperties
        <3>6. \A i \in 1 .. j : i \in 1 .. Len(s)
            OBVIOUS
        <3>7. Internal \in ToSet(q)
            BY <1>5, <3>1, <3>2, <3>4
        <3> QED
            BY <3>1, <3>5, <3>6, <3>7 DEF ToSet
    <2>3. k # EP0 /\ Internal \in Held(ep[k])
        BY <2>2 DEF Held
    <2>4. conn = "ENUMERATING"
        BY <2>3, AllIdleGood DEF IInv, Linked, TypeOK
    <2>5. ep[k] = Idle
        BY <2>3, <2>4 DEF IInv, Linked, Enumerating
    <2>6. Held(Idle) = {}
        BY AllUrbsNat, IdleGood
    <2> QED
        BY <2>3, <2>5, <2>6
<1>6. \A k \in Keys : Internal \notin ToSet(SubSeq(Order(ep[k]), 1, n[k]))
    BY <1>2, <1>5
<1>7. CompleteStep(n)
    BY <1>1, <1>2, <1>4, <1>6 DEF CompleteStep
<1> QED
    BY <1>7

(* usb_packet_complete completes URBs of one endpoint, of an imported device.*)
LEMMA DeviceStep ==
    ASSUME IInv, NEW k \in Keys, DeviceCompletes(k)
    PROVE  /\ conn = "ATTACHED"
           /\ \E n \in 1 .. Len(Order(ep[k])) :
                  CompleteStep([j \in Keys |-> IF j = k THEN n ELSE 0])
<1>1. PICK n \in 1 .. Len(ep[k].queue), halts \in BOOLEAN :
          /\ ep' = [ep EXCEPT ![k] = PacketComplete(@, n, halts)]
          /\ UrbsComplete(ToSet(SubSeq(ep[k].queue, 1, n)))
    BY ZenonT(30) DEF DeviceCompletes
<1>2. /\ ep[k].held # None /\ ep[k].held # Internal /\ UNCHANGED <<conn, rx, sent>>
    BY DEF DeviceCompletes, inVars
<1>3. /\ ep'[k] = PacketComplete(ep[k], n, halts)
      /\ \A j \in Keys : j # k => ep'[j] = ep[j]
    BY <1>1 DEF IInv, TypeOK
<1>4. /\ n \in 0 .. Len(Order(ep[k])) /\ ep[k].queue = Order(ep[k])
      /\ Order(PacketComplete(ep[k], n, halts)) = Rest(Order(ep[k]), n)
    <2>1. Good(AllUrbs, ep[k])
        BY DEF IInv, AllGood
    <2> QED
        BY <2>1, AllUrbsNat, CompleteOrder
<1>5. conn = "ATTACHED"
    <2>1. conn \notin {"NONE", "OP"}
        <3>1. Idle.held = None
            BY DEF Idle
        <3> QED
            BY <1>2, <3>1 DEF IInv, Linked
    <2>2. conn # "ENUMERATING"
        <3>1. Idle.held = None
            BY DEF Idle
        <3>2. \A e : Enumerating(e)[k] = IF k = EP0 THEN e ELSE Idle
            BY DEF Enumerating
        <3> QED
            BY <1>2, <3>1, <3>2, InternalGood, ZenonT(30) DEF IInv, Linked
    <2> QED
        BY <2>1, <2>2 DEF IInv, TypeOK
<1>6. PICK f : f = [j \in Keys |-> IF j = k THEN n ELSE 0]
    OBVIOUS
<1>7. f[k] = n /\ \A j \in Keys : j # k => f[j] = 0
    BY <1>6
<1>8. ASSUME NEW j \in Keys
      PROVE  /\ Order(ep[j]) \in Seq(AllUrbs) /\ Held(ep[j]) = ToSet(Order(ep[j]))
             /\ SubSeq(Order(ep[j]), 1, 0) = <<>> /\ Rest(Order(ep[j]), 0) = Order(ep[j])
    <2>1. Good(AllUrbs, ep[j])
        BY DEF IInv, AllGood
    <2>2. Order(ep[j]) \in Seq(AllUrbs) /\ Held(ep[j]) = ToSet(Order(ep[j]))
        BY <2>1, AllUrbsNat, GoodOrder
    <2>3. PICK s \in Seq(AllUrbs) : s = Order(ep[j])
        BY <2>2
    <2>4. SubSeq(s, 1, 0) = <<>> /\ SubSeq(s, 1, Len(s)) = s
        BY SubSeqEmpty, SubSeqFull
    <2> QED
        BY <2>2, <2>3, <2>4 DEF Rest
<1>9. ToSet(<<>>) = {}
    BY DEF ToSet
<1>10. ASSUME NEW j \in Keys
       PROVE  ToSet(SubSeq(Order(ep[j]), 1, f[j]))
                = IF j = k THEN ToSet(SubSeq(ep[k].queue, 1, n)) ELSE {}
    BY <1>4, <1>7, <1>8, <1>9
<1>11. Done(f) = ToSet(SubSeq(ep[k].queue, 1, n))
    BY <1>10 DEF Done
<1>12. ASSUME NEW j \in Keys
       PROVE  /\ f[j] \in 0 .. Len(Order(ep[j]))
              /\ Order(ep'[j]) = Rest(Order(ep[j]), f[j])
              /\ Internal \notin ToSet(SubSeq(Order(ep[j]), 1, f[j]))
    <2>1. CASE j = k
        <3>1. Internal \notin Held(ep[k])
            BY <1>5 DEF IInv, Linked
        <3>2. PICK s \in Seq(AllUrbs) : s = Order(ep[k]) /\ Held(ep[k]) = ToSet(s)
            BY <1>8
        <3>3. Increasing(s)
            BY <3>2, AllUrbsNat, GoodOrder DEF IInv, AllGood
        <3>4. PICK i \in 0 .. Len(s) : i = n
            BY <1>4, <3>2
        <3>5. ToSet(SubSeq(s, 1, i)) \subseteq ToSet(s)
            BY <3>3, AllUrbsNat, RestSplit
        <3> QED
            BY <1>3, <1>4, <1>7, <2>1, <3>1, <3>2, <3>4, <3>5
    <2>2. CASE j # k
        <3>1. Len(Order(ep[j])) \in Nat
            BY <1>8
        <3>2. f[j] = 0 /\ ep'[j] = ep[j]
            BY <1>3, <1>7, <2>2
        <3>3. SubSeq(Order(ep[j]), 1, f[j]) = <<>> /\ Rest(Order(ep[j]), f[j]) = Order(ep[j])
            BY <1>8, <3>2
        <3>4. f[j] \in 0 .. Len(Order(ep[j]))
            BY <3>1, <3>2
        <3>5. Internal \notin ToSet(SubSeq(Order(ep[j]), 1, f[j]))
            BY <1>9, <3>3
        <3> QED
            BY <3>2, <3>3, <3>4, <3>5, Zenon
    <2> QED
        BY <2>1, <2>2
<1>13. CompleteStep(f)
    BY <1>1, <1>2, <1>11, <1>12 DEF CompleteStep
<1>14. n \in 1 .. Len(Order(ep[k]))
    BY <1>4
<1> QED
    BY <1>5, <1>6, <1>13, <1>14

(* usbip_retry, from the timer, the bottom half or the end of usbip_parse.   *)
LEMMA UsbipRetryStep ==
    ASSUME IInv, IInv', LInv, NEW t, UsbipRetry(t), UNCHANGED <<rx, sent>>,
           conn # "ENUMERATING" => rx = <<>>
    PROVE  LInv' /\ (EnumStep \/ \E n \in [Keys -> 0 .. MaxSeq] : CompleteStep(n))
<1>1. CASE Internal \in ToSet(ep[EP0].waiting)
    <2>1. RetryInternal(t) /\ ThenParse("retry")
        BY <1>1 DEF UsbipRetry
    <2>2. /\ conn = "ENUMERATING"
          /\ ep = Enumerating(AllWaiting(<<Internal>>))
          /\ [ep[EP0] EXCEPT !.waiting = Without(@, Internal)] = Idle
        BY <1>1, InternalWaits
    <2>3. EnumIssue(Idle, enumOp, enumStep, t) /\ UNCHANGED <<nurbs, urb>>
        BY <2>1, <2>2 DEF RetryInternal
    <2>4. \A k \in Keys : k # EP0 => ep[k] = Idle
        BY <2>2 DEF Enumerating
    <2>5. \/ conn' = "ENUMERATING" /\ tx' = tx
          \/ /\ conn' \in {"OP", "ATTACHED"} /\ tx' \in Nat /\ tx' <= tx + 1
             /\ ep' = [k \in Keys |-> Idle]
        BY <2>3, <2>4, EnumIssueEnds
    <2> QED
        BY <2>1, <2>2, <2>3, <2>5, EnumGoesOn
<1>2. CASE Internal \notin ToSet(ep[EP0].waiting)
    <2>1. RetryClient(t) /\ parse' = "idle"
        BY <1>2 DEF UsbipRetry
    <2>2. PICK n \in [Keys -> 0 .. MaxSeq] : CompleteStep(n)
        BY <1>2, <2>1, RetryStep
    <2>3. LInv'
        BY <2>1, <2>2, CompleteLInv
    <2> QED
        BY <2>2, <2>3
<1> QED
    BY <1>1, <1>2

(* A step that changes none of it.                                           *)
Quiet ==
    /\ UNCHANGED <<conn, ep, nurbs, rx, sent, urb>>
    /\ tx' \in 0 .. tx
    /\ parse' = "idle"
    /\ conn # "ENUMERATING" => rx = <<>>

LEMMA QuietLInv ==
    ASSUME IInv, IInv', LInv, Quiet
    PROVE  LInv'
<1>1. Answered' /\ Counted'
    BY Kept DEF Quiet
<1>2. Unsent'
    BY StillUnsent DEF Quiet
<1>3. Drained'
    BY DEF LInv, Drained, Quiet
<1>4. PICK a \in Nat, b \in Nat, c \in Nat, d \in 0 .. 1 :
          a = tx /\ b = nurbs /\ c = Len(rx) /\ d = Enums
    BY Numbers
<1>5. nurbs' = b /\ Len(rx') = c /\ Enums' = d
    BY <1>4 DEF Quiet, Enums
<1>6. PICK p \in Nat : p = tx' /\ p <= a
    BY <1>4 DEF Quiet
<1>7. p + b + c + d <= a + b + c + d
    BY <1>4, <1>6
<1>8. OutputBounded'
    BY <1>4, <1>5, <1>6, <1>7, OwedBounded
<1> QED
    BY <1>1, <1>2, <1>3, <1>8 DEF LInv

(* What a step of the server is to its client.                               *)
LEMMA Steps ==
    ASSUME IInv, IInv', LInv, Next
    PROVE  /\ LInv'
           /\ \/ \E to \in {"NONE", "OP"} :
                     ResetConnection(to) /\ (conn = "NONE" <=> to = "OP")
              \/ EnumStep
              \/ \E u \in Seqnums : SubmitStep(u) /\ urb[u] = "new"
              \/ \E u \in Seqnums : UnlinkStep(u)
              \/ \E n \in [Keys -> 0 .. MaxSeq] : CompleteStep(n)
              \/ \E k \in Keys : \E n \in 1 .. Len(Order(ep[k])) :
                     /\ conn = "ATTACHED"
                     /\ CompleteStep([j \in Keys |-> IF j = k THEN n ELSE 0])
              \/ UNCHANGED <<conn, ep, urb>>
<1> DEFINE Goal == /\ LInv'
           /\ \/ \E to \in {"NONE", "OP"} :
                     ResetConnection(to) /\ (conn = "NONE" <=> to = "OP")
              \/ EnumStep
              \/ \E u \in Seqnums : SubmitStep(u) /\ urb[u] = "new"
              \/ \E u \in Seqnums : UnlinkStep(u)
              \/ \E n \in [Keys -> 0 .. MaxSeq] : CompleteStep(n)
              \/ \E k \in Keys : \E n \in 1 .. Len(Order(ep[k])) :
                     /\ conn = "ATTACHED"
                     /\ CompleteStep([j \in Keys |-> IF j = k THEN n ELSE 0])
              \/ UNCHANGED <<conn, ep, urb>>
<1> SUFFICES Goal
    OBVIOUS
<1>1. ASSUME ResetConnection("NONE"), conn # "NONE", sent' = sent, parse' # "reading" PROVE Goal
    BY <1>1, ResetLInv
<1>2. ASSUME Quiet PROVE Goal
    BY <1>2, QuietLInv DEF Quiet
<1>3. CASE Read \/ ReadMore
    <2>1. PICK m \in ClientMessages : Receive(m)
        BY <1>3 DEF Read, ReadMore
    <2>2. LInv'
        BY <1>3, <2>1, ReceiveLInv DEF Read, ReadMore
    <2>3. UNCHANGED <<conn, ep, urb>>
        BY <2>1 DEF Receive, urbVars
    <2> QED
        BY <2>2, <2>3
<1>4. ASSUME NEW m \in Messages, ParseMalformed(m) PROVE Goal
    <2>1. ResetConnection("NONE") /\ conn # "NONE" /\ sent' = sent /\ parse' # "reading"
        BY <1>4 DEF ParseMalformed, Parsing, CloseClient
    <2> QED
        BY <1>1, <2>1
<1>5. ASSUME NEW m \in Messages, ParseOp(m) PROVE Goal
    BY <1>5, ParseOpStep
<1>6. ASSUME NEW m \in Messages, ParseSubmit(m) PROVE Goal
    <2>1. /\ conn = "ATTACHED" /\ sent' = sent /\ parse' = "busy"
          /\ m = Head(rx) /\ m.op = "SUBMIT" /\ HandleSubmit(m)
        BY <1>6 DEF ParseSubmit, Parsing
    <2>2. CASE nurbs >= MAX_URBS
        <3>1. ResetConnection("NONE") /\ conn # "NONE" /\ sent' = sent /\ parse' # "reading"
            BY <2>1, <2>2 DEF HandleSubmit, CloseClient
        <3> QED
            BY <1>1, <3>1
    <2>3. CASE ~(nurbs >= MAX_URBS)
        <3>1. SubmitStep(m.n)
            BY <1>6, <2>3, SubmitEffect
        <3>2. PICK u : u = m.n
            OBVIOUS
        <3>3. SubmitStep(u) /\ Head(rx).op = "SUBMIT" /\ Head(rx).n = u
            BY <2>1, <3>1, <3>2
        <3>4. LInv' /\ urb[u] = "new"
            BY <2>1, <3>3, SubmitLInv
        <3>5. u \in Seqnums
            BY <3>3 DEF SubmitStep
        <3> QED
            BY <3>3, <3>4, <3>5
    <2> QED
        BY <2>2, <2>3
<1>7. ASSUME NEW m \in Messages, ParseUnlink(m) PROVE Goal
    <2>1. parse' = "busy"
        BY <1>7 DEF ParseUnlink, Parsing
    <2>2. PICK u : u = m.n /\ UnlinkStep(u)
        BY <1>7, UnlinkEffect
    <2>3. LInv' /\ u \in Seqnums
        BY <2>1, <2>2, UnlinkLInv DEF UnlinkStep
    <2> QED
        BY <2>2, <2>3
<1>8. ASSUME NEW t, UsbipRetry(t), UNCHANGED <<rx, sent>>, conn # "ENUMERATING" => rx = <<>>
      PROVE  Goal
    BY <1>8, UsbipRetryStep
<1>9. CASE ParseEnd
    <2>1. UNCHANGED <<rx, sent>> /\ (conn # "ENUMERATING" => rx = <<>>)
        BY <1>9 DEF ParseEnd, LInv, Drained, IInv, TypeOK
    <2>2. CASE cont = "retry"
        BY <1>8, <1>9, <2>1, <2>2 DEF ParseEnd
    <2>3. CASE cont # "retry"
        <3>1. /\ parse' = "idle" /\ UNCHANGED <<conn, ep, nurbs, urb, tx>>
            BY <1>9, <2>3 DEF ParseEnd, urbVars, outVars
        <3>2. tx' \in 0 .. tx
            BY <3>1 DEF IInv, TypeOK
        <3> QED
            BY <1>2, <2>1, <3>1, <3>2 DEF Quiet
    <2> QED
        BY <2>2, <2>3
<1>10. parse = "idle" => (conn # "ENUMERATING" => rx = <<>>)
    BY DEF LInv, Drained
<1>11. CASE RetryTimer \/ RetryBh
    <2>1. CASE RetryTimer
        BY <1>8, <1>10, <2>1 DEF RetryTimer
    <2>2. CASE RetryBh
        BY <1>8, <1>10, <2>2 DEF RetryBh
    <2> QED
        BY <1>11, <2>1, <2>2
<1>12. ASSUME NEW k \in Keys, DeviceCompletes(k) PROVE Goal
    <2>1. /\ conn = "ATTACHED"
          /\ \E n \in 1 .. Len(Order(ep[k])) :
                 CompleteStep([j \in Keys |-> IF j = k THEN n ELSE 0])
        BY <1>12, DeviceStep
    <2>2. PICK n \in 1 .. Len(Order(ep[k])) :
              CompleteStep([j \in Keys |-> IF j = k THEN n ELSE 0])
        BY <2>1
    <2>3. parse = "idle" /\ parse' = "idle"
        BY <1>12 DEF DeviceCompletes, inVars
    <2>4. LInv'
        BY <1>10, <2>2, <2>3, CompleteLInv
    <2> QED
        BY <2>1, <2>2, <2>4
<1>13. CASE DeviceCompletesInternal
    BY <1>13, EnumDoneStep
<1>14. CASE Wakeup \/ PortAttach
    <2>1. /\ parse = "idle" /\ UNCHANGED <<conn, ep, nurbs, rx, sent, urb, tx, parse>>
        BY <1>14 DEF Wakeup, PortAttach, urbVars, inVars, outVars
    <2>2. tx' \in 0 .. tx
        BY <2>1 DEF IInv, TypeOK
    <2> QED
        BY <1>2, <1>10, <2>1, <2>2 DEF Quiet
<1>15. CASE TxReady
    <2>1. /\ parse = "idle" /\ UNCHANGED <<conn, ep, nurbs, rx, sent, urb, parse>> /\ tx' \in 0 .. tx
        BY <1>15 DEF TxReady, urbVars, inVars
    <2> QED
        BY <1>2, <1>10, <2>1 DEF Quiet
<1>16. CASE Opened
    <2>1. ResetConnection("OP") /\ conn = "NONE" /\ sent' = sent /\ parse' # "reading"
        BY <1>16 DEF Opened
    <2> QED
        BY <2>1, ResetLInv
<1>17. CASE Closed \/ ResetHold
    <2>1. ResetConnection("NONE") /\ conn # "NONE" /\ sent' = sent /\ parse' # "reading"
        BY <1>17 DEF Closed, ResetHold, CloseClient
    <2> QED
        BY <1>1, <2>1
<1>18. CASE PortDetach
    <2>1. parse = "idle" /\ parse' = "idle" /\ sent' = sent
        BY <1>18 DEF PortDetach
    <2>2. CASE conn \in {"ATTACHED", "ENUMERATING"}
        <3>1. ResetConnection("NONE")
            BY <1>18, <2>2 DEF PortDetach, CloseClient
        <3> QED
            BY <1>1, <2>1, <2>2, <3>1
    <2>3. CASE conn \notin {"ATTACHED", "ENUMERATING"}
        <3>1. UNCHANGED <<conn, ep, nurbs, rx, urb, tx>>
            BY <1>18, <2>3 DEF PortDetach, urbVars, outVars
        <3>2. tx' \in 0 .. tx
            BY <3>1 DEF IInv, TypeOK
        <3> QED
            BY <1>2, <1>10, <2>1, <3>1, <3>2 DEF Quiet
    <2> QED
        BY <2>2, <2>3
<1> HIDE DEF Goal
<1> QED
    BY <1>3, <1>4, <1>5, <1>6, <1>7, <1>9, <1>11, <1>12, <1>13, <1>14, <1>15, <1>16,
       <1>17, <1>18, Zenon DEF Next, ParseStep
-----------------------------------------------------------------------------
(* The limits, for any number of endpoints, URBs and messages.               *)

(* There is nothing to answer at first.                                      *)
LEMMA InitLInv == Init => LInv
<1> SUFFICES ASSUME Init PROVE LInv
    OBVIOUS
<1>1. /\ ep = [k \in Keys |-> Idle] /\ nurbs = 0 /\ rx = <<>> /\ tx = 0
      /\ parse = "idle" /\ conn = "NONE" /\ urb = [u \in Seqnums |-> "new"]
    BY DEF Init
<1>2. Pending = {} /\ \A k \in Keys : Held(ep[k]) = {}
    BY <1>1, AllIdleGood DEF Pending
<1>3. Answered /\ Unsent /\ Drained
    BY <1>1, <1>2 DEF Answered, Unsent, Drained
<1>4. Counted
    BY <1>1, <1>2, FS_EmptySet, LimitsAssumption DEF Counted
<1>5. OutputBounded
    <2>1. Len(rx) = 0 /\ conn # "ENUMERATING"
        BY <1>1
    <2> QED
        BY <1>1, <2>1, LimitsAssumption DEF OutputBounded
<1> QED
    BY <1>3, <1>4, <1>5 DEF LInv

(* A step that changes nothing keeps it.                                     *)
LEMMA StutterLInv == LInv /\ UNCHANGED vars => LInv'
BY DEF LInv, Answered, Pending, Unsent, Counted, OutputBounded, Drained,
       vars, urbVars, retryVars, inVars, enumVars, outVars

(* Every URB held is one the client waits for, on its own endpoint; they are *)
(* counted right; what is not parsed yet is not answered yet; and the        *)
(* buffers keep within their bounds.                                         *)
THEOREM HeldAnswered == Spec => []LInv
<1>1. IInv /\ IInv' /\ LInv /\ [Next]_vars => LInv'
    <2>1. IInv /\ IInv' /\ LInv /\ Next => LInv'
        BY Steps
    <2> QED
        BY <2>1, StutterLInv
<1> QED
    BY <1>1, InitLInv, Invariance, PTL DEF Spec

(* The limits usbip-server sets itself hold together, whatever the device    *)
(* and the client do: s->nurbs is the number of URBs held, never above       *)
(* USBIP_MAX_URBS; the output buffer stays within its high-water mark, one   *)
(* client's URBs and one read; and buffered output always has its watch.     *)
THEOREM LimitsKept == Spec => []WithinLimits
<1>1. IInv /\ LInv => WithinLimits
    <2> SUFFICES ASSUME IInv, LInv PROVE WithinLimits
        OBVIOUS
    <2>1. ClientHeld = Pending
        BY HeldPending
    <2>2. UrbsCounted
        BY <2>1 DEF LInv, Counted, UrbsCounted, Pending
    <2> QED
        BY <2>2 DEF WithinLimits, LInv, IInv
<1> QED
    BY <1>1, HeldAnswered, Invariance, PTL
-----------------------------------------------------------------------------
(* The contract, step by step: what the client sees of the server's state.   *)
Link == IF conn = "NONE" THEN "down" ELSE IF conn = "ATTACHED" THEN "imported" ELSE "up"

Queue == [k \in Keys |-> IF conn = "ATTACHED" THEN Order(ep[k]) ELSE <<>>]

\* A step of the contract, of the client's view.
ConnectView == Link = "down" /\ Link' = "up" /\ Queue' = Queue /\ urb' = urb
ImportView == Link = "up" /\ Link' = "imported" /\ Queue' = Queue /\ urb' = urb
CloseView ==
    /\ Link # "down" /\ Link' = "down" /\ Queue' = [k \in Keys |-> <<>>]
    /\ urb' = [u \in Seqnums |-> IF urb[u] = "pending" THEN "dropped" ELSE urb[u]]
AcceptView(u) ==
    /\ Link = "imported" /\ Link' = Link /\ urb[u] = "new"
    /\ Queue' = [Queue EXCEPT ![EpOf[u]] = Append(@, u)]
    /\ urb' = [urb EXCEPT ![u] = "pending"]
AcceptAndAnswerView(u) ==
    /\ Link = "imported" /\ Link' = Link /\ urb[u] = "new"
    /\ Queue[EpOf[u]] = <<>> /\ Queue' = Queue
    /\ urb' = [urb EXCEPT ![u] = "done"]
UnlinkView(u) ==
    /\ urb[u] = "pending" /\ Link' = Link
    /\ \E i \in 1 .. Len(Queue[EpOf[u]]) :
          /\ Queue[EpOf[u]][i] = u
          /\ Queue' = [Queue EXCEPT ![EpOf[u]] = RemoveAt(@, i)]
    /\ urb' = [urb EXCEPT ![u] = "unlinked"]
AnswerView(n) ==
    /\ \A k \in Keys : n[k] <= Len(Queue[k])
    /\ Queue' = [k \in Keys |-> Rest(Queue[k], n[k])]
    /\ urb' = [u \in Seqnums |->
          IF \E k \in Keys : \E i \in 1 .. n[k] : Queue[k][i] = u THEN "done" ELSE urb[u]]
    /\ Link' = Link

View ==
    \/ ConnectView \/ ImportView \/ CloseView
    \/ \E u \in Seqnums : AcceptView(u) \/ AcceptAndAnswerView(u) \/ UnlinkView(u)
    \/ \E n \in [Keys -> UNION {0 .. Len(Queue[k]) : k \in Keys}] : AnswerView(n)
    \/ Link' = Link /\ Queue' = Queue /\ urb' = urb

(* The view is the refinement mapping.                                       *)
LEMMA ViewIsContract ==
    ASSUME TypeOK, TypeOK', View
    PROVE  [Contract!CNext]_(Contract!cvars)
<1>1. /\ conn \in {"NONE", "OP", "ENUMERATING", "ATTACHED"}
      /\ conn' \in {"NONE", "OP", "ENUMERATING", "ATTACHED"}
    BY DEF TypeOK
<1>2. /\ Link = CASE conn = "NONE" -> "down"
                  [] conn = "ATTACHED" -> "imported"
                  [] OTHER -> "up"
      /\ Link' = (CASE conn = "NONE" -> "down"
                  [] conn = "ATTACHED" -> "imported"
                  [] OTHER -> "up")'
    BY <1>1 DEF Link
<1>3. CASE ConnectView
    BY <1>2, <1>3, Zenon DEF ConnectView, Queue, Contract!CNext, Contract!Connect
<1>4. CASE ImportView
    BY <1>2, <1>4, Zenon DEF ImportView, Queue, Contract!CNext, Contract!Import
<1>5. CASE CloseView
    BY <1>2, <1>5, Zenon DEF CloseView, Queue, Contract!CNext, Contract!Close
<1>6. ASSUME NEW u \in Seqnums, AcceptView(u) PROVE Contract!CNext
    BY <1>2, <1>6, Zenon DEF AcceptView, Queue, Contract!CNext, Contract!Accept
<1>7. ASSUME NEW u \in Seqnums, AcceptAndAnswerView(u) PROVE Contract!CNext
    BY <1>2, <1>7, Zenon DEF AcceptAndAnswerView, Queue, Contract!CNext, Contract!AcceptAndAnswer
<1>8. ASSUME NEW u \in Seqnums, UnlinkView(u) PROVE Contract!CNext
    BY <1>2, <1>8, Zenon DEF UnlinkView, Queue, RemoveAt, Contract!CNext, Contract!Unlink
<1>9. ASSUME NEW n \in [Keys -> UNION {0 .. Len(Queue[k]) : k \in Keys}], AnswerView(n) PROVE Contract!CNext
    <2>1. \A k \in Keys : n[k] <= Len(Queue[k])
        BY <1>9, Zenon DEF AnswerView
    <2>2. Queue' = [k \in Keys |-> SubSeq(Queue[k], n[k] + 1, Len(Queue[k]))]
        BY <1>9, Zenon DEF AnswerView, Rest
    <2>3. urb' = [u \in Seqnums |->
              IF \E k \in Keys : \E i \in 1 .. n[k] : Queue[k][i] = u THEN "done" ELSE urb[u]]
        BY <1>9, Zenon DEF AnswerView
    <2>4. Link' = Link
        BY <1>9, Zenon DEF AnswerView
    <2>5. Contract!Answer(n)
        BY <1>2, <2>1, <2>2, <2>3, <2>4, Zenon DEF Queue, Contract!Answer
    <2> QED
        BY <2>5, Zenon DEF Queue, Contract!CNext
<1>10. CASE Link' = Link /\ Queue' = Queue /\ urb' = urb
    BY <1>2, <1>10, Zenon DEF Queue, Contract!cvars
<1> QED
    BY <1>3, <1>4, <1>5, <1>6, <1>7, <1>8, <1>9, <1>10, Zenon DEF View

(* usbip_reset_connection is the connection's close, or its beginning.       *)
LEMMA ResetView ==
    ASSUME IInv, LInv, NEW to \in {"NONE", "OP"}, ResetConnection(to),
           conn = "NONE" <=> to = "OP",
           urb' = [u \in Seqnums |-> IF u \in Pending THEN "dropped" ELSE urb[u]]
    PROVE  View
<1>1. conn' = to /\ conn \in {"NONE", "OP", "ENUMERATING", "ATTACHED"}
    BY DEF ResetConnection, IInv, TypeOK
<1>2. Queue' = [k \in Keys |-> <<>>]
    BY <1>1 DEF Queue
<1>3. CASE to = "OP"
    <2>1. Link = "down" /\ Link' = "up" /\ Queue = [k \in Keys |-> <<>>]
        BY <1>1, <1>3 DEF Link, Queue
    <2>2. urb' = [u \in Seqnums |-> urb[u]]
        BY <1>3, HeldPending
    <2>3. urb' = urb
        BY <2>2 DEF IInv, TypeOK
    <2> QED
        BY <1>2, <2>1, <2>3 DEF View, ConnectView
<1>4. CASE to = "NONE"
    <2>1. Link # "down" /\ Link' = "down"
        BY <1>1, <1>4 DEF Link
    <2>2. urb' = [u \in Seqnums |-> IF urb[u] = "pending" THEN "dropped" ELSE urb[u]]
        BY DEF Pending
    <2> QED
        BY <1>2, <2>1, <2>2 DEF View, CloseView
<1> QED
    BY <1>3, <1>4

(* The enumeration is invisible until the import succeeds.                   *)
LEMMA EnumView ==
    ASSUME IInv, EnumStep
    PROVE  View
<1>1. /\ conn \in {"OP", "ENUMERATING"} /\ urb' = urb
      /\ conn' \in {"OP", "ENUMERATING", "ATTACHED"}
      /\ conn' = "ATTACHED" => ep' = [k \in Keys |-> Idle]
    BY DEF EnumStep
<1>2. Link = "up" /\ Queue = [k \in Keys |-> <<>>]
    BY <1>1 DEF Link, Queue
<1>3. CASE conn' = "ATTACHED"
    <2>1. Link' = "imported"
        BY <1>3 DEF Link
    <2>2. \A k \in Keys : Order(ep'[k]) = <<>>
        BY <1>1, <1>3, IdleOrder
    <2>3. Queue' = [k \in Keys |-> <<>>]
        BY <1>3, <2>2 DEF Queue
    <2> QED
        BY <1>1, <1>2, <2>1, <2>3 DEF View, ImportView
<1>4. CASE conn' \in {"OP", "ENUMERATING"}
    <2>1. Link' = "up" /\ Queue' = [k \in Keys |-> <<>>]
        BY <1>4 DEF Link, Queue
    <2> QED
        BY <1>1, <1>2, <2>1 DEF View
<1> QED
    BY <1>1, <1>3, <1>4

(* A CMD_SUBMIT goes to the end of its endpoint's queue, or is answered with *)
(* nothing before it.                                                        *)
LEMMA SubmitView ==
    ASSUME IInv, NEW u \in Seqnums, SubmitStep(u), urb[u] = "new"
    PROVE  View
<1>1. PICK k \in Keys : k = EpOf[u]
    BY EpOfAssumption
<1>2. /\ conn = "ATTACHED" /\ conn' = "ATTACHED"
      /\ \A j \in Keys : j # k => ep'[j] = ep[j]
    BY <1>1 DEF SubmitStep
<1>3. /\ Link = "imported" /\ Link' = Link
      /\ Queue = [j \in Keys |-> Order(ep[j])] /\ Queue' = [j \in Keys |-> Order(ep'[j])]
    BY <1>2 DEF Link, Queue
<1>4. CASE /\ Order(ep[k]) = <<>> /\ ep'[k] = ep[k]
           /\ urb' = [urb EXCEPT ![u] = "done"]
    <2>1. \A j \in Keys : Order(ep'[j]) = Order(ep[j])
        BY <1>2, <1>4
    <2>2. Queue' = Queue /\ Queue[k] = <<>>
        BY <1>3, <1>4, <2>1
    <2>3. AcceptAndAnswerView(u)
        BY <1>1, <1>3, <1>4, <2>2 DEF AcceptAndAnswerView
    <2> QED
        BY <2>3 DEF View
<1>5. CASE /\ Order(ep'[k]) = Append(Order(ep[k]), u)
           /\ urb' = [urb EXCEPT ![u] = "pending"]
    <2>1. Queue' = [Queue EXCEPT ![k] = Append(@, u)]
        <3>1. \A j \in Keys : j # k => Order(ep'[j]) = Order(ep[j])
            BY <1>2
        <3> QED
            BY <1>3, <1>5, <3>1
    <2>2. AcceptView(u)
        BY <1>1, <1>3, <1>5, <2>1 DEF AcceptView
    <2> QED
        BY <2>2 DEF View
<1> QED
    BY <1>1, <1>4, <1>5 DEF SubmitStep

(* A CMD_UNLINK takes the URB out of its place in the queue, or is too late. *)
LEMMA UnlinkKeeps ==
    ASSUME IInv, LInv, NEW u \in Seqnums, UnlinkStep(u)
    PROVE  View
<1>1. PICK k \in Keys : k = EpOf[u]
    BY EpOfAssumption
<1>2. conn = "ATTACHED" /\ conn' = "ATTACHED"
    BY DEF UnlinkStep
<1>3. /\ Link' = Link
      /\ Queue = [j \in Keys |-> Order(ep[j])] /\ Queue' = [j \in Keys |-> Order(ep'[j])]
    BY <1>2 DEF Link, Queue
<1>4. CASE UNCHANGED <<ep, urb, nurbs>>
    <2>1. Queue' = Queue
        BY <1>3, <1>4
    <2> QED
        BY <1>3, <1>4, <2>1 DEF View
<1>5. CASE /\ u \in Held(ep[k])
           /\ \E i \in 1 .. Len(Order(ep[k])) :
                 /\ Order(ep[k])[i] = u
                 /\ Order(ep'[k]) = RemoveAt(Order(ep[k]), i)
           /\ \A j \in Keys : j # k => ep'[j] = ep[j]
           /\ urb' = [urb EXCEPT ![u] = "unlinked"]
    <2>1. PICK i \in 1 .. Len(Order(ep[k])) :
              Order(ep[k])[i] = u /\ Order(ep'[k]) = RemoveAt(Order(ep[k]), i)
        BY <1>5
    <2>2. \A j \in Keys : j # k => Order(ep'[j]) = Order(ep[j])
        BY <1>5
    <2>3. Queue[k] = Order(ep[k])
        BY <1>3
    <2>4. Queue' = [Queue EXCEPT ![k] = RemoveAt(@, i)]
        BY <1>3, <2>1, <2>2
    <2>5. urb[u] = "pending"
        <3>1. u # Internal
            BY MaxSeqAssumption DEF Seqnums, Internal
        <3> QED
            BY <1>5, <3>1 DEF LInv, Answered, Pending
    <2>6. UnlinkView(u)
        BY <1>1, <1>3, <1>5, <2>1, <2>3, <2>4, <2>5 DEF UnlinkView
    <2> QED
        BY <2>6 DEF View
<1> QED
    BY <1>1, <1>4, <1>5 DEF UnlinkStep

(* The first n of a queue.                                                   *)
LEMMA FrontSet ==
    ASSUME NEW S, NEW s \in Seq(S), NEW n \in 0 .. Len(s), NEW u
    PROVE  u \in ToSet(SubSeq(s, 1, n)) <=> \E i \in 1 .. n : s[i] = u
<1>1. \A i \in 1 .. n : s[i] \in S
    BY ElementOfSeq
<1>2. PICK q : q = SubSeq(s, 1, n)
    OBVIOUS
<1>3. Len(q) = n /\ \A i \in 1 .. n : q[i] = s[i]
    BY <1>1, <1>2, SubSeqProperties
<1>4. u \in ToSet(q) <=> \E i \in 1 .. n : q[i] = u
    BY <1>3 DEF ToSet
<1> QED
    BY <1>2, <1>3, <1>4

(* Completions are answers, in the order of submission; before the import    *)
(* there are none.                                                           *)
LEMMA CompleteKeeps ==
    ASSUME IInv, IInv', LInv, NEW n, n = [k \in Keys |-> n[k]], CompleteStep(n)
    PROVE  View
<1>1. /\ \A k \in Keys : n[k] \in 0 .. Len(Order(ep[k])) /\ Order(ep'[k]) = Rest(Order(ep[k]), n[k])
      /\ urb' = [u \in Seqnums |-> IF u \in Done(n) THEN "done" ELSE urb[u]]
      /\ conn' = conn
    BY DEF CompleteStep, UrbsComplete
<1>2. Link' = Link
    BY <1>1 DEF Link
<1>3. CASE conn # "ATTACHED"
    <2>1. Queue' = Queue
        BY <1>1, <1>3 DEF Queue
    <2>2. Done(n) = {}
        BY <1>3, HeldPending, CompletesPending
    <2>3. urb' = [u \in Seqnums |-> urb[u]]
        BY <1>1, <2>2
    <2>4. urb' = urb
        BY <2>3 DEF IInv, TypeOK
    <2> QED
        BY <1>2, <2>1, <2>4 DEF View
<1>4. CASE conn = "ATTACHED"
    <2>1. Queue = [k \in Keys |-> Order(ep[k])] /\ Queue' = [k \in Keys |-> Order(ep'[k])]
        BY <1>1, <1>4 DEF Queue
    <2>2. \A k \in Keys : Queue[k] = Order(ep[k])
        BY <2>1
    <2>3. Queue' = [k \in Keys |-> Rest(Queue[k], n[k])]
        BY <1>1, <2>1, <2>2
    <2>4. ASSUME NEW k \in Keys
          PROVE  /\ n[k] <= Len(Queue[k]) /\ n[k] \in 0 .. Len(Queue[k])
                 /\ \A u : u \in ToSet(SubSeq(Order(ep[k]), 1, n[k]))
                              <=> \E i \in 1 .. n[k] : Queue[k][i] = u
        <3>1. PICK s \in Seq(AllUrbs) : s = Order(ep[k])
            BY AllUrbsNat, GoodOrder DEF IInv, AllGood
        <3>2. PICK j \in 0 .. Len(s) : j = n[k]
            BY <1>1, <3>1
        <3>3. \A u : u \in ToSet(SubSeq(s, 1, j)) <=> \E i \in 1 .. j : s[i] = u
            BY FrontSet
        <3>4. j <= Len(s)
            BY <3>1
        <3> QED
            BY <2>2, <3>1, <3>2, <3>3, <3>4
    <2>5. \A u : u \in Done(n) <=> \E k \in Keys : \E i \in 1 .. n[k] : Queue[k][i] = u
        <3>1. \A u : u \in Done(n)
                        <=> \E k \in Keys : u \in ToSet(SubSeq(Order(ep[k]), 1, n[k]))
            BY DEF Done
        <3> QED
            BY <2>4, <3>1
    <2>6. urb' = [u \in Seqnums |->
              IF \E k \in Keys : \E i \in 1 .. n[k] : Queue[k][i] = u THEN "done" ELSE urb[u]]
        BY <1>1, <2>5
    <2>7. AnswerView(n)
        BY <1>2, <2>3, <2>4, <2>6 DEF AnswerView
    <2>8. n \in [Keys -> UNION {0 .. Len(Queue[k]) : k \in Keys}]
        BY <2>4
    <2> QED
        BY <2>7, <2>8 DEF View
<1> QED
    BY <1>3, <1>4

(* Every step of the server is one of the contract, or none.                 *)
LEMMA StepsKeep ==
    ASSUME IInv, IInv', LInv, Next
    PROVE  View
<1>1. CASE \E to \in {"NONE", "OP"} :
              ResetConnection(to) /\ (conn = "NONE" <=> to = "OP")
    <2>1. PICK to \in {"NONE", "OP"} :
              ResetConnection(to) /\ (conn = "NONE" <=> to = "OP")
        BY <1>1
    <2>2. urb' = [u \in Seqnums |-> IF u \in Pending THEN "dropped" ELSE urb[u]]
        BY <2>1, HeldPending DEF ResetConnection, CancelAll
    <2> QED
        BY <2>1, <2>2, ResetView
<1>2. CASE EnumStep
    BY <1>2, EnumView
<1>3. CASE \E u \in Seqnums : SubmitStep(u) /\ urb[u] = "new"
    BY <1>3, SubmitView
<1>4. CASE \E u \in Seqnums : UnlinkStep(u)
    BY <1>4, UnlinkKeeps
<1>5. CASE \E n \in [Keys -> 0 .. MaxSeq] : CompleteStep(n)
    BY <1>5, CompleteKeeps
<1>6. CASE \E k \in Keys : \E n \in 1 .. Len(Order(ep[k])) :
              /\ conn = "ATTACHED"
              /\ CompleteStep([j \in Keys |-> IF j = k THEN n ELSE 0])
    <2>1. PICK k \in Keys : \E n \in 1 .. Len(Order(ep[k])) :
              CompleteStep([j \in Keys |-> IF j = k THEN n ELSE 0])
        BY <1>6
    <2>2. PICK n, f : f = [j \in Keys |-> IF j = k THEN n ELSE 0] /\ CompleteStep(f)
        BY <2>1
    <2>3. f = [j \in Keys |-> f[j]]
        BY <2>2
    <2> QED
        BY <2>2, <2>3, CompleteKeeps
<1>7. CASE UNCHANGED <<conn, ep, urb>>
    BY <1>7 DEF View, Link, Queue
<1> QED
    BY <1>1, <1>2, <1>3, <1>4, <1>5, <1>6, <1>7, Steps

(* The server keeps its contract with the client, for any endpoints, any     *)
(* number of URBs and any limits: each URB it accepts gets exactly one       *)
(* answer, in the order of submission on its endpoint, or the connection is  *)
(* closed; and no RET_SUBMIT follows a RET_UNLINK of -ECONNRESET or a close. *)
THEOREM ContractKept == Spec => KeepsContract
<1>1. Init => Contract!CInit
    <2> SUFFICES ASSUME Init PROVE Contract!CInit
        OBVIOUS
    <2>1. conn = "NONE" /\ urb = [u \in Seqnums |-> "new"]
        BY DEF Init
    <2> QED
        BY <2>1 DEF Contract!CInit
<1>2. IInv /\ IInv' /\ LInv /\ [Next]_vars => [Contract!CNext]_(Contract!cvars)
    <2> SUFFICES ASSUME IInv, IInv', LInv, [Next]_vars
                 PROVE  [Contract!CNext]_(Contract!cvars)
        OBVIOUS
    <2>1. CASE Next
        <3>1. View /\ TypeOK /\ TypeOK'
            BY <2>1, StepsKeep DEF IInv
        <3> QED
            BY <3>1, ViewIsContract
    <2>2. CASE UNCHANGED vars
        <3>1. UNCHANGED <<conn, ep, urb>>
            BY <2>2 DEF vars, urbVars
        <3> QED
            BY <3>1 DEF Contract!cvars
    <2> QED
        BY <2>1, <2>2
<1> QED
    BY <1>1, <1>2, Invariance, HeldAnswered, PTL DEF Spec, KeepsContract, Contract!CSpec
=============================================================================
