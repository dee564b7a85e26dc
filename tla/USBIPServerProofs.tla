-------------------------- MODULE USBIPServerProofs -------------------------
(* The safety of usbip-server for any endpoints, any number of URBs and any  *)
(* limits: every callback keeps the invariant of USBIPServerLemmas.          *)
EXTENDS USBIPServerLemmas

(* usbip_parse closes the connection of a client that sends nonsense.        *)
LEMMA ParseMalformedIInv ==
    ASSUME IInv, NEW m, ParseMalformed(m)
    PROVE  IInv'
<1>1. /\ ResetConnection("NONE")
      /\ parse' = "busy" /\ UNCHANGED <<device, cont, sent, enumStep>>
    BY DEF ParseMalformed, Parsing, CloseClient
<1>2. device' \in {"present", "absent"} /\ cont' \in {"none", "retry"}
    BY <1>1 DEF IInv, TypeOK
<1> QED
    BY <1>1, <1>2, ResetIInv

(* usbip_handle_op.                                                          *)
LEMMA ParseOpIInv ==
    ASSUME IInv, NEW m, ParseOp(m)
    PROVE  IInv'
<1>1. /\ conn = "OP" /\ rx # <<>> /\ rx' = Tail(rx)
      /\ parse' = "busy" /\ UNCHANGED <<device, cont, sent, nurbs, urb, bh>>
      /\ m.op \in {"DEVLIST", "IMPORT", "IMPORT_OTHER"}
    BY DEF ParseOp, Parsing
<1>2. rx' \in Seq(Messages) /\ RxFresh' /\ (ep' = ep => UrbsFresh')
    BY <1>1, TailFresh
<1>3. ep = [k \in Keys |-> Idle]
    BY <1>1 DEF IInv, Linked
<1>4. device \in {"present", "absent"} /\ cont' \in {"none", "retry"}
      /\ bh' \in Flag /\ timer \in Flag
    BY <1>1 DEF IInv, TypeOK
<1>5. CASE device = "present" /\ m.op # "IMPORT_OTHER"
    <2>1. EnumIssue(ep[EP0], m.op, 0, timer)
        BY <1>5 DEF ParseOp
    <2>2. EnumFrame
        BY <1>1, <1>2, <1>4, <1>5 DEF EnumFrame
    <2>3. m.op \in {"DEVLIST", "IMPORT"}
        BY <1>1, <1>5
    <2>4. ep[EP0] = Idle /\ \A k \in Keys : k # EP0 => ep[k] = Idle
        BY <1>3, KeysAssumption
    <2> QED
        BY <1>4, <2>1, <2>2, <2>3, <2>4, EnumIssueIInv
<1>6. CASE ~(device = "present" /\ m.op # "IMPORT_OTHER")
    <2>1. Send(1) /\ UNCHANGED <<conn, ep, timer, enumOp, enumStep, enumerated>>
        BY <1>6 DEF ParseOp, enumVars
    <2>2. tx' \in Nat /\ watch' \in Flag /\ OutputWatched'
        BY <2>1, SendOutput
    <2>3. TypeOK'
        BY <1>1, <1>2, <1>4, <2>1, <2>2 DEF IInv, TypeOK
    <2>4. AllGood' /\ WaitersRetried' /\ Linked' /\ Present'
        BY <1>1, <2>1 DEF IInv, AllGood, WaitersRetried, Linked, Present
    <2> QED
        BY <1>2, <2>1, <2>2, <2>3, <2>4 DEF IInv
<1> QED
    BY <1>5, <1>6

(* usbip_handle_submit: the URB is later than every one that is held.        *)
LEMMA ParseSubmitIInv ==
    ASSUME IInv, NEW m, ParseSubmit(m)
    PROVE  IInv'
<1>1. /\ conn = "ATTACHED" /\ rx # <<>> /\ m = Head(rx) /\ m.op = "SUBMIT"
      /\ parse' = "busy" /\ UNCHANGED <<device, cont, sent, enumStep>>
      /\ HandleSubmit(m)
    BY DEF ParseSubmit, Parsing
<1>2. device' \in {"present", "absent"} /\ cont' \in {"none", "retry"}
    BY <1>1 DEF IInv, TypeOK
<1>3. CASE nurbs >= MAX_URBS
    <2>1. ResetConnection("NONE")
        BY <1>1, <1>3 DEF HandleSubmit, CloseClient
    <2> QED
        BY <1>1, <1>2, <2>1, ResetIInv
<1>4. CASE ~(nurbs >= MAX_URBS)
    <2> DEFINE k == EpOf[m.n]
               e == ep[k]
    <2>1. PICK r \in Responses :
            /\ ep' = [ep EXCEPT ![k] = UrbSubmit(e, m.n, r)]
            /\ IF Completes(e, r)
               THEN /\ urb' = [urb EXCEPT ![m.n] = "done"]
                    /\ Send(1)
                    /\ UNCHANGED <<nurbs, timer>>
               ELSE /\ urb' = [urb EXCEPT ![m.n] = "pending"]
                    /\ nurbs' = nurbs + 1
                    /\ timer' = IF ep'[k].waiting # e.waiting
                                THEN "on" ELSE timer
                    /\ UNCHANGED outVars
            /\ rx' = Tail(rx)
            /\ UNCHANGED <<conn, bh, enumOp, enumerated>>
        BY <1>1, <1>4, ZenonT(30) DEF HandleSubmit
    <2>2. /\ rx' \in Seq(Messages) /\ RxFresh'
          /\ m.n \in 1 .. sent
          /\ \A j \in Keys : \A v \in Held(ep[j]) : v < m.n
          /\ \A i \in 1 .. Len(rx') : rx'[i].op = "SUBMIT" => m.n < rx'[i].n
          /\ \A j \in Keys : \A v \in Held(ep[j]) : \A i \in 1 .. Len(rx') :
                rx'[i].op = "SUBMIT" => v < rx'[i].n
        BY <1>1, <2>1, TailFresh, ZenonT(30)
    <2>3. sent \in 0 .. MaxSeq /\ m.n \in Seqnums /\ m.n \in AllUrbs
          /\ m.n \in 0 .. sent /\ m.n # Internal
        BY <2>2, MaxSeqAssumption DEF IInv, TypeOK, Seqnums, AllUrbs, Internal
    <2>4. k \in Keys
        BY <2>3, EpOfAssumption
    <2> HIDE DEF k
    <2>5. /\ Good(AllUrbs, UrbSubmit(e, m.n, r))
          /\ Completes(e, r) => UrbSubmit(e, m.n, r) = e
          /\ ~Completes(e, r) =>
                 Held(UrbSubmit(e, m.n, r)) = Held(e) \cup {m.n}
        <3>1. Good(AllUrbs, e)
            BY <2>4 DEF IInv, AllGood
        <3>2. \A v \in Held(e) : v < m.n
            BY <2>2, <2>4
        <3>3. PICK u : u = m.n
            OBVIOUS
        <3>4. u \in AllUrbs /\ \A v \in Held(e) : v < u
            BY <2>3, <3>2, <3>3
        <3> HIDE DEF e
        <3>5. /\ Good(AllUrbs, UrbSubmit(e, u, r))
              /\ Completes(e, r) => UrbSubmit(e, u, r) = e
              /\ ~Completes(e, r) => Held(UrbSubmit(e, u, r)) = Held(e) \cup {u}
            BY <3>1, <3>4, AllUrbsNat, UrbSubmitGood
        <3> QED
            BY <3>3, <3>5
    <2>6. ep \in [Keys -> Endpoints(0 .. MaxSeq)]
        BY DEF IInv, TypeOK
    <2>7. ep'[k] = UrbSubmit(e, m.n, r) /\ \A j \in Keys : j # k => ep'[j] = ep[j]
        BY <2>1, <2>4, <2>6
    <2>8. ep' \in [Keys -> Endpoints(0 .. MaxSeq)] /\ AllGood'
        BY <2>1, <2>4, <2>5, <2>6, <2>7 DEF Good, AllUrbs, IInv, AllGood
    <2>9. \A j \in Keys : \A v \in Held(ep'[j]) : v \in Held(ep[j]) \/ v = m.n
        BY <2>4, <2>5, <2>7, ZenonT(30)
    <2>10. UrbsFresh'
        <3> SUFFICES ASSUME NEW j \in Keys, NEW v \in Held(ep'[j])
                     PROVE  /\ v \in 0 .. sent'
                            /\ \A i \in 1 .. Len(rx') : rx'[i].op = "SUBMIT" => v < rx'[i].n
            BY Zenon DEF UrbsFresh
        <3>1. CASE v \in Held(ep[j])
            <4>1. v \in 0 .. sent
                BY <3>1 DEF IInv, UrbsFresh
            <4> QED
                BY <1>1, <2>2, <3>1, <4>1
        <3>2. CASE v = m.n
            BY <1>1, <2>2, <2>3, <3>2
        <3> QED
            BY <2>9, <3>1, <3>2, Zenon
    <2>11. Linked'
        <3>1. \A j \in Keys : Internal \notin Held(ep[j])
            BY <1>1 DEF IInv, Linked
        <3>2. \A j \in Keys : Internal \notin Held(ep'[j])
            BY <2>3, <2>9, <3>1
        <3> QED
            BY <1>1, <2>1, <3>2 DEF IInv, Linked
    <2>12. Present'
        BY <1>1, <2>1 DEF IInv, Present
    <2>13. WaitersRetried'
        <3>1. (\E j \in Keys : ep[j].waiting # <<>>) => timer = "on" \/ bh = "on"
            BY DEF IInv, WaitersRetried
        <3>2. CASE ep'[k].waiting = e.waiting
            <4>1. \A j \in Keys : ep'[j].waiting = ep[j].waiting
                BY <2>7, <3>2
            <4>2. timer' = timer /\ bh' = bh
                BY <2>1, <3>2
            <4> QED
                BY <3>1, <4>1, <4>2 DEF WaitersRetried
        <3>3. CASE ep'[k].waiting # e.waiting
            <4>1. ~Completes(e, r)
                BY <2>5, <2>7, <3>3
            <4>2. timer' = "on"
                BY <2>1, <3>3, <4>1
            <4> QED
                BY <4>2 DEF WaitersRetried
        <3> QED
            BY <3>2, <3>3
    <2>14. /\ nurbs' \in Int /\ timer' \in Flag
           /\ urb' \in [Seqnums -> {"new", "pending", "done", "unlinked", "dropped"}]
        BY <2>1 DEF IInv, TypeOK, Flag
    <2>15. tx' \in Nat /\ watch' \in Flag /\ OutputWatched'
        <3>1. CASE Completes(e, r)
            BY <2>1, <3>1, SendOutput
        <3>2. CASE ~Completes(e, r)
            BY <2>1, <3>2 DEF IInv, TypeOK, OutputWatched, outVars
        <3> QED
            BY <3>1, <3>2
    <2>16. TypeOK'
        BY <1>1, <1>2, <2>1, <2>2, <2>8, <2>14, <2>15, Zenon DEF IInv, TypeOK
    <2> QED
        BY <2>2, <2>8, <2>10, <2>11, <2>12, <2>13, <2>15, <2>16 DEF IInv
<1> QED
    BY <1>3, <1>4

(* usbip_handle_unlink.                                                      *)
LEMMA ParseUnlinkIInv ==
    ASSUME IInv, NEW m, ParseUnlink(m)
    PROVE  IInv'
<1> DEFINE k == EpOf[m.n]
           e == ep[k]
<1>1. /\ conn = "ATTACHED" /\ rx # <<>> /\ rx' = Tail(rx)
      /\ m = Head(rx) /\ m.op = "UNLINK"
      /\ parse' = "busy" /\ UNCHANGED <<device, cont, sent, conn, timer>>
      /\ UNCHANGED <<enumOp, enumStep, enumerated>>
      /\ Send(1)
    BY DEF ParseUnlink, Parsing, enumVars
<1>2. /\ rx' \in Seq(Messages) /\ RxFresh' /\ (ep' = ep => UrbsFresh')
      /\ \A j \in Keys : \A v \in Held(ep[j]) : \A i \in 1 .. Len(rx') :
            rx'[i].op = "SUBMIT" => v < rx'[i].n
      /\ m.n \in 1 .. sent
    BY <1>1, TailFresh
<1>3. tx' \in Nat /\ watch' \in Flag /\ OutputWatched'
    BY <1>1, SendOutput
<1>4. Present'
    BY <1>1 DEF IInv, Present
<1>5. CASE m.n \notin Held(e)
    <2>1. UNCHANGED <<ep, urb, nurbs, bh>>
        BY <1>5 DEF ParseUnlink
    <2>2. TypeOK'
        BY <1>1, <1>2, <1>3, <2>1, Zenon DEF IInv, TypeOK
    <2>3. AllGood' /\ WaitersRetried' /\ Linked'
        BY <1>1, <2>1 DEF IInv, AllGood, WaitersRetried, Linked
    <2> QED
        BY <1>2, <1>3, <1>4, <2>1, <2>2, <2>3 DEF IInv
<1>6. CASE m.n \in Held(e)
    <2>1. k \in Keys
        <3>1. m.n \in Seqnums
            BY <1>2, MaxSeqAssumption DEF IInv, TypeOK, Seqnums
        <3> QED
            BY <3>1, EpOfAssumption
    <2>2. /\ ep' = [ep EXCEPT ![k] = UrbUnlink(@, m.n)]
          /\ urb' = [urb EXCEPT ![m.n] = "unlinked"]
          /\ nurbs' = nurbs - 1
          /\ bh' = IF e.held = m.n THEN "on" ELSE bh
        BY <1>6, ZenonT(30) DEF ParseUnlink
    <2> HIDE DEF k
    <2>3. /\ Good(AllUrbs, UrbUnlink(e, m.n))
          /\ Held(UrbUnlink(e, m.n)) = Held(e) \ {m.n}
          /\ UrbUnlink(e, m.n).waiting # <<>> => e.waiting # <<>> \/ e.held = m.n
        <3>1. Good(AllUrbs, e)
            BY <2>1 DEF IInv, AllGood
        <3> HIDE DEF e
        <3> QED
            BY <1>6, <3>1, AllUrbsNat, UrbUnlinkGood
    <2>4. ep \in [Keys -> Endpoints(0 .. MaxSeq)]
        BY DEF IInv, TypeOK
    <2>5. ep'[k] = UrbUnlink(e, m.n) /\ \A j \in Keys : j # k => ep'[j] = ep[j]
        BY <2>1, <2>2, <2>4
    <2>6. ep' \in [Keys -> Endpoints(0 .. MaxSeq)] /\ AllGood'
        BY <2>1, <2>2, <2>3, <2>4, <2>5, ZenonT(30) DEF Good, AllUrbs, IInv, AllGood
    <2>7. \A j \in Keys : Held(ep'[j]) \subseteq Held(ep[j])
        BY <2>3, <2>5
    <2>8. UrbsFresh'
        <3> SUFFICES ASSUME NEW j \in Keys, NEW v \in Held(ep'[j])
                     PROVE  /\ v \in 0 .. sent'
                            /\ \A i \in 1 .. Len(rx') : rx'[i].op = "SUBMIT" => v < rx'[i].n
            BY ZenonT(30) DEF UrbsFresh
        <3>1. v \in Held(ep[j])
            BY <2>7
        <3>2. v \in 0 .. sent
            BY <3>1 DEF IInv, UrbsFresh
        <3> QED
            BY <1>1, <1>2, <3>1, <3>2, Zenon
    <2>9. Linked'
        <3>1. \A j \in Keys : Internal \notin Held(ep'[j])
            BY <1>1, <2>7 DEF IInv, Linked
        <3> QED
            BY <1>1, <3>1 DEF IInv, Linked
    <2>10. WaitersRetried'
        <3> SUFFICES ASSUME NEW j \in Keys, ep'[j].waiting # <<>>
                     PROVE  timer' = "on" \/ bh' = "on"
            BY DEF WaitersRetried
        <3>1. CASE ep[j].waiting # <<>>
            <4>1. timer = "on" \/ bh = "on"
                BY <3>1 DEF IInv, WaitersRetried
            <4> QED
                BY <1>1, <2>2, <4>1
        <3>2. CASE ep[j].waiting = <<>>
            <4>1. j = k /\ e.held = m.n
                BY <2>3, <2>5, <3>2, Zenon
            <4> QED
                BY <2>2, <4>1
        <3> QED
            BY <3>1, <3>2
    <2>11. /\ nurbs' \in Int /\ bh' \in Flag
           /\ urb' \in [Seqnums -> {"new", "pending", "done", "unlinked", "dropped"}]
        <3>1. nurbs' \in Int /\ bh' \in Flag
            BY <2>2 DEF IInv, TypeOK, Flag
        <3>2. urb' \in [Seqnums -> {"new", "pending", "done", "unlinked", "dropped"}]
            BY <2>2, ZenonT(30) DEF IInv, TypeOK
        <3> QED
            BY <3>1, <3>2
    <2>12. TypeOK'
        BY <1>1, <1>2, <1>3, <2>6, <2>11 DEF IInv, TypeOK
    <2> QED
        BY <1>2, <1>3, <1>4, <2>6, <2>8, <2>9, <2>10, <2>12 DEF IInv
<1> QED
    BY <1>5, <1>6

(* The end of usbip_parse, and of the usbip_retry that may have called it.   *)
LEMMA ParseEndIInv ==
    ASSUME IInv, ParseEnd
    PROVE  IInv'
<1>1. UNCHANGED <<device, bh, rx, sent>> /\ timer \in Flag /\ bh' \in Flag
    BY DEF ParseEnd, IInv, TypeOK
<1>2. CASE cont = "retry"
    <2>1. UsbipRetry(timer)
        BY <1>2 DEF ParseEnd
    <2> QED
        BY <1>1, <2>1, UsbipRetryIInv
<1>3. CASE cont # "retry"
    <2>1. /\ parse' = "idle"
          /\ UNCHANGED <<conn, ep, nurbs, urb, timer, cont, enumOp, enumStep,
                         enumerated, tx, watch>>
        BY <1>3 DEF ParseEnd, urbVars, enumVars, outVars
    <2>2. TypeOK'
        BY <1>1, <2>1 DEF IInv, TypeOK
    <2>3. AllGood' /\ WaitersRetried' /\ Linked' /\ Present' /\ OutputWatched'
        BY <1>1, <2>1, ZenonT(30) DEF IInv, AllGood, WaitersRetried, Linked, Present, OutputWatched
    <2>4. RxFresh' /\ UrbsFresh'
        BY <1>1, <2>1 DEF IInv, RxFresh, UrbsFresh
    <2> QED
        BY <2>2, <2>3, <2>4 DEF IInv
<1> QED
    BY <1>2, <1>3

(* usbip_port_complete for the client's URBs.                                *)
LEMMA DeviceCompletesIInv ==
    ASSUME IInv, NEW k \in Keys, DeviceCompletes(k)
    PROVE  IInv'
<1>1. PICK n \in 1 .. Len(ep[k].queue), halts \in BOOLEAN :
          /\ ep' = [ep EXCEPT ![k] = PacketComplete(@, n, halts)]
          /\ UrbsComplete(ToSet(SubSeq(ep[k].queue, 1, n)))
          /\ bh' = IF halts /\ n < Len(ep[k].queue) THEN "on" ELSE bh
    BY ZenonT(30) DEF DeviceCompletes
<1>2. /\ ep[k].held # None /\ ep[k].held # Internal
      /\ UNCHANGED <<conn, device, timer, rx, parse, cont, sent,
                     enumOp, enumStep, enumerated>>
    BY DEF DeviceCompletes, inVars, enumVars
<1>3. ep \in [Keys -> Endpoints(0 .. MaxSeq)] /\ ep[k].queue \in Seq(AllUrbs)
    BY DEF IInv, TypeOK, Endpoints, AllUrbs
<1>4. /\ Good(AllUrbs, PacketComplete(ep[k], n, halts))
      /\ Held(PacketComplete(ep[k], n, halts)) \subseteq Held(ep[k])
      /\ PacketComplete(ep[k], n, halts).waiting # <<>> =>
             halts /\ n < Len(ep[k].queue)
    <2>1. Good(AllUrbs, ep[k])
        BY DEF IInv, AllGood
    <2> QED
        BY <2>1, AllUrbsNat, PacketCompleteGood, ZenonT(30)
<1>5. /\ ep'[k] = PacketComplete(ep[k], n, halts)
      /\ \A j \in Keys : j # k => ep'[j] = ep[j]
    BY <1>1, <1>3
<1>6. ep' \in [Keys -> Endpoints(0 .. MaxSeq)] /\ AllGood'
    BY <1>1, <1>3, <1>4, <1>5, ZenonT(30) DEF Good, AllUrbs, IInv, AllGood
<1>7. \A j \in Keys : Held(ep'[j]) \subseteq Held(ep[j])
    BY <1>4, <1>5, ZenonT(30)
<1>8. /\ nurbs' \in Int
      /\ urb' \in [Seqnums -> {"new", "pending", "done", "unlinked", "dropped"}]
      /\ tx' \in Nat /\ watch' \in Flag /\ OutputWatched'
    <2>1. n \in 0 .. Len(ep[k].queue)
        BY <1>3
    <2>2. ToSet(SubSeq(ep[k].queue, 1, n)) \in SUBSET AllUrbs
        BY <1>3, <2>1, FirstUrbs
    <2> QED
        BY <1>1, <2>2, CompleteOutput
<1>9. WaitersRetried'
    <2> SUFFICES ASSUME NEW j \in Keys, ep'[j].waiting # <<>>
                 PROVE  timer' = "on" \/ bh' = "on"
        BY DEF WaitersRetried
    <2>1. CASE j = k
        BY <1>1, <1>4, <1>5, <2>1
    <2>2. CASE j # k
        <3>1. timer = "on" \/ bh = "on"
            BY <1>5, <2>2 DEF IInv, WaitersRetried
        <3> QED
            BY <1>1, <1>2, <3>1
    <2> QED
        BY <2>1, <2>2
<1>10. conn = "ATTACHED"
    <2>1. conn \notin {"NONE", "OP"}
        <3>1. Idle.held = None
            BY DEF Idle
        <3> QED
            BY <1>2, <3>1 DEF IInv, Linked
    <2>2. conn # "ENUMERATING"
        <3>1. Idle.held = None
            BY DEF Idle
        <3>2. \A e : Enumerating(e)[k] = IF k = EP0 THEN e ELSE Idle
            BY DEF Enumerating
        <3> QED
            BY <1>2, <3>1, <3>2, InternalGood, ZenonT(30) DEF IInv, Linked
    <2> QED
        BY <2>1, <2>2 DEF IInv, TypeOK
<1>11. Linked'
    BY <1>2, <1>7, <1>10 DEF IInv, Linked
<1>12. Present'
    BY <1>2 DEF IInv, Present
<1>13. RxFresh' /\ UrbsFresh'
    BY <1>2, <1>7, ShrinkFresh
<1>14. bh' \in Flag
    BY <1>1 DEF IInv, TypeOK, Flag
<1>15. TypeOK'
    BY <1>2, <1>6, <1>8, <1>14 DEF IInv, TypeOK
<1> QED
    BY <1>6, <1>8, <1>9, <1>11, <1>12, <1>13, <1>15 DEF IInv

(* usbip_enum_done.                                                          *)
LEMMA DeviceCompletesInternalIInv ==
    ASSUME IInv, DeviceCompletesInternal
    PROVE  IInv'
<1>1. /\ ep[EP0].held = Internal /\ ThenParse("none")
      /\ UNCHANGED <<device, nurbs, urb, bh, rx, sent>>
    BY DEF DeviceCompletesInternal
<1>2. /\ conn = "ENUMERATING"
      /\ ep = Enumerating(WithDevice(<<Internal>>))
      /\ PacketComplete(ep[EP0], 1, FALSE) = Idle
    BY <1>1, InternalWithDevice, Zenon
<1>3. \/ /\ ep' = [ep EXCEPT ![EP0] = Idle]
         /\ EnumFinish(enumOp, FALSE)
         /\ UNCHANGED <<timer, enumStep>>
      \/ EnumIssue(Idle, enumOp, enumStep + 1, timer)
    BY <1>2, Zenon DEF DeviceCompletesInternal
<1>4. enumOp \in {"DEVLIST", "IMPORT"} /\ enumStep + 1 \in 0 .. 4
      /\ enumStep \in 0 .. 4 /\ timer \in Flag
    BY <1>2 DEF IInv, Linked, TypeOK
<1>5. EnumFrame
    <2>1. device = "present"
        BY <1>2 DEF IInv, Present
    <2>2. parse' \in {"idle", "reading", "busy"} /\ cont' \in {"none", "retry"}
        BY <1>1 DEF ThenParse
    <2>3. rx' \in Seq(Messages) /\ RxFresh' /\ bh' \in Flag
        BY <1>1, Zenon DEF IInv, TypeOK, RxFresh
    <2> QED
        BY <1>1, <2>1, <2>2, <2>3 DEF EnumFrame
<1>6. \A k \in Keys : k # EP0 => ep[k] = Idle
    BY <1>2 DEF Enumerating
<1>7. CASE EnumIssue(Idle, enumOp, enumStep + 1, timer)
    BY <1>4, <1>5, <1>6, <1>7, EnumIssueIInv
<1>8. CASE /\ ep' = [ep EXCEPT ![EP0] = Idle]
           /\ EnumFinish(enumOp, FALSE)
           /\ UNCHANGED <<timer, enumStep>>
    <2>1. ep \in [Keys -> Endpoints(0 .. MaxSeq)]
        BY DEF IInv, TypeOK
    <2>2. ep' = [k \in Keys |-> Idle]
        BY <1>6, <1>8, <2>1, ZenonT(30)
    <2>3. /\ enumOp' = "none" /\ conn' = "OP" /\ enumerated' = "no"
          /\ timer' \in Flag /\ enumStep' \in 0 .. 4 /\ Send(1)
        BY <1>4, <1>8 DEF EnumFinish
    <2> QED
        BY <1>5, <2>2, <2>3, EnumFinishIInv
<1> QED
    BY <1>3, <1>7, <1>8, Zenon
-----------------------------------------------------------------------------
(* Every step of the server keeps the inductive invariant.                   *)
THEOREM NextIInv == IInv /\ [Next]_vars => IInv'
<1> SUFFICES ASSUME IInv, [Next]_vars PROVE IInv'
    OBVIOUS
<1>1. ASSUME Read \/ ReadMore PROVE IInv'
    BY <1>1, ReceiveIInv DEF Read, ReadMore
<1>2. ASSUME NEW m \in Messages, ParseMalformed(m) PROVE IInv'
    BY <1>2, ParseMalformedIInv
<1>3. ASSUME NEW m \in Messages, ParseOp(m) PROVE IInv'
    BY <1>3, ParseOpIInv
<1>4. ASSUME NEW m \in Messages, ParseSubmit(m) PROVE IInv'
    BY <1>4, ParseSubmitIInv
<1>5. ASSUME NEW m \in Messages, ParseUnlink(m) PROVE IInv'
    BY <1>5, ParseUnlinkIInv
<1>6. ASSUME ParseEnd PROVE IInv'
    BY <1>6, ParseEndIInv
<1>7. ASSUME RetryTimer PROVE IInv'
    <2>1. /\ UsbipRetry("off") /\ UNCHANGED <<device, bh, rx, sent>>
          /\ "off" \in Flag /\ bh' \in Flag
        BY <1>7 DEF RetryTimer, Flag, IInv, TypeOK
    <2> QED
        BY <2>1, UsbipRetryIInv
<1>8. ASSUME RetryBh PROVE IInv'
    <2>1. /\ UsbipRetry(timer) /\ UNCHANGED <<device, rx, sent>>
          /\ timer \in Flag /\ bh' \in Flag
        BY <1>8 DEF RetryBh, Flag, IInv, TypeOK
    <2> QED
        BY <2>1, UsbipRetryIInv
<1>9. ASSUME NEW k \in Keys, DeviceCompletes(k) PROVE IInv'
    BY <1>9, DeviceCompletesIInv
<1>10. ASSUME DeviceCompletesInternal PROVE IInv'
    BY <1>10, DeviceCompletesInternalIInv
<1>11. ASSUME Opened \/ Closed \/ ResetHold PROVE IInv'
    <2>1. /\ ResetConnection("OP") \/ ResetConnection("NONE")
          /\ UNCHANGED <<device, parse, cont, sent, enumStep>>
        BY <1>11 DEF Opened, Closed, ResetHold, CloseClient
    <2>2. /\ device' \in {"present", "absent"} /\ cont' \in {"none", "retry"}
          /\ parse' \in {"idle", "reading", "busy"}
        BY <2>1 DEF IInv, TypeOK
    <2> QED
        BY <2>1, <2>2, ResetIInv
<1>12. ASSUME PortDetach PROVE IInv'
    <2>1. device' = "absent" /\ UNCHANGED <<parse, cont, sent, enumStep>>
        BY <1>12 DEF PortDetach
    <2>2. CASE conn \in {"ATTACHED", "ENUMERATING"}
        <3>1. ResetConnection("NONE")
            BY <1>12, <2>2 DEF PortDetach, CloseClient
        <3>2. cont' \in {"none", "retry"} /\ parse' \in {"idle", "reading", "busy"}
            BY <2>1 DEF IInv, TypeOK
        <3> QED
            BY <2>1, <3>1, <3>2, ResetIInv
    <2>3. CASE conn \notin {"ATTACHED", "ENUMERATING"}
        <3>1. /\ enumerated' = "no"
              /\ UNCHANGED <<conn, ep, nurbs, urb, timer, bh, rx, enumOp, tx, watch>>
            BY <1>12, <2>3 DEF PortDetach, urbVars, retryVars, outVars
        <3>2. TypeOK'
            BY <2>1, <3>1 DEF IInv, TypeOK
        <3>3. AllGood' /\ WaitersRetried' /\ Linked' /\ OutputWatched'
            BY <2>1, <3>1, ZenonT(30) DEF IInv, AllGood, WaitersRetried, Linked, OutputWatched
        <3>4. Present'
            BY <2>3, <3>1 DEF Present
        <3>5. RxFresh' /\ UrbsFresh'
            BY <2>1, <3>1 DEF IInv, RxFresh, UrbsFresh
        <3> QED
            BY <3>2, <3>3, <3>4, <3>5 DEF IInv
    <2> QED
        BY <2>2, <2>3
<1>13. ASSUME Wakeup \/ PortAttach \/ TxReady \/ UNCHANGED vars PROVE IInv'
    <2>1. /\ UNCHANGED <<conn, ep, nurbs, urb, timer, rx, parse, cont, sent,
                         enumOp, enumStep, enumerated>>
          /\ bh' \in {bh, "on"} /\ device' \in {device, "present"}
        BY <1>13 DEF Wakeup, PortAttach, TxReady, vars, urbVars, retryVars,
                     inVars, enumVars, outVars
    <2>2. \/ UNCHANGED <<tx, watch>>
          \/ tx' \in 0 .. tx /\ watch' = IF tx' > 0 THEN "on" ELSE "off"
        BY <1>13 DEF Wakeup, PortAttach, TxReady, vars, outVars
    <2>3. tx \in Nat /\ watch \in Flag
        BY DEF IInv, TypeOK
    <2>4. tx' \in Nat /\ watch' \in Flag
        BY <2>2, <2>3 DEF Flag
    <2>5. OutputWatched'
        BY <2>2, <2>3 DEF IInv, OutputWatched
    <2>6. bh' \in Flag /\ device' \in {"present", "absent"}
        BY <2>1 DEF IInv, TypeOK, Flag
    <2>7. TypeOK'
        BY <2>1, <2>4, <2>6 DEF IInv, TypeOK
    <2>8. AllGood' /\ WaitersRetried' /\ Linked' /\ Present'
        BY <2>1 DEF IInv, AllGood, WaitersRetried, Linked, Present
    <2>9. RxFresh' /\ UrbsFresh'
        BY <2>1, Zenon DEF IInv, RxFresh, UrbsFresh
    <2> QED
        BY <2>5, <2>7, <2>8, <2>9 DEF IInv
<1> QED
    BY <1>1, <1>2, <1>3, <1>4, <1>5, <1>6, <1>7, <1>8, <1>9, <1>10, <1>11,
       <1>12, <1>13
    DEF Next, ParseStep

(* The inductive invariant holds in every state the server reaches.          *)
THEOREM Invariance == Spec => []IInv
<1>1. Init => IInv
    BY InitIInv
<1>2. IInv /\ [Next]_vars => IInv'
    BY NextIInv
<1> QED
    BY <1>1, <1>2, PTL DEF Spec

(* The server's variables keep their types (USBIPServerState).               *)
THEOREM TypeCorrect == Spec => []TypeOK
<1>1. IInv => TypeOK
    BY DEF IInv
<1> QED
    BY <1>1, Invariance, PTL

(* On every endpoint the URBs are served in the order the client submitted   *)
(* them (usbip_urb_submit, usbip_retry, usbip_requeue_behind,                *)
(* usbip_port_complete).                                                     *)
THEOREM SubmissionOrder == Spec => []EndpointOrder
<1>1. IInv => EndpointOrder
    BY DEF IInv, AllGood, Good, EndpointOrder
<1> QED
    BY <1>1, Invariance, PTL

(* The device always works on the oldest URB it was handed and no URB waits  *)
(* on an endpoint it is busy with (usbip_requeue_behind, usbip_retry).       *)
THEOREM NoQueueStuck == Spec => []QueuesMove
<1>1. IInv => QueuesMove
    BY DEF IInv, AllGood, Good, QueuesMove
<1> QED
    BY <1>1, Invariance, PTL

(* A NAKed URB is going to be tried again (usbip_arm_retry, retry_bh).       *)
THEOREM NoUrbForgotten == Spec => []WaitersRetried
<1>1. IInv => WaitersRetried
    BY DEF IInv
<1> QED
    BY <1>1, Invariance, PTL

(* Buffered replies have a write watch (usbip_flush).                        *)
THEOREM NoReplyStuck == Spec => []OutputWatched
<1>1. IInv => OutputWatched
    BY DEF IInv
<1> QED
    BY <1>1, Invariance, PTL

(* Nothing but its own URB is held while the server enumerates, and nothing  *)
(* before the import or without a client (usbip_enumerate,                   *)
(* usbip_reset_connection).                                                  *)
THEOREM EnumeratesAlone == Spec => []EnumerationHeld
<1>1. ASSUME IInv PROVE EnumerationHeld
    <2>1. (conn = "ENUMERATING") = (enumOp # "none")
        BY <1>1 DEF IInv, Linked
    <2>2. ASSUME conn = "ENUMERATING"
          PROVE  /\ Order(ep[EP0]) = <<Internal>> /\ enumStep < 4
                 /\ \A k \in Keys \ {EP0} : Order(ep[k]) = <<>>
        <3>1. PICK e \in {WithDevice(<<Internal>>), AllWaiting(<<Internal>>)} :
                  ep = Enumerating(e)
            BY <1>1, <2>2 DEF IInv, Linked
        <3>2. ep[EP0] = e /\ \A k \in Keys \ {EP0} : ep[k] = Idle
            BY <3>1, KeysAssumption DEF Enumerating
        <3>3. <<Internal>> \o <<>> = <<Internal>> /\ <<>> \o <<Internal>> = <<Internal>>
            BY ConcatEmptySeq DEF Internal
        <3>4. Order(e) = <<Internal>>
            BY <3>3, InternalGood, ZenonT(30) DEF Order
        <3>5. Order(Idle) = <<>>
            BY DEF Order, Idle
        <3>6. enumStep < 4
            BY <1>1, <2>2 DEF IInv, Linked
        <3> QED
            BY <3>2, <3>4, <3>5, <3>6
    <2>3. ASSUME conn \in {"NONE", "OP"} PROVE HeldUrbs = {}
        <3>1. \A k \in Keys : Held(ep[k]) = {}
            BY <1>1, <2>3, AllIdleGood DEF IInv, Linked
        <3> QED
            BY <3>1 DEF HeldUrbs
    <2>4. ASSUME conn = "ATTACHED" PROVE Internal \notin HeldUrbs
        <3>1. \A k \in Keys : Internal \notin Held(ep[k])
            BY <1>1, <2>4 DEF IInv, Linked
        <3> QED
            BY <3>1 DEF HeldUrbs
    <2> QED
        BY <2>1, <2>2, <2>3, <2>4 DEF EnumerationHeld
<1> QED
    BY <1>1, Invariance, PTL

(* URBs are held only for a device that is there, and a client only imports  *)
(* a device that was enumerated (usbip_port_detach, usbip_enum_finish).      *)
THEOREM NeverWithoutDevice == Spec => []DeviceThere
<1>1. ASSUME IInv PROVE DeviceThere
    <2>1. ASSUME HeldUrbs # {} PROVE device = "present"
        <3>1. CASE conn \in {"NONE", "OP"}
            <4>1. \A k \in Keys : Held(ep[k]) = {}
                BY <1>1, <3>1, AllIdleGood DEF IInv, Linked
            <4> QED
                BY <2>1, <4>1 DEF HeldUrbs
        <3>2. CASE conn \in {"ENUMERATING", "ATTACHED"}
            BY <1>1, <3>2 DEF IInv, Present
        <3> QED
            BY <1>1, <3>1, <3>2 DEF IInv, TypeOK
    <2> QED
        BY <1>1, <2>1 DEF DeviceThere, IInv, Present
<1> QED
    BY <1>1, Invariance, PTL

(* No URB is stranded, neither behind a packet that was cancelled or stalled *)
(* nor after a NAK.                                                          *)
THEOREM NeverStranded == Spec => []NothingStranded
BY NoQueueStuck, NoUrbForgotten, PTL DEF NothingStranded

(* What is held is what the connection and the port allow.                   *)
THEOREM HoldsOnlyItsOwn == Spec => []HeldRightly
BY EnumeratesAlone, NeverWithoutDevice, PTL DEF HeldRightly
=============================================================================
