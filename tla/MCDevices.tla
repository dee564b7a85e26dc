------------------------------ MODULE MCDevices -----------------------------
(* Devices that serve requests, side by side: the dwc2-gadget device (session, *)
(* bus reset and control endpoint, a bulk IN and a bulk OUT endpoint with      *)
(* packets of 2 bytes), the RNG200 (with a backend that answers in full, and   *)
(* one that may deliver less) and the property mailbox.  They share no state,  *)
(* so what one of them does while the others rest is all it can do: AllInit    *)
(* picks the one that moves.  (The data endpoints share nothing with the rest  *)
(* of the gadget as long as the host is attached.)                             *)
EXTENDS Gadget, Rng200, Property

VARIABLES part, in_ep, in_gnak, in_host, in_armed, in_asked, ended,
          out_ep, out_gnak, out_host, out_armed, out_asked, filled

\* Transfers of several packets, odd ones that end short, and full ones closed
\* by an empty packet
MCXfers == {[xfer |-> 0, pkt |-> 1], [xfer |-> 2, pkt |-> 1], [xfer |-> 3, pkt |-> 2],
            [xfer |-> 4, pkt |-> 2], [xfer |-> 4, pkt |-> 3]}

In == INSTANCE GadgetIn WITH Mps <- 2, Periodic <- 0, Xfers <- MCXfers,
          Rooms <- {0, 1, 2, 4, 5}, MaxArmed <- 3, MaxAsked <- 3,
          ep <- in_ep, gnak <- in_gnak, host <- in_host, armed <- in_armed, asked <- in_asked
Out == INSTANCE GadgetOut WITH Mps <- 2, Pkts <- {1, 2, 3}, Lens <- {0, 1, 2, 4, 5},
           MaxArmed <- 3, MaxAsked <- 3,
           ep <- out_ep, gnak <- out_gnak, host <- out_host, armed <- out_armed,
           asked <- out_asked

\* Requests of up to two tags, and an end tag somewhere
T(t, size, a, b) == [tag |-> t, size |-> size, a |-> a, b |-> b, at |-> 2]
FixedTags == {T(t, Fixed[t][1], 0, 0) : t \in DOMAIN Fixed}
SetTags == {T(t, 2, v, 0) : t \in DOMAIN SetTag, v \in {0, 3}}
GetTags == {T(t, 2, 0, 0) : t \in DOMAIN GetTag}
LineTags == {T("command_line", s, 0, 0) : s \in {1, 3}}
\* Rows within an area, and rows that run past its end; 90, 91 locks the OTP
OtpTags ==
    {T(t, 3, 0, 1) : t \in {"set_customer", "set_key"}}
    \cup {T(t, 4, 1, 2) : t \in {"get_customer", "get_key", "set_customer", "set_key"}}
    \cup {T("set_customer", 2, 90, 91), T("set_customer", 2, 90, 1)}
End == T("end", 0, 0, 0)
\* One behind the other, from the third word on
Place(s) == [i \in 1 .. Len(s) |-> IF i = 1 THEN s[1] ELSE [s[i] EXCEPT !.at = EndOf(s[1])]]
MCRequests ==
    {Place(s) : s \in
        {<<>>} \cup {<<t, End>> : t \in SetTags \cup GetTags \cup OtpTags \cup LineTags}
        \cup {<<t>> : t \in FixedTags}
        \cup (SetTags \X (SetTags \cup GetTags))
        \cup ((OtpTags \cup LineTags) \X (OtpTags \cup LineTags))
        \cup {<<End, t>> : t \in SetTags \cup LineTags}}
in_vars == <<in_ep, in_gnak, in_host, in_armed, in_asked, ended>>
out_vars == <<out_ep, out_gnak, out_host, out_armed, out_asked, filled>>
all_vars == <<part, gadget_vars, in_vars, out_vars, rng_vars, mailbox_vars>>

AllInit ==
    /\ part \in {"control", "in", "out", "rng", "mailbox"}
    /\ GadgetInit /\ In!Init /\ Out!Init /\ RngInit /\ MailboxInit
    /\ part # "rng" => short = 0

Control ==
    /\ part = "control" /\ GadgetNext
    /\ UNCHANGED <<part, in_vars, out_vars, rng_vars, mailbox_vars>>
EndpointIn ==
    /\ part = "in" /\ In!Next
    /\ UNCHANGED <<part, gadget_vars, out_vars, rng_vars, mailbox_vars>>
EndpointOut ==
    /\ part = "out" /\ Out!Next
    /\ UNCHANGED <<part, gadget_vars, in_vars, rng_vars, mailbox_vars>>
Random ==
    /\ part = "rng" /\ RngNext
    /\ UNCHANGED <<part, gadget_vars, in_vars, out_vars, mailbox_vars>>
Request ==
    /\ part = "mailbox" /\ MailboxNext
    /\ UNCHANGED <<part, gadget_vars, in_vars, out_vars, rng_vars>>

AllNext == Control \/ EndpointIn \/ EndpointOut \/ Random \/ Request

AllSpec == AllInit /\ [][AllNext]_all_vars
-----------------------------------------------------------------------------
(* What dwc2_ep_in_packets and dwc2_ep_out_packets hand over is what a wire   *)
(* would carry: the host sees the guest's bytes cut into the packets it       *)
(* armed, the guest gets the host's, both end transfers on short packets      *)
(* only, and no transfer that could go on is left waiting.                    *)
DataOnWire ==
    /\ In!TypeOK /\ In!InOnWire /\ In!NoneLeftWaiting
    /\ Out!TypeOK /\ Out!OutOnWire /\ Out!AnsweredWhenTaken
=============================================================================
