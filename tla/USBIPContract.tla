--------------------------- MODULE USBIPContract ----------------------------
(* What usbip-server promises a USB/IP client about its URBs, with none of   *)
(* the server's machinery: every URB accepted from an imported device gets   *)
(* one answer, RET_SUBMIT or a RET_UNLINK of -ECONNRESET, or the connection  *)
(* is closed; RET_SUBMITs of an endpoint come in the order of submission.    *)
EXTENDS Integers, Sequences

CONSTANTS
    Keys,     \* endpoint queues
    Urbs,     \* the URBs the client may submit
    EpOf      \* the endpoint of each

VARIABLES
    link,     \* "down", "up" (connected), or "imported"
    pending,  \* the URBs accepted and not yet answered, by endpoint
    answer    \* the answer each URB got

cvars == <<link, pending, answer>>

CInit ==
    /\ link = "down"
    /\ pending = [k \in Keys |-> <<>>]
    /\ answer = [u \in Urbs |-> "new"]

Connect ==
    /\ link = "down" /\ link' = "up"
    /\ UNCHANGED <<pending, answer>>

Import ==
    /\ link = "up" /\ link' = "imported"
    /\ UNCHANGED <<pending, answer>>

\* A CMD_SUBMIT is accepted, at the end of its endpoint's queue.
Accept(u) ==
    /\ link = "imported" /\ answer[u] = "new"
    /\ pending' = [pending EXCEPT ![EpOf[u]] = Append(@, u)]
    /\ answer' = [answer EXCEPT ![u] = "pending"]
    /\ UNCHANGED link

\* A CMD_SUBMIT is answered at once, which only the next in line can be.
AcceptAndAnswer(u) ==
    /\ link = "imported" /\ answer[u] = "new"
    /\ pending[EpOf[u]] = <<>>
    /\ answer' = [answer EXCEPT ![u] = "done"]
    /\ UNCHANGED <<link, pending>>

\* RET_SUBMITs for the n[k] oldest URBs of each endpoint k.
Answer(n) ==
    /\ \A k \in Keys : n[k] <= Len(pending[k])
    /\ pending' = [k \in Keys |-> SubSeq(pending[k], n[k] + 1, Len(pending[k]))]
    /\ answer' = [u \in Urbs |->
          IF \E k \in Keys : \E i \in 1 .. n[k] : pending[k][i] = u
          THEN "done" ELSE answer[u]]
    /\ UNCHANGED link

\* A RET_UNLINK of -ECONNRESET.
Unlink(u) ==
    /\ answer[u] = "pending"
    /\ \E i \in 1 .. Len(pending[EpOf[u]]) :
          /\ pending[EpOf[u]][i] = u
          /\ pending' = [pending EXCEPT ![EpOf[u]] =
                          SubSeq(@, 1, i - 1) \o SubSeq(@, i + 1, Len(@))]
    /\ answer' = [answer EXCEPT ![u] = "unlinked"]
    /\ UNCHANGED link

\* The connection closes: the device is gone, or the client broke the protocol.
Close ==
    /\ link # "down" /\ link' = "down"
    /\ pending' = [k \in Keys |-> <<>>]
    /\ answer' = [u \in Urbs |->
          IF answer[u] = "pending" THEN "dropped" ELSE answer[u]]

CNext ==
    \/ Connect \/ Import \/ Close
    \/ \E u \in Urbs : Accept(u) \/ AcceptAndAnswer(u) \/ Unlink(u)
    \/ \E n \in [Keys -> UNION {0 .. Len(pending[k]) : k \in Keys}] : Answer(n)

CSpec == CInit /\ [][CNext]_cvars
=============================================================================
