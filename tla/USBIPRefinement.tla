-------------------------- MODULE USBIPRefinement ---------------------------
(* usbip-server implements the contract with its client.                     *)
EXTENDS USBIPServer

(* What the client sees of the server's state.                               *)
Contract == INSTANCE USBIPContract WITH
    Urbs <- Seqnums,
    link <- CASE conn = "NONE" -> "down"
              [] conn = "ATTACHED" -> "imported"
              [] OTHER -> "up",
    pending <- [k \in Keys |->
                   IF conn = "ATTACHED" THEN Order(ep[k]) ELSE <<>>],
    answer <- urb

(* The server keeps its promise to the client: each URB it accepts gets      *)
(* exactly one answer, no RET_SUBMIT follows a RET_UNLINK of -ECONNRESET or  *)
(* the close of the connection, and answers keep each endpoint's order.      *)
KeepsContract == Contract!CSpec
=============================================================================
