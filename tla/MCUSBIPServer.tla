--------------------------- MODULE MCUSBIPServer ----------------------------
(* Two endpoint queues.                                                      *)
EXTENDS USBIPRefinement

MCKeys == {"ep0", "bulk"}

\* An URB the device holds and two behind it; the server enumerates on EP0.
MCEpOf == <<"bulk", "bulk", "bulk">>

\* The same with one behind it, for the liveness properties.
MCEpOfTwo == <<"bulk", "bulk">>

\* Client URBs on both queues.
MCEpOfMixed == <<"bulk", "ep0", "bulk">>
=============================================================================
