------------------------------ MODULE MCPendSV ------------------------------
(* Four handlers on three levels of priority; two of them share a level and *)
(* one shares the level of PendSV, so some nest and some cannot.           *)
EXTENDS PendSV, TLC

CONSTANTS tick, uart, usb, gpio

MCIsr == {tick, uart, usb, gpio}
MCIsrPriority == (tick :> 3) @@ (uart :> 2) @@ (usb :> 1) @@ (gpio :> 2)
=============================================================================
