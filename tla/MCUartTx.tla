------------------------------ MODULE MCUartTx ------------------------------
(* A ring of two packets, writes longer than it, and bytes enough for it to *)
(* wrap: see MCUartTx.cfg.                                                 *)
EXTENDS UartTx
=============================================================================
