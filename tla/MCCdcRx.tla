------------------------------- MODULE MCCdcRx -------------------------------
(* A ring of two packets and a slot, so that turns end at three places, and   *)
(* packets of any length: see MCCdcRx.cfg.                                   *)
EXTENDS CdcRx
=============================================================================
