------------------------------- MODULE MCCdcTx -------------------------------
(* A ring of two packets that wraps and fills, bytes too few for a packet, a *)
(* handed buffer, and a host that comes and goes: see MCCdcTx.cfg.           *)
EXTENDS CdcTx
=============================================================================
