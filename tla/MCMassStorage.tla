---------------------------- MODULE MCMassStorage ----------------------------
(* Transfers of no, one and several packets: see MCMassStorage.cfg.           *)
EXTENDS MassStorage
=============================================================================
