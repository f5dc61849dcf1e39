------------------------------ MODULE MCSflash ------------------------------
(***************************************************************************)
(* Instances of Sflash for TLC.  The geometry of a chip is 512 units of 128 *)
(* blocks; what matters of it is that there are several sectors, or one,    *)
(* that a unit holds more blocks than one write allocates, that an address  *)
(* is translated directly or through a block shared by two, and that there  *)
(* is room for the live blocks and little more, so that reclaiming never    *)
(* stops.                                                                  *)
(***************************************************************************)
EXTENDS Sflash

(* The steps of a reclaim that power may be lost before without the loss of *)
(* what was written.                                                       *)
SurvivedReclaim == {"victim", "copy", "reclaim", "erase", "sector"}

(* Those, and the steps of a write, a discard and a mount.                 *)
Survived == SurvivedReclaim \cup
  {"xlate", "xlate2", "merge", "promote", "reserve", "data", "written", "discard", "abandon"}

(* The steps before which it is not survived: see the README.              *)
HeaderStep == {"header"}
CommitStep == {"commit"}
=============================================================================
