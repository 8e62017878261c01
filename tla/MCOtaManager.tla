---------------------------- MODULE MCOtaManager ----------------------------
(***************************************************************************)
(* OtaManager on a small instance: four sizes of which two are acceptable   *)
(* (0 and 3 are not), two CRC32 values, two chunk counts.                  *)
(***************************************************************************)
EXTENDS OtaManager

MCSizes == {0, 1, 2, 3}
MCCrcs == {0, 7}
MCTotals == {0, 2}
=============================================================================
