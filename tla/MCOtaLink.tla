------------------------------ MODULE MCOtaLink ------------------------------
(***************************************************************************)
(* OtaLink with a host that wants one of three images: two of as many       *)
(* chunks, whose chunks differ in their contents only, and an empty one.   *)
(***************************************************************************)
EXTENDS OtaLink

CONSTANTS a, b

MCSizes == {0, 1, 2}
MCCrcs == {0, 7, 9}
MCTotals == {0, 2}
MCHostImages == {[size |-> 1, crc |-> 7, total |-> 2, data |-> a],
                 [size |-> 2, crc |-> 0, total |-> 2, data |-> b],
                 [size |-> 1, crc |-> 9, total |-> 0, data |-> a]}
=============================================================================
