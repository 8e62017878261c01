--------------------------- MODULE FirmwareUpdate ---------------------------
(***************************************************************************)
(* What the device side of a firmware update promises, without flash,      *)
(* reports or failures spelled out: an update is announced, its chunks     *)
(* are accepted one at a time, and it is installed only when the chunks    *)
(* counted are the ones announced.  An update may be given up at any time, *)
(* and a new one may replace it; neither touches what is installed.        *)
(***************************************************************************)
EXTENDS Integers

CONSTANTS Updates,        \* what may be announced: records with a field total
          Successor(_)    \* the next value of the chunk counter

VARIABLES phase,       \* "none", "receiving" or "installed"
          announced,   \* the update under way: {} or the set of it
          accepted,    \* chunks counted
          installed    \* the update installed last: {} or the set of it

vars == <<phase, announced, accepted, installed>>

Init == phase = "none" /\ announced = {} /\ accepted = 0 /\ installed = {}

Announce ==
    \E update \in Updates :
        /\ phase' = "receiving"
        /\ announced' = {update}
        /\ accepted' = 0
        /\ UNCHANGED installed

Accept ==
    /\ phase = "receiving"
    /\ accepted' = Successor(accepted)
    /\ UNCHANGED <<phase, announced, installed>>

Install ==
    \E update \in announced :
        /\ phase = "receiving"
        /\ accepted = update.total
        /\ phase' = "installed"
        /\ installed' = announced
        /\ UNCHANGED <<announced, accepted>>

GiveUp ==
    /\ phase # "none"
    /\ phase' = "none"
    /\ announced' = {}
    /\ accepted' = 0
    /\ UNCHANGED installed

Next == Announce \/ Accept \/ Install \/ GiveUp

Spec == Init /\ [][Next]_vars
=============================================================================
