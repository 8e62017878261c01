---------------------------- MODULE MCRequestBus ----------------------------
(***************************************************************************)
(* RequestBus with a peer that sends one message, of any type a builder    *)
(* makes or malformed, and a peer that sends two.  The frames are offered  *)
(* to pwm before the others: all schemas count their types from tag 1.     *)
(***************************************************************************)
EXTENDS RequestBus

CONSTANTS p1, p2

\* Not sound; without a table; with a tag no schema has; with no message at all;
\* of somebody else's schema.
Malformed ==
    {[Built("ota", "OtaBegin") EXCEPT !.sound = FALSE],
     [Built("pwm", "HeartBeat") EXCEPT !.body = FALSE],
     [Built("midi", "Ping") EXCEPT !.tag = 9],
     [Built("ota", "OtaData") EXCEPT !.tag = 0],
     [Built("log", "LogForward") EXCEPT !.identifier = "none"]}

MCTraffic == [p \in Peers |-> IF p = p1 THEN BuiltEnvelopes \cup Malformed
                              ELSE {Built("ota", "OtaBegin")}]
MCOrder == <<"pwm", "midi", "ota", "log">>
MCLate == {<<"ota", "OtaBegin">>}
MCMaxMessages == [p \in Peers |-> IF p = p1 THEN 1 ELSE 2]
=============================================================================
