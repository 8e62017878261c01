-------------------------- MODULE MCFrameTransport --------------------------
(***************************************************************************)
(* FrameTransport on a small instance: two threads, two transports and one  *)
(* link, which may read the buffer after write_ has returned.  Both threads *)
(* send on midi, and their six calls bring its counter round; pwm is the   *)
(* second thread's own.                                                    *)
(***************************************************************************)
EXTENDS FrameTransport

CONSTANTS t1, t2, midi, pwm, uart

MCLinkOf == [x \in Transports |-> uart]
MCSenders == [t \in Threads |-> IF t = t1 THEN {midi} ELSE {midi, pwm}]
=============================================================================
