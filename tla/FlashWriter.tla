---------------------------- MODULE FlashWriter ----------------------------
(***************************************************************************)
(* The flash writer an OtaManager drives (IFlashWriter, an interface the   *)
(* firmware implements: include/libcomm/flash_writer.h).  The library only *)
(* sees the boolean each call returns; what the calls do to the flash is   *)
(* modelled from how OtaManager uses them:                                 *)
(*                                                                         *)
(*   begin       erases the staging slot and opens it                      *)
(*   writeChunk  appends one chunk to the open slot                        *)
(*   finish      closes the slot for writing                               *)
(*   verify      compares the staged image with the announced CRC32        *)
(*   activate    makes the staged image the one the device boots           *)
(*   abort       throws the staged image away                              *)
(*                                                                         *)
(* A flash is a record; every call is an operator from a flash (and the    *)
(* outcome the hardware happens to give) to the flash it leaves behind.    *)
(*   stage    what may be called next, or "misused" for ever after a call  *)
(*            at a stage it does not belong to                             *)
(*   size     the size given to begin                                      *)
(*   chunks   the chunks written since begin, in the order of the calls    *)
(*   crc      the CRC32 the staged image was verified against              *)
(*   active   the image the device boots: empty while it is the factory's, *)
(*            otherwise the set of the one image activated last            *)
(***************************************************************************)
EXTENDS Integers, Sequences

Stages == {"closed", "open", "finished", "verified", "activated", "misused"}

FactoryFlash == [stage |-> "closed", size |-> 0, chunks |-> <<>>, crc |-> 0,
                 active |-> {}]

\* The stage after a call that belongs to stage `from' and leads to `to'.
After(f, from, to) == IF f.stage = from THEN to ELSE "misused"

FlashBegin(f, size, ok) ==
    [f EXCEPT !.stage  = After(f, "closed", IF ok THEN "open" ELSE "closed"),
              !.size   = size,
              !.chunks = <<>>]

FlashWriteChunk(f, chunk, ok) ==
    [f EXCEPT !.stage  = After(f, "open", "open"),
              !.chunks = IF ok THEN Append(f.chunks, chunk) ELSE f.chunks]

FlashFinish(f, ok) ==
    [f EXCEPT !.stage = After(f, "open", IF ok THEN "finished" ELSE "open")]

FlashVerify(f, crc, ok) ==
    [f EXCEPT !.stage = After(f, "finished", IF ok THEN "verified" ELSE "finished"),
              !.crc   = crc]

\* `begun' is history: the OtaBegin the image is activated for.
FlashActivate(f, begun, ok) ==
    [f EXCEPT !.stage  = After(f, "verified", IF ok THEN "activated" ELSE "verified"),
              !.active = IF ok THEN {[size |-> f.size, crc |-> f.crc,
                                      chunks |-> f.chunks, begun |-> begun]}
                               ELSE f.active]

\* abort may be called at any stage, an already closed slot included.
FlashAbort(f) ==
    [f EXCEPT !.stage  = IF f.stage = "misused" THEN "misused" ELSE "closed",
              !.size   = 0,
              !.chunks = <<>>,
              !.crc    = 0]

\* Power loss: the writer forgets the slot it had open, the choice of the
\* image to boot is in flash and stays.
FlashPowerLoss(f) == FlashAbort(f)
=============================================================================
