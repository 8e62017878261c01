---------------------------- MODULE MCFrameCodec ----------------------------
(***************************************************************************)
(* FrameCodec on payloads of up to two bytes, and on bursts of one bit, of  *)
(* two next to each other and far apart, and of whole bytes and words.     *)
(***************************************************************************)
EXTENDS FrameCodec

MCPayloadSet == {<<>>, <<ByteOf(1)>>, <<ByteOf(165), ByteOf(0)>>}

MCBurstShapes == {{0}, {0, 1}, {0, 31}, 0 .. 7, 0 .. 31, {0, 3, 17, 22, 30}}
=============================================================================
