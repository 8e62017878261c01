------------------------- MODULE MCStreamProcessor -------------------------
(***************************************************************************)
(* StreamProcessor on a small instance: bytes 0 .. 7, frames of at most 4  *)
(* payload bytes, and a checksum every position of which counts.           *)
(***************************************************************************)
EXTENDS StreamProcessor

MCBytes == 0 .. 7
MCCrc(bytes) == FoldLeft(LAMBDA sum, byte : (3 * sum + byte + 1) % 8, 5, bytes)

\* Frames, one of which carries bytes that may pass for a header; a damaged
\* frame, a header of a frame that never comes, one that announces the
\* impossible, and a byte that is nothing.
MCUnits == {BuildFrame(1, <<>>), BuildFrame(3, <<1, 0>>),
            <<1, 0, 1, 1, 7, 7>>, <<1, 0, 2, 4>>, <<1, 0, 2, 7>>, <<6>>}

\* A stray byte that passes for a version byte, and a frame behind it.
StrayUnits == {<<1>>, BuildFrame(4, <<>>)}

\* Headers, with sizes that wrap around when size_t is as narrow as the field.
HeaderUnits == {<<1, 0, 2, 7>>, <<1, 0, 2, 3>>, <<6>>}
=============================================================================
