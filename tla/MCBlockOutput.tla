--------------------------- MODULE MCBlockOutput ---------------------------
(* The model TLC checks of BlockOutput: a buffer of three bytes, chunks of *)
(* up to three bytes, so that a chunk can fill the rest of the buffer      *)
(* exactly, leave some room, or spill over by one or two bytes.            *)
EXTENDS BlockOutput, TLC

MCByte == {0, 1}
MCChunks == {<<0>>, <<1>>, <<0, 1>>, <<1, 0, 1>>}
=============================================================================
