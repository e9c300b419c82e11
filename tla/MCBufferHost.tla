---------------------------- MODULE MCBufferHost -----------------------------
(* Two Buffers of one process: intranode (8 ranks, 80 SMs), two nodes (16, 80)
   or three (24, 64); sized for tokens of 4 KiB, called with 4 KiB or 8 KiB. *)
EXTENDS BufferHost, TLC

MCSymmetry == Permutations(BufferIds)
MCGroups == {8, 16, 24}
MCWidths == {256, 512}
==============================================================================
