------------------------- MODULE MCTransferSession -------------------------
(* Instances of TransferSession for TLC. *)
EXTENDS TransferSession, TLC

\* a file of two blocks of size one, one for each channel to race for
TwoBlocks == <<2>>
\* one block, which either channel may get: the other carries only its tail
OneBlock == <<1>>
\* an empty file, then one of a single block
EmptyFirst == <<0, 1>>
ChannelSymmetry == Permutations(Channels)
=============================================================================
