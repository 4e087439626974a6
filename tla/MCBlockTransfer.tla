-------------------------- MODULE MCBlockTransfer --------------------------
(* Instances of BlockTransfer for TLC. *)
EXTENDS BlockTransfer, TLC

\* one file, of two blocks of which the second is cut
OddFile == <<3>>
\* an empty file (opened, never mapped), then such a file
EmptyThenOdd == <<0, 3>>

\* Bound: at most two connections, sockets or transfer objects go away.
Gone(open) == Cardinality({c \in Channels : ~open[c]})
AtMostTwoDisturbances ==
    Cardinality({c \in Channels : lost[c]}) + Gone(srcSock) + Gone(dstSock)
        + (IF srcOpen THEN 0 ELSE 1) + (IF dstDisposed THEN 1 ELSE 0) <= 2

\* the channels are interchangeable
ChannelSymmetry == Permutations(Channels)
=============================================================================
