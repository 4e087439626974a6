---------------------------- MODULE BlockSizing ----------------------------
(***************************************************************************)
(* The block size of a sending channel: fixed by -B, or adapted after each *)
(* block so that the next one takes about a second to send                 *)
(* (transfer_source::invoke_channel).                                      *)
(*                                                                         *)
(* A double stands for the exact quotient but for its last bit, and the    *)
(* cast to uint64_t truncates it: the result is the quotient or a neighbour *)
(* of it.  No product wraps in 64 bits for sizes of at most 1 GB.          *)
(***************************************************************************)
EXTENDS Naturals

CONSTANTS
    arg_transfer_block_size,   \* the value of -B, or 0: adapt the size
    TRANSFER_BLOCK_SIZE_INIT,  \* where adaptation starts
    MAX_TRANSFER_BLOCK_SIZE,
    ALIGN,                     \* an adapted size is rounded up to a multiple of it
    SECOND,                    \* microseconds in the second a block should take
    ElapsedTimes               \* microseconds a send may take (0: the clock stood still)

ASSUME SizeAssumption ==
    /\ arg_transfer_block_size \in Nat
    /\ MAX_TRANSFER_BLOCK_SIZE \in Nat
    /\ TRANSFER_BLOCK_SIZE_INIT \in 1 .. MAX_TRANSFER_BLOCK_SIZE
    /\ ALIGN \in 1 .. MAX_TRANSFER_BLOCK_SIZE
    /\ SECOND \in Nat \ {0}
    /\ ElapsedTimes \subseteq Nat /\ ElapsedTimes # {}

BlockSizes == 1 .. MAX_TRANSFER_BLOCK_SIZE

IsFixed == arg_transfer_block_size # 0

\* What post_process and the constructor make of -B.
InitBlockSize ==
    IF ~IsFixed THEN TRANSFER_BLOCK_SIZE_INIT
    ELSE IF arg_transfer_block_size > MAX_TRANSFER_BLOCK_SIZE THEN MAX_TRANSFER_BLOCK_SIZE
    ELSE arg_transfer_block_size

\* The values a double next to num / den may be cast to.
Cast(num, den) == LET q == num \div den IN {n \in {q - 1, q, q + 1} : n >= 0}

\* The size that would have taken a second; a slower block counts for a fifth.
Adapted(size, usec) ==
    IF usec = 0 THEN {2 * size}
    ELSE IF usec <= SECOND THEN Cast(size * SECOND, usec)
    ELSE Cast(4 * size * usec + size * SECOND, 5 * usec)

AlignUp(n) == ((n + ALIGN - 1) \div ALIGN) * ALIGN

\* Mutant: a size that has shrunk to zero is left so.
Bounded_Zero(n) == IF n > MAX_TRANSFER_BLOCK_SIZE THEN MAX_TRANSFER_BLOCK_SIZE ELSE n

Bounded(n) ==
    IF n > MAX_TRANSFER_BLOCK_SIZE THEN MAX_TRANSFER_BLOCK_SIZE
    ELSE IF n = 0 THEN ALIGN
    ELSE n

\* The sizes the next block of a channel may have, after one of this size
\* that took so long to send.
NextBlockSizes(size, usec) ==
    IF IsFixed THEN {size} ELSE {Bounded(AlignUp(n)) : n \in Adapted(size, usec)}
=============================================================================
