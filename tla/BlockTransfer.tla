--------------------------- MODULE BlockTransfer ---------------------------
(***************************************************************************)
(* The data plane of one xcp transfer: transfer_source::invoke_channel and *)
(* transfer_destination::invoke_channel, one pair of threads per TCP       *)
(* channel, moving the blocks of the files of the transfer.                *)
(*                                                                         *)
(* Every source thread claims blocks from the shared atomic curr_offset of *)
(* the current file and sends them down its own channel; the destination   *)
(* thread at the other end of that channel receives them into the mapped   *)
(* file.  Nothing orders two channels with respect to each other.          *)
(*                                                                         *)
(* The rest of the process appears as the actions a thread can suffer:     *)
(* its socket is closed at either end, the connection is lost, the         *)
(* transfer object is disposed.  TransferSession says when these happen.   *)
(***************************************************************************)
EXTENDS BlockSizing, Sequences, FiniteSets

CONSTANTS
    Channels,       \* the TCP channels of the transfer, all repeats included
    NFiles,         \* number of files in basic_transfer_info::files_info
    FileSize,       \* FileSize[f]: the size the source announced for file f
    WireCap         \* bound: messages a connection buffers before send blocks

Files == 1 .. NFiles

ASSUME ChannelsAssumption == IsFiniteSet(Channels) /\ Channels # {}
ASSUME FilesAssumption == NFiles \in Nat /\ FileSize \in [Files -> Nat]
ASSUME WireAssumption == WireCap \in Nat \ {0}

VARIABLES
    curr_offset,  \* send_file_context::curr_offset, shared by the source threads
    srcPc,        \* where each source channel thread is
    srcFile,      \* n_file of each source thread (NFiles + 1: past the last)
    srcBlock,     \* the block a source thread has claimed and not yet sent
    blockSize,    \* curr_channel_block_size of each source thread
    srcOpen,      \* the source's file handles are open
    wire,         \* bytes in flight on each connection, one message per block
    lost,         \* the connection broke underneath both ends
    srcSock,      \* the source's end of each connection is open
    dstSock,      \* the destination's end of each connection is open
    dstPc,        \* where each destination channel thread is
    dstBlock,     \* the header a destination thread read last
    recv_ctx,     \* recv_file_context of each file, shared by the destination threads
    dstDisposed,  \* the destination's dispose() has run (or is running)
    stored        \* the bytes of each destination file received into the mapping

srcVars == <<curr_offset, srcPc, srcFile, srcBlock, blockSize>>
netVars == <<lost, srcSock, dstSock>>
dstVars == <<dstPc, dstBlock, recv_ctx, stored>>
dataVars == <<srcVars, srcOpen, wire, netVars, dstVars, dstDisposed>>

(***************************************************************************)
(* A message is a block with its 16-byte header, or the final tail: a      *)
(* header with block_size = 0, by which the receiver knows it.  It also     *)
(* stands for the block of a thread that has none.                         *)
(***************************************************************************)
Block == [file : Files, off : Nat, len : Nat \ {0}]
FinalTail == [file |-> 0, off |-> 0, len |-> 0]
Message == Block \cup {FinalTail}

Bytes(b) == b.off .. (b.off + b.len - 1)
WholeFile(f) == 0 .. (FileSize[f] - 1)

\* Mutant: the last block not cut to the file.
BlockAt_Uncut(f, curr, size) == [file |-> f, off |-> curr, len |-> size]

\* The block a channel cuts at curr, clamped at the end of the file.
BlockAt(f, curr, size) ==
    [file |-> f, off |-> curr,
     len |-> IF curr + size >= FileSize[f] THEN FileSize[f] - curr ELSE size]

----------------------------------------------------------------------------
(* recv_file_context: a handle, a mapping and the bytes received so far.   *)

RecvCtx == [handle : BOOLEAN, mapped : BOOLEAN, received : Nat]
OpenedCtx(f) == [handle |-> TRUE, mapped |-> FileSize[f] > 0, received |-> 0]

close_handle(ctx) == [ctx EXCEPT !.handle = FALSE]
\* The Linux branch asks for the handle, not for the mapping.
unmap_file(ctx) == IF ctx.handle THEN [ctx EXCEPT !.mapped = FALSE] ELSE ctx

\* What completion does, and a mutant with the order dispose_impl has.
put_away_ClosedFirst(ctx) == unmap_file(close_handle(ctx))
put_away(ctx) == close_handle(unmap_file(ctx))

----------------------------------------------------------------------------
Init ==
    /\ curr_offset = [f \in Files |-> 0]
    /\ srcPc = [c \in Channels |-> "idle"]
    /\ srcFile = [c \in Channels |-> 1]
    /\ srcBlock = [c \in Channels |-> FinalTail]
    /\ blockSize = [c \in Channels |-> InitBlockSize]
    /\ srcOpen = TRUE
    /\ wire = [c \in Channels |-> <<>>]
    /\ lost = [c \in Channels |-> FALSE]
    /\ srcSock = [c \in Channels |-> TRUE]
    /\ dstSock = [c \in Channels |-> TRUE]
    /\ dstPc = [c \in Channels |-> "idle"]
    /\ dstBlock = [c \in Channels |-> FinalTail]
    /\ recv_ctx = [f \in Files |-> OpenedCtx(f)]
    /\ dstDisposed = FALSE
    /\ stored = [f \in Files |-> {}]

----------------------------------------------------------------------------
(* transfer_source::invoke_channel                                         *)

BeginSource(c) ==
    /\ srcPc[c] = "idle"
    /\ srcPc' = [srcPc EXCEPT ![c] = "claim"]
    /\ UNCHANGED <<curr_offset, srcFile, srcBlock, blockSize, srcOpen, wire, netVars, dstVars, dstDisposed>>

\* fetch_add finds a block of the current file for this channel.
ClaimBlock(c) ==
    LET f == srcFile[c] IN
    /\ srcPc[c] = "claim"
    /\ f \in Files
    /\ curr_offset[f] < FileSize[f]
    /\ curr_offset' = [curr_offset EXCEPT ![f] = @ + blockSize[c]]
    /\ srcBlock' = [srcBlock EXCEPT ![c] = BlockAt(f, curr_offset[f], blockSize[c])]
    /\ srcPc' = [srcPc EXCEPT ![c] = "send"]
    /\ UNCHANGED <<srcFile, blockSize, srcOpen, wire, netVars, dstVars, dstDisposed>>

\* Mutant: leaves the file as soon as the next block would be its last.
AllClaimed_Early(f, size) == curr_offset[f] + size >= FileSize[f]
AllClaimed(f, size) == curr_offset[f] >= FileSize[f]

\* fetch_add overshoots: every block of this file has been claimed.
NextFile(c) ==
    LET f == srcFile[c] IN
    /\ srcPc[c] = "claim"
    /\ f \in Files
    /\ AllClaimed(f, blockSize[c])
    /\ curr_offset' = [curr_offset EXCEPT ![f] = @ + blockSize[c]]
    /\ srcFile' = [srcFile EXCEPT ![c] = f + 1]
    /\ UNCHANGED <<srcPc, srcBlock, blockSize, srcOpen, wire, netVars, dstVars, dstDisposed>>

\* A send succeeds locally as soon as the kernel takes the bytes.  When the
\* other end is closed or the connection lost, they never arrive.
Transmit(c, m) ==
    /\ srcSock[c]
    /\ IF dstSock[c] /\ ~lost[c]
       THEN Len(wire[c]) < WireCap /\ wire' = [wire EXCEPT ![c] = Append(@, m)]
       ELSE wire' = wire

\* send_file, then the block size is adapted to the bandwidth just seen.
SendBlock(c) ==
    /\ srcPc[c] = "send"
    /\ srcOpen
    /\ Transmit(c, srcBlock[c])
    /\ \E usec \in ElapsedTimes :
          \E n \in NextBlockSizes(blockSize[c], usec) : blockSize' = [blockSize EXCEPT ![c] = n]
    /\ srcBlock' = [srcBlock EXCEPT ![c] = FinalTail]
    /\ srcPc' = [srcPc EXCEPT ![c] = "claim"]
    /\ UNCHANGED <<curr_offset, srcFile, srcOpen, netVars, dstVars, dstDisposed>>

SendTail(c) ==
    /\ srcPc[c] = "claim"
    /\ srcFile[c] \notin Files
    /\ Transmit(c, FinalTail)
    /\ srcPc' = [srcPc EXCEPT ![c] = "done"]
    /\ UNCHANGED <<curr_offset, srcFile, srcBlock, blockSize, srcOpen, netVars, dstVars, dstDisposed>>

\* Mutant: a channel that fails starts over with the first file.
SendFails_StartsOver(c) ==
    /\ srcPc[c] = "send"
    /\ ~srcSock[c] \/ ~dstSock[c] \/ lost[c] \/ ~srcOpen
    /\ srcBlock' = [srcBlock EXCEPT ![c] = FinalTail]
    /\ srcPc' = [srcPc EXCEPT ![c] = "claim"]
    /\ srcFile' = [srcFile EXCEPT ![c] = 1]
    /\ UNCHANGED <<curr_offset, blockSize, srcOpen, wire, netVars, dstVars, dstDisposed>>

SendFails(c) ==
    /\ \/ srcPc[c] = "send"
       \/ srcPc[c] = "claim" /\ srcFile[c] \notin Files
    /\ \/ ~srcSock[c] \/ ~dstSock[c] \/ lost[c]
       \/ srcPc[c] = "send" /\ ~srcOpen
    /\ srcBlock' = [srcBlock EXCEPT ![c] = FinalTail]
    /\ srcPc' = [srcPc EXCEPT ![c] = "failed"]
    /\ UNCHANGED <<curr_offset, srcFile, blockSize, srcOpen, wire, netVars, dstVars, dstDisposed>>

----------------------------------------------------------------------------
(* transfer_destination::invoke_channel                                    *)

BeginDestination(c) ==
    /\ dstPc[c] = "idle"
    /\ dstPc' = [dstPc EXCEPT ![c] = "header"]
    /\ UNCHANGED <<srcVars, srcOpen, wire, netVars, dstBlock, recv_ctx, stored, dstDisposed>>

\* The tail ends the channel.
RecvTail(c) ==
    /\ dstPc[c] = "header"
    /\ dstSock[c]
    /\ wire[c] # <<>> /\ Head(wire[c]).len = 0
    /\ wire' = [wire EXCEPT ![c] = Tail(@)]
    /\ dstPc' = [dstPc EXCEPT ![c] = "done"]
    /\ UNCHANGED <<srcVars, srcOpen, netVars, dstBlock, recv_ctx, stored, dstDisposed>>

\* The header of a block: its body stays in the connection, and is received
\* next unless the mapping is gone.
RecvHeader(c) ==
    /\ dstPc[c] = "header"
    /\ dstSock[c]
    /\ wire[c] # <<>> /\ Head(wire[c]).len # 0
    /\ dstBlock' = [dstBlock EXCEPT ![c] = Head(wire[c])]
    /\ dstPc' = [dstPc EXCEPT ![c] =
                    IF recv_ctx[Head(wire[c]).file].mapped THEN "body" ELSE "failed"]
    /\ UNCHANGED <<srcVars, srcOpen, wire, netVars, recv_ctx, stored, dstDisposed>>

RecvBody(c) ==
    /\ dstPc[c] = "body"
    /\ dstSock[c]
    /\ stored' = [stored EXCEPT ![dstBlock[c].file] = @ \cup Bytes(dstBlock[c])]
    /\ wire' = [wire EXCEPT ![c] = Tail(@)]
    /\ dstPc' = [dstPc EXCEPT ![c] = "count"]
    /\ UNCHANGED <<srcVars, srcOpen, netVars, dstBlock, recv_ctx, dstDisposed>>

\* Mutant: received_size as a high-water mark.
ReceivedWith_HighWater(b) == b.off + b.len
ReceivedWith(b) == recv_ctx[b.file].received + b.len

\* received_size += block_size, and the comparison with the file's size.
CountBlock(c) ==
    LET b == dstBlock[c]
        now == ReceivedWith(b)
    IN
    /\ dstPc[c] = "count"
    /\ recv_ctx' = [recv_ctx EXCEPT ![b.file].received = now]
    /\ dstPc' = [dstPc EXCEPT ![c] = IF now = FileSize[b.file] THEN "complete" ELSE "header"]
    /\ dstBlock' = [dstBlock EXCEPT ![c] = IF now = FileSize[b.file] THEN b ELSE FinalTail]
    /\ UNCHANGED <<srcVars, srcOpen, wire, netVars, stored, dstDisposed>>

CompleteFile(c) ==
    /\ dstPc[c] = "complete"
    /\ recv_ctx' = [recv_ctx EXCEPT ![dstBlock[c].file] = put_away(@)]
    /\ dstBlock' = [dstBlock EXCEPT ![c] = FinalTail]
    /\ dstPc' = [dstPc EXCEPT ![c] = "header"]
    /\ UNCHANGED <<srcVars, srcOpen, wire, netVars, stored, dstDisposed>>

\* recv returns less than it was asked for: this end was closed, the
\* connection is lost, or the source's end is closed and nothing (or, in the
\* middle of a block, not the whole body) is left to read.
RecvFails(c) ==
    /\ dstPc[c] \in {"header", "body"}
    /\ \/ ~dstSock[c]
       \/ lost[c]
       \/ ~srcSock[c] /\ dstPc[c] = "header" /\ wire[c] = <<>>
       \/ ~srcSock[c] /\ dstPc[c] = "body" /\ Len(wire[c]) = 1
    /\ dstBlock' = [dstBlock EXCEPT ![c] = FinalTail]
    /\ dstPc' = [dstPc EXCEPT ![c] = "failed"]
    /\ UNCHANGED <<srcVars, srcOpen, wire, netVars, recv_ctx, stored, dstDisposed>>

----------------------------------------------------------------------------
(* What the rest of the process, the peer and the network do to a channel. *)

LoseConnection(c) ==
    /\ ~lost[c]
    /\ lost' = [lost EXCEPT ![c] = TRUE]
    /\ UNCHANGED <<srcVars, srcOpen, wire, srcSock, dstSock, dstVars, dstDisposed>>

\* os_socket_t::dispose() on sockets of the source's end
CloseSourceSocks(C) ==
    /\ srcSock' = [c \in Channels |-> srcSock[c] /\ c \notin C]
    /\ UNCHANGED <<srcVars, srcOpen, wire, lost, dstSock, dstVars, dstDisposed>>

CloseDestinationSocks(C) ==
    /\ dstSock' = [c \in Channels |-> dstSock[c] /\ c \notin C]
    /\ UNCHANGED <<srcVars, srcOpen, wire, lost, srcSock, dstVars, dstDisposed>>

\* transfer_source::dispose_impl
DisposeSource ==
    /\ srcOpen
    /\ srcOpen' = FALSE
    /\ UNCHANGED <<srcVars, wire, netVars, dstVars, dstDisposed>>

\* transfer_destination::dispose_impl, but for the gate
DisposeDestination ==
    /\ ~dstDisposed
    /\ dstDisposed' = TRUE
    /\ recv_ctx' = [f \in Files |-> unmap_file(close_handle(recv_ctx[f]))]
    /\ UNCHANGED <<srcVars, srcOpen, wire, netVars, dstPc, dstBlock, stored>>

----------------------------------------------------------------------------
SourceStep(c) ==
    \/ BeginSource(c) \/ ClaimBlock(c) \/ NextFile(c)
    \/ SendBlock(c) \/ SendTail(c) \/ SendFails(c)

DestinationStep(c) ==
    \/ BeginDestination(c) \/ RecvTail(c) \/ RecvHeader(c) \/ RecvBody(c)
    \/ CountBlock(c) \/ CompleteFile(c) \/ RecvFails(c)

\* dispose_impl closes the sockets of a side one by one, the death of its
\* process all of them.
ClosedTogether == {{c} : c \in Channels} \cup {Channels}
Open(sock) == {c \in Channels : sock[c]}

Disturbance ==
    \/ \E c \in Channels : LoseConnection(c)
    \/ \E C \in ClosedTogether :
          \/ C \cap Open(srcSock) # {} /\ CloseSourceSocks(C)
          \/ C \cap Open(dstSock) # {} /\ CloseDestinationSocks(C)
    \/ DisposeSource
    \/ DisposeDestination

ThreadStep == \E c \in Channels : SourceStep(c) \/ DestinationStep(c)
Next == ThreadStep \/ Disturbance

Spec == Init /\ [][Next]_dataVars

----------------------------------------------------------------------------
(* Properties                                                              *)

SrcStates == {"idle", "claim", "send", "done", "failed"}
DstStates == {"idle", "header", "body", "count", "complete", "done", "failed"}

\* Every variable has its type.
TypeOK ==
    /\ curr_offset \in [Files -> Nat]
    /\ srcPc \in [Channels -> SrcStates]
    /\ srcFile \in [Channels -> 1 .. (NFiles + 1)]
    /\ srcBlock \in [Channels -> Message]
    /\ blockSize \in [Channels -> BlockSizes]
    /\ srcOpen \in BOOLEAN
    /\ wire \in [Channels -> Seq(Message)]
    /\ lost \in [Channels -> BOOLEAN]
    /\ srcSock \in [Channels -> BOOLEAN]
    /\ dstSock \in [Channels -> BOOLEAN]
    /\ dstPc \in [Channels -> DstStates]
    /\ dstBlock \in [Channels -> Message]
    /\ recv_ctx \in [Files -> RecvCtx]
    /\ dstDisposed \in BOOLEAN
    /\ stored \in [Files -> SUBSET Nat]

\* The blocks of file f whose bytes are in the mapping but which their thread
\* has not yet added to received_size.
Uncounted(f) ==
    UNION {Bytes(dstBlock[c]) : c \in {d \in Channels : dstPc[d] = "count" /\ dstBlock[d].file = f}}

\* received_size is exactly the number of different bytes that have been
\* received into the mapping and counted: no byte is counted twice, whatever
\* the order in which the threads receive and count, so ASSERT(curr_received_size
\* <= file_size) holds and equality with file_size means the file is whole.
ReceivedCountsBytes ==
    \A f \in Files : recv_ctx[f].received = Cardinality(stored[f] \ Uncounted(f))

\* A file that has been unmapped and closed holds every one of its bytes: the
\* thread that finds received_size = file_size is never early.
CompletedFileIsWhole ==
    \A f \in Files : FileSize[f] > 0 /\ ~recv_ctx[f].mapped => stored[f] = WholeFile(f)

\* No thread unmaps a file (transfer.cpp:408) while a block of it is still to
\* come: claimed, in flight or being received by another channel.  The
\* nullptr check of invoke_channel therefore never finds a live block, and no
\* recv writes through a mapping another thread has removed.
PendingBlocksStayMapped ==
    \A c \in Channels :
        /\ srcPc[c] = "send" => recv_ctx[srcBlock[c].file].mapped
        /\ \A i \in 1 .. Len(wire[c]) :
              wire[c][i].len # 0 => recv_ctx[wire[c][i].file].mapped

\* When every destination thread has received its tail, every file is whole:
\* what transfer_destination::invoke_portal relies on when its gate opens.
AllTailsMeanWholeFiles ==
    (\A c \in Channels : dstPc[c] = "done") => \A f \in Files : stored[f] = WholeFile(f)

\* No byte of a file is received a second time: two channels never carry
\* overlapping blocks (the fetch_add on curr_offset).
NoByteReceivedTwice ==
    [][\A c \in Channels :
          RecvBody(c) => Bytes(dstBlock[c]) \cap stored[dstBlock[c].file] = {}]_dataVars

\* When every destination thread has received its tail, and nothing was
\* disposed, no file that had bytes is still open or mapped: exactly one of the
\* threads found received_size = file_size, and put the file away.
AllTailsMeanPutAway ==
    (\A c \in Channels : dstPc[c] = "done") /\ ~dstDisposed =>
        \A f \in Files : FileSize[f] > 0 => ~recv_ctx[f].mapped /\ ~recv_ctx[f].handle

\* dispose() of the destination leaves no file mapped, so that a channel that
\* meets a disposed transfer finds a null mapping and gives up
\* (transfer.cpp:386-393).
DisposedMeansUnmapped ==
    dstDisposed => \A f \in Files : ~recv_ctx[f].mapped

\* The channels implement FileCopy: the bytes of a file arrive once each, in
\* any order, and unmap_file (transfer.cpp:408) is the one moment at which a
\* whole file is finished, after which nothing is written to it.
Copy == INSTANCE FileCopy WITH
            arrived <- stored,
            finished <- {f \in Files : FileSize[f] > 0 /\ ~recv_ctx[f].mapped}

CopiesFiles == Copy!Spec

----------------------------------------------------------------------------
(* The inductive invariant.  A live block is one a thread holds or a       *)
(* connection carries; a thread or connection without one has a FinalTail. *)

Live(b) == b.len # 0

\* Blocks b and e do not overlap.
Apart(b, e) ==
    Live(b) /\ Live(e) /\ b.file = e.file => b.off + b.len <= e.off \/ e.off + e.len <= b.off

\* A live block lies inside its file, in the part of it that has been claimed.
Claimed(b) ==
    Live(b) => b.off + b.len <= FileSize[b.file] /\ b.off + b.len <= curr_offset[b.file]

\* No byte of a live block has been received.
Fresh(b) == Live(b) => \A x \in stored[b.file] : x < b.off \/ x >= b.off + b.len

Positions(c) == 1 .. Len(wire[c])

\* Which block a thread holds follows from where it is.
HeldBlocks ==
    \A c \in Channels :
        /\ Live(srcBlock[c]) <=> srcPc[c] = "send"
        /\ dstPc[c] \in {"body", "count", "complete"} => Live(dstBlock[c])
        /\ dstPc[c] = "body" => wire[c] # <<>> /\ dstBlock[c] = Head(wire[c])

BlocksClaimed ==
    /\ \A c \in Channels : Claimed(srcBlock[c]) /\ \A i \in Positions(c) : Claimed(wire[c][i])
    /\ \A f \in Files : \A x \in stored[f] : x < FileSize[f] /\ x < curr_offset[f]

BlocksApart ==
    /\ \A c, d \in Channels : c # d => Apart(srcBlock[c], srcBlock[d])
    /\ \A c, d \in Channels : \A i \in Positions(d) : Apart(srcBlock[c], wire[d][i])
    /\ \A c, d \in Channels : \A i \in Positions(c), j \in Positions(d) :
          c # d \/ i # j => Apart(wire[c][i], wire[d][j])

BlocksFresh ==
    \A c \in Channels : Fresh(srcBlock[c]) /\ \A i \in Positions(c) : Fresh(wire[c][i])

\* A block being counted is in the mapping, and no two threads count the same.
CountingBlocks ==
    /\ \A c \in Channels :
          dstPc[c] = "count" => Bytes(dstBlock[c]) \subseteq stored[dstBlock[c].file]
    /\ \A c, d \in Channels :
          c # d /\ dstPc[c] = "count" /\ dstPc[d] = "count" => Apart(dstBlock[c], dstBlock[d])

\* A file is completed, or about to be, only when all of it was counted.
FullyCounted ==
    /\ \A c \in Channels :
          dstPc[c] = "complete" => recv_ctx[dstBlock[c].file].received = FileSize[dstBlock[c].file]
    /\ \A f \in Files :
          FileSize[f] > 0 /\ ~recv_ctx[f].mapped => recv_ctx[f].received = FileSize[f]

BlockInv ==
    /\ TypeOK /\ HeldBlocks /\ BlocksClaimed /\ BlocksApart /\ BlocksFresh
    /\ CountingBlocks /\ ReceivedCountsBytes /\ FullyCounted

(***************************************************************************)
(* Beyond BlockInv: nothing that was claimed gets lost on the way to a     *)
(* destination thread that receives its tail, and whole files are put away.*)
(***************************************************************************)

\* The tail is the last message of a connection, and ends both threads.
TailsLast ==
    \A c \in Channels :
        /\ srcPc[c] # "done" => dstPc[c] # "done" /\ \A i \in Positions(c) : Live(wire[c][i])
        /\ \A i \in Positions(c) : ~Live(wire[c][i]) => i = Len(wire[c])
        /\ dstPc[c] = "done" => wire[c] = <<>>

\* A thread leaves a file when all of it has been claimed, and ends after the last.
FilesPassed ==
    \A c \in Channels :
        /\ \A f \in Files : f < srcFile[c] => curr_offset[f] >= FileSize[f]
        /\ srcPc[c] = "done" => srcFile[c] = NFiles + 1

\* The tail of this channel will never be received.
Broken(c) ==
    /\ dstPc[c] # "done"
    /\ \A i \in Positions(c) : Live(wire[c][i])
    /\ srcPc[c] = "failed" \/ lost[c] \/ ~dstSock[c]

Covers(b, f, x) == Live(b) /\ b.file = f /\ b.off <= x /\ x < b.off + b.len

\* Where the byte x of file f is.
Accounted(f, x) ==
    \/ x >= curr_offset[f]
    \/ x \in stored[f]
    \/ \E c \in Channels : Covers(srcBlock[c], f, x)
    \/ \E c \in Channels : \E i \in Positions(c) : Covers(wire[c][i], f, x)
    \/ \E c \in Channels : Broken(c)

BytesAccounted == \A f \in Files : \A x \in WholeFile(f) : Accounted(f, x)

\* A file that was counted to its end is being put away, or has been.
WholeFilesPutAway ==
    ~dstDisposed =>
        \A f \in Files : FileSize[f] > 0 =>
            /\ recv_ctx[f].handle = recv_ctx[f].mapped
            /\ recv_ctx[f].mapped /\ recv_ctx[f].received = FileSize[f] =>
                  \E c \in Channels : dstPc[c] = "complete" /\ dstBlock[c].file = f

DeliveryInv == TailsLast /\ FilesPassed /\ BytesAccounted /\ WholeFilesPutAway
=============================================================================
