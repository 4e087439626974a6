------------------------ MODULE BlockTransferProofs ------------------------
(***************************************************************************)
(* Theorems about BlockTransfer, for any number of channels and files, any *)
(* file sizes and any block sizes.                                         *)
(***************************************************************************)
EXTENDS BlockTransfer, FiniteSetTheorems, TLAPS

USE FilesAssumption

(* A block size is a positive number.                                       *)
LEMMA BlockSizeType == \A n \in BlockSizes : n \in Nat /\ n > 0
    BY SizeAssumption DEF BlockSizes

LEMMA InitBlockSizeType == InitBlockSize \in BlockSizes
    BY SizeAssumption DEF InitBlockSize, IsFixed, BlockSizes

(* However long a block took to send, the size of the next is neither zero   *)
(* (its header would be taken for the final tail) nor above the maximum      *)
(* (transfer.cpp:82-115).                                                   *)
THEOREM AdaptedSizeFits ==
    ASSUME NEW size \in BlockSizes, NEW usec \in ElapsedTimes,
           NEW n \in NextBlockSizes(size, usec)
    PROVE  n \in BlockSizes
<1> USE SizeAssumption
<1>1. \A m \in Nat : Bounded(m) \in BlockSizes
    BY DEF Bounded, BlockSizes
<1>2. \A k \in Nat : AlignUp(k) \in Nat
    <2> SUFFICES ASSUME NEW k \in Nat PROVE AlignUp(k) \in Nat
        OBVIOUS
    <2>1. ALIGN \in Nat /\ ALIGN > 0 /\ k + ALIGN - 1 \in Nat
        OBVIOUS
    <2>2. (k + ALIGN - 1) \div ALIGN \in Nat
        BY <2>1
    <2> QED
        BY <2>1, <2>2 DEF AlignUp
<1>3. Adapted(size, usec) \subseteq Nat
    <2>1. size \in Nat /\ usec \in Nat /\ 2 * size \in Nat
        BY BlockSizeType
    <2>2. ASSUME NEW num \in Nat, NEW den \in Nat, den > 0 PROVE Cast(num, den) \subseteq Nat
        <3>1. num \div den \in Int
            BY <2>2
        <3> QED
            BY <3>1 DEF Cast
    <2>3. size * SECOND \in Nat /\ 4 * size * usec + size * SECOND \in Nat
        BY <2>1
    <2> QED
        BY <2>1, <2>2, <2>3 DEF Adapted
<1>4. CASE IsFixed
    BY <1>4 DEF NextBlockSizes
<1>5. CASE ~IsFixed
    BY <1>1, <1>2, <1>3, <1>5 DEF NextBlockSizes
<1> QED
    BY <1>4, <1>5

(* A block cut out of a file is a message, inside the file and not empty.   *)
LEMMA BlockAtType ==
    ASSUME NEW f \in Files, NEW curr \in Nat, NEW size \in BlockSizes, curr < FileSize[f]
    PROVE  /\ BlockAt(f, curr, size) \in Block
           /\ BlockAt(f, curr, size).file = f
           /\ BlockAt(f, curr, size).off = curr
           /\ curr + BlockAt(f, curr, size).len <= FileSize[f]
           /\ curr + BlockAt(f, curr, size).len <= curr + size
<1>1. FileSize[f] \in Nat /\ size \in Nat /\ size > 0
    BY BlockSizeType
<1> QED
    BY <1>1 DEF BlockAt, Block

LEMMA InitType == Init => TypeOK
<1> SUFFICES ASSUME Init PROVE TypeOK
    OBVIOUS
<1>1. 1 \in 1 .. (NFiles + 1)
    OBVIOUS
<1>2. \A f \in Files : OpenedCtx(f) \in RecvCtx
    BY DEF OpenedCtx, RecvCtx
<1>3. <<>> \in Seq(Message)
    OBVIOUS
<1> QED
    BY <1>1, <1>2, <1>3, InitBlockSizeType DEF Init, TypeOK, SrcStates, DstStates, Message

(* What a send puts on the wire is a sequence of messages again.            *)
LEMMA TransmitType ==
    ASSUME TypeOK, NEW c \in Channels, NEW m \in Message, Transmit(c, m)
    PROVE  wire' \in [Channels -> Seq(Message)]
<1>1. wire \in [Channels -> Seq(Message)]
    BY DEF TypeOK
<1>2. Append(wire[c], m) \in Seq(Message)
    BY <1>1
<1>3. wire' = wire \/ wire' = [wire EXCEPT ![c] = Append(@, m)]
    BY DEF Transmit
<1> QED
    BY <1>1, <1>2, <1>3

LEMMA FinalTailType == FinalTail \in Message
    BY DEF Message

(* The steps of a source thread keep the types.                             *)
LEMMA SourceType ==
    ASSUME TypeOK, NEW c \in Channels, SourceStep(c)
    PROVE  TypeOK'
<1>1. CASE BeginSource(c)
    BY <1>1 DEF BeginSource, TypeOK, netVars, dstVars, SrcStates
<1>2. CASE ClaimBlock(c)
    <2> DEFINE f == srcFile[c]
    <2>1. /\ f \in Files
          /\ curr_offset \in [Files -> Nat]
          /\ blockSize[c] \in BlockSizes
          /\ blockSize[c] \in Nat
        BY <1>2, BlockSizeType DEF ClaimBlock, TypeOK
    <2>2. curr_offset' \in [Files -> Nat]
        <3>1. curr_offset' = [curr_offset EXCEPT ![f] = @ + blockSize[c]]
            BY <1>2 DEF ClaimBlock
        <3> QED
            BY <2>1, <3>1
    <2>3. BlockAt(f, curr_offset[f], blockSize[c]) \in Message
        BY <1>2, <2>1, BlockAtType DEF ClaimBlock, Message
    <2>4. srcBlock' \in [Channels -> Message]
        BY <1>2, <2>3 DEF ClaimBlock, TypeOK
    <2> QED
        BY <1>2, <2>2, <2>4 DEF ClaimBlock, TypeOK, netVars, dstVars, SrcStates
<1>3. CASE NextFile(c)
    <2>0. srcFile[c] + 1 \in 1 .. (NFiles + 1)
        BY <1>3 DEF NextFile, TypeOK, Files
    <2>1. srcFile[c] \in Files /\ curr_offset \in [Files -> Nat] /\ blockSize[c] \in Nat
        BY <1>3, BlockSizeType DEF NextFile, TypeOK
    <2>2. curr_offset' \in [Files -> Nat]
        <3>1. curr_offset' = [curr_offset EXCEPT ![srcFile[c]] = @ + blockSize[c]]
            BY <1>3 DEF NextFile
        <3> QED
            BY <2>1, <3>1
    <2>3. srcFile' \in [Channels -> 1 .. (NFiles + 1)]
        BY <1>3, <2>0 DEF NextFile, TypeOK
    <2> QED
        BY <1>3, <2>2, <2>3 DEF NextFile, TypeOK, netVars, dstVars
<1>4. CASE SendBlock(c)
    <2>1. wire' \in [Channels -> Seq(Message)]
        BY <1>4, TransmitType DEF SendBlock, TypeOK
    <2>2. blockSize' \in [Channels -> BlockSizes]
        <3>0. blockSize \in [Channels -> BlockSizes]
            BY DEF TypeOK
        <3>1. PICK usec \in ElapsedTimes :
                  \E n \in NextBlockSizes(blockSize[c], usec) : blockSize' = [blockSize EXCEPT ![c] = n]
            BY <1>4 DEF SendBlock
        <3>2. PICK n \in NextBlockSizes(blockSize[c], usec) : blockSize' = [blockSize EXCEPT ![c] = n]
            BY <3>1
        <3>3. n \in BlockSizes
            BY <3>0, <3>2, AdaptedSizeFits
        <3> QED
            BY <3>0, <3>2, <3>3
    <2>3. srcBlock' \in [Channels -> Message]
        BY <1>4, FinalTailType DEF SendBlock, TypeOK
    <2> QED
        BY <1>4, <2>1, <2>2, <2>3 DEF SendBlock, TypeOK, netVars, dstVars, SrcStates
<1>5. CASE SendTail(c)
    <2>1. wire' \in [Channels -> Seq(Message)]
        BY <1>5, TransmitType, FinalTailType DEF SendTail
    <2> QED
        BY <1>5, <2>1 DEF SendTail, TypeOK, netVars, dstVars, SrcStates
<1>6. CASE SendFails(c)
    <2>1. srcBlock' \in [Channels -> Message]
        BY <1>6, FinalTailType DEF SendFails, TypeOK
    <2> QED
        BY <1>6, <2>1 DEF SendFails, TypeOK, netVars, dstVars, SrcStates
<1> QED
    BY <1>1, <1>2, <1>3, <1>4, <1>5, <1>6 DEF SourceStep

(* Removing the message at the head of a connection.                        *)
LEMMA PopType ==
    ASSUME TypeOK, NEW c \in Channels, wire[c] # <<>>,
           wire' = [wire EXCEPT ![c] = Tail(@)]
    PROVE  wire' \in [Channels -> Seq(Message)] /\ Head(wire[c]) \in Message
<1>1. wire \in [Channels -> Seq(Message)] /\ wire[c] \in Seq(Message)
    BY DEF TypeOK
<1>2. Tail(wire[c]) \in Seq(Message) /\ Head(wire[c]) \in Message
    BY <1>1
<1> QED
    BY <1>1, <1>2

(* The two ways of putting a file away keep a context a context.            *)
LEMMA CtxType ==
    ASSUME NEW ctx \in RecvCtx
    PROVE  close_handle(ctx) \in RecvCtx /\ unmap_file(ctx) \in RecvCtx
    BY DEF close_handle, unmap_file, RecvCtx

(* The steps of a destination thread keep the types.                        *)
LEMMA DestinationType ==
    ASSUME TypeOK, HeldBlocks, NEW c \in Channels, DestinationStep(c)
    PROVE  TypeOK'
<1>1. CASE BeginDestination(c)
    BY <1>1 DEF BeginDestination, TypeOK, srcVars, netVars, DstStates
<1>2. CASE RecvTail(c)
    <2>1. wire' \in [Channels -> Seq(Message)]
        BY <1>2, PopType DEF RecvTail
    <2> QED
        BY <1>2, <2>1 DEF RecvTail, TypeOK, srcVars, netVars, DstStates
<1>3. CASE RecvHeader(c)
    <2>1. Head(wire[c]) \in Message
        BY <1>3 DEF RecvHeader, TypeOK
    <2>2. dstBlock' \in [Channels -> Message] /\ dstPc' \in [Channels -> DstStates]
        BY <1>3, <2>1 DEF RecvHeader, TypeOK, DstStates
    <2> QED
        BY <1>3, <2>2 DEF RecvHeader, TypeOK, srcVars, netVars
<1>4. CASE RecvBody(c)
    <2>1. wire[c] # <<>> /\ dstBlock[c] \in Message /\ Live(dstBlock[c])
        BY <1>4 DEF RecvBody, HeldBlocks, TypeOK
    <2>2. wire' \in [Channels -> Seq(Message)]
        BY <1>4, <2>1, PopType DEF RecvBody
    <2>3. Bytes(dstBlock[c]) \subseteq Nat
        BY <2>1 DEF Bytes, Message, Block, FinalTail
    <2>4. stored' \in [Files -> SUBSET Nat]
        BY <1>4, <2>3 DEF RecvBody, TypeOK
    <2> QED
        BY <1>4, <2>2, <2>4 DEF RecvBody, TypeOK, srcVars, netVars, DstStates
<1>5. CASE CountBlock(c)
    <2>1. dstBlock[c] \in Block
        BY <1>5 DEF CountBlock, HeldBlocks, Live, TypeOK, Message, FinalTail
    <2> DEFINE b == dstBlock[c]
               now == recv_ctx[b.file].received + b.len
    <2>2. b.file \in Files /\ b.len \in Nat /\ recv_ctx[b.file] \in RecvCtx
        BY <2>1 DEF Block, TypeOK
    <2>3. now \in Nat
        BY <2>2 DEF RecvCtx
    <2>4. [recv_ctx[b.file] EXCEPT !.received = now] \in RecvCtx
        BY <2>2, <2>3 DEF RecvCtx
    <2>5. recv_ctx' = [recv_ctx EXCEPT ![b.file] = [@ EXCEPT !.received = now]]
        BY <1>5 DEF CountBlock, ReceivedWith
    <2>6. recv_ctx' \in [Files -> RecvCtx]
        BY <2>2, <2>4, <2>5 DEF TypeOK
    <2>7. dstBlock' \in [Channels -> Message] /\ dstPc' \in [Channels -> DstStates]
        BY <1>5, FinalTailType DEF CountBlock, TypeOK, DstStates
    <2> QED
        BY <1>5, <2>6, <2>7 DEF CountBlock, TypeOK, srcVars, netVars
<1>6. CASE CompleteFile(c)
    <2>1. recv_ctx' \in [Files -> RecvCtx]
        <3> DEFINE f == dstBlock[c].file
        <3>1. f \in Files /\ recv_ctx[f] \in RecvCtx
            BY <1>6 DEF CompleteFile, HeldBlocks, Live, TypeOK, Message, Block, FinalTail
        <3>2. close_handle(unmap_file(recv_ctx[f])) \in RecvCtx
            BY <3>1, CtxType
        <3>3. recv_ctx' = [recv_ctx EXCEPT ![f] = close_handle(unmap_file(@))]
            BY <1>6 DEF CompleteFile, put_away
        <3> QED
            BY <3>2, <3>3 DEF TypeOK
    <2>2. dstBlock' \in [Channels -> Message] /\ dstPc' \in [Channels -> DstStates]
        BY <1>6, FinalTailType DEF CompleteFile, TypeOK, DstStates
    <2> QED
        BY <1>6, <2>1, <2>2 DEF CompleteFile, TypeOK, srcVars, netVars
<1>7. CASE RecvFails(c)
    <2>1. dstBlock' \in [Channels -> Message] /\ dstPc' \in [Channels -> DstStates]
        BY <1>7, FinalTailType DEF RecvFails, TypeOK, DstStates
    <2> QED
        BY <1>7, <2>1 DEF RecvFails, TypeOK, srcVars, netVars
<1> QED
    BY <1>1, <1>2, <1>3, <1>4, <1>5, <1>6, <1>7 DEF DestinationStep

(* What disturbs a transfer keeps the types.                                *)
LEMMA DisturbanceType == TypeOK /\ Disturbance => TypeOK'
<1> SUFFICES ASSUME TypeOK, Disturbance PROVE TypeOK'
    OBVIOUS
<1>1. ASSUME NEW c \in Channels, LoseConnection(c) PROVE TypeOK'
    BY <1>1 DEF LoseConnection, TypeOK, srcVars, dstVars
<1>2. ASSUME NEW C, CloseSourceSocks(C) PROVE TypeOK'
    BY <1>2 DEF CloseSourceSocks, TypeOK, srcVars, dstVars
<1>3. ASSUME NEW C, CloseDestinationSocks(C) PROVE TypeOK'
    BY <1>3 DEF CloseDestinationSocks, TypeOK, srcVars, dstVars
<1>4. CASE DisposeSource
    BY <1>4 DEF DisposeSource, TypeOK, srcVars, netVars, dstVars
<1>5. CASE DisposeDestination
    <2>1. \A f \in Files : unmap_file(close_handle(recv_ctx[f])) \in RecvCtx
        BY CtxType DEF TypeOK
    <2>2. recv_ctx' \in [Files -> RecvCtx]
        BY <1>5, <2>1 DEF DisposeDestination
    <2> QED
        BY <1>5, <2>2 DEF DisposeDestination, TypeOK, srcVars, netVars
<1> QED
    BY <1>1, <1>2, <1>3, <1>4, <1>5 DEF Disturbance

----------------------------------------------------------------------------
(* Facts about blocks and the places that hold them.                        *)

(* A live message is a block of some file.                                  *)
LEMMA LiveIsBlock ==
    ASSUME NEW m \in Message, Live(m)
    PROVE  m \in Block /\ m.file \in Files /\ m.off \in Nat /\ m.len \in Nat /\ m.len > 0
    BY DEF Live, Message, Block, FinalTail

LEMMA TailNotLive == ~Live(FinalTail)
    BY DEF Live, FinalTail

(* The messages in flight are messages.                                     *)
LEMMA WireMessages ==
    ASSUME TypeOK
    PROVE  \A c \in Channels : \A i \in Positions(c) : wire[c][i] \in Message
    BY DEF TypeOK, Positions

(* Where the messages in flight after a send were before it.                *)
LEMMA AfterTransmit ==
    ASSUME TypeOK, NEW c \in Channels, NEW m \in Message, Transmit(c, m)
    PROVE  \A d \in Channels : \A i \in Positions(d)' :
              \/ i \in Positions(d) /\ wire'[d][i] = wire[d][i]
              \/ d = c /\ i = Len(wire[c]) + 1 /\ wire'[d][i] = m
<1>1. wire \in [Channels -> Seq(Message)] /\ wire[c] \in Seq(Message)
    BY DEF TypeOK
<1>2. CASE wire' = wire
    BY <1>2 DEF Positions
<1>3. CASE wire' = [wire EXCEPT ![c] = Append(@, m)]
    <2>1. wire'[c] = Append(wire[c], m) /\ \A d \in Channels \ {c} : wire'[d] = wire[d]
        BY <1>1, <1>3
    <2>2. /\ Len(wire'[c]) = Len(wire[c]) + 1
          /\ wire'[c][Len(wire[c]) + 1] = m
          /\ \A i \in 1 .. Len(wire[c]) : wire'[c][i] = wire[c][i]
        BY <1>1, <2>1
    <2>3. Len(wire[c]) \in Nat
        BY <1>1
    <2> QED
        BY <2>1, <2>2, <2>3 DEF Positions
<1> QED
    BY <1>2, <1>3 DEF Transmit

(* A send does not change the message at the head of a connection.          *)
LEMMA HeadAfterTransmit ==
    ASSUME TypeOK, NEW c \in Channels, NEW m \in Message, Transmit(c, m)
    PROVE  \A d \in Channels : wire[d] # <<>> => wire'[d] # <<>> /\ Head(wire'[d]) = Head(wire[d])
<1>1. wire \in [Channels -> Seq(Message)] /\ wire[c] \in Seq(Message)
    BY DEF TypeOK
<1>2. CASE wire' = wire
    BY <1>2
<1>3. CASE wire' = [wire EXCEPT ![c] = Append(@, m)]
    <2>1. wire'[c] = Append(wire[c], m) /\ \A d \in Channels \ {c} : wire'[d] = wire[d]
        BY <1>1, <1>3
    <2>2. wire[c] # <<>> => Append(wire[c], m) # <<>> /\ Head(Append(wire[c], m)) = Head(wire[c])
        BY <1>1
    <2> QED
        BY <2>1, <2>2
<1> QED
    BY <1>2, <1>3 DEF Transmit

(* Where the messages in flight after a receive were before it.             *)
LEMMA AfterPop ==
    ASSUME TypeOK, NEW c \in Channels, wire[c] # <<>>,
           wire' = [wire EXCEPT ![c] = Tail(@)]
    PROVE  /\ \A d \in Channels \ {c} : wire'[d] = wire[d]
           /\ \A i \in Positions(c)' : i + 1 \in Positions(c) /\ wire'[c][i] = wire[c][i + 1]
           /\ 1 \in Positions(c) /\ Head(wire[c]) = wire[c][1]
<1>1. wire \in [Channels -> Seq(Message)] /\ wire[c] \in Seq(Message)
    BY DEF TypeOK
<1>2. wire'[c] = Tail(wire[c]) /\ \A d \in Channels \ {c} : wire'[d] = wire[d]
    BY <1>1
<1>3. /\ Len(Tail(wire[c])) = Len(wire[c]) - 1
      /\ \A i \in 1 .. (Len(wire[c]) - 1) : Tail(wire[c])[i] = wire[c][i + 1]
      /\ Len(wire[c]) \in Nat /\ Len(wire[c]) >= 1
      /\ Head(wire[c]) = wire[c][1]
    BY <1>1
<1>4. ASSUME NEW i \in Positions(c)'
      PROVE  i + 1 \in Positions(c) /\ wire'[c][i] = wire[c][i + 1]
    <2>1. i \in 1 .. (Len(wire[c]) - 1)
        BY <1>2, <1>3, <1>4 DEF Positions
    <2>2. i + 1 \in 1 .. Len(wire[c])
        BY <1>3, <2>1
    <2> QED
        BY <1>2, <1>3, <2>1, <2>2 DEF Positions
<1> QED
    BY <1>2, <1>3, <1>4 DEF Positions

(* Steps that move no block keep what is said of the blocks.                *)
LEMMA BlocksFrame ==
    ASSUME BlocksClaimed, BlocksApart, BlocksFresh, TypeOK, TypeOK',
           srcBlock' = srcBlock, wire' = wire, stored' = stored,
           \A f \in Files : curr_offset[f] <= curr_offset'[f]
    PROVE  BlocksClaimed' /\ BlocksApart' /\ BlocksFresh'
<1>1. ASSUME NEW m \in Message, Claimed(m) PROVE Claimed(m)'
    <2>1. CASE Live(m)
        <3>1. m.file \in Files /\ m.off + m.len \in Nat
            BY <2>1, LiveIsBlock
        <3>2. curr_offset[m.file] \in Nat /\ curr_offset'[m.file] \in Nat
            BY <3>1 DEF TypeOK
        <3> QED
            BY <1>1, <2>1, <3>1, <3>2 DEF Claimed
    <2> QED
        BY <2>1 DEF Claimed, Live
<1>2. \A f \in Files : \A x \in stored'[f] : x < FileSize[f] /\ x < curr_offset'[f]
    <2>1. \A f \in Files : curr_offset[f] \in Nat /\ curr_offset'[f] \in Nat /\ stored[f] \subseteq Nat
        BY DEF TypeOK
    <2> QED
        BY <2>1 DEF BlocksClaimed
<1>3. BlocksClaimed'
    BY <1>1, <1>2, WireMessages DEF BlocksClaimed, Positions, TypeOK
<1>4. BlocksApart'
    BY DEF BlocksApart, Apart, Live, Positions
<1>5. BlocksFresh'
    BY DEF BlocksFresh, Fresh, Live, Positions
<1> QED
    BY <1>3, <1>4, <1>5

(* Steps that count no block keep the count.                                *)
LEMMA CountsFrame ==
    ASSUME ReceivedCountsBytes, CountingBlocks, stored' = stored,
           \A f \in Files : recv_ctx'[f].received = recv_ctx[f].received,
           \A d \in Channels : dstPc'[d] = "count" <=> dstPc[d] = "count",
           \A d \in Channels : dstPc[d] = "count" => dstBlock'[d] = dstBlock[d]
    PROVE  ReceivedCountsBytes' /\ CountingBlocks'
<1>1. ASSUME NEW f \in Files PROVE Uncounted(f)' = Uncounted(f)
    BY DEF Uncounted, Bytes
<1>2. ReceivedCountsBytes'
    BY <1>1 DEF ReceivedCountsBytes
<1>3. CountingBlocks'
    BY DEF CountingBlocks, Bytes, Apart, Live
<1> QED
    BY <1>2, <1>3

----------------------------------------------------------------------------
(* The steps of a source thread keep the invariant.                         *)

LEMMA SourceQuietInv ==
    ASSUME BlockInv, NEW c \in Channels, BeginSource(c) \/ NextFile(c), TypeOK'
    PROVE  BlockInv'
<1> USE DEF BlockInv
<1>1. UNCHANGED <<srcBlock, wire, dstVars>>
    BY DEF BeginSource, NextFile, dstVars
<1>2. \A f \in Files : curr_offset[f] <= curr_offset'[f]
    <2>1. CASE BeginSource(c)
        BY <2>1 DEF BeginSource, TypeOK
    <2>2. CASE NextFile(c)
        <3>1. /\ curr_offset' = [curr_offset EXCEPT ![srcFile[c]] = @ + blockSize[c]]
              /\ curr_offset \in [Files -> Nat] /\ blockSize[c] \in Nat
            BY <2>2, BlockSizeType DEF NextFile, TypeOK
        <3> QED
            BY <3>1
    <2> QED
        BY <2>1, <2>2
<1>3. \A d \in Channels : srcPc'[d] = "send" <=> srcPc[d] = "send"
    BY DEF BeginSource, NextFile, TypeOK
<1>4. HeldBlocks'
    BY <1>1, <1>3 DEF HeldBlocks, Live, dstVars
<1>5. BlocksClaimed' /\ BlocksApart' /\ BlocksFresh'
    BY <1>1, <1>2, BlocksFrame DEF dstVars
<1>6. ReceivedCountsBytes' /\ CountingBlocks'
    BY <1>1, CountsFrame DEF dstVars
<1>7. FullyCounted'
    BY <1>1 DEF FullyCounted, dstVars
<1> QED
    BY <1>4, <1>5, <1>6, <1>7

LEMMA ClaimBlockInv ==
    ASSUME BlockInv, NEW c \in Channels, ClaimBlock(c), TypeOK'
    PROVE  BlockInv'
<1> USE DEF BlockInv
<1> DEFINE f == srcFile[c]
           b == BlockAt(f, curr_offset[f], blockSize[c])
<1>0. f \in Files /\ curr_offset[f] < FileSize[f]
    BY DEF ClaimBlock
<1>a. blockSize[c] \in BlockSizes /\ curr_offset \in [Files -> Nat]
    BY DEF TypeOK
<1>b. blockSize[c] \in Nat /\ blockSize[c] > 0
    BY <1>a, BlockSizeType
<1>1. /\ f \in Files /\ blockSize[c] \in BlockSizes /\ blockSize[c] \in Nat /\ blockSize[c] > 0
      /\ curr_offset \in [Files -> Nat] /\ curr_offset[f] \in Nat /\ curr_offset[f] < FileSize[f]
    BY <1>0, <1>a, <1>b
<1>2. /\ b \in Block /\ b.file = f /\ b.off = curr_offset[f]
      /\ b.off + b.len <= FileSize[f] /\ b.off + b.len <= curr_offset[f] + blockSize[c]
    BY <1>1, BlockAtType
<1>3. /\ srcBlock' = [srcBlock EXCEPT ![c] = b]
      /\ curr_offset' = [curr_offset EXCEPT ![f] = @ + blockSize[c]]
      /\ UNCHANGED <<wire, dstVars>>
    BY DEF ClaimBlock
<1>4. /\ srcBlock'[c] = b
      /\ \A d \in Channels \ {c} : srcBlock'[d] = srcBlock[d]
      /\ curr_offset'[f] = curr_offset[f] + blockSize[c]
      /\ \A g \in Files : curr_offset[g] <= curr_offset'[g]
    BY <1>1, <1>3 DEF TypeOK
<1>5. Live(b) /\ b \in Message
    BY <1>2 DEF Live, Block, Message
<1> DEFINE ClaimedNext(m) ==
        Live(m) => m.off + m.len <= FileSize[m.file] /\ m.off + m.len <= curr_offset'[m.file]
\* What was claimed before lies below the old curr_offset: apart from b.
<1>6. ASSUME NEW m \in Message, Claimed(m) PROVE ClaimedNext(m) /\ Apart(b, m) /\ Apart(m, b)
    <2>1. CASE Live(m)
        <3>1. /\ m.file \in Files /\ m.off \in Nat /\ m.len \in Nat
              /\ m.off + m.len <= FileSize[m.file] /\ m.off + m.len <= curr_offset[m.file]
              /\ curr_offset[m.file] \in Nat /\ curr_offset'[m.file] \in Nat
            BY <1>6, <2>1, LiveIsBlock DEF Claimed, TypeOK
        <3>2. m.off + m.len <= curr_offset'[m.file]
            BY <1>4, <3>1
        <3>3. ClaimedNext(m)
            BY <3>1, <3>2
        <3>4. m.file = b.file => m.off + m.len <= b.off
            BY <1>2, <3>1
        <3> QED
            BY <3>3, <3>4 DEF Apart
    <2> QED
        BY <2>1 DEF Claimed, Apart, Live
<1>7. HeldBlocks'
    BY <1>3, <1>4, <1>5 DEF HeldBlocks, ClaimBlock, Live, TypeOK, dstVars
<1>8. BlocksClaimed'
    <2>1. ClaimedNext(b)
        BY <1>1, <1>2, <1>4
    <2> HIDE DEF b, ClaimedNext
    <2>2. \A d \in Channels : ClaimedNext(srcBlock'[d])
        BY <1>4, <1>6, <2>1 DEF BlocksClaimed, TypeOK
    <2>3. \A d \in Channels : \A i \in Positions(d) : ClaimedNext(wire[d][i])
        BY <1>6, WireMessages DEF BlocksClaimed
    <2>4. \A g \in Files : \A x \in stored[g] : x < FileSize[g] /\ x < curr_offset'[g]
        <3>1. \A g \in Files : curr_offset[g] \in Nat /\ curr_offset'[g] \in Nat /\ stored[g] \subseteq Nat
            BY DEF TypeOK
        <3> QED
            BY <1>4, <3>1 DEF BlocksClaimed
    <2> QED
        BY <1>3, <2>2, <2>3, <2>4 DEF BlocksClaimed, Claimed, ClaimedNext, Live, Positions, dstVars
<1>9. BlocksApart'
    <2> HIDE DEF b, ClaimedNext
    <2>1. \A d \in Channels : Claimed(srcBlock[d]) /\ srcBlock[d] \in Message
        BY DEF BlocksClaimed, TypeOK
    <2>2. \A d \in Channels : \A i \in Positions(d) : Claimed(wire[d][i]) /\ wire[d][i] \in Message
        BY WireMessages DEF BlocksClaimed
    <2>3. \A d, e \in Channels : d # e => Apart(srcBlock'[d], srcBlock'[e])
        BY <1>4, <1>6, <2>1 DEF BlocksApart
    <2>4. \A d, e \in Channels : \A i \in Positions(e) : Apart(srcBlock'[d], wire[e][i])
        BY <1>4, <1>6, <2>2 DEF BlocksApart
    <2>5. wire' = wire /\ \A d \in Channels : Positions(d)' = Positions(d)
        BY <1>3 DEF Positions
    <2> QED
        BY <2>3, <2>4, <2>5 DEF BlocksApart, Apart, Live
<1>10. BlocksFresh'
    <2>1. Fresh(b)
        BY <1>1, <1>2 DEF Fresh, BlocksClaimed, TypeOK
    <2>2. \A d \in Channels : Fresh(srcBlock'[d])
        BY <1>4, <2>1 DEF BlocksFresh
    <2> QED
        BY <1>3, <2>2 DEF BlocksFresh, Fresh, Live, Positions, dstVars
<1>11. ReceivedCountsBytes' /\ CountingBlocks'
    BY <1>3, CountsFrame DEF dstVars
<1>12. FullyCounted'
    BY <1>3 DEF FullyCounted, dstVars
<1> QED
    BY <1>7, <1>8, <1>9, <1>10, <1>11, <1>12

(* A send moves the sender's block to its connection, or loses it.          *)
LEMMA SendInv ==
    ASSUME BlockInv, NEW c \in Channels, TypeOK', NEW p, p # "send",
           Transmit(c, srcBlock[c]),
           srcBlock' = [srcBlock EXCEPT ![c] = FinalTail],
           srcPc' = [srcPc EXCEPT ![c] = p],
           UNCHANGED <<curr_offset, dstVars>>
    PROVE  BlockInv'
<1> USE DEF BlockInv
<1>1. /\ srcBlock' = [srcBlock EXCEPT ![c] = FinalTail]
      /\ srcPc' = [srcPc EXCEPT ![c] = p]
      /\ UNCHANGED <<curr_offset, dstVars>>
      /\ Transmit(c, srcBlock[c])
    OBVIOUS
<1>2. srcBlock[c] \in Message
    BY DEF TypeOK
<1>3. /\ srcBlock'[c] = FinalTail
      /\ \A d \in Channels \ {c} : srcBlock'[d] = srcBlock[d]
      /\ srcPc'[c] # "send"
      /\ \A d \in Channels \ {c} : srcPc'[d] = srcPc[d]
    BY <1>1 DEF TypeOK
<1>4. \A d \in Channels : \A i \in Positions(d)' :
          \/ i \in Positions(d) /\ wire'[d][i] = wire[d][i]
          \/ d = c /\ i = Len(wire[c]) + 1 /\ wire'[d][i] = srcBlock[c]
    BY <1>1, <1>2, AfterTransmit
<1>5. \A d \in Channels : Len(wire[d]) \in Nat
    BY DEF TypeOK
<1>6. HeldBlocks'
    <2>1. \A d \in Channels : wire[d] # <<>> => wire'[d] # <<>> /\ Head(wire'[d]) = Head(wire[d])
        BY <1>1, <1>2, HeadAfterTransmit
    <2>2. UNCHANGED <<dstPc, dstBlock>>
        BY <1>1 DEF dstVars
    <2>3. \A d \in Channels : Live(srcBlock'[d]) <=> srcPc'[d] = "send"
        BY <1>3, TailNotLive DEF HeldBlocks
    <2> QED
        BY <2>1, <2>2, <2>3 DEF HeldBlocks, Live
<1>7. BlocksClaimed'
    <2>1. UNCHANGED <<curr_offset, stored>>
        BY <1>1 DEF dstVars
    <2>2. \A d \in Channels : Claimed(srcBlock'[d])
        BY <1>3, TailNotLive DEF BlocksClaimed, Claimed
    <2>3. \A d \in Channels : \A i \in Positions(d)' : Claimed(wire'[d][i])
        BY <1>4 DEF BlocksClaimed
    <2> QED
        BY <2>1, <2>2, <2>3 DEF BlocksClaimed, Claimed, Live, Positions
<1>8. BlocksApart'
    <2>1. \A d, e \in Channels : d # e => Apart(srcBlock'[d], srcBlock'[e])
        BY <1>3, TailNotLive DEF BlocksApart, Apart
    <2>2. ASSUME NEW d \in Channels, NEW e \in Channels, NEW i \in Positions(e)'
          PROVE  Apart(srcBlock'[d], wire'[e][i])
        <3>1. CASE d = c
            BY <1>3, <3>1, TailNotLive DEF Apart
        <3>2. CASE d # c
            BY <1>3, <1>4, <2>2, <3>2 DEF BlocksApart
        <3> QED
            BY <3>1, <3>2
    <2>3. ASSUME NEW d \in Channels, NEW e \in Channels,
                 NEW i \in Positions(d)', NEW j \in Positions(e)', d # e \/ i # j
          PROVE  Apart(wire'[d][i], wire'[e][j])
        <3>1. CASE i \in Positions(d) /\ wire'[d][i] = wire[d][i]
                   /\ j \in Positions(e) /\ wire'[e][j] = wire[e][j]
            BY <2>3, <3>1 DEF BlocksApart
        <3>2. CASE i \in Positions(d) /\ wire'[d][i] = wire[d][i] /\ wire'[e][j] = srcBlock[c]
            BY <3>2 DEF BlocksApart, Apart
        <3>3. CASE wire'[d][i] = srcBlock[c] /\ j \in Positions(e) /\ wire'[e][j] = wire[e][j]
            BY <3>3 DEF BlocksApart, Apart
        <3> QED
            BY <1>4, <2>3, <3>1, <3>2, <3>3
    <2> QED
        BY <2>1, <2>2, <2>3 DEF BlocksApart, Apart, Live, Positions
<1>9. BlocksFresh'
    <2>1. UNCHANGED stored
        BY <1>1 DEF dstVars
    <2>2. \A d \in Channels : Fresh(srcBlock'[d])
        BY <1>3, TailNotLive DEF BlocksFresh, Fresh
    <2>3. \A d \in Channels : \A i \in Positions(d)' : Fresh(wire'[d][i])
        BY <1>4 DEF BlocksFresh
    <2> QED
        BY <2>1, <2>2, <2>3 DEF BlocksFresh, Fresh, Live, Positions
<1>10. ReceivedCountsBytes' /\ CountingBlocks'
    BY <1>1, CountsFrame DEF dstVars
<1>11. FullyCounted'
    BY <1>1 DEF FullyCounted, dstVars
<1> QED
    BY <1>6, <1>7, <1>8, <1>9, <1>10, <1>11

LEMMA SourceInv ==
    ASSUME BlockInv, NEW c \in Channels, SourceStep(c)
    PROVE  BlockInv'
<1>1. TypeOK'
    BY SourceType DEF BlockInv
<1>2. CASE BeginSource(c) \/ NextFile(c)
    BY <1>1, <1>2, SourceQuietInv
<1>3. CASE ClaimBlock(c)
    BY <1>1, <1>3, ClaimBlockInv
<1>4. CASE SendBlock(c)
    BY <1>1, <1>4, SendInv DEF SendBlock
<1>5. CASE SendTail(c)
    <2>1. srcBlock[c] = FinalTail
        <3>1. srcBlock[c] \in Message /\ ~Live(srcBlock[c])
            BY <1>5 DEF BlockInv, TypeOK, HeldBlocks, SendTail
        <3> QED
            BY <3>1 DEF Message, Block, Live
    <2>2. srcBlock' = [srcBlock EXCEPT ![c] = FinalTail]
        BY <1>5, <2>1 DEF SendTail, BlockInv, TypeOK
    <2>3. Transmit(c, srcBlock[c]) /\ srcPc' = [srcPc EXCEPT ![c] = "done"]
          /\ UNCHANGED <<curr_offset, dstVars>>
        BY <1>5, <2>1 DEF SendTail
    <2> QED
        BY <1>1, <2>2, <2>3, SendInv
<1>6. CASE SendFails(c)
    <2> USE DEF BlockInv
    <2>1. /\ srcBlock'[c] = FinalTail
          /\ \A d \in Channels \ {c} : srcBlock'[d] = srcBlock[d]
          /\ srcPc'[c] # "send"
          /\ \A d \in Channels \ {c} : srcPc'[d] = srcPc[d]
          /\ UNCHANGED <<curr_offset, wire, dstPc, dstBlock, recv_ctx, stored>>
        BY <1>6 DEF SendFails, TypeOK, dstVars
    <2>2. HeldBlocks'
        BY <2>1, TailNotLive DEF HeldBlocks, Live
    <2>3. BlocksClaimed'
        <3>1. \A d \in Channels : Claimed(srcBlock'[d])
            BY <2>1, TailNotLive DEF BlocksClaimed, Claimed
        <3> QED
            BY <2>1, <3>1 DEF BlocksClaimed, Claimed, Live, Positions
    <2>4. BlocksApart'
        <3>1. \A d, e \in Channels : d # e => Apart(srcBlock'[d], srcBlock'[e])
            BY <2>1, TailNotLive DEF BlocksApart, Apart
        <3>2. \A d, e \in Channels : \A i \in Positions(e) : Apart(srcBlock'[d], wire[e][i])
            BY <2>1, TailNotLive DEF BlocksApart, Apart
        <3> QED
            BY <2>1, <3>1, <3>2 DEF BlocksApart, Apart, Live, Positions
    <2>5. BlocksFresh'
        <3>1. \A d \in Channels : Fresh(srcBlock'[d])
            BY <2>1, TailNotLive DEF BlocksFresh, Fresh
        <3> QED
            BY <2>1, <3>1 DEF BlocksFresh, Fresh, Live, Positions
    <2>6. ReceivedCountsBytes' /\ CountingBlocks' /\ FullyCounted'
        BY <2>1, CountsFrame DEF FullyCounted
    <2> QED
        BY <1>1, <2>2, <2>3, <2>4, <2>5, <2>6
<1> QED
    BY <1>2, <1>3, <1>4, <1>5, <1>6 DEF SourceStep

----------------------------------------------------------------------------
(* Counting bytes.                                                          *)

LEMMA WholeFileSize ==
    ASSUME NEW f \in Files
    PROVE  IsFiniteSet(WholeFile(f)) /\ Cardinality(WholeFile(f)) = FileSize[f]
<1>1. FileSize[f] \in Nat
    OBVIOUS
<1>2. FileSize[f] - 1 \in Int /\ 0 \in Int
    BY <1>1
<1> QED
    BY <1>1, <1>2, FS_Interval DEF WholeFile

LEMMA BlockBytes ==
    ASSUME NEW b \in Block
    PROVE  /\ IsFiniteSet(Bytes(b)) /\ Cardinality(Bytes(b)) = b.len
           /\ \A x : x \in Bytes(b) <=> x \in Nat /\ b.off <= x /\ x < b.off + b.len
<1>1. b.off \in Nat /\ b.len \in Nat /\ b.len > 0
    BY DEF Block
<1>2. b.off \in Int /\ b.off + b.len - 1 \in Int
    BY <1>1
<1> DEFINE lo == b.off
           hi == b.off + b.len - 1
<1>a. IsFiniteSet(lo .. hi) /\ Cardinality(lo .. hi) = IF lo > hi THEN 0 ELSE hi - lo + 1
    <2> HIDE DEF lo, hi
    <2>1. lo \in Int /\ hi \in Int
        BY <1>2 DEF lo, hi
    <2> QED
        BY <2>1, FS_Interval
<1>b. ~(lo > hi) /\ hi - lo + 1 = b.len
    BY <1>1
<1>3. IsFiniteSet(Bytes(b)) /\ Cardinality(Bytes(b)) = b.len
    BY <1>a, <1>b DEF Bytes
<1>4. \A x : x \in Bytes(b) <=> x \in Nat /\ b.off <= x /\ x < b.off + b.len
    BY <1>1 DEF Bytes
<1> QED
    BY <1>3, <1>4

(* The bytes counted are bytes of the file; when received_size reaches the  *)
(* file's size they are all of them.                                        *)
LEMMA CountedBytes ==
    ASSUME TypeOK, BlocksClaimed, ReceivedCountsBytes, NEW f \in Files
    PROVE  /\ stored[f] \subseteq WholeFile(f)
           /\ recv_ctx[f].received <= FileSize[f]
           /\ recv_ctx[f].received = FileSize[f] =>
                 stored[f] \ Uncounted(f) = WholeFile(f) /\ stored[f] = WholeFile(f)
<1>1. stored[f] \subseteq WholeFile(f)
    <2>1. stored[f] \subseteq Nat /\ FileSize[f] \in Nat
        BY DEF TypeOK
    <2>2. \A x \in stored[f] : x < FileSize[f]
        BY DEF BlocksClaimed
    <2> QED
        BY <2>1, <2>2 DEF WholeFile
<1>2. stored[f] \ Uncounted(f) \in SUBSET WholeFile(f)
    BY <1>1
<1>3. recv_ctx[f].received = Cardinality(stored[f] \ Uncounted(f))
    BY DEF ReceivedCountsBytes
<1>4. recv_ctx[f].received <= FileSize[f]
    BY <1>2, <1>3, WholeFileSize, FS_Subset
<1>5. recv_ctx[f].received = FileSize[f] => stored[f] \ Uncounted(f) = WholeFile(f)
    BY <1>2, <1>3, WholeFileSize, FS_Subset
<1> QED
    BY <1>1, <1>4, <1>5

----------------------------------------------------------------------------
(* The steps of a destination thread keep the invariant.                    *)

LEMMA DestinationQuietInv ==
    ASSUME BlockInv, NEW c \in Channels, TypeOK',
           BeginDestination(c) \/ RecvHeader(c) \/ RecvFails(c)
    PROVE  BlockInv'
<1> USE DEF BlockInv
<1>1. UNCHANGED <<srcVars, wire, recv_ctx, stored>>
    BY DEF BeginDestination, RecvHeader, RecvFails
<1>2. /\ dstPc[c] \in {"idle", "header", "body"}
      /\ dstPc'[c] \in {"header", "body", "failed"}
      /\ \A d \in Channels \ {c} : dstPc'[d] = dstPc[d] /\ dstBlock'[d] = dstBlock[d]
    BY DEF BeginDestination, RecvHeader, RecvFails, TypeOK
<1>3. dstPc'[c] = "body" =>
          Live(dstBlock'[c]) /\ wire[c] # <<>> /\ dstBlock'[c] = Head(wire[c])
    BY DEF BeginDestination, RecvHeader, RecvFails, TypeOK, Live
<1>4. HeldBlocks'
    BY <1>1, <1>2, <1>3 DEF HeldBlocks, Live, srcVars
<1>5. BlocksClaimed' /\ BlocksApart' /\ BlocksFresh'
    <2>1. \A f \in Files : curr_offset[f] <= curr_offset'[f]
        BY <1>1 DEF srcVars, TypeOK
    <2> QED
        BY <1>1, <2>1, BlocksFrame DEF srcVars
<1>6. ReceivedCountsBytes' /\ CountingBlocks'
    BY <1>1, <1>2, CountsFrame
<1>7. FullyCounted'
    BY <1>1, <1>2 DEF FullyCounted
<1> QED
    BY <1>4, <1>5, <1>6, <1>7

(* The message at the head of a connection leaves it.                       *)
LEMMA PopBlocks ==
    ASSUME BlockInv, NEW c \in Channels, wire[c] # <<>>,
           wire' = [wire EXCEPT ![c] = Tail(@)],
           UNCHANGED <<srcVars, recv_ctx>>
    PROVE  /\ BlocksApart'
           /\ \A d \in Channels : \A i \in Positions(d)' :
                 \E j \in Positions(d) : wire'[d][i] = wire[d][j] /\ Apart(Head(wire[c]), wire[d][j])
           /\ \A d \in Channels : Apart(Head(wire[c]), srcBlock[d])
           /\ Claimed(Head(wire[c])) /\ Fresh(Head(wire[c]))
<1> USE DEF BlockInv
<1>1. /\ \A d \in Channels \ {c} : wire'[d] = wire[d]
      /\ \A i \in Positions(c)' : i + 1 \in Positions(c) /\ wire'[c][i] = wire[c][i + 1]
      /\ 1 \in Positions(c) /\ Head(wire[c]) = wire[c][1]
    BY AfterPop
<1>a. \A d, e \in Channels : \A i \in Positions(d), j \in Positions(e) :
          d # e \/ i # j => Apart(wire[d][i], wire[e][j])
    BY DEF BlocksApart
<1>b. 1 \in Positions(c) /\ Head(wire[c]) = wire[c][1]
    BY <1>1
<1>2. \A d \in Channels : Apart(Head(wire[c]), srcBlock[d])
    BY <1>1 DEF BlocksApart, Apart
<1>3. ASSUME NEW d \in Channels, NEW i \in Positions(d)'
      PROVE  \E j \in Positions(d) : wire'[d][i] = wire[d][j] /\ Apart(Head(wire[c]), wire[d][j])
    <2>1. CASE d = c
        <3>1. i + 1 \in Positions(c) /\ wire'[c][i] = wire[c][i + 1]
            BY <1>1, <2>1
        <3>2. i + 1 # 1
            BY <2>1 DEF Positions
        <3>3. Apart(wire[c][1], wire[c][i + 1])
            BY <1>a, <1>b, <3>1, <3>2
        <3> QED
            BY <1>b, <2>1, <3>1, <3>3
    <2>2. CASE d # c
        <3>1. i \in Positions(d) /\ wire'[d][i] = wire[d][i]
            BY <1>1, <2>2 DEF Positions
        <3> QED
            BY <1>1, <1>a, <2>2, <3>1
    <2> QED
        BY <2>1, <2>2
<1>4. BlocksApart'
    <2>1. UNCHANGED srcBlock
        BY DEF srcVars
    <2>2. \A d, e \in Channels : \A i \in Positions(e)' : Apart(srcBlock[d], wire'[e][i])
        BY <1>3 DEF BlocksApart
    <2>3. ASSUME NEW d \in Channels, NEW e \in Channels,
                 NEW i \in Positions(d)', NEW j \in Positions(e)', d # e \/ i # j
          PROVE  Apart(wire'[d][i], wire'[e][j])
        <3>1. CASE d = c /\ e = c
            <4>1. /\ i + 1 \in Positions(c) /\ wire'[c][i] = wire[c][i + 1]
                  /\ j + 1 \in Positions(c) /\ wire'[c][j] = wire[c][j + 1]
                BY <1>1, <3>1
            <4>2. i + 1 # j + 1
                BY <2>3, <3>1 DEF Positions
            <4>3. Apart(wire[c][i + 1], wire[c][j + 1])
                BY <1>a, <4>1, <4>2
            <4> QED
                BY <3>1, <4>1, <4>3
        <3>2. CASE d = c /\ e # c
            <4>1. /\ i + 1 \in Positions(c) /\ wire'[c][i] = wire[c][i + 1]
                  /\ j \in Positions(e) /\ wire'[e][j] = wire[e][j]
                BY <1>1, <3>2 DEF Positions
            <4>2. Apart(wire[c][i + 1], wire[e][j])
                BY <1>a, <3>2, <4>1
            <4> QED
                BY <3>2, <4>1, <4>2
        <3>3. CASE d # c /\ e = c
            <4>1. /\ i \in Positions(d) /\ wire'[d][i] = wire[d][i]
                  /\ j + 1 \in Positions(c) /\ wire'[c][j] = wire[c][j + 1]
                BY <1>1, <3>3 DEF Positions
            <4>2. Apart(wire[d][i], wire[c][j + 1])
                BY <1>a, <3>3, <4>1
            <4> QED
                BY <3>3, <4>1, <4>2
        <3>4. CASE d # c /\ e # c
            <4>1. /\ i \in Positions(d) /\ wire'[d][i] = wire[d][i]
                  /\ j \in Positions(e) /\ wire'[e][j] = wire[e][j]
                BY <1>1, <3>4 DEF Positions
            <4> QED
                BY <1>a, <2>3, <4>1
        <3> QED
            BY <3>1, <3>2, <3>3, <3>4
    <2> QED
        BY <2>1, <2>2, <2>3 DEF BlocksApart, Apart, Live, Positions
<1>5. Claimed(Head(wire[c])) /\ Fresh(Head(wire[c]))
    BY <1>1 DEF BlocksClaimed, BlocksFresh
<1> QED
    BY <1>2, <1>3, <1>4, <1>5

(* Receiving the tail.                                                      *)
LEMMA RecvTailInv ==
    ASSUME BlockInv, NEW c \in Channels, TypeOK', RecvTail(c)
    PROVE  BlockInv'
<1> USE DEF BlockInv
<1>1. /\ wire[c] # <<>> /\ wire' = [wire EXCEPT ![c] = Tail(@)]
      /\ UNCHANGED <<srcVars, dstBlock, recv_ctx, stored>>
      /\ UNCHANGED <<srcVars, recv_ctx>>
      /\ UNCHANGED <<curr_offset, srcPc, srcBlock>>
    BY DEF RecvTail, srcVars
<1>2. /\ dstPc[c] = "header" /\ dstPc'[c] = "done"
      /\ \A d \in Channels \ {c} : dstPc'[d] = dstPc[d] /\ wire'[d] = wire[d]
    BY <1>1 DEF RecvTail, TypeOK
<1>3. /\ BlocksApart'
      /\ \A d \in Channels : \A i \in Positions(d)' :
             \E j \in Positions(d) : wire'[d][i] = wire[d][j]
    <2>1. /\ BlocksApart'
          /\ \A d \in Channels : \A i \in Positions(d)' :
                 \E j \in Positions(d) : wire'[d][i] = wire[d][j] /\ Apart(Head(wire[c]), wire[d][j])
        BY <1>1, PopBlocks
    <2> QED
        BY <2>1
<1>4. HeldBlocks'
    BY <1>1, <1>2 DEF HeldBlocks, Live
<1>5. BlocksClaimed'
    <2>1. \A d \in Channels : \A i \in Positions(d)' : Claimed(wire'[d][i])
        BY <1>3 DEF BlocksClaimed
    <2> QED
        BY <1>1, <2>1 DEF BlocksClaimed, Claimed, Live, Positions
<1>6. BlocksFresh'
    <2>1. \A d \in Channels : \A i \in Positions(d)' : Fresh(wire'[d][i])
        BY <1>3 DEF BlocksFresh
    <2> QED
        BY <1>1, <2>1 DEF BlocksFresh, Fresh, Live, Positions
<1>7. ReceivedCountsBytes' /\ CountingBlocks'
    BY <1>1, <1>2, CountsFrame
<1>8. FullyCounted'
    BY <1>1, <1>2 DEF FullyCounted
<1> QED
    BY <1>3, <1>4, <1>5, <1>6, <1>7, <1>8

(* Two blocks of a file that do not overlap have no byte in common.         *)
LEMMA ApartBytes ==
    ASSUME NEW b \in Block, NEW e \in Block, b.file = e.file, Apart(b, e)
    PROVE  Bytes(b) \cap Bytes(e) = {}
<1>1. Live(b) /\ Live(e)
    BY DEF Block, Live
<1>2. /\ b.off \in Nat /\ b.len \in Nat /\ e.off \in Nat /\ e.len \in Nat
      /\ b.off + b.len <= e.off \/ e.off + e.len <= b.off
    BY <1>1 DEF Apart, Block
<1>3. ASSUME NEW x \in Bytes(b), x \in Bytes(e) PROVE FALSE
    BY <1>2, <1>3, BlockBytes
<1> QED
    BY <1>3

(* A block with no received byte does not overlap one received in full.     *)
LEMMA FreshApart ==
    ASSUME NEW b \in Block, NEW e \in Block, Fresh(b),
           b.file = e.file => Bytes(e) \subseteq stored[b.file]
    PROVE  Apart(b, e)
<1>1. CASE b.file = e.file
    <2>1. b.off \in Nat /\ b.len \in Nat /\ e.off \in Nat /\ e.len \in Nat /\ b.len > 0 /\ e.len > 0
        BY DEF Block
    <2>2. \A x \in Bytes(e) : x < b.off \/ x >= b.off + b.len
        BY <1>1, <2>1 DEF Fresh, Live
    <2>3. \A x \in Nat : e.off <= x /\ x < e.off + e.len => x < b.off \/ x >= b.off + b.len
        BY <2>2, BlockBytes
    <2>4. /\ e.off < b.off \/ e.off >= b.off + b.len
          /\ e.off <= b.off /\ b.off < e.off + e.len => FALSE
        BY <2>1, <2>3
    <2> QED
        BY <2>1, <2>4 DEF Apart
<1>2. CASE b.file # e.file
    BY <1>2 DEF Apart
<1> QED
    BY <1>1, <1>2

(* Receiving the body of a block, which no one has received before.         *)
LEMMA RecvBodyInv ==
    ASSUME BlockInv, NEW c \in Channels, TypeOK', RecvBody(c)
    PROVE  BlockInv' /\ Bytes(dstBlock[c]) \cap stored[dstBlock[c].file] = {}
<1> USE DEF BlockInv
<1> DEFINE b == dstBlock[c]
           g == b.file
<1>1. /\ wire[c] # <<>> /\ wire' = [wire EXCEPT ![c] = Tail(@)]
      /\ b = Head(wire[c])
      /\ UNCHANGED <<srcVars, recv_ctx>>
      /\ UNCHANGED <<curr_offset, srcPc, srcBlock, dstBlock, recv_ctx>>
    BY DEF RecvBody, srcVars, HeldBlocks
<1>2. /\ dstPc[c] = "body" /\ dstPc'[c] = "count"
      /\ \A d \in Channels \ {c} : dstPc'[d] = dstPc[d] /\ wire'[d] = wire[d]
    BY <1>1 DEF RecvBody, TypeOK
<1>3. b \in Message /\ Live(b) /\ b \in Block /\ g \in Files
    <2>1. b \in Message /\ Live(b)
        BY <1>2 DEF TypeOK, HeldBlocks
    <2> QED
        BY <2>1, LiveIsBlock
<1>4. /\ stored'[g] = stored[g] \cup Bytes(b)
      /\ \A f \in Files \ {g} : stored'[f] = stored[f]
    BY <1>3 DEF RecvBody, TypeOK
<1>5. /\ BlocksApart'
      /\ \A d \in Channels : \A i \in Positions(d)' :
             \E j \in Positions(d) : wire'[d][i] = wire[d][j] /\ Apart(Head(wire[c]), wire[d][j])
      /\ \A d \in Channels : Apart(Head(wire[c]), srcBlock[d])
      /\ Claimed(Head(wire[c])) /\ Fresh(Head(wire[c]))
    BY <1>1, PopBlocks
<1>6. Claimed(b) /\ Fresh(b) /\ \A d \in Channels : Apart(b, srcBlock[d])
    BY <1>1, <1>5
<1>7. \A d \in Channels : \A i \in Positions(d)' :
          \E j \in Positions(d) : wire'[d][i] = wire[d][j] /\ Apart(b, wire[d][j])
    <2> SUFFICES ASSUME NEW d \in Channels, NEW i \in Positions(d)'
                 PROVE  \E j \in Positions(d) : wire'[d][i] = wire[d][j] /\ Apart(b, wire[d][j])
        OBVIOUS
    <2>1. PICK j \in Positions(d) : wire'[d][i] = wire[d][j] /\ Apart(Head(wire[c]), wire[d][j])
        BY <1>5
    <2>2. Apart(b, wire[d][j])
        BY <1>1, <2>1
    <2> QED
        BY <2>1, <2>2
<1>8. b.off \in Nat /\ b.len \in Nat /\ b.len > 0
    BY <1>3 DEF Block
<1>9. \A x : x \in Bytes(b) <=> x \in Nat /\ b.off <= x /\ x < b.off + b.len
    BY <1>3, BlockBytes
<1>10. Bytes(b) \cap stored[g] = {}
    <2>1. \A x \in stored[g] : x < b.off \/ x >= b.off + b.len
        BY <1>3, <1>6 DEF Fresh
    <2>2. stored[g] \subseteq Nat
        BY <1>3 DEF TypeOK
    <2> HIDE DEF b, g
    <2>3. ASSUME NEW x \in Bytes(b), x \in stored[g] PROVE FALSE
        BY <1>8, <1>9, <2>1, <2>2, <2>3
    <2> QED
        BY <2>3
<1> HIDE DEF b, g
<1>11. HeldBlocks'
    BY <1>1, <1>2, <1>3 DEF HeldBlocks, Live, b
<1>12. BlocksClaimed'
    <2>1. \A d \in Channels : \A i \in Positions(d)' : Claimed(wire'[d][i])
        BY <1>7 DEF BlocksClaimed
    <2>2. \A f \in Files : \A x \in stored'[f] : x < FileSize[f] /\ x < curr_offset[f]
        <3>1. \A f \in Files : \A x \in stored[f] : x < FileSize[f] /\ x < curr_offset[f]
            BY DEF BlocksClaimed
        <3>2. FileSize[g] \in Nat /\ curr_offset[g] \in Nat
            BY <1>3 DEF TypeOK
        <3>3. b.off + b.len <= FileSize[g] /\ b.off + b.len <= curr_offset[g]
            BY <1>3, <1>6 DEF Claimed, g
        <3>4. \A x \in Bytes(b) : x < FileSize[g] /\ x < curr_offset[g]
            BY <1>8, <1>9, <3>2, <3>3
        <3> QED
            BY <1>4, <3>1, <3>4
    <2> QED
        BY <1>1, <2>1, <2>2 DEF BlocksClaimed, Claimed, Live, Positions
<1>13. BlocksFresh'
    <2> DEFINE StillFresh(m) == Live(m) => \A x \in stored'[m.file] : x < m.off \/ x >= m.off + m.len
    <2>1. ASSUME NEW m \in Message, Fresh(m), Apart(b, m) PROVE StillFresh(m)
        <3> SUFFICES ASSUME Live(m), NEW x \in stored'[m.file] PROVE x < m.off \/ x >= m.off + m.len
            OBVIOUS
        <3>1. m.file \in Files /\ m.off \in Nat /\ m.len \in Nat
            BY LiveIsBlock
        <3>2. CASE x \in stored[m.file]
            BY <2>1, <3>2 DEF Fresh
        <3>3. CASE m.file = g /\ x \in Bytes(b)
            <4>1. b.off + b.len <= m.off \/ m.off + m.len <= b.off
                BY <1>3, <2>1, <3>3 DEF Apart, g
            <4>2. x \in Nat /\ b.off <= x /\ x < b.off + b.len
                BY <1>9, <3>3
            <4> QED
                BY <1>8, <3>1, <4>1, <4>2
        <3> QED
            BY <1>4, <3>1, <3>2, <3>3
    <2> HIDE DEF StillFresh
    <2>2. \A d \in Channels : StillFresh(srcBlock[d])
        <3>1. \A d \in Channels : srcBlock[d] \in Message /\ Fresh(srcBlock[d])
            BY DEF TypeOK, BlocksFresh
        <3> QED
            BY <1>6, <2>1, <3>1
    <2>3. \A d \in Channels : \A i \in Positions(d)' : StillFresh(wire'[d][i])
        <3>1. \A d \in Channels : \A j \in Positions(d) : wire[d][j] \in Message /\ Fresh(wire[d][j])
            BY WireMessages DEF BlocksFresh
        <3> QED
            BY <1>7, <2>1, <3>1
    <2> QED
        BY <1>1, <2>2, <2>3 DEF BlocksFresh, Fresh, Live, Positions, StillFresh
<1>14. \A d \in Channels \ {c} : dstPc[d] = "count" =>
          /\ dstBlock[d] \in Block /\ dstBlock[d].file \in Files
          /\ Bytes(dstBlock[d]) \subseteq stored[dstBlock[d].file]
          /\ Apart(b, dstBlock[d])
    <2>1. ASSUME NEW d \in Channels, dstPc[d] = "count"
          PROVE  /\ dstBlock[d] \in Block /\ dstBlock[d].file \in Files
                 /\ Bytes(dstBlock[d]) \subseteq stored[dstBlock[d].file]
        <3>1. dstBlock[d] \in Message /\ Live(dstBlock[d])
            BY <2>1 DEF HeldBlocks, TypeOK
        <3> QED
            BY <2>1, <3>1, LiveIsBlock DEF CountingBlocks
    <2> QED
        BY <1>3, <1>6, <2>1, FreshApart
<1>15. CountingBlocks'
    <2>1. \A f \in Files : stored[f] \subseteq stored'[f]
        BY <1>4
    <2>2. \A d \in Channels : dstPc'[d] = "count" => Bytes(dstBlock[d]) \subseteq stored'[dstBlock[d].file]
        BY <1>2, <1>4, <1>14, <2>1 DEF b, g
    <2>3. \A d, e \in Channels :
             d # e /\ dstPc'[d] = "count" /\ dstPc'[e] = "count" => Apart(dstBlock[d], dstBlock[e])
        BY <1>2, <1>14 DEF CountingBlocks, Apart, b
    <2> QED
        BY <1>1, <2>2, <2>3 DEF CountingBlocks, Apart, Live, Bytes
<1>16. ReceivedCountsBytes'
    <2>1. ASSUME NEW f \in Files PROVE stored'[f] \ Uncounted(f)' = stored[f] \ Uncounted(f)
        <3> DEFINE U == {d \in Channels : dstPc[d] = "count" /\ dstBlock[d].file = f}
                   V == {d \in Channels : dstPc'[d] = "count" /\ dstBlock[d].file = f}
        <3>1. Uncounted(f) = UNION {Bytes(dstBlock[d]) : d \in U}
            BY DEF Uncounted
        <3>2. Uncounted(f)' = UNION {Bytes(dstBlock[d]) : d \in V}
            BY <1>1 DEF Uncounted, Bytes
        <3>3. CASE f = g
            <4>1. V = U \cup {c}
                BY <1>2, <3>3 DEF b, g
            <4>2. Uncounted(f)' = Uncounted(f) \cup Bytes(b)
                BY <3>1, <3>2, <4>1 DEF b
            <4> QED
                BY <1>4, <1>10, <3>3, <4>2
        <3>4. CASE f # g
            <4>1. V = U
                BY <1>2, <3>4 DEF b, g
            <4> QED
                BY <1>4, <3>1, <3>2, <3>4, <4>1
        <3> QED
            BY <3>3, <3>4
    <2> QED
        BY <1>1, <2>1 DEF ReceivedCountsBytes
<1>17. FullyCounted'
    BY <1>1, <1>2 DEF FullyCounted
<1> QED
    BY <1>5, <1>10, <1>11, <1>12, <1>13, <1>15, <1>16, <1>17 DEF b, g

(* Adding a block to received_size: its bytes are no longer uncounted, and  *)
(* no other thread is about to count any of them.                           *)
LEMMA CountBlockInv ==
    ASSUME BlockInv, NEW c \in Channels, TypeOK', CountBlock(c)
    PROVE  BlockInv'
<1> USE DEF BlockInv
<1> DEFINE b == dstBlock[c]
           g == b.file
           now == recv_ctx[g].received + b.len
<1>1. /\ UNCHANGED <<srcVars, wire, stored>>
      /\ UNCHANGED <<curr_offset, srcPc, srcBlock, wire, stored>>
    BY DEF CountBlock, srcVars
<1>2. b \in Message /\ Live(b) /\ b \in Block /\ g \in Files
    <2>1. b \in Message /\ Live(b)
        BY DEF CountBlock, TypeOK, HeldBlocks
    <2> QED
        BY <2>1, LiveIsBlock
<1>3. /\ dstPc[c] = "count"
      /\ dstPc'[c] = IF now = FileSize[g] THEN "complete" ELSE "header"
      /\ dstPc'[c] = "complete" => dstBlock'[c] = b
      /\ \A d \in Channels \ {c} : dstPc'[d] = dstPc[d] /\ dstBlock'[d] = dstBlock[d]
    BY DEF CountBlock, ReceivedWith, TypeOK
<1>4. /\ recv_ctx'[g].received = now
      /\ \A f \in Files : recv_ctx'[f].mapped = recv_ctx[f].mapped
      /\ \A f \in Files \ {g} : recv_ctx'[f].received = recv_ctx[f].received
    <2>1. /\ recv_ctx'[g] = [recv_ctx[g] EXCEPT !.received = now]
          /\ \A f \in Files \ {g} : recv_ctx'[f] = recv_ctx[f]
        BY <1>2 DEF CountBlock, ReceivedWith, TypeOK
    <2>2. recv_ctx[g] \in RecvCtx
        BY <1>2 DEF TypeOK
    <2>3. recv_ctx'[g].received = now /\ recv_ctx'[g].mapped = recv_ctx[g].mapped
        BY <2>1, <2>2 DEF RecvCtx
    <2> QED
        BY <2>1, <2>3
<1>5. /\ Bytes(b) \subseteq stored[g]
      /\ IsFiniteSet(Bytes(b)) /\ Cardinality(Bytes(b)) = b.len
      /\ b.off \in Bytes(b)
    <2>1. Bytes(b) \subseteq stored[g]
        BY <1>3 DEF CountingBlocks
    <2>2. b.off \in Nat /\ b.len \in Nat /\ b.len > 0
        BY <1>2 DEF Block
    <2> QED
        BY <1>2, <2>1, <2>2, BlockBytes
<1>6. Bytes(b) \subseteq Uncounted(g)
    BY <1>3 DEF Uncounted
<1>7. recv_ctx[g].received # FileSize[g]
    <2>1. stored[g] \ Uncounted(g) # stored[g]
        BY <1>5, <1>6
    <2> QED
        BY <1>2, <2>1, CountedBytes
<1> HIDE DEF b, g, now
<1>8. HeldBlocks'
    BY <1>1, <1>2, <1>3 DEF HeldBlocks, Live
<1>9. BlocksClaimed' /\ BlocksApart' /\ BlocksFresh'
    <2>1. \A f \in Files : curr_offset[f] <= curr_offset'[f]
        BY <1>1 DEF TypeOK
    <2> QED
        BY <1>1, <2>1, BlocksFrame
<1>10. CountingBlocks'
    <2>1. \A d \in Channels : dstPc'[d] = "count" => d # c /\ dstPc[d] = "count" /\ dstBlock'[d] = dstBlock[d]
        BY <1>3
    <2> QED
        BY <1>1, <2>1 DEF CountingBlocks, Apart, Live, Bytes
<1>11. ASSUME NEW d \in Channels \ {c}, dstPc[d] = "count", dstBlock[d].file = g
       PROVE  Bytes(b) \cap Bytes(dstBlock[d]) = {}
    <2>1. dstBlock[d] \in Block
        BY <1>11, LiveIsBlock DEF HeldBlocks, TypeOK
    <2>2. Apart(b, dstBlock[d])
        BY <1>3, <1>11 DEF CountingBlocks, b
    <2> QED
        BY <1>2, <1>11, <2>1, <2>2, ApartBytes DEF g
<1>12. \A f \in Files \ {g} : Uncounted(f)' = Uncounted(f)
    <2> SUFFICES ASSUME NEW f \in Files \ {g} PROVE Uncounted(f)' = Uncounted(f)
        OBVIOUS
    <2> DEFINE U == {d \in Channels : dstPc[d] = "count" /\ dstBlock[d].file = f}
               V == {d \in Channels : dstPc'[d] = "count" /\ dstBlock'[d].file = f}
    <2>1. V = U /\ \A d \in U : dstBlock'[d] = dstBlock[d]
        BY <1>3 DEF b, g
    <2>2. Uncounted(f) = UNION {Bytes(dstBlock[d]) : d \in U}
        BY DEF Uncounted
    <2>3. Uncounted(f)' = UNION {Bytes(dstBlock'[d]) : d \in V}
        BY DEF Uncounted, Bytes
    <2> QED
        BY <2>1, <2>2, <2>3
<1>13. ASSUME NEW f \in Files, f = g
       PROVE  Uncounted(f) = Uncounted(f)' \cup Bytes(b) /\ Uncounted(f)' \cap Bytes(b) = {}
    <2> DEFINE U == {d \in Channels : dstPc[d] = "count" /\ dstBlock[d].file = f}
               V == {d \in Channels : dstPc'[d] = "count" /\ dstBlock'[d].file = f}
    <2>1. U = V \cup {c} /\ c \notin V /\ \A d \in V : dstBlock'[d] = dstBlock[d]
        BY <1>3, <1>13 DEF b, g
    <2>2. Uncounted(f) = UNION {Bytes(dstBlock[d]) : d \in U}
        BY DEF Uncounted
    <2>3. Uncounted(f)' = UNION {Bytes(dstBlock'[d]) : d \in V}
        BY DEF Uncounted, Bytes
    <2>4. \A d \in V : Bytes(b) \cap Bytes(dstBlock[d]) = {}
        BY <1>11, <1>13, <2>1
    <2> HIDE DEF U, V
    <2>5. \A d \in V : Bytes(dstBlock'[d]) = Bytes(dstBlock[d])
        BY <2>1
    <2>6. Uncounted(f)' = UNION {Bytes(dstBlock[d]) : d \in V}
        BY <2>3, <2>5
    <2> QED
        BY <2>1, <2>2, <2>4, <2>6 DEF b
<1>14. ReceivedCountsBytes'
    <2>1. ASSUME NEW f \in Files, f = g
          PROVE  recv_ctx'[f].received = Cardinality(stored[f] \ Uncounted(f)')
        <3> DEFINE before == stored[f] \ Uncounted(f)
                   after == stored[f] \ Uncounted(f)'
        <3>1. after = before \cup Bytes(b) /\ before \cap Bytes(b) = {}
            BY <1>5, <1>13, <2>1
        <3>2. recv_ctx[f].received = Cardinality(before) /\ IsFiniteSet(before)
            <4>1. stored[f] \subseteq WholeFile(f)
                BY CountedBytes
            <4>2. before \in SUBSET WholeFile(f)
                BY <4>1
            <4> QED
                BY <4>2, WholeFileSize, FS_Subset DEF ReceivedCountsBytes
        <3> HIDE DEF before, after
        <3>3. Cardinality(after) = Cardinality(before) + b.len - Cardinality({})
            BY <1>5, <3>1, <3>2, FS_Union
        <3>4. Cardinality({}) = 0 /\ Cardinality(before) \in Nat /\ b.len \in Nat
            BY <1>2, <3>2, FS_EmptySet, FS_CardinalityType DEF Block
        <3>5. Cardinality(after) = recv_ctx[f].received + b.len
            BY <3>2, <3>3, <3>4
        <3> QED
            BY <1>4, <2>1, <3>5 DEF now, after
    <2>2. \A f \in Files \ {g} : recv_ctx'[f].received = Cardinality(stored[f] \ Uncounted(f)')
        BY <1>4, <1>12 DEF ReceivedCountsBytes
    <2> QED
        BY <1>1, <2>1, <2>2 DEF ReceivedCountsBytes
<1>15. FullyCounted'
    <2>1. \A d \in Channels \ {c} : dstPc[d] = "complete" => dstBlock[d].file \in Files \ {g}
        <3>1. \A d \in Channels : dstPc[d] = "complete" => dstBlock[d].file \in Files
            BY LiveIsBlock DEF HeldBlocks, TypeOK
        <3> QED
            BY <1>7, <3>1 DEF FullyCounted
    <2>2. \A d \in Channels :
              dstPc'[d] = "complete" => recv_ctx'[dstBlock'[d].file].received = FileSize[dstBlock'[d].file]
        <3>1. dstPc'[c] = "complete" => recv_ctx'[dstBlock'[c].file].received = FileSize[dstBlock'[c].file]
            BY <1>3, <1>4 DEF g
        <3>2. \A d \in Channels \ {c} : dstPc'[d] = "complete" =>
                  recv_ctx'[dstBlock'[d].file].received = FileSize[dstBlock'[d].file]
            BY <1>3, <1>4, <2>1 DEF FullyCounted
        <3> QED
            BY <3>1, <3>2
    <2>3. \A f \in Files : FileSize[f] > 0 /\ ~recv_ctx'[f].mapped => recv_ctx'[f].received = FileSize[f]
        BY <1>4, <1>7 DEF FullyCounted
    <2> QED
        BY <2>2, <2>3 DEF FullyCounted
<1> QED
    BY <1>8, <1>9, <1>10, <1>14, <1>15

(* The thread that finds the file whole unmaps and closes it.               *)
LEMMA CompleteFileInv ==
    ASSUME BlockInv, NEW c \in Channels, TypeOK', CompleteFile(c)
    PROVE  BlockInv'
<1> USE DEF BlockInv
<1>1. UNCHANGED <<curr_offset, srcPc, srcBlock, wire, stored>>
    BY DEF CompleteFile, srcVars
<1>2. /\ dstPc[c] = "complete" /\ dstPc'[c] = "header"
      /\ \A d \in Channels \ {c} : dstPc'[d] = dstPc[d] /\ dstBlock'[d] = dstBlock[d]
    BY DEF CompleteFile, TypeOK
<1>3. dstBlock[c].file \in Files /\ recv_ctx[dstBlock[c].file].received = FileSize[dstBlock[c].file]
    BY <1>2, LiveIsBlock DEF HeldBlocks, TypeOK, FullyCounted
<1>4. /\ \A f \in Files : recv_ctx'[f].received = recv_ctx[f].received
      /\ \A f \in Files : f # dstBlock[c].file => recv_ctx'[f].mapped = recv_ctx[f].mapped
    <2>1. \A ctx \in RecvCtx : close_handle(unmap_file(ctx)).received = ctx.received
        BY DEF close_handle, unmap_file, RecvCtx
    <2>2. /\ recv_ctx \in [Files -> RecvCtx]
          /\ recv_ctx' = [recv_ctx EXCEPT ![dstBlock[c].file] = close_handle(unmap_file(@))]
        BY DEF CompleteFile, put_away, TypeOK
    <2> QED
        BY <1>3, <2>1, <2>2
<1>5. HeldBlocks'
    BY <1>1, <1>2 DEF HeldBlocks, Live
<1>6. BlocksClaimed' /\ BlocksApart' /\ BlocksFresh'
    <2>1. \A f \in Files : curr_offset[f] <= curr_offset'[f]
        BY <1>1 DEF TypeOK
    <2> QED
        BY <1>1, <2>1, BlocksFrame
<1>7. ReceivedCountsBytes' /\ CountingBlocks'
    BY <1>1, <1>2, <1>4, CountsFrame
<1>8. FullyCounted'
    <2>1. \A d \in Channels : dstPc'[d] = "complete" =>
              dstBlock'[d].file \in Files /\ recv_ctx[dstBlock'[d].file].received = FileSize[dstBlock'[d].file]
        BY <1>2, LiveIsBlock DEF HeldBlocks, TypeOK, FullyCounted
    <2>2. \A f \in Files : FileSize[f] > 0 /\ ~recv_ctx'[f].mapped => recv_ctx[f].received = FileSize[f]
        BY <1>3, <1>4 DEF FullyCounted
    <2> QED
        BY <1>4, <2>1, <2>2 DEF FullyCounted
<1> QED
    BY <1>5, <1>6, <1>7, <1>8

LEMMA DestinationInv ==
    ASSUME BlockInv, NEW c \in Channels, DestinationStep(c)
    PROVE  BlockInv'
<1>1. TypeOK'
    BY DestinationType DEF BlockInv
<1> QED
    BY <1>1, DestinationQuietInv, RecvTailInv, RecvBodyInv, CountBlockInv, CompleteFileInv
       DEF DestinationStep

(* Closed sockets, lost connections and a dispose() touch no block and no   *)
(* count; a dispose() of the destination closes handles but, for the reason *)
(* DisposedMeansUnmapped fails, unmaps nothing.                             *)
LEMMA DisturbanceInv == BlockInv /\ Disturbance => BlockInv'
<1> SUFFICES ASSUME BlockInv, Disturbance PROVE BlockInv'
    OBVIOUS
<1> USE DEF BlockInv
<1>1. TypeOK'
    BY DisturbanceType
<1>2. /\ UNCHANGED <<srcVars, wire, dstPc, dstBlock, stored>>
      /\ \A f \in Files : recv_ctx'[f].received = recv_ctx[f].received /\ recv_ctx'[f].mapped = recv_ctx[f].mapped
    <2>1. \A ctx \in RecvCtx : /\ unmap_file(close_handle(ctx)).received = ctx.received
                               /\ unmap_file(close_handle(ctx)).mapped = ctx.mapped
        BY DEF unmap_file, close_handle, RecvCtx
    <2>2. CASE DisposeDestination
        BY <2>1, <2>2 DEF DisposeDestination, TypeOK
    <2>3. CASE ~DisposeDestination
        BY <2>3 DEF Disturbance, LoseConnection, CloseSourceSocks, CloseDestinationSocks, DisposeSource, dstVars
    <2> QED
        BY <2>2, <2>3
<1>3. UNCHANGED <<curr_offset, srcPc, srcBlock, wire, dstPc, dstBlock, stored>>
    BY <1>2 DEF srcVars
<1>4. HeldBlocks'
    BY <1>3 DEF HeldBlocks, Live
<1>5. BlocksClaimed' /\ BlocksApart' /\ BlocksFresh'
    <2>1. \A f \in Files : curr_offset[f] <= curr_offset'[f]
        BY <1>3 DEF TypeOK
    <2> QED
        BY <1>1, <1>3, <2>1, BlocksFrame
<1>6. ReceivedCountsBytes' /\ CountingBlocks'
    BY <1>2, <1>3, CountsFrame
<1>7. FullyCounted'
    <2>1. \A d \in Channels : dstPc[d] = "complete" => dstBlock[d].file \in Files
        BY LiveIsBlock DEF HeldBlocks, TypeOK
    <2> QED
        BY <1>2, <1>3, <2>1 DEF FullyCounted
<1> QED
    BY <1>1, <1>4, <1>5, <1>6, <1>7

----------------------------------------------------------------------------
(* The theorems.                                                            *)

LEMMA InitInv == Init => BlockInv
<1> SUFFICES ASSUME Init PROVE BlockInv
    OBVIOUS
<1>1. TypeOK
    BY InitType
<1>2. /\ \A c \in Channels : /\ srcPc[c] = "idle" /\ dstPc[c] = "idle"
                             /\ srcBlock[c] = FinalTail /\ wire[c] = <<>>
      /\ \A f \in Files : stored[f] = {} /\ recv_ctx[f] = OpenedCtx(f)
    BY DEF Init
<1>a. \A f \in Files : OpenedCtx(f).received = 0 /\ (FileSize[f] > 0 => OpenedCtx(f).mapped)
    BY DEF OpenedCtx
<1>b. \A f \in Files : recv_ctx[f].received = 0 /\ (FileSize[f] > 0 => recv_ctx[f].mapped)
    BY <1>2, <1>a
<1>3. \A c \in Channels : Positions(c) = {}
    BY <1>2 DEF Positions
<1>4. HeldBlocks
    BY <1>2, TailNotLive DEF HeldBlocks
<1>5. BlocksClaimed /\ BlocksApart /\ BlocksFresh
    BY <1>2, <1>3, TailNotLive DEF BlocksClaimed, BlocksApart, BlocksFresh, Claimed, Apart, Fresh
<1>6. CountingBlocks
    BY <1>2 DEF CountingBlocks
<1>7. ReceivedCountsBytes
    <2>1. \A f \in Files : stored[f] \ Uncounted(f) = {} /\ recv_ctx[f].received = 0
        BY <1>2, <1>b
    <2> QED
        BY <2>1, FS_EmptySet DEF ReceivedCountsBytes
<1>8. FullyCounted
    BY <1>2, <1>b DEF FullyCounted
<1> QED
    BY <1>1, <1>4, <1>5, <1>6, <1>7, <1>8 DEF BlockInv

LEMMA NextInv == BlockInv /\ [Next]_dataVars => BlockInv'
<1> SUFFICES ASSUME BlockInv, [Next]_dataVars PROVE BlockInv'
    OBVIOUS
<1>1. CASE ThreadStep
    BY <1>1, SourceInv, DestinationInv DEF ThreadStep
<1>2. CASE Disturbance
    BY <1>2, DisturbanceInv
<1>3. CASE UNCHANGED dataVars
    <2>1. /\ UNCHANGED <<curr_offset, srcPc, srcFile, srcBlock, blockSize, srcOpen, wire, lost>>
          /\ UNCHANGED <<srcSock, dstSock, dstPc, dstBlock, recv_ctx, stored, dstDisposed>>
        BY <1>3 DEF dataVars, srcVars, netVars, dstVars
    <2>2. TypeOK' /\ HeldBlocks'
        BY <2>1 DEF BlockInv, TypeOK, HeldBlocks, Live
    <2>3. BlocksClaimed' /\ BlocksApart' /\ BlocksFresh'
        <3>1. \A f \in Files : curr_offset[f] <= curr_offset'[f]
            BY <2>1 DEF BlockInv, TypeOK
        <3> QED
            BY <2>1, <2>2, <3>1, BlocksFrame DEF BlockInv
    <2>4. CountingBlocks' /\ ReceivedCountsBytes'
        BY <2>1, CountsFrame DEF BlockInv
    <2>5. FullyCounted'
        BY <2>1 DEF BlockInv, FullyCounted
    <2> QED
        BY <2>2, <2>3, <2>4, <2>5 DEF BlockInv
<1> QED
    BY <1>1, <1>2, <1>3 DEF Next

(* The inductive invariant holds: the claimed blocks of a file partition    *)
(* what fetch_add has handed out, whatever threads, sockets and dispose()   *)
(* do.                                                                      *)
THEOREM InvariantHolds == Spec => []BlockInv
    BY InitInv, NextInv, PTL DEF Spec

(* Every variable of the data plane keeps its type.                         *)
THEOREM TypesHold == Spec => []TypeOK
<1>1. BlockInv => TypeOK
    BY DEF BlockInv
<1> QED
    BY <1>1, InvariantHolds, PTL

(* received_size counts every received byte exactly once                    *)
(* (transfer.cpp:403-405).                                                  *)
THEOREM BytesCountedOnce == Spec => []ReceivedCountsBytes
<1>1. BlockInv => ReceivedCountsBytes
    BY DEF BlockInv
<1> QED
    BY <1>1, InvariantHolds, PTL

(* A file is unmapped and closed on completion only when every byte of it   *)
(* has been received (transfer.cpp:406-410).                                *)
THEOREM CompletionIsNeverEarly == Spec => []CompletedFileIsWhole
<1>1. BlockInv => CompletedFileIsWhole
    BY CountedBytes DEF BlockInv, FullyCounted, CompletedFileIsWhole
<1> QED
    BY <1>1, InvariantHolds, PTL

(* A file some block of which has been claimed and not received is mapped.   *)
LEMMA PendingBlockMapped ==
    ASSUME BlockInv, NEW m \in Message, Live(m), Claimed(m), Fresh(m)
    PROVE  recv_ctx[m.file].mapped
<1> DEFINE f == m.file
<1>1. f \in Files /\ m.off \in Nat /\ m.len \in Nat /\ m.len > 0 /\ FileSize[f] \in Nat
    BY LiveIsBlock
<1>2. m.off + m.len <= FileSize[f]
    BY DEF Claimed
<1>3. m.off \in WholeFile(f) /\ m.off \notin stored[f]
    BY <1>1, <1>2 DEF WholeFile, Fresh
<1>4. recv_ctx[f].received # FileSize[f]
    BY <1>1, <1>3, CountedBytes DEF BlockInv
<1>5. FileSize[f] > 0
    BY <1>1, <1>2
<1>6. recv_ctx[f].mapped
    BY <1>1, <1>4, <1>5 DEF BlockInv, FullyCounted
<1> QED
    BY <1>6

(* No file is unmapped while a block of it is claimed or in flight, so no   *)
(* thread receives into a mapping another thread has removed.               *)
THEOREM PendingBlocksHaveMapping == Spec => []PendingBlocksStayMapped
<1>1. BlockInv => PendingBlocksStayMapped
    <2> SUFFICES ASSUME BlockInv PROVE PendingBlocksStayMapped
        OBVIOUS
    <2>1. \A c \in Channels : srcPc[c] = "send" => recv_ctx[srcBlock[c].file].mapped
        BY PendingBlockMapped DEF BlockInv, TypeOK, HeldBlocks, BlocksClaimed, BlocksFresh
    <2>2. \A c \in Channels : \A i \in Positions(c) : wire[c][i].len # 0 => recv_ctx[wire[c][i].file].mapped
        BY PendingBlockMapped, WireMessages DEF BlockInv, BlocksClaimed, BlocksFresh, Live
    <2> QED
        BY <2>1, <2>2 DEF PendingBlocksStayMapped, Positions
<1> QED
    BY <1>1, InvariantHolds, PTL

(* No byte is ever received twice: whatever the interleaving of the         *)
(* fetch_adds, two channels never carry overlapping blocks.                 *)
THEOREM BytesReceivedOnce == Spec => NoByteReceivedTwice
<1> DEFINE Once == \A c \in Channels : RecvBody(c) => Bytes(dstBlock[c]) \cap stored[dstBlock[c].file] = {}
<1>1. BlockInv /\ [Next]_dataVars => [Once]_dataVars
    <2>1. ASSUME BlockInv, [Next]_dataVars, NEW c \in Channels, RecvBody(c)
          PROVE  Bytes(dstBlock[c]) \cap stored[dstBlock[c].file] = {}
        <3>1. TypeOK'
            BY <2>1, NextInv DEF BlockInv
        <3> QED
            BY <2>1, <3>1, RecvBodyInv
    <2> QED
        BY <2>1
<1>2. Spec => [][Once]_dataVars
    BY <1>1, InvariantHolds, PTL DEF Spec
<1> QED
    BY <1>2 DEF NoByteReceivedTwice

----------------------------------------------------------------------------
(* The data plane implements FileCopy.                                      *)

LEMMA InitImplementsCopy == Init => Copy!Init
<1>1. \A f \in Files : FileSize[f] > 0 => OpenedCtx(f).mapped
    BY DEF OpenedCtx
<1> QED
    BY <1>1 DEF Init, Copy!Init

(* A received block is a set of missing bytes of a file not yet finished.    *)
LEMMA RecvBodyArrives ==
    ASSUME BlockInv, NEW c \in Channels, RecvBody(c)
    PROVE  Copy!Next
<1> DEFINE b == dstBlock[c]
           done == {f \in Files : FileSize[f] > 0 /\ ~recv_ctx[f].mapped}
<1>1. TypeOK'
    BY DestinationType DEF BlockInv, DestinationStep
<1>2. Bytes(b) \cap stored[b.file] = {}
    BY <1>1, RecvBodyInv
<1>3. /\ wire[c] # <<>> /\ b = Head(wire[c]) /\ b \in Message /\ Live(b)
      /\ recv_ctx' = recv_ctx
      /\ stored' = [stored EXCEPT ![b.file] = @ \cup Bytes(b)]
    BY DEF RecvBody, BlockInv, HeldBlocks, TypeOK
<1>4. Claimed(b) /\ Fresh(b)
    <2>1. 1 \in Positions(c) /\ Head(wire[c]) = wire[c][1]
        BY <1>3 DEF BlockInv, TypeOK, Positions
    <2> QED
        BY <1>3, <2>1 DEF BlockInv, BlocksClaimed, BlocksFresh
<1>5. b.file \in Files \ done
    BY <1>3, <1>4, LiveIsBlock, PendingBlockMapped
<1>6. b.file \in Files /\ b.off \in Nat /\ b.len \in Nat /\ b.len > 0 /\ FileSize[b.file] \in Nat
    BY <1>3, LiveIsBlock
<1>7. b.off + b.len <= FileSize[b.file]
    BY <1>3, <1>4 DEF Claimed
<1>8. Bytes(b) \subseteq 0 .. (FileSize[b.file] - 1) /\ b.off \in Bytes(b)
    <2> HIDE DEF b
    <2> QED
        BY <1>6, <1>7 DEF Bytes
<1>9. Bytes(b) \in SUBSET Copy!Missing(b.file) /\ Bytes(b) # {}
    BY <1>2, <1>8 DEF Copy!Missing
<1>10. Copy!Arrive(b.file)
    BY <1>3, <1>5, <1>9 DEF Copy!Arrive
<1> QED
    BY <1>6, <1>10 DEF Copy!Next

(* The thread that unmaps a file finishes it; one that finds it closed by    *)
(* dispose() changes nothing.                                               *)
LEMMA CompleteFileFinishes ==
    ASSUME BlockInv, NEW c \in Channels, CompleteFile(c)
    PROVE  [Copy!Next]_(Copy!copyVars)
<1> DEFINE g == dstBlock[c].file
           done == {f \in Files : FileSize[f] > 0 /\ ~recv_ctx[f].mapped}
<1>1. /\ recv_ctx \in [Files -> RecvCtx]
      /\ recv_ctx' = [recv_ctx EXCEPT ![g] = close_handle(unmap_file(@))]
      /\ stored' = stored
    BY DEF CompleteFile, put_away, BlockInv, TypeOK
<1>2. g \in Files /\ recv_ctx[g].received = FileSize[g] /\ FileSize[g] \in Nat
    BY LiveIsBlock DEF CompleteFile, BlockInv, HeldBlocks, TypeOK, FullyCounted
<1>3. stored[g] = WholeFile(g)
    BY <1>2, CountedBytes DEF BlockInv
<1>4. Copy!Missing(g) = {}
    BY <1>3 DEF Copy!Missing, WholeFile
<1>5. recv_ctx[g] \in RecvCtx /\ recv_ctx'[g] = close_handle(unmap_file(recv_ctx[g]))
      /\ \A f \in Files \ {g} : recv_ctx'[f] = recv_ctx[f]
    BY <1>1, <1>2
<1>6. recv_ctx'[g].mapped = recv_ctx[g].mapped \/ recv_ctx'[g].mapped = FALSE
    BY <1>5 DEF close_handle, unmap_file, RecvCtx
<1> HIDE DEF g
<1>7. done' = done \/ (g \notin done /\ done' = done \cup {g})
    <2>1. CASE recv_ctx'[g].mapped = recv_ctx[g].mapped
        BY <1>5, <2>1
    <2>2. CASE recv_ctx'[g].mapped = FALSE /\ g \in done
        BY <1>5, <2>2
    <2>3. CASE recv_ctx'[g].mapped = FALSE /\ g \notin done /\ FileSize[g] > 0
        BY <1>2, <1>5, <2>3
    <2>4. CASE ~(FileSize[g] > 0)
        BY <1>2, <1>5, <2>4
    <2> QED
        BY <1>6, <2>1, <2>2, <2>3, <2>4
<1>8. CASE done' = done
    BY <1>1, <1>8 DEF Copy!copyVars
<1>9. CASE g \notin done /\ done' = done \cup {g}
    BY <1>1, <1>2, <1>4, <1>9 DEF Copy!Next, Copy!Finish
<1> QED
    BY <1>7, <1>8, <1>9

(* Every other step moves no byte into a mapping and unmaps nothing.         *)
LEMMA OtherStepsKeepCopy ==
    ASSUME BlockInv, stored' = stored,
           \A f \in Files : recv_ctx'[f].mapped = recv_ctx[f].mapped
    PROVE  UNCHANGED Copy!copyVars
    BY DEF Copy!copyVars

LEMMA NextImplementsCopy == BlockInv /\ [Next]_dataVars => [Copy!Next]_(Copy!copyVars)
<1> SUFFICES ASSUME BlockInv, [Next]_dataVars PROVE [Copy!Next]_(Copy!copyVars)
    OBVIOUS
<1>1. ASSUME NEW c \in Channels, SourceStep(c) PROVE UNCHANGED <<recv_ctx, stored>>
    BY <1>1 DEF SourceStep, BeginSource, ClaimBlock, NextFile, SendBlock, SendTail, SendFails, dstVars
<1>2. ASSUME NEW c \in Channels, DestinationStep(c) PROVE [Copy!Next]_(Copy!copyVars)
    <2>1. CASE BeginDestination(c) \/ RecvTail(c) \/ RecvHeader(c) \/ RecvFails(c)
        <3>1. UNCHANGED <<recv_ctx, stored>>
            BY <2>1 DEF BeginDestination, RecvTail, RecvHeader, RecvFails
        <3> QED
            BY <3>1, OtherStepsKeepCopy
    <2>2. CASE RecvBody(c)
        BY <1>2, <2>2, RecvBodyArrives
    <2>3. CASE CountBlock(c)
        <3>1. dstBlock[c].file \in Files
            BY <2>3, LiveIsBlock DEF CountBlock, BlockInv, HeldBlocks, TypeOK
        <3>2. \A f \in Files : recv_ctx'[f].mapped = recv_ctx[f].mapped
            BY <2>3, <3>1 DEF CountBlock, BlockInv, TypeOK, RecvCtx
        <3> QED
            BY <2>3, <3>2, OtherStepsKeepCopy DEF CountBlock
    <2>4. CASE CompleteFile(c)
        BY <1>2, <2>4, CompleteFileFinishes
    <2> QED
        BY <1>2, <2>1, <2>2, <2>3, <2>4 DEF DestinationStep
<1>3. CASE Disturbance
    <2>1. \A ctx \in RecvCtx : unmap_file(close_handle(ctx)).mapped = ctx.mapped
        BY DEF unmap_file, close_handle, RecvCtx
    <2>2. stored' = stored /\ \A f \in Files : recv_ctx'[f].mapped = recv_ctx[f].mapped
        BY <1>3, <2>1 DEF Disturbance, LoseConnection, CloseSourceSocks, CloseDestinationSocks,
                          DisposeSource, DisposeDestination, dstVars, BlockInv, TypeOK
    <2> QED
        BY <2>2, OtherStepsKeepCopy
<1>4. CASE UNCHANGED dataVars
    <2>1. UNCHANGED <<recv_ctx, stored>>
        BY <1>4 DEF dataVars, dstVars
    <2> QED
        BY <2>1, OtherStepsKeepCopy
<1>5. ASSUME NEW c \in Channels, SourceStep(c) PROVE [Copy!Next]_(Copy!copyVars)
    BY <1>1, <1>5, OtherStepsKeepCopy
<1> QED
    BY <1>2, <1>3, <1>4, <1>5 DEF Next, ThreadStep

(* The channels implement FileCopy: whatever the interleaving, the lost      *)
(* connections and dispose(), bytes arrive once each and a file is finished  *)
(* once, whole, with nothing arriving after (transfer.cpp:378-412).          *)
THEOREM ImplementsFileCopy == Spec => CopiesFiles
<1>1. Spec => [][Copy!Next]_(Copy!copyVars)
    BY InvariantHolds, NextImplementsCopy, PTL DEF Spec
<1>2. Spec => Copy!Init
    BY InitImplementsCopy, PTL DEF Spec
<1> QED
    BY <1>1, <1>2, PTL DEF CopiesFiles, Copy!Spec
=============================================================================
