--------------------------- MODULE DeliveryProofs ---------------------------
(***************************************************************************)
(* What BlockTransfer promises the portal thread that waits at the gate:   *)
(* when every destination thread has received its tail, every file is      *)
(* whole, and put away.  For any channels, files and block sizes.          *)
(***************************************************************************)
EXTENDS BlockTransferProofs

USE FilesAssumption

----------------------------------------------------------------------------
(* Blocks and connections.                                                 *)

\* A message in flight stays where it is when another is sent, and a message
\* that is transmitted to an end that is there comes last.
LEMMA TransmitKeeps ==
    ASSUME TypeOK, NEW c \in Channels, NEW m \in Message, Transmit(c, m)
    PROVE  /\ \A d \in Channels : \A i \in Positions(d) : i \in Positions(d)' /\ wire'[d][i] = wire[d][i]
           /\ \A d \in Channels \ {c} : wire'[d] = wire[d]
           /\ \/ lost[c] /\ wire' = wire
              \/ ~dstSock[c] /\ wire' = wire
              \/ /\ ~lost[c] /\ dstSock[c]
                 /\ Len(wire[c]) \in Nat /\ Len(wire'[c]) = Len(wire[c]) + 1
                 /\ wire'[c][Len(wire[c]) + 1] = m
<1>1. wire \in [Channels -> Seq(Message)] /\ wire[c] \in Seq(Message)
    BY DEF TypeOK
<1>2. CASE ~(dstSock[c] /\ ~lost[c])
    <2>1. wire' = wire
        BY <1>2 DEF Transmit
    <2> QED
        BY <1>2, <2>1 DEF Positions
<1>3. CASE dstSock[c] /\ ~lost[c]
    <2>0. wire' = [wire EXCEPT ![c] = Append(@, m)]
        BY <1>3 DEF Transmit
    <2>1. wire'[c] = Append(wire[c], m) /\ \A d \in Channels \ {c} : wire'[d] = wire[d]
        BY <1>1, <2>0
    <2>2. /\ Len(wire[c]) \in Nat
          /\ Len(wire'[c]) = Len(wire[c]) + 1
          /\ wire'[c][Len(wire[c]) + 1] = m
          /\ \A i \in 1 .. Len(wire[c]) : wire'[c][i] = wire[c][i]
        BY <1>1, <2>1
    <2>3. \A i \in Positions(c) : i \in Positions(c)' /\ wire'[c][i] = wire[c][i]
        BY <2>2 DEF Positions
    <2>4. \A d \in Channels \ {c} : \A i \in Positions(d) : i \in Positions(d)' /\ wire'[d][i] = wire[d][i]
        BY <2>1 DEF Positions
    <2> QED
        BY <1>3, <2>1, <2>2, <2>3, <2>4
<1> QED
    BY <1>2, <1>3

\* Every message but the head moves one place ahead when the head is received.
LEMMA PopKeeps ==
    ASSUME TypeOK, NEW c \in Channels, wire[c] # <<>>,
           wire' = [wire EXCEPT ![c] = Tail(@)]
    PROVE  /\ \A i \in Positions(c) \ {1} : i - 1 \in Positions(c)' /\ wire'[c][i - 1] = wire[c][i]
           /\ Len(wire[c]) \in Nat /\ Len(wire'[c]) = Len(wire[c]) - 1
           /\ Len(wire[c]) = 1 => wire'[c] = <<>>
<1>1. wire \in [Channels -> Seq(Message)] /\ wire[c] \in Seq(Message)
    BY DEF TypeOK
<1>2. wire'[c] = Tail(wire[c])
    BY <1>1
<1>3. /\ Len(Tail(wire[c])) = Len(wire[c]) - 1
      /\ \A i \in 1 .. (Len(wire[c]) - 1) : Tail(wire[c])[i] = wire[c][i + 1]
      /\ Len(wire[c]) \in Nat /\ Len(wire[c]) >= 1
      /\ Len(wire[c]) = 1 => Tail(wire[c]) = <<>>
    BY <1>1
<1>4. ASSUME NEW i \in Positions(c) \ {1}
      PROVE  i - 1 \in Positions(c)' /\ wire'[c][i - 1] = wire[c][i]
    <2>1. i - 1 \in 1 .. (Len(wire[c]) - 1) /\ (i - 1) + 1 = i
        BY <1>3, <1>4 DEF Positions
    <2> QED
        BY <1>2, <1>3, <2>1 DEF Positions
<1> QED
    BY <1>2, <1>3, <1>4

\* The bytes a block covers are the bytes it stands for.
LEMMA CoversBytes ==
    ASSUME NEW m \in Message, NEW f, NEW x \in Nat, Covers(m, f, x)
    PROVE  m.file = f /\ x \in Bytes(m) /\ m \in Block
BY LiveIsBlock, BlockBytes DEF Covers

----------------------------------------------------------------------------
(* Steps that move no block.                                               *)

LEMMA BrokenFrame ==
    ASSUME NEW c \in Channels, Broken(c), wire'[c] = wire[c],
           dstPc'[c] = "done" => dstPc[c] = "done",
           srcPc[c] = "failed" => srcPc'[c] = "failed",
           lost[c] => lost'[c], ~dstSock[c] => ~dstSock'[c]
    PROVE  Broken(c)'
BY DEF Broken, Positions, Live

LEMMA DeliveryFrame ==
    ASSUME TailsLast, FilesPassed, BytesAccounted,
           UNCHANGED <<curr_offset, srcFile, srcBlock, wire, stored>>,
           \A c \in Channels : /\ dstPc'[c] = "done" <=> dstPc[c] = "done"
                               /\ srcPc'[c] = "done" <=> srcPc[c] = "done"
                               /\ srcPc[c] = "failed" => srcPc'[c] = "failed"
                               /\ lost[c] => lost'[c]
                               /\ ~dstSock[c] => ~dstSock'[c]
    PROVE  TailsLast' /\ FilesPassed' /\ BytesAccounted'
<1>1. TailsLast'
    BY DEF TailsLast, Positions, Live
<1>2. FilesPassed'
    BY DEF FilesPassed
<1>3. BytesAccounted'
    <2>1. \A c \in Channels : Broken(c) => Broken(c)'
        BY BrokenFrame
    <2>2. \A f \in Files : \A x \in WholeFile(f) : Accounted(f, x) => Accounted(f, x)'
        BY <2>1 DEF Accounted, Covers, Live, Positions
    <2> QED
        BY <2>2 DEF BytesAccounted, WholeFile
<1> QED
    BY <1>1, <1>2, <1>3

LEMMA PutAwayFrame ==
    ASSUME WholeFilesPutAway, recv_ctx' = recv_ctx,
           dstDisposed => dstDisposed',
           \A c \in Channels : dstPc[c] = "complete" =>
               dstPc'[c] = "complete" /\ dstBlock'[c] = dstBlock[c]
    PROVE  WholeFilesPutAway'
BY DEF WholeFilesPutAway

----------------------------------------------------------------------------
(* The steps of a source thread.                                           *)

LEMMA BeginSourceDelivery ==
    ASSUME BlockInv, DeliveryInv, NEW c \in Channels, BeginSource(c)
    PROVE  DeliveryInv'
<1>1. TailsLast' /\ FilesPassed' /\ BytesAccounted'
    BY DeliveryFrame DEF BlockInv, TypeOK, DeliveryInv, BeginSource, netVars, dstVars
<1>2. WholeFilesPutAway'
    BY PutAwayFrame DEF DeliveryInv, BeginSource, dstVars
<1> QED
    BY <1>1, <1>2 DEF DeliveryInv

\* A claimed block covers what curr_offset has moved past, up to the file's end.
LEMMA ClaimBlockDelivery ==
    ASSUME BlockInv, DeliveryInv, NEW c \in Channels, ClaimBlock(c)
    PROVE  DeliveryInv'
<1> DEFINE f == srcFile[c]
           b == BlockAt(f, curr_offset[f], blockSize[c])
<1>1. /\ f \in Files /\ curr_offset[f] \in Nat /\ FileSize[f] \in Nat
      /\ curr_offset[f] < FileSize[f]
      /\ blockSize[c] \in Nat /\ blockSize[c] > 0
    BY BlockSizeType DEF ClaimBlock, BlockInv, TypeOK
<1>2. /\ curr_offset' = [curr_offset EXCEPT ![f] = curr_offset[f] + blockSize[c]]
      /\ srcBlock' = [srcBlock EXCEPT ![c] = b]
      /\ srcPc[c] = "claim" /\ srcPc' = [srcPc EXCEPT ![c] = "send"]
      /\ UNCHANGED <<srcFile, wire, lost, dstSock, dstPc, dstBlock, recv_ctx, stored, dstDisposed>>
    BY DEF ClaimBlock, netVars, dstVars
<1>3. \A d \in Channels : (srcPc'[d] = "done" <=> srcPc[d] = "done")
                          /\ (srcPc[d] = "failed" => srcPc'[d] = "failed")
    BY <1>2 DEF BlockInv, TypeOK
<1>4. \A g \in Files : curr_offset'[g] = IF g = f THEN curr_offset[f] + blockSize[c] ELSE curr_offset[g]
    BY <1>2 DEF BlockInv, TypeOK
<1>5. TailsLast'
    BY <1>2, <1>3 DEF DeliveryInv, TailsLast, Positions, Live
<1>6. FilesPassed'
    <2>0. \A g \in Files : curr_offset[g] \in Nat /\ FileSize[g] \in Nat
        BY DEF BlockInv, TypeOK
    <2>1. \A g \in Files : curr_offset'[g] >= curr_offset[g] /\ curr_offset[g] \in Nat
                           /\ curr_offset'[g] \in Nat /\ FileSize[g] \in Nat
        BY <1>1, <1>4, <2>0
    <2> QED
        BY <1>2, <1>3, <2>1 DEF DeliveryInv, FilesPassed
<1>7. BytesAccounted'
    <2> SUFFICES ASSUME NEW g \in Files, NEW x \in WholeFile(g) PROVE Accounted(g, x)'
        BY DEF BytesAccounted, WholeFile
    <2>1. x \in Nat /\ x < FileSize[g] /\ FileSize[g] \in Nat
        BY DEF WholeFile
    <2>2. Accounted(g, x)
        BY DEF DeliveryInv, BytesAccounted
    <2>3. \A d \in Channels : Broken(d) => Broken(d)'
        BY <1>2, <1>3, BrokenFrame
    <2>4. srcBlock'[c] = b /\ \A d \in Channels \ {c} : srcBlock'[d] = srcBlock[d]
        BY <1>2 DEF BlockInv, TypeOK
    <2>5. CASE x >= curr_offset[g] /\ ~(x >= curr_offset'[g])
        <3>1. g = f
            BY <2>5, <1>4
        <3>2. /\ b.file = f /\ b.off = curr_offset[f]
              /\ b.len = IF curr_offset[f] + blockSize[c] >= FileSize[f]
                         THEN FileSize[f] - curr_offset[f] ELSE blockSize[c]
            BY DEF BlockAt
        <3>3. x < curr_offset[f] + blockSize[c]
            BY <2>1, <2>5, <1>1, <1>4, <3>1
        <3>4. b.len # 0 /\ b.off <= x /\ x < b.off + b.len
            BY <3>1, <3>2, <3>3, <2>5, <2>1, <1>1
        <3>5. Covers(b, f, x)
            BY <3>2, <3>4 DEF Covers, Live
        <3> QED
            BY <2>4, <3>1, <3>5 DEF Accounted, Covers, Live
    <2>6. CASE x >= curr_offset'[g]
        BY <2>6 DEF Accounted
    <2>7. CASE x \in stored[g]
        BY <2>7, <1>2 DEF Accounted
    <2>8. ASSUME NEW d \in Channels, Covers(srcBlock[d], g, x) PROVE Accounted(g, x)'
        <3>1. d # c
            BY <2>8, <1>2 DEF Covers, BlockInv, HeldBlocks
        <3> QED
            BY <2>8, <2>4, <3>1 DEF Accounted, Covers, Live
    <2>9. ASSUME NEW d \in Channels, NEW i \in Positions(d), Covers(wire[d][i], g, x)
          PROVE Accounted(g, x)'
        BY <2>9, <1>2 DEF Accounted, Covers, Live, Positions
    <2> QED
        BY <2>2, <2>3, <2>5, <2>6, <2>7, <2>8, <2>9 DEF Accounted
<1>8. WholeFilesPutAway'
    BY <1>2, PutAwayFrame DEF DeliveryInv
<1> QED
    BY <1>5, <1>6, <1>7, <1>8 DEF DeliveryInv

LEMMA NextFileDelivery ==
    ASSUME BlockInv, DeliveryInv, NEW c \in Channels, NextFile(c)
    PROVE  DeliveryInv'
<1> DEFINE f == srcFile[c]
<1>1. /\ f \in Files /\ curr_offset[f] \in Nat /\ FileSize[f] \in Nat
      /\ curr_offset[f] >= FileSize[f]
      /\ blockSize[c] \in Nat /\ blockSize[c] > 0
    BY BlockSizeType DEF NextFile, AllClaimed, BlockInv, TypeOK
<1>2. /\ curr_offset' = [curr_offset EXCEPT ![f] = curr_offset[f] + blockSize[c]]
      /\ srcPc[c] = "claim" /\ srcFile' = [srcFile EXCEPT ![c] = f + 1]
      /\ UNCHANGED <<srcPc, srcBlock, wire, lost, dstSock, dstPc, dstBlock, recv_ctx, stored, dstDisposed>>
    BY DEF NextFile, netVars, dstVars
<1>4. \A g \in Files : curr_offset'[g] = IF g = f THEN curr_offset[f] + blockSize[c] ELSE curr_offset[g]
    BY <1>2 DEF BlockInv, TypeOK
<1>5. TailsLast'
    BY <1>2 DEF DeliveryInv, TailsLast, Positions, Live
<1>6. FilesPassed'
    <2>0. \A g \in Files : curr_offset[g] \in Nat /\ FileSize[g] \in Nat
        BY DEF BlockInv, TypeOK
    <2>1. \A g \in Files : curr_offset'[g] >= curr_offset[g] /\ curr_offset[g] \in Nat
                           /\ curr_offset'[g] \in Nat /\ FileSize[g] \in Nat
        BY <1>1, <1>4, <2>0
    <2>2. srcFile'[c] = f + 1 /\ \A d \in Channels \ {c} : srcFile'[d] = srcFile[d]
        BY <1>2 DEF BlockInv, TypeOK
    <2>3. \A g \in Files : g < f + 1 => g < f \/ g = f
        BY <1>1 DEF Files
    <2>4. \A g \in Files : g < srcFile'[c] => curr_offset'[g] >= FileSize[g]
        BY <1>1, <2>1, <2>2, <2>3 DEF DeliveryInv, FilesPassed
    <2>5. \A d \in Channels \ {c} : \A g \in Files : g < srcFile'[d] => curr_offset'[g] >= FileSize[g]
        BY <2>1, <2>2 DEF DeliveryInv, FilesPassed
    <2>6. \A d \in Channels : srcPc'[d] = "done" => srcFile'[d] = NFiles + 1
        BY <1>2, <2>2 DEF DeliveryInv, FilesPassed
    <2> QED
        BY <2>4, <2>5, <2>6 DEF FilesPassed
<1>7. BytesAccounted'
    <2> SUFFICES ASSUME NEW g \in Files, NEW x \in WholeFile(g) PROVE Accounted(g, x)'
        BY DEF BytesAccounted, WholeFile
    <2>1. x \in Nat /\ x < FileSize[g] /\ FileSize[g] \in Nat
        BY DEF WholeFile
    <2>2. Accounted(g, x)
        BY DEF DeliveryInv, BytesAccounted
    <2>3. \A d \in Channels : Broken(d) => Broken(d)'
        BY <1>2, BrokenFrame
    <2>4. x >= curr_offset[g] => x >= curr_offset'[g]
        BY <1>1, <1>4, <2>1
    <2> QED
        BY <1>2, <2>2, <2>3, <2>4 DEF Accounted, Covers, Live, Positions
<1>8. WholeFilesPutAway'
    BY <1>2, PutAwayFrame DEF DeliveryInv
<1> QED
    BY <1>5, <1>6, <1>7, <1>8 DEF DeliveryInv

\* A block or a tail that is sent joins its connection at the end, or is lost
\* with a connection whose tail can no longer arrive.
LEMMA SendDelivery ==
    ASSUME BlockInv, DeliveryInv, NEW c \in Channels, SendBlock(c) \/ SendTail(c)
    PROVE  DeliveryInv'
<1> DEFINE m == IF srcPc[c] = "send" THEN srcBlock[c] ELSE FinalTail
<1> USE DEF BlockInv, DeliveryInv
<1>1. /\ srcPc[c] \in {"send", "claim"} /\ Transmit(c, m)
      /\ srcPc'[c] = (IF srcPc[c] = "send" THEN "claim" ELSE "done")
      /\ srcPc[c] = "claim" => srcFile[c] = NFiles + 1
      /\ \A d \in Channels \ {c} : srcPc'[d] = srcPc[d] /\ srcBlock'[d] = srcBlock[d]
      /\ UNCHANGED <<curr_offset, srcFile, lost, dstSock, dstPc, dstBlock, recv_ctx, stored, dstDisposed>>
    <2>1. CASE SendBlock(c)
        BY <2>1 DEF SendBlock, TypeOK, netVars, dstVars
    <2>2. CASE SendTail(c)
        <3>1. srcFile[c] = NFiles + 1
            BY <2>2 DEF SendTail, TypeOK, Files
        <3> QED
            BY <2>2, <3>1 DEF SendTail, TypeOK, netVars, dstVars
    <2> QED
        BY <2>1, <2>2
<1>2. m \in Message /\ (Live(m) <=> srcPc[c] = "send")
    BY FinalTailType, TailNotLive DEF TypeOK, HeldBlocks
<1>3. /\ \A d \in Channels : \A i \in Positions(d) : i \in Positions(d)' /\ wire'[d][i] = wire[d][i]
      /\ \A d \in Channels \ {c} : wire'[d] = wire[d]
      /\ \/ lost[c] /\ wire' = wire
         \/ ~dstSock[c] /\ wire' = wire
         \/ /\ ~lost[c] /\ dstSock[c]
            /\ Len(wire[c]) \in Nat /\ Len(wire'[c]) = Len(wire[c]) + 1
            /\ wire'[c][Len(wire[c]) + 1] = m
    BY <1>1, <1>2, TransmitKeeps
<1>4. /\ \A d \in Channels : \A i \in Positions(d)' :
            \/ i \in Positions(d) /\ wire'[d][i] = wire[d][i]
            \/ d = c /\ i = Len(wire[c]) + 1 /\ wire'[d][i] = m
    BY <1>1, <1>2, AfterTransmit
<1>5. dstPc[c] # "done" /\ \A i \in Positions(c) : Live(wire[c][i])
    BY <1>1 DEF TailsLast
<1>6. TailsLast'
    <2>1. \A d \in Channels \ {c} :
              /\ srcPc'[d] # "done" => dstPc'[d] # "done" /\ \A i \in Positions(d)' : Live(wire'[d][i])
              /\ \A i \in Positions(d)' : ~Live(wire'[d][i]) => i = Len(wire'[d])
              /\ dstPc'[d] = "done" => wire'[d] = <<>>
        BY <1>1, <1>3 DEF TailsLast, Positions
    <2>2. srcPc'[c] # "done" => dstPc'[c] # "done" /\ \A i \in Positions(c)' : Live(wire'[c][i])
        BY <1>1, <1>2, <1>4, <1>5
    <2>3. \A i \in Positions(c)' : ~Live(wire'[c][i]) => i = Len(wire'[c])
        BY <1>3, <1>4, <1>5 DEF Positions
    <2>4. dstPc'[c] # "done"
        BY <1>1, <1>5
    <2> QED
        BY <2>1, <2>2, <2>3, <2>4 DEF TailsLast, Positions, Live
<1>7. FilesPassed'
    BY <1>1 DEF FilesPassed
<1>8. BytesAccounted'
    <2>1. ASSUME NEW d \in Channels, Broken(d) PROVE Broken(d)'
        <3>1. CASE d = c
            <4>1. wire' = wire
                BY <1>1, <1>3, <2>1, <3>1 DEF Broken
            <4> QED
                BY <1>1, <2>1, <3>1, <4>1 DEF Broken, Positions, Live
        <3>2. CASE d # c
            BY <1>1, <1>3, <2>1, <3>2, BrokenFrame
        <3> QED
            BY <3>1, <3>2
    <2> SUFFICES ASSUME NEW g \in Files, NEW x \in WholeFile(g) PROVE Accounted(g, x)'
        BY DEF BytesAccounted, WholeFile
    <2>2. Accounted(g, x)
        BY DEF BytesAccounted
    <2>3. ASSUME NEW d \in Channels, NEW i \in Positions(d), Covers(wire[d][i], g, x)
          PROVE Accounted(g, x)'
        BY <2>3, <1>3 DEF Accounted, Covers, Live
    <2>4. CASE Covers(srcBlock[c], g, x)
        <3>1. srcPc[c] = "send" /\ m = srcBlock[c]
            BY <2>4, <1>1 DEF Covers, HeldBlocks
        <3>2. CASE ~lost[c] /\ dstSock[c]
            <4>1. Len(wire[c]) + 1 \in Positions(c)'
                BY <1>3, <3>2 DEF Positions
            <4> QED
                BY <1>3, <2>4, <3>1, <3>2, <4>1 DEF Accounted, Covers, Live
        <3>3. CASE lost[c] \/ ~dstSock[c]
            <4>1. wire' = wire
                BY <1>3, <3>3
            <4>2. Broken(c)'
                BY <1>1, <1>5, <3>3, <4>1 DEF Broken, Positions, Live
            <4> QED
                BY <4>2 DEF Accounted
        <3> QED
            BY <3>2, <3>3
    <2>5. ASSUME NEW d \in Channels \ {c}, Covers(srcBlock[d], g, x) PROVE Accounted(g, x)'
        BY <2>5, <1>1 DEF Accounted, Covers, Live
    <2>6. CASE x >= curr_offset[g] \/ x \in stored[g]
        BY <2>6, <1>1 DEF Accounted
    <2> QED
        BY <2>1, <2>2, <2>3, <2>4, <2>5, <2>6 DEF Accounted
<1>9. WholeFilesPutAway'
    BY <1>1, PutAwayFrame
<1> QED
    BY <1>6, <1>7, <1>8, <1>9

LEMMA SendFailsDelivery ==
    ASSUME BlockInv, DeliveryInv, NEW c \in Channels, SendFails(c)
    PROVE  DeliveryInv'
<1> USE DEF BlockInv, DeliveryInv
<1>1. /\ srcPc[c] \in {"send", "claim"} /\ srcPc'[c] = "failed"
      /\ \A d \in Channels \ {c} : srcPc'[d] = srcPc[d] /\ srcBlock'[d] = srcBlock[d]
      /\ UNCHANGED <<curr_offset, srcFile, wire, lost, dstSock, dstPc, dstBlock, recv_ctx, stored, dstDisposed>>
    BY DEF SendFails, TypeOK, netVars, dstVars
<1>2. TailsLast'
    BY <1>1 DEF TailsLast, Positions, Live
<1>3. FilesPassed'
    BY <1>1 DEF FilesPassed
<1>4. BytesAccounted'
    <2>1. \A d \in Channels \ {c} : Broken(d) => Broken(d)'
        BY <1>1, BrokenFrame
    <2>2. Broken(c)'
        BY <1>1 DEF TailsLast, Broken, Positions, Live
    <2> QED
        BY <2>2 DEF BytesAccounted, Accounted
<1>5. WholeFilesPutAway'
    BY <1>1, PutAwayFrame
<1> QED
    BY <1>2, <1>3, <1>4, <1>5

----------------------------------------------------------------------------
(* The steps of a destination thread.                                      *)

LEMMA DestinationQuietDelivery ==
    ASSUME BlockInv, DeliveryInv, NEW c \in Channels,
           BeginDestination(c) \/ RecvHeader(c) \/ RecvFails(c)
    PROVE  DeliveryInv'
<1> USE DEF BlockInv, DeliveryInv
<1>1. /\ dstPc[c] \in {"idle", "header", "body"} /\ dstPc'[c] \in {"header", "body", "failed"}
      /\ \A d \in Channels \ {c} : dstPc'[d] = dstPc[d] /\ dstBlock'[d] = dstBlock[d]
      /\ UNCHANGED <<curr_offset, srcPc, srcFile, srcBlock, wire, lost, dstSock, recv_ctx, stored, dstDisposed>>
    BY DEF BeginDestination, RecvHeader, RecvFails, TypeOK, srcVars, netVars
<1>2. TailsLast' /\ FilesPassed' /\ BytesAccounted'
    BY <1>1, DeliveryFrame
<1>3. WholeFilesPutAway'
    BY <1>1, PutAwayFrame
<1> QED
    BY <1>2, <1>3

\* The tail is the only message left.
LEMMA RecvTailDelivery ==
    ASSUME BlockInv, DeliveryInv, NEW c \in Channels, RecvTail(c)
    PROVE  DeliveryInv'
<1> USE DEF BlockInv, DeliveryInv
<1>1. /\ dstPc[c] = "header" /\ dstPc'[c] = "done"
      /\ wire[c] # <<>> /\ Head(wire[c]).len = 0 /\ wire' = [wire EXCEPT ![c] = Tail(@)]
      /\ \A d \in Channels \ {c} : dstPc'[d] = dstPc[d]
      /\ UNCHANGED <<curr_offset, srcPc, srcFile, srcBlock, lost, dstSock, dstBlock, recv_ctx, stored, dstDisposed>>
    BY DEF RecvTail, TypeOK, srcVars, netVars
<1>2. /\ \A d \in Channels \ {c} : wire'[d] = wire[d]
      /\ 1 \in Positions(c) /\ ~Live(wire[c][1])
    BY <1>1, AfterPop DEF Live
<1>3. Len(wire[c]) = 1 /\ wire'[c] = <<>> /\ Positions(c) = {1} /\ srcPc[c] = "done"
    <2>1. Len(wire[c]) = 1 /\ srcPc[c] = "done"
        BY <1>2 DEF TailsLast
    <2>2. wire'[c] = <<>>
        BY <1>1, <2>1, PopKeeps
    <2>3. Positions(c) = {1}
        BY <2>1 DEF Positions
    <2> QED
        BY <2>1, <2>2, <2>3
<1>4. TailsLast'
    <2>1. Positions(c)' = {}
        BY <1>3 DEF Positions
    <2> QED
        BY <1>1, <1>2, <1>3, <2>1 DEF TailsLast, Positions, Live
<1>5. FilesPassed'
    BY <1>1 DEF FilesPassed
<1>6. BytesAccounted'
    <2>1. ~Broken(c)
        BY <1>2 DEF Broken
    <2>2. \A d \in Channels : Broken(d) => Broken(d)'
        BY <1>1, <1>2, <2>1, BrokenFrame
    <2>3. \A f, x : ~Covers(wire[c][1], f, x)
        BY <1>2 DEF Covers
    <2> SUFFICES ASSUME NEW f \in Files, NEW x \in WholeFile(f), Accounted(f, x)
                 PROVE  Accounted(f, x)'
        BY DEF BytesAccounted, WholeFile
    <2>4. ASSUME NEW d \in Channels, NEW i \in Positions(d), Covers(wire[d][i], f, x)
          PROVE  Accounted(f, x)'
        <3>1. d # c
            BY <1>3, <2>3, <2>4
        <3> QED
            BY <1>2, <2>4, <3>1 DEF Accounted, Covers, Live, Positions
    <2> QED
        BY <1>1, <2>2, <2>4 DEF Accounted, Covers, Live
<1>7. WholeFilesPutAway'
    BY <1>1, PutAwayFrame
<1> QED
    BY <1>4, <1>5, <1>6, <1>7

\* A block leaves its connection for the mapping.
LEMMA RecvBodyDelivery ==
    ASSUME BlockInv, DeliveryInv, NEW c \in Channels, RecvBody(c)
    PROVE  DeliveryInv'
<1> USE DEF BlockInv, DeliveryInv
<1> DEFINE b == dstBlock[c]
<1>1. /\ dstPc[c] = "body" /\ dstPc'[c] = "count"
      /\ wire[c] # <<>> /\ Head(wire[c]) = b /\ wire' = [wire EXCEPT ![c] = Tail(@)]
      /\ stored' = [stored EXCEPT ![b.file] = @ \cup Bytes(b)]
      /\ \A d \in Channels \ {c} : dstPc'[d] = dstPc[d]
      /\ UNCHANGED <<curr_offset, srcPc, srcFile, srcBlock, lost, dstSock, dstBlock, recv_ctx, dstDisposed>>
    BY DEF RecvBody, TypeOK, HeldBlocks, srcVars, netVars
<1>2. /\ \A d \in Channels \ {c} : wire'[d] = wire[d]
      /\ \A i \in Positions(c)' : i + 1 \in Positions(c) /\ wire'[c][i] = wire[c][i + 1]
      /\ 1 \in Positions(c) /\ wire[c][1] = b /\ b \in Message /\ Live(b)
    BY <1>1, AfterPop, WireMessages DEF HeldBlocks
<1>3. /\ \A i \in Positions(c) \ {1} : i - 1 \in Positions(c)' /\ wire'[c][i - 1] = wire[c][i]
      /\ Len(wire[c]) \in Nat /\ Len(wire'[c]) = Len(wire[c]) - 1
    BY <1>1, PopKeeps
<1>4. TailsLast'
    <2>1. ASSUME NEW i \in Positions(c)', ~Live(wire'[c][i]) PROVE i = Len(wire'[c])
        <3>1. i + 1 = Len(wire[c]) /\ i \in Nat
            BY <1>2, <2>1, <1>3 DEF TailsLast, Positions
        <3> QED
            BY <1>3, <3>1
    <2>2. srcPc'[c] # "done" => dstPc'[c] # "done" /\ \A i \in Positions(c)' : Live(wire'[c][i])
        BY <1>1, <1>2 DEF TailsLast
    <2>3. dstPc'[c] # "done"
        BY <1>1
    <2>4. \A d \in Channels \ {c} :
              /\ srcPc'[d] # "done" => dstPc'[d] # "done" /\ \A i \in Positions(d)' : Live(wire'[d][i])
              /\ \A i \in Positions(d)' : ~Live(wire'[d][i]) => i = Len(wire'[d])
              /\ dstPc'[d] = "done" => wire'[d] = <<>>
        BY <1>1, <1>2 DEF TailsLast, Positions
    <2> QED
        BY <2>1, <2>2, <2>3, <2>4 DEF TailsLast, Positions, Live
<1>5. FilesPassed'
    BY <1>1 DEF FilesPassed
<1>6. BytesAccounted'
    <2>1. ASSUME NEW d \in Channels, Broken(d) PROVE Broken(d)'
        <3>1. CASE d = c
            BY <1>1, <1>2, <2>1, <3>1 DEF Broken, Positions, Live
        <3>2. CASE d # c
            BY <1>1, <1>2, <2>1, <3>2, BrokenFrame
        <3> QED
            BY <3>1, <3>2
    <2>2. b.file \in Files /\ stored'[b.file] = stored[b.file] \cup Bytes(b)
        BY <1>1, <1>2, LiveIsBlock DEF TypeOK
    <2>3. \A g \in Files : stored[g] \subseteq stored'[g]
        BY <1>1, <2>2 DEF TypeOK
    <2> SUFFICES ASSUME NEW f \in Files, NEW x \in WholeFile(f), Accounted(f, x)
                 PROVE  Accounted(f, x)'
        BY DEF BytesAccounted, WholeFile
    <2>4. ASSUME NEW d \in Channels, NEW i \in Positions(d), Covers(wire[d][i], f, x)
          PROVE  Accounted(f, x)'
        <3>1. CASE d # c
            BY <1>2, <2>4, <3>1 DEF Accounted, Covers, Live, Positions
        <3>2. CASE d = c /\ i = 1
            <4>1. Covers(b, f, x) /\ x \in Nat
                BY <1>2, <2>4, <3>2 DEF WholeFile
            <4>2. f = b.file /\ x \in Bytes(b)
                BY <1>2, <4>1, CoversBytes
            <4> QED
                BY <2>2, <4>2 DEF Accounted
        <3>3. CASE d = c /\ i # 1
            <4>1. i - 1 \in Positions(c)' /\ wire'[c][i - 1] = wire[c][i]
                BY <1>3, <2>4, <3>3
            <4>2. Covers(wire'[c][i - 1], f, x)
                BY <2>4, <3>3, <4>1
            <4> QED
                BY <4>1, <4>2 DEF Accounted, Covers, Live
        <3> QED
            BY <3>1, <3>2, <3>3
    <2>5. x \in stored[f] => x \in stored'[f]
        BY <2>3
    <2> QED
        BY <1>1, <2>1, <2>4, <2>5 DEF Accounted, Covers, Live
<1>7. WholeFilesPutAway'
    BY <1>1, PutAwayFrame
<1> QED
    BY <1>4, <1>5, <1>6, <1>7

\* Whoever counts the last block of a file goes on to put it away.
LEMMA CountBlockDelivery ==
    ASSUME BlockInv, DeliveryInv, NEW c \in Channels, CountBlock(c)
    PROVE  DeliveryInv'
<1> USE DEF BlockInv, DeliveryInv
<1> DEFINE b == dstBlock[c]
           now == ReceivedWith(b)
<1>1. /\ dstPc[c] = "count" /\ b \in Message /\ Live(b) /\ b.file \in Files
      /\ recv_ctx' = [recv_ctx EXCEPT ![b.file].received = now]
      /\ dstPc'[c] = (IF now = FileSize[b.file] THEN "complete" ELSE "header")
      /\ dstBlock'[c] = (IF now = FileSize[b.file] THEN b ELSE FinalTail)
      /\ \A d \in Channels \ {c} : dstPc'[d] = dstPc[d] /\ dstBlock'[d] = dstBlock[d]
      /\ UNCHANGED <<curr_offset, srcPc, srcFile, srcBlock, wire, lost, dstSock, stored, dstDisposed>>
    BY LiveIsBlock DEF CountBlock, TypeOK, HeldBlocks, srcVars, netVars
<1>2. TailsLast' /\ FilesPassed' /\ BytesAccounted'
    BY <1>1, DeliveryFrame
<1>3. /\ recv_ctx'[b.file] = [recv_ctx[b.file] EXCEPT !.received = now]
      /\ \A g \in Files \ {b.file} : recv_ctx'[g] = recv_ctx[g]
      /\ \A g \in Files : recv_ctx[g] \in RecvCtx
    BY <1>1 DEF TypeOK
<1>4. /\ recv_ctx'[b.file].received = now
      /\ recv_ctx'[b.file].mapped = recv_ctx[b.file].mapped
      /\ recv_ctx'[b.file].handle = recv_ctx[b.file].handle
    BY <1>1, <1>3 DEF RecvCtx
<1>5. WholeFilesPutAway'
    <2> SUFFICES ASSUME ~dstDisposed, NEW g \in Files, FileSize[g] > 0
                 PROVE  /\ recv_ctx'[g].handle = recv_ctx'[g].mapped
                        /\ recv_ctx'[g].mapped /\ recv_ctx'[g].received = FileSize[g] =>
                              \E d \in Channels : dstPc'[d] = "complete" /\ dstBlock'[d].file = g
        BY <1>1 DEF WholeFilesPutAway
    <2>1. CASE g = b.file
        BY <1>1, <1>4, <2>1 DEF WholeFilesPutAway
    <2>2. CASE g # b.file
        <3>1. recv_ctx'[g] = recv_ctx[g]
            BY <1>3, <2>2
        <3>2. \A d \in Channels : dstPc[d] = "complete" =>
                  dstPc'[d] = "complete" /\ dstBlock'[d] = dstBlock[d]
            BY <1>1
        <3> QED
            BY <3>1, <3>2 DEF WholeFilesPutAway
    <2> QED
        BY <2>1, <2>2
<1> QED
    BY <1>2, <1>5

LEMMA CompleteFileDelivery ==
    ASSUME BlockInv, DeliveryInv, NEW c \in Channels, CompleteFile(c)
    PROVE  DeliveryInv'
<1> USE DEF BlockInv, DeliveryInv
<1> DEFINE b == dstBlock[c]
<1>1. /\ dstPc[c] = "complete" /\ dstPc'[c] = "header" /\ b.file \in Files
      /\ recv_ctx' = [recv_ctx EXCEPT ![b.file] = put_away(recv_ctx[b.file])]
      /\ \A d \in Channels \ {c} : dstPc'[d] = dstPc[d] /\ dstBlock'[d] = dstBlock[d]
      /\ UNCHANGED <<curr_offset, srcPc, srcFile, srcBlock, wire, lost, dstSock, stored, dstDisposed>>
    BY LiveIsBlock DEF CompleteFile, TypeOK, HeldBlocks, srcVars, netVars
<1>2. TailsLast' /\ FilesPassed' /\ BytesAccounted'
    BY <1>1, DeliveryFrame
<1>3. /\ recv_ctx'[b.file] = put_away(recv_ctx[b.file])
      /\ \A g \in Files \ {b.file} : recv_ctx'[g] = recv_ctx[g]
      /\ recv_ctx[b.file] \in RecvCtx
    BY <1>1 DEF TypeOK
<1>4. recv_ctx[b.file].handle = recv_ctx[b.file].mapped =>
          ~recv_ctx'[b.file].mapped /\ ~recv_ctx'[b.file].handle
    BY <1>3 DEF RecvCtx, put_away, close_handle, unmap_file
<1>5. WholeFilesPutAway'
    <2> SUFFICES ASSUME ~dstDisposed, NEW g \in Files, FileSize[g] > 0
                 PROVE  /\ recv_ctx'[g].handle = recv_ctx'[g].mapped
                        /\ recv_ctx'[g].mapped /\ recv_ctx'[g].received = FileSize[g] =>
                              \E d \in Channels : dstPc'[d] = "complete" /\ dstBlock'[d].file = g
        BY <1>1 DEF WholeFilesPutAway
    <2>1. CASE g = b.file
        <3>1. recv_ctx'[b.file] \in RecvCtx
            BY <1>3 DEF RecvCtx, put_away, close_handle, unmap_file
        <3> QED
            BY <1>4, <2>1, <3>1 DEF WholeFilesPutAway, RecvCtx
    <2>2. CASE g # b.file
        <3>1. recv_ctx'[g] = recv_ctx[g]
            BY <1>3, <2>2
        <3>2. \A d \in Channels : dstPc[d] = "complete" /\ dstBlock[d].file = g =>
                  dstPc'[d] = "complete" /\ dstBlock'[d] = dstBlock[d]
            BY <1>1, <2>2
        <3> QED
            BY <3>1, <3>2 DEF WholeFilesPutAway
    <2> QED
        BY <2>1, <2>2
<1> QED
    BY <1>2, <1>5

----------------------------------------------------------------------------
(* Disturbances.                                                           *)

\* Closing any sockets of either end (a whole process that dies closes all).
LEMMA CloseSocksDelivery ==
    ASSUME BlockInv, DeliveryInv, NEW C, CloseSourceSocks(C) \/ CloseDestinationSocks(C)
    PROVE  BlockInv' /\ DeliveryInv'
<1>1. /\ UNCHANGED <<curr_offset, srcPc, srcFile, srcBlock, blockSize, srcOpen, wire, lost>>
      /\ UNCHANGED <<dstPc, dstBlock, recv_ctx, stored, dstDisposed>>
      /\ srcSock' \in [Channels -> BOOLEAN] /\ dstSock' \in [Channels -> BOOLEAN]
      /\ \A c \in Channels : ~dstSock[c] => ~dstSock'[c]
    BY DEF CloseSourceSocks, CloseDestinationSocks, srcVars, dstVars, BlockInv, TypeOK
<1>2. BlockInv'
    <2>1. TypeOK' /\ HeldBlocks'
        BY <1>1 DEF BlockInv, TypeOK, HeldBlocks, Live
    <2>2. BlocksClaimed' /\ BlocksApart' /\ BlocksFresh'
        <3>1. \A f \in Files : curr_offset[f] <= curr_offset'[f]
            BY <1>1 DEF BlockInv, TypeOK
        <3> QED
            BY <1>1, <2>1, <3>1, BlocksFrame DEF BlockInv
    <2>3. CountingBlocks' /\ ReceivedCountsBytes'
        BY <1>1, CountsFrame DEF BlockInv
    <2>4. FullyCounted'
        BY <1>1 DEF BlockInv, FullyCounted
    <2> QED
        BY <2>1, <2>2, <2>3, <2>4 DEF BlockInv
<1>3. TailsLast' /\ FilesPassed' /\ BytesAccounted'
    BY <1>1, DeliveryFrame DEF DeliveryInv
<1>4. WholeFilesPutAway'
    BY <1>1, PutAwayFrame DEF DeliveryInv
<1> QED
    BY <1>2, <1>3, <1>4 DEF DeliveryInv

LEMMA DisturbanceDelivery ==
    ASSUME BlockInv, DeliveryInv, Disturbance
    PROVE  DeliveryInv'
<1>1. ASSUME NEW C, CloseSourceSocks(C) PROVE DeliveryInv'
    BY <1>1, CloseSocksDelivery
<1>2. ASSUME NEW C, CloseDestinationSocks(C) PROVE DeliveryInv'
    BY <1>2, CloseSocksDelivery
<1>3. CASE (\E c \in Channels : LoseConnection(c)) \/ DisposeSource \/ DisposeDestination
    <2>1. /\ UNCHANGED <<curr_offset, srcPc, srcFile, srcBlock, wire, dstSock, dstPc, dstBlock, stored>>
          /\ \A c \in Channels : lost[c] => lost'[c]
        BY <1>3 DEF LoseConnection, DisposeSource, DisposeDestination, srcVars, netVars, dstVars,
                    BlockInv, TypeOK
    <2>2. TailsLast' /\ FilesPassed' /\ BytesAccounted'
        BY <2>1, DeliveryFrame DEF DeliveryInv
    <2>3. WholeFilesPutAway'
        <3>1. dstDisposed' \/ (recv_ctx' = recv_ctx /\ dstDisposed' = dstDisposed)
            BY <1>3 DEF LoseConnection, DisposeSource, DisposeDestination, dstVars
        <3> QED
            BY <2>1, <3>1, PutAwayFrame DEF DeliveryInv, WholeFilesPutAway
    <2> QED
        BY <2>2, <2>3 DEF DeliveryInv
<1> QED
    BY <1>1, <1>2, <1>3 DEF Disturbance

----------------------------------------------------------------------------
(* The theorems.                                                           *)

LEMMA ThreadDelivery ==
    ASSUME BlockInv, DeliveryInv, NEW c \in Channels, SourceStep(c) \/ DestinationStep(c)
    PROVE  BlockInv' /\ DeliveryInv'
<1>1. BlockInv'
    BY SourceInv, DestinationInv
<1>2. CASE SourceStep(c)
    BY <1>1, <1>2, BeginSourceDelivery, ClaimBlockDelivery, NextFileDelivery, SendDelivery,
       SendFailsDelivery DEF SourceStep
<1>3. CASE DestinationStep(c)
    BY <1>1, <1>3, DestinationQuietDelivery, RecvTailDelivery, RecvBodyDelivery,
       CountBlockDelivery, CompleteFileDelivery DEF DestinationStep
<1> QED
    BY <1>2, <1>3

LEMMA InitDelivery == Init => BlockInv /\ DeliveryInv
<1> SUFFICES ASSUME Init PROVE BlockInv /\ DeliveryInv
    OBVIOUS
<1>1. /\ \A c \in Channels : /\ srcPc[c] = "idle" /\ dstPc[c] = "idle" /\ srcFile[c] = 1
                             /\ wire[c] = <<>>
      /\ \A f \in Files : curr_offset[f] = 0 /\ recv_ctx[f] = OpenedCtx(f)
    BY DEF Init
<1>2. \A c \in Channels : Positions(c) = {}
    BY <1>1 DEF Positions
<1>3. TailsLast
    BY <1>1, <1>2 DEF TailsLast
<1>4. FilesPassed
    BY <1>1 DEF FilesPassed, Files
<1>5. BytesAccounted
    BY <1>1 DEF BytesAccounted, Accounted, WholeFile
<1>6. WholeFilesPutAway
    <2>1. \A f \in Files : /\ OpenedCtx(f).handle = TRUE /\ OpenedCtx(f).received = 0
                            /\ OpenedCtx(f).mapped = (FileSize[f] > 0)
        BY DEF OpenedCtx
    <2>2. ASSUME NEW f \in Files, FileSize[f] > 0
          PROVE  recv_ctx[f].handle = recv_ctx[f].mapped /\ recv_ctx[f].received # FileSize[f]
        <3>1. recv_ctx[f].handle = TRUE /\ recv_ctx[f].received = 0 /\ recv_ctx[f].mapped = (FileSize[f] > 0)
            BY <1>1, <2>1
        <3>2. (FileSize[f] > 0) = TRUE /\ FileSize[f] # 0
            BY <2>2
        <3> QED
            BY <3>1, <3>2
    <2> QED
        BY <2>2 DEF WholeFilesPutAway
<1> QED
    BY InitInv, <1>3, <1>4, <1>5, <1>6 DEF DeliveryInv

\* DeliveryInv is inductive relative to BlockInv: at any moment every byte of
\* every file is still to be claimed, on its way, or received, unless a channel
\* is broken for good (transfer.cpp:36-145, 360-410).
THEOREM NothingIsLost == Spec => []DeliveryInv
<1>1. BlockInv /\ DeliveryInv /\ [Next]_dataVars => BlockInv' /\ DeliveryInv'
    <2> SUFFICES ASSUME BlockInv, DeliveryInv, [Next]_dataVars PROVE BlockInv' /\ DeliveryInv'
        OBVIOUS
    <2>1. CASE ThreadStep
        BY <2>1, ThreadDelivery DEF ThreadStep
    <2>2. CASE Disturbance
        BY <2>2, DisturbanceDelivery, NextInv DEF Next
    <2>3. CASE UNCHANGED dataVars
        <3>1. /\ UNCHANGED <<curr_offset, srcPc, srcFile, srcBlock, wire, lost>>
              /\ UNCHANGED <<dstSock, dstPc, dstBlock, recv_ctx, stored, dstDisposed>>
            BY <2>3 DEF dataVars, srcVars, netVars, dstVars
        <3>2. DeliveryInv'
            BY <3>1, DeliveryFrame, PutAwayFrame DEF DeliveryInv
        <3> QED
            BY <2>3, <3>2, NextInv
    <2> QED
        BY <2>1, <2>2, <2>3 DEF Next
<1> QED
    BY InitDelivery, <1>1, PTL DEF Spec

LEMMA TailsMeanWhole ==
    ASSUME BlockInv, DeliveryInv
    PROVE  AllTailsMeanWholeFiles
<1> SUFFICES ASSUME \A c \in Channels : dstPc[c] = "done", NEW f \in Files
             PROVE  stored[f] = WholeFile(f)
    BY DEF AllTailsMeanWholeFiles
<1>1. \A c \in Channels : wire[c] = <<>> /\ srcPc[c] = "done"
    BY DEF DeliveryInv, TailsLast
<1>2. \A c \in Channels : Positions(c) = {} /\ ~Live(srcBlock[c]) /\ ~Broken(c)
    BY <1>1 DEF Positions, BlockInv, HeldBlocks, Broken
<1>3. curr_offset[f] >= FileSize[f] /\ curr_offset[f] \in Nat /\ FileSize[f] \in Nat
    <2>1. PICK c \in Channels : TRUE
        BY ChannelsAssumption
    <2>2. srcFile[c] = NFiles + 1
        BY <1>1 DEF DeliveryInv, FilesPassed
    <2>3. f < NFiles + 1
        BY DEF Files
    <2> QED
        BY <2>2, <2>3 DEF DeliveryInv, FilesPassed, BlockInv, TypeOK
<1>4. ASSUME NEW x \in WholeFile(f) PROVE x \in stored[f]
    <2>1. Accounted(f, x)
        BY DEF DeliveryInv, BytesAccounted
    <2>2. x \in Nat /\ x < FileSize[f]
        BY <1>3 DEF WholeFile
    <2>3. ~(x >= curr_offset[f])
        BY <1>3, <2>2
    <2> QED
        BY <1>2, <2>1, <2>3 DEF Accounted, Covers
<1>5. stored[f] \subseteq WholeFile(f)
    BY CountedBytes DEF BlockInv
<1> QED
    BY <1>4, <1>5

\* When every destination thread has received its tail, every file is whole
\* (what transfer.cpp:333 waits for).
THEOREM TailsMeanWholeFiles == Spec => []AllTailsMeanWholeFiles
BY InvariantHolds, NothingIsLost, TailsMeanWhole, PTL

\* When every destination thread has received its tail, and nothing was
\* disposed, some thread found each file complete and put it away
\* (transfer.cpp:406-410).
THEOREM TailsMeanPutAway == Spec => []AllTailsMeanPutAway
<1>1. ASSUME BlockInv, DeliveryInv PROVE AllTailsMeanPutAway
    <2> SUFFICES ASSUME \A c \in Channels : dstPc[c] = "done", ~dstDisposed,
                        NEW f \in Files, FileSize[f] > 0
                 PROVE  ~recv_ctx[f].mapped /\ ~recv_ctx[f].handle
        BY DEF AllTailsMeanPutAway
    <2>1. stored[f] = WholeFile(f)
        BY <1>1, TailsMeanWhole DEF AllTailsMeanWholeFiles
    <2>2. Uncounted(f) = {}
        BY DEF Uncounted
    <2>3. stored[f] \ Uncounted(f) = WholeFile(f)
        BY <2>1, <2>2
    <2>4. recv_ctx[f].received = FileSize[f]
        BY <1>1, <2>3, WholeFileSize DEF BlockInv, ReceivedCountsBytes
    <2> QED
        BY <1>1, <2>4 DEF DeliveryInv, WholeFilesPutAway
<1> QED
    BY InvariantHolds, NothingIsLost, <1>1, PTL
=============================================================================
