---------------------------- MODULE SessionProofs ----------------------------
(***************************************************************************)
(* What the client's exit code means, for any channels, files, block sizes *)
(* and faults: proofs about TransferSession, whose gate counts as many     *)
(* channels as there are.                                                  *)
(***************************************************************************)
EXTENDS TransferSession, DeliveryProofs

USE SessionAssumption, ChannelsAssumption, FilesAssumption

LEMMA ClientSide == Client \in Sides /\ Client = (IF Upload THEN "source" ELSE "destination")
BY DEF Client, Sides

\* Steps that leave the data plane alone keep what holds of it.
LEMMA DataFrame ==
    ASSUME BlockInv, DeliveryInv, UNCHANGED dataVars
    PROVE  BlockInv' /\ DeliveryInv'
<1>1. BlockInv'
    BY NextInv
<1>2. /\ UNCHANGED <<curr_offset, srcPc, srcFile, srcBlock, wire, lost>>
      /\ UNCHANGED <<dstSock, dstPc, dstBlock, recv_ctx, stored, dstDisposed>>
    BY DEF dataVars, srcVars, netVars, dstVars
<1>3. DeliveryInv'
    BY <1>2, DeliveryFrame, PutAwayFrame DEF DeliveryInv
<1> QED
    BY <1>1, <1>3

\* What the steps of the session that touch no data see of the data plane.
LEMMA DataSeen == UNCHANGED dataVars => UNCHANGED <<dstPc, srcPc, lost, srcSock, dstSock>>
BY DEF dataVars, srcVars, netVars, dstVars

LEMMA InitSession == SessionInit => SessionInv
<1> SUFFICES ASSUME SessionInit PROVE SessionInv
    OBVIOUS
<1>1. BlockInv /\ DeliveryInv /\ TypeOK
    BY InitDelivery DEF SessionInit, BlockInv
<1>2. \A c \in Channels : dstPc[c] = "idle" /\ srcSock[c] = TRUE /\ dstSock[c] = TRUE
    BY DEF SessionInit, Init
<1>3. SessionTypeOK
    <2>1. /\ gate \in [count : Nat, open : BOOLEAN]
          /\ chanThread \in [Sides -> [Channels -> ThreadStates]]
          /\ portal \in [Sides -> PortalStates]
        BY DEF SessionInit, ThreadStates, PortalStates
    <2>2. /\ teardown \in [Sides -> TeardownStages]
          /\ portalSock \in [Sides -> BOOLEAN] /\ alive \in [Sides -> BOOLEAN]
        BY DEF SessionInit, TeardownStages
    <2>3. faults \in 0 .. MaxFaults
        BY DEF SessionInit
    <2> QED
        BY <1>1, <2>1, <2>2, <2>3 DEF SessionInit, SessionTypeOK
<1>4. ThreadsInvoke
    BY <1>2 DEF SessionInit, ThreadsInvoke, Sides
<1>5. GateCounts
    <2>1. Signallers = {}
        BY <1>2 DEF Signallers
    <2>2. Openers = {}
        BY DEF SessionInit, Openers, Sides
    <2> QED
        BY <2>1, <2>2, FS_EmptySet DEF SessionInit, GateCounts
<1>6. FinishedInv /\ StatusInv
    BY <1>2 DEF SessionInit, FinishedInv, StatusInv, Sides
<1>7. TeardownInv
    BY <1>2 DEF SessionInit, TeardownInv, Sides, Sock
<1>8. FailuresLost
    BY <1>2 DEF FailuresLost
<1> QED
    BY <1>1, <1>3, <1>4, <1>5, <1>6, <1>7, <1>8 DEF SessionInv

LEMMA CheckDisposeSession ==
    ASSUME SessionInv, CountsAgree, NEW s \in Sides, NEW c \in Channels, CheckDispose(s, c)
    PROVE  SessionInv'
<1> USE DEF SessionInv
<1>0. UNCHANGED dataVars /\ UNCHANGED <<dstPc, srcPc, lost, srcSock, dstSock>>
    BY DataSeen DEF CheckDispose, SetThread
<1>1. BlockInv' /\ DeliveryInv'
    BY <1>0, DataFrame
<1>2. SessionTypeOK'
    BY <1>1, ClientSide DEF BlockInv, SessionTypeOK, ThreadStates, PortalStates, TeardownStages, Sides,
       CheckDispose, threadVars, linkVars, clientVars, procVars, SetThread
<1>3. ThreadsInvoke'
    BY <1>0 DEF SessionTypeOK, ThreadsInvoke, Sides, CheckDispose, threadVars, linkVars, clientVars, procVars, SetThread
<1>4. GateCounts'
    <2>1. Signallers' = Signallers
        BY <1>0 DEF SessionTypeOK, ThreadsInvoke, Signallers, Sides, CheckDispose, SetThread
    <2>2. Openers' = Openers
        BY DEF SessionTypeOK, Openers, Sides, CheckDispose, SetThread
    <2> QED
        BY <2>1, <2>2 DEF GateCounts, CheckDispose
<1>5. FinishedInv'
    BY <1>0 DEF SessionTypeOK, FinishedInv, AllFinished, GateCounts, Signallers, Openers, ThreadsInvoke, TeardownInv, Sides,
       CheckDispose, threadVars, linkVars, clientVars, procVars, SetThread
<1>6. TeardownInv'
    BY <1>0 DEF SessionTypeOK, TeardownInv, Sock, Sides, CheckDispose, threadVars, linkVars, clientVars, procVars, SetThread
<1>7. FailuresLost'
    BY <1>0 DEF SessionTypeOK, FailuresLost, Sides, CheckDispose, threadVars, linkVars, clientVars, procVars, SetThread
<1>8. StatusInv'
    BY <1>0, ClientSide DEF SessionTypeOK, ThreadsInvoke, StatusInv, FinishedInv, TeardownInv, Sides,
       CheckDispose, threadVars, linkVars, clientVars, procVars, SetThread
<1> QED
    BY <1>1, <1>2, <1>3, <1>4, <1>5, <1>6, <1>7, <1>8

LEMMA SignalFinishedSession ==
    ASSUME SessionInv, CountsAgree, NEW c \in Channels, SignalFinished(c)
    PROVE  SessionInv'
<1> USE DEF SessionInv
<1>0. UNCHANGED dataVars /\ UNCHANGED <<dstPc, srcPc, lost, srcSock, dstSock>>
    BY DataSeen DEF SignalFinished, SetThread, Counted
<1>1. BlockInv' /\ DeliveryInv'
    BY <1>0, DataFrame
<1>2. SessionTypeOK'
    BY <1>1, ClientSide DEF BlockInv, SessionTypeOK, ThreadStates, PortalStates, TeardownStages, Sides,
       SignalFinished, threadVars, linkVars, clientVars, procVars, SetThread, Counted
<1>3. ThreadsInvoke'
    BY <1>0 DEF SessionTypeOK, ThreadsInvoke, Sides, SignalFinished, threadVars, linkVars, clientVars, procVars, SetThread, Counted
<1>4. GateCounts'
    <2> SUFFICES ASSUME teardown["destination"] \in {"live", "required", "portalClosed"}
                 PROVE  /\ gate'.count = Cardinality(Signallers')
                        /\ gate'.open \/ Openers' # {} => Signallers' = Channels
                        /\ gate'.open => Openers' = {}
                        /\ \A d, e \in Openers' : d = e
        BY DEF GateCounts, SignalFinished
    <2>1. /\ c \notin Signallers /\ Signallers' = Signallers \cup {c}
          /\ Signallers \subseteq Channels /\ Signallers' \subseteq Channels
        BY <1>0 DEF SessionTypeOK, Signallers, Sides, SignalFinished, SetThread
    <2>2. IsFiniteSet(Signallers) /\ IsFiniteSet(Channels)
        BY <2>1, FS_Subset
    <2>3. Cardinality(Signallers') = Cardinality(Signallers) + 1
        BY <2>1, <2>2, FS_AddElement
    <2>4. gate.count = Cardinality(Signallers) /\ ~gate.open /\ Openers = {}
        BY <2>1 DEF GateCounts
    <2>5. gate'.count = gate.count + 1 /\ gate'.open = gate.open
        BY DEF SignalFinished, Counted, SessionTypeOK
    <2>6. Cardinality(Signallers') = Cardinality(Channels) => Signallers' = Channels
        BY <2>1, <2>2, FS_Subset
    <2>7. Openers' = IF gate'.count = GateCount THEN {c} ELSE {}
        BY <2>4 DEF SessionTypeOK, Openers, Sides, SignalFinished, SetThread
    <2> QED
        BY <2>3, <2>4, <2>5, <2>6, <2>7 DEF CountsAgree
<1>5. FinishedInv'
    BY <1>0 DEF SessionTypeOK, FinishedInv, AllFinished, GateCounts, Signallers, Openers, ThreadsInvoke, TeardownInv, Sides,
       SignalFinished, threadVars, linkVars, clientVars, procVars, SetThread, Counted
<1>6. TeardownInv'
    BY <1>0 DEF SessionTypeOK, TeardownInv, Sock, Sides, SignalFinished, threadVars, linkVars, clientVars, procVars, SetThread, Counted
<1>7. FailuresLost'
    BY <1>0 DEF SessionTypeOK, FailuresLost, Sides, SignalFinished, threadVars, linkVars, clientVars, procVars, SetThread, Counted
<1>8. StatusInv'
    BY <1>0, ClientSide DEF SessionTypeOK, StatusInv, FinishedInv, TeardownInv, Sides,
       SignalFinished, threadVars, linkVars, clientVars, procVars, SetThread, Counted
<1> QED
    BY <1>1, <1>2, <1>3, <1>4, <1>5, <1>6, <1>7, <1>8

LEMMA OpenGateSession ==
    ASSUME SessionInv, CountsAgree, NEW c \in Channels, OpenGate(c)
    PROVE  SessionInv'
<1> USE DEF SessionInv
<1>0. UNCHANGED dataVars /\ UNCHANGED <<dstPc, srcPc, lost, srcSock, dstSock>>
    BY DataSeen DEF OpenGate, SetThread, Opened
<1>1. BlockInv' /\ DeliveryInv'
    BY <1>0, DataFrame
<1>2. SessionTypeOK'
    BY <1>1, ClientSide DEF BlockInv, SessionTypeOK, ThreadStates, PortalStates, TeardownStages, Sides,
       OpenGate, threadVars, linkVars, clientVars, procVars, SetThread, Opened
<1>3. ThreadsInvoke'
    BY <1>0 DEF SessionTypeOK, ThreadsInvoke, Sides, OpenGate, threadVars, linkVars, clientVars, procVars, SetThread, Opened
<1>4. GateCounts'
    <2>1. Signallers' = Signallers
        BY <1>0 DEF SessionTypeOK, ThreadsInvoke, Signallers, Sides, OpenGate, SetThread
    <2>2. Openers' = Openers \ {c} /\ c \in Openers
        BY DEF SessionTypeOK, Openers, Sides, OpenGate, SetThread
    <2>3. gate'.count = gate.count /\ gate'.open = TRUE /\ UNCHANGED teardown
        BY DEF OpenGate, Opened, SessionTypeOK
    <2> QED
        BY <2>1, <2>2, <2>3 DEF GateCounts
<1>5. FinishedInv'
    BY <1>0 DEF SessionTypeOK, FinishedInv, AllFinished, GateCounts, Signallers, Openers, ThreadsInvoke, TeardownInv, Sides,
       OpenGate, threadVars, linkVars, clientVars, procVars, SetThread, Opened
<1>6. TeardownInv'
    BY <1>0 DEF SessionTypeOK, TeardownInv, Sock, Sides, OpenGate, threadVars, linkVars, clientVars, procVars, SetThread, Opened
<1>7. FailuresLost'
    BY <1>0 DEF SessionTypeOK, FailuresLost, Sides, OpenGate, threadVars, linkVars, clientVars, procVars, SetThread, Opened
<1>8. StatusInv'
    BY <1>0, ClientSide DEF SessionTypeOK, StatusInv, FinishedInv, TeardownInv, Sides,
       OpenGate, threadVars, linkVars, clientVars, procVars, SetThread, Opened
<1> QED
    BY <1>1, <1>2, <1>3, <1>4, <1>5, <1>6, <1>7, <1>8

LEMMA ChannelSucceedsSession ==
    ASSUME SessionInv, CountsAgree, NEW s \in Sides, NEW c \in Channels, ChannelSucceeds(s, c)
    PROVE  SessionInv'
<1> USE DEF SessionInv
<1>0. UNCHANGED dataVars /\ UNCHANGED <<dstPc, srcPc, lost, srcSock, dstSock>>
    BY DataSeen DEF ChannelSucceeds, SetThread, Returned, Failed
<1>1. BlockInv' /\ DeliveryInv'
    BY <1>0, DataFrame
<1>2. SessionTypeOK'
    BY <1>1, ClientSide DEF BlockInv, SessionTypeOK, ThreadStates, PortalStates, TeardownStages, Sides,
       ChannelSucceeds, threadVars, linkVars, clientVars, procVars, SetThread, Returned, Failed
<1>3. ThreadsInvoke'
    BY <1>0 DEF SessionTypeOK, ThreadsInvoke, Sides, ChannelSucceeds, threadVars, linkVars, clientVars, procVars, SetThread, Returned, Failed
<1>4. GateCounts'
    BY <1>0 DEF SessionTypeOK, ThreadsInvoke, GateCounts, Signallers, Openers, Sides,
       ChannelSucceeds, threadVars, linkVars, clientVars, procVars, SetThread, Returned, Failed
<1>5. FinishedInv'
    BY <1>0 DEF SessionTypeOK, FinishedInv, AllFinished, GateCounts, Signallers, Openers, ThreadsInvoke, TeardownInv, Sides,
       ChannelSucceeds, threadVars, linkVars, clientVars, procVars, SetThread, Returned, Failed
<1>6. TeardownInv'
    BY <1>0 DEF SessionTypeOK, TeardownInv, Sock, Sides, ChannelSucceeds, threadVars, linkVars, clientVars, procVars, SetThread, Returned, Failed
<1>7. FailuresLost'
    BY <1>0 DEF SessionTypeOK, FailuresLost, Sides, ChannelSucceeds, threadVars, linkVars, clientVars, procVars, SetThread, Returned, Failed
<1>8. StatusInv'
    BY <1>0, ClientSide DEF SessionTypeOK, StatusInv, FinishedInv, TeardownInv, Sides,
       ChannelSucceeds, threadVars, linkVars, clientVars, procVars, SetThread, Returned, Failed
<1> QED
    BY <1>1, <1>2, <1>3, <1>4, <1>5, <1>6, <1>7, <1>8

LEMMA ChannelFailsSession ==
    ASSUME SessionInv, CountsAgree, NEW s \in Sides, NEW c \in Channels, ChannelFails(s, c)
    PROVE  SessionInv'
<1> USE DEF SessionInv
<1>0. UNCHANGED dataVars /\ UNCHANGED <<dstPc, srcPc, lost, srcSock, dstSock>>
    BY DataSeen DEF ChannelFails, SetThread, Returned, Failed, StatusAfterFailure, RequireDispose
<1>1. BlockInv' /\ DeliveryInv'
    BY <1>0, DataFrame
<1>2. SessionTypeOK'
    BY <1>1, ClientSide DEF BlockInv, SessionTypeOK, ThreadStates, PortalStates, TeardownStages, Sides,
       ChannelFails, threadVars, linkVars, clientVars, procVars, SetThread, Returned, Failed, StatusAfterFailure, RequireDispose
<1>3. ThreadsInvoke'
    BY <1>0 DEF SessionTypeOK, ThreadsInvoke, Sides, ChannelFails, threadVars, linkVars, clientVars, procVars, SetThread, Returned, Failed, StatusAfterFailure, RequireDispose
<1>4. GateCounts'
    BY <1>0 DEF SessionTypeOK, ThreadsInvoke, GateCounts, Signallers, Openers, Sides,
       ChannelFails, threadVars, linkVars, clientVars, procVars, SetThread, Returned, Failed, StatusAfterFailure, RequireDispose
<1>5. FinishedInv'
    BY <1>0 DEF SessionTypeOK, FinishedInv, AllFinished, GateCounts, Signallers, Openers, ThreadsInvoke, TeardownInv, Sides,
       ChannelFails, threadVars, linkVars, clientVars, procVars, SetThread, Returned, Failed, StatusAfterFailure, RequireDispose
<1>6. TeardownInv'
    BY <1>0 DEF SessionTypeOK, TeardownInv, Sock, Sides, ChannelFails, threadVars, linkVars, clientVars, procVars, SetThread, Returned, Failed, StatusAfterFailure, RequireDispose
<1>7. FailuresLost'
    BY <1>0 DEF SessionTypeOK, FailuresLost, Sides, ChannelFails, threadVars, linkVars, clientVars, procVars, SetThread, Returned, Failed, StatusAfterFailure, RequireDispose
<1>8. StatusInv'
    BY <1>0, ClientSide DEF SessionTypeOK, StatusInv, FinishedInv, TeardownInv, Sides,
       ChannelFails, threadVars, linkVars, clientVars, procVars, SetThread, Returned, Failed, StatusAfterFailure, RequireDispose
<1> QED
    BY <1>1, <1>2, <1>3, <1>4, <1>5, <1>6, <1>7, <1>8

LEMMA EnterPortalSession ==
    ASSUME SessionInv, CountsAgree, NEW s \in Sides, EnterPortal(s)
    PROVE  SessionInv'
<1> USE DEF SessionInv
<1>0. UNCHANGED dataVars /\ UNCHANGED <<dstPc, srcPc, lost, srcSock, dstSock>>
    BY DataSeen DEF EnterPortal
<1>1. BlockInv' /\ DeliveryInv'
    BY <1>0, DataFrame
<1>2. SessionTypeOK'
    BY <1>1, ClientSide DEF BlockInv, SessionTypeOK, ThreadStates, PortalStates, TeardownStages, Sides,
       EnterPortal, threadVars, linkVars, clientVars, procVars
<1>3. ThreadsInvoke'
    BY <1>0 DEF SessionTypeOK, ThreadsInvoke, Sides, EnterPortal, threadVars, linkVars, clientVars, procVars
<1>4. GateCounts'
    BY <1>0 DEF SessionTypeOK, ThreadsInvoke, GateCounts, Signallers, Openers, Sides,
       EnterPortal, threadVars, linkVars, clientVars, procVars
<1>5. FinishedInv'
    BY <1>0 DEF SessionTypeOK, FinishedInv, AllFinished, GateCounts, Signallers, Openers, ThreadsInvoke, TeardownInv, Sides,
       EnterPortal, threadVars, linkVars, clientVars, procVars
<1>6. TeardownInv'
    BY <1>0 DEF SessionTypeOK, TeardownInv, Sock, Sides, EnterPortal, threadVars, linkVars, clientVars, procVars
<1>7. FailuresLost'
    BY <1>0 DEF SessionTypeOK, FailuresLost, Sides, EnterPortal, threadVars, linkVars, clientVars, procVars
<1>8. StatusInv'
    BY <1>0, ClientSide DEF SessionTypeOK, StatusInv, FinishedInv, TeardownInv, Sides,
       EnterPortal, threadVars, linkVars, clientVars, procVars
<1> QED
    BY <1>1, <1>2, <1>3, <1>4, <1>5, <1>6, <1>7, <1>8

LEMMA GatePassedSession ==
    ASSUME SessionInv, CountsAgree, GatePassed
    PROVE  SessionInv'
<1> USE DEF SessionInv
<1>0. UNCHANGED dataVars /\ UNCHANGED <<dstPc, srcPc, lost, srcSock, dstSock>>
    BY DataSeen DEF GatePassed
<1>1. BlockInv' /\ DeliveryInv'
    BY <1>0, DataFrame
<1>2. SessionTypeOK'
    BY <1>1, ClientSide DEF BlockInv, SessionTypeOK, ThreadStates, PortalStates, TeardownStages, Sides,
       GatePassed, threadVars, linkVars, clientVars, procVars
<1>3. ThreadsInvoke'
    BY <1>0 DEF SessionTypeOK, ThreadsInvoke, Sides, GatePassed, threadVars, linkVars, clientVars, procVars
<1>4. GateCounts'
    BY <1>0 DEF SessionTypeOK, ThreadsInvoke, GateCounts, Signallers, Openers, Sides,
       GatePassed, threadVars, linkVars, clientVars, procVars
<1>5. FinishedInv'
    BY <1>0 DEF SessionTypeOK, FinishedInv, AllFinished, GateCounts, Signallers, Openers, ThreadsInvoke, TeardownInv, Sides,
       GatePassed, threadVars, linkVars, clientVars, procVars
<1>6. TeardownInv'
    BY <1>0 DEF SessionTypeOK, TeardownInv, Sock, Sides, GatePassed, threadVars, linkVars, clientVars, procVars
<1>7. FailuresLost'
    BY <1>0 DEF SessionTypeOK, FailuresLost, Sides, GatePassed, threadVars, linkVars, clientVars, procVars
<1>8. StatusInv'
    BY <1>0, ClientSide DEF SessionTypeOK, StatusInv, FinishedInv, TeardownInv, Sides,
       GatePassed, threadVars, linkVars, clientVars, procVars
<1> QED
    BY <1>1, <1>2, <1>3, <1>4, <1>5, <1>6, <1>7, <1>8

LEMMA SendFinishedSession ==
    ASSUME SessionInv, CountsAgree, SendFinished
    PROVE  SessionInv'
<1> USE DEF SessionInv
<1>0. UNCHANGED dataVars /\ UNCHANGED <<dstPc, srcPc, lost, srcSock, dstSock>>
    BY DataSeen DEF SendFinished, PortalEnds, RequireDispose
<1>1. BlockInv' /\ DeliveryInv'
    BY <1>0, DataFrame
<1>2. SessionTypeOK'
    BY <1>1, ClientSide DEF BlockInv, SessionTypeOK, ThreadStates, PortalStates, TeardownStages, Sides,
       SendFinished, threadVars, linkVars, clientVars, procVars, PortalEnds, RequireDispose
<1>3. ThreadsInvoke'
    BY <1>0 DEF SessionTypeOK, ThreadsInvoke, Sides, SendFinished, threadVars, linkVars, clientVars, procVars, PortalEnds, RequireDispose
<1>4. GateCounts'
    BY <1>0 DEF SessionTypeOK, ThreadsInvoke, GateCounts, Signallers, Openers, Sides,
       SendFinished, threadVars, linkVars, clientVars, procVars, PortalEnds, RequireDispose
<1>5. FinishedInv'
    BY <1>0 DEF SessionTypeOK, FinishedInv, AllFinished, GateCounts, Signallers, Openers, ThreadsInvoke, TeardownInv, Sides,
       SendFinished, threadVars, linkVars, clientVars, procVars, PortalEnds, RequireDispose
<1>6. TeardownInv'
    BY <1>0 DEF SessionTypeOK, TeardownInv, Sock, Sides, SendFinished, threadVars, linkVars, clientVars, procVars, PortalEnds, RequireDispose
<1>7. FailuresLost'
    BY <1>0 DEF SessionTypeOK, FailuresLost, Sides, SendFinished, threadVars, linkVars, clientVars, procVars, PortalEnds, RequireDispose
<1>8. StatusInv'
    BY <1>0, ClientSide DEF SessionTypeOK, StatusInv, FinishedInv, TeardownInv, Sides,
       SendFinished, threadVars, linkVars, clientVars, procVars, PortalEnds, RequireDispose
<1> QED
    BY <1>1, <1>2, <1>3, <1>4, <1>5, <1>6, <1>7, <1>8

LEMMA SendFinishedFailsSession ==
    ASSUME SessionInv, CountsAgree, SendFinishedFails
    PROVE  SessionInv'
<1> USE DEF SessionInv
<1>0. UNCHANGED dataVars /\ UNCHANGED <<dstPc, srcPc, lost, srcSock, dstSock>>
    BY DataSeen DEF SendFinishedFails, PortalEnds, RequireDispose
<1>1. BlockInv' /\ DeliveryInv'
    BY <1>0, DataFrame
<1>2. SessionTypeOK'
    BY <1>1, ClientSide DEF BlockInv, SessionTypeOK, ThreadStates, PortalStates, TeardownStages, Sides,
       SendFinishedFails, threadVars, linkVars, clientVars, procVars, PortalEnds, RequireDispose
<1>3. ThreadsInvoke'
    BY <1>0 DEF SessionTypeOK, ThreadsInvoke, Sides, SendFinishedFails, threadVars, linkVars, clientVars, procVars, PortalEnds, RequireDispose
<1>4. GateCounts'
    BY <1>0 DEF SessionTypeOK, ThreadsInvoke, GateCounts, Signallers, Openers, Sides,
       SendFinishedFails, threadVars, linkVars, clientVars, procVars, PortalEnds, RequireDispose
<1>5. FinishedInv'
    BY <1>0 DEF SessionTypeOK, FinishedInv, AllFinished, GateCounts, Signallers, Openers, ThreadsInvoke, TeardownInv, Sides,
       SendFinishedFails, threadVars, linkVars, clientVars, procVars, PortalEnds, RequireDispose
<1>6. TeardownInv'
    BY <1>0 DEF SessionTypeOK, TeardownInv, Sock, Sides, SendFinishedFails, threadVars, linkVars, clientVars, procVars, PortalEnds, RequireDispose
<1>7. FailuresLost'
    BY <1>0 DEF SessionTypeOK, FailuresLost, Sides, SendFinishedFails, threadVars, linkVars, clientVars, procVars, PortalEnds, RequireDispose
<1>8. StatusInv'
    BY <1>0, ClientSide DEF SessionTypeOK, StatusInv, FinishedInv, TeardownInv, Sides,
       SendFinishedFails, threadVars, linkVars, clientVars, procVars, PortalEnds, RequireDispose
<1> QED
    BY <1>1, <1>2, <1>3, <1>4, <1>5, <1>6, <1>7, <1>8

LEMMA RecvFinishedSession ==
    ASSUME SessionInv, CountsAgree, RecvFinished
    PROVE  SessionInv'
<1> USE DEF SessionInv
<1>0. UNCHANGED dataVars /\ UNCHANGED <<dstPc, srcPc, lost, srcSock, dstSock>>
    BY DataSeen DEF RecvFinished, PortalEnds, RequireDispose
<1>1. BlockInv' /\ DeliveryInv'
    BY <1>0, DataFrame
<1>2. SessionTypeOK'
    BY <1>1, ClientSide DEF BlockInv, SessionTypeOK, ThreadStates, PortalStates, TeardownStages, Sides,
       RecvFinished, threadVars, linkVars, clientVars, procVars, PortalEnds, RequireDispose
<1>3. ThreadsInvoke'
    BY <1>0 DEF SessionTypeOK, ThreadsInvoke, Sides, RecvFinished, threadVars, linkVars, clientVars, procVars, PortalEnds, RequireDispose
<1>4. GateCounts'
    BY <1>0 DEF SessionTypeOK, ThreadsInvoke, GateCounts, Signallers, Openers, Sides,
       RecvFinished, threadVars, linkVars, clientVars, procVars, PortalEnds, RequireDispose
<1>5. FinishedInv'
    BY <1>0 DEF SessionTypeOK, FinishedInv, AllFinished, GateCounts, Signallers, Openers, ThreadsInvoke, TeardownInv, Sides,
       RecvFinished, threadVars, linkVars, clientVars, procVars, PortalEnds, RequireDispose
<1>6. TeardownInv'
    BY <1>0 DEF SessionTypeOK, TeardownInv, Sock, Sides, RecvFinished, threadVars, linkVars, clientVars, procVars, PortalEnds, RequireDispose
<1>7. FailuresLost'
    BY <1>0 DEF SessionTypeOK, FailuresLost, Sides, RecvFinished, threadVars, linkVars, clientVars, procVars, PortalEnds, RequireDispose
<1>8. StatusInv'
    BY <1>0, ClientSide DEF SessionTypeOK, StatusInv, FinishedInv, TeardownInv, Sides,
       RecvFinished, threadVars, linkVars, clientVars, procVars, PortalEnds, RequireDispose
<1> QED
    BY <1>1, <1>2, <1>3, <1>4, <1>5, <1>6, <1>7, <1>8

LEMMA RecvFinishedFailsSession ==
    ASSUME SessionInv, CountsAgree, RecvFinishedFails
    PROVE  SessionInv'
<1> USE DEF SessionInv
<1>0. UNCHANGED dataVars /\ UNCHANGED <<dstPc, srcPc, lost, srcSock, dstSock>>
    BY DataSeen DEF RecvFinishedFails, PortalEnds, RequireDispose
<1>1. BlockInv' /\ DeliveryInv'
    BY <1>0, DataFrame
<1>2. SessionTypeOK'
    BY <1>1, ClientSide DEF BlockInv, SessionTypeOK, ThreadStates, PortalStates, TeardownStages, Sides,
       RecvFinishedFails, threadVars, linkVars, clientVars, procVars, PortalEnds, RequireDispose
<1>3. ThreadsInvoke'
    BY <1>0 DEF SessionTypeOK, ThreadsInvoke, Sides, RecvFinishedFails, threadVars, linkVars, clientVars, procVars, PortalEnds, RequireDispose
<1>4. GateCounts'
    BY <1>0 DEF SessionTypeOK, ThreadsInvoke, GateCounts, Signallers, Openers, Sides,
       RecvFinishedFails, threadVars, linkVars, clientVars, procVars, PortalEnds, RequireDispose
<1>5. FinishedInv'
    BY <1>0 DEF SessionTypeOK, FinishedInv, AllFinished, GateCounts, Signallers, Openers, ThreadsInvoke, TeardownInv, Sides,
       RecvFinishedFails, threadVars, linkVars, clientVars, procVars, PortalEnds, RequireDispose
<1>6. TeardownInv'
    BY <1>0 DEF SessionTypeOK, TeardownInv, Sock, Sides, RecvFinishedFails, threadVars, linkVars, clientVars, procVars, PortalEnds, RequireDispose
<1>7. FailuresLost'
    BY <1>0 DEF SessionTypeOK, FailuresLost, Sides, RecvFinishedFails, threadVars, linkVars, clientVars, procVars, PortalEnds, RequireDispose
<1>8. StatusInv'
    BY <1>0, ClientSide DEF SessionTypeOK, StatusInv, FinishedInv, TeardownInv, Sides,
       RecvFinishedFails, threadVars, linkVars, clientVars, procVars, PortalEnds, RequireDispose
<1> QED
    BY <1>1, <1>2, <1>3, <1>4, <1>5, <1>6, <1>7, <1>8

LEMMA ClosePortalSession ==
    ASSUME SessionInv, CountsAgree, NEW s \in Sides, ClosePortal(s)
    PROVE  SessionInv'
<1> USE DEF SessionInv
<1>0. UNCHANGED dataVars /\ UNCHANGED <<dstPc, srcPc, lost, srcSock, dstSock>>
    BY DataSeen DEF ClosePortal, Advance
<1>1. BlockInv' /\ DeliveryInv'
    BY <1>0, DataFrame
<1>2. SessionTypeOK'
    BY <1>1, ClientSide DEF BlockInv, SessionTypeOK, ThreadStates, PortalStates, TeardownStages, Sides,
       ClosePortal, threadVars, linkVars, clientVars, procVars, Advance
<1>3. ThreadsInvoke'
    BY <1>0 DEF SessionTypeOK, ThreadsInvoke, Sides, ClosePortal, threadVars, linkVars, clientVars, procVars, Advance
<1>4. GateCounts'
    BY <1>0 DEF SessionTypeOK, ThreadsInvoke, GateCounts, Signallers, Openers, Sides,
       ClosePortal, threadVars, linkVars, clientVars, procVars, Advance
<1>5. FinishedInv'
    BY <1>0 DEF SessionTypeOK, FinishedInv, AllFinished, GateCounts, Signallers, Openers, ThreadsInvoke, TeardownInv, Sides,
       ClosePortal, threadVars, linkVars, clientVars, procVars, Advance
<1>6. TeardownInv'
    BY <1>0 DEF SessionTypeOK, TeardownInv, Sock, Sides, ClosePortal, threadVars, linkVars, clientVars, procVars, Advance
<1>7. FailuresLost'
    BY <1>0 DEF SessionTypeOK, FailuresLost, Sides, ClosePortal, threadVars, linkVars, clientVars, procVars, Advance
<1>8. StatusInv'
    BY <1>0, ClientSide DEF SessionTypeOK, StatusInv, FinishedInv, TeardownInv, Sides,
       ClosePortal, threadVars, linkVars, clientVars, procVars, Advance
<1> QED
    BY <1>1, <1>2, <1>3, <1>4, <1>5, <1>6, <1>7, <1>8

LEMMA ResetTransferSession ==
    ASSUME SessionInv, CountsAgree, NEW s \in Sides, ResetTransfer(s)
    PROVE  SessionInv'
<1> USE DEF SessionInv
<1>0. UNCHANGED dataVars /\ UNCHANGED <<dstPc, srcPc, lost, srcSock, dstSock>>
    BY DataSeen DEF ResetTransfer, Advance
<1>1. BlockInv' /\ DeliveryInv'
    BY <1>0, DataFrame
<1>2. SessionTypeOK'
    BY <1>1, ClientSide DEF BlockInv, SessionTypeOK, ThreadStates, PortalStates, TeardownStages, Sides,
       ResetTransfer, threadVars, linkVars, clientVars, procVars, Advance
<1>3. ThreadsInvoke'
    BY <1>0 DEF SessionTypeOK, ThreadsInvoke, Sides, ResetTransfer, threadVars, linkVars, clientVars, procVars, Advance
<1>4. GateCounts'
    BY <1>0 DEF SessionTypeOK, ThreadsInvoke, GateCounts, Signallers, Openers, Sides,
       ResetTransfer, threadVars, linkVars, clientVars, procVars, Advance
<1>5. FinishedInv'
    BY <1>0 DEF SessionTypeOK, FinishedInv, AllFinished, GateCounts, Signallers, Openers, ThreadsInvoke, TeardownInv, Sides,
       ResetTransfer, threadVars, linkVars, clientVars, procVars, Advance
<1>6. TeardownInv'
    BY <1>0 DEF SessionTypeOK, TeardownInv, Sock, Sides, ResetTransfer, threadVars, linkVars, clientVars, procVars, Advance
<1>7. FailuresLost'
    BY <1>0 DEF SessionTypeOK, FailuresLost, Sides, ResetTransfer, threadVars, linkVars, clientVars, procVars, Advance
<1>8. StatusInv'
    BY <1>0, ClientSide DEF SessionTypeOK, StatusInv, FinishedInv, TeardownInv, Sides,
       ResetTransfer, threadVars, linkVars, clientVars, procVars, Advance
<1> QED
    BY <1>1, <1>2, <1>3, <1>4, <1>5, <1>6, <1>7, <1>8

LEMMA JoinPortalSession ==
    ASSUME SessionInv, CountsAgree, NEW s \in Sides, JoinPortal(s)
    PROVE  SessionInv'
<1> USE DEF SessionInv
<1>0. UNCHANGED dataVars /\ UNCHANGED <<dstPc, srcPc, lost, srcSock, dstSock>>
    BY DataSeen DEF JoinPortal, Advance
<1>1. BlockInv' /\ DeliveryInv'
    BY <1>0, DataFrame
<1>2. SessionTypeOK'
    BY <1>1, ClientSide DEF BlockInv, SessionTypeOK, ThreadStates, PortalStates, TeardownStages, Sides,
       JoinPortal, threadVars, linkVars, clientVars, procVars, Advance
<1>3. ThreadsInvoke'
    BY <1>0 DEF SessionTypeOK, ThreadsInvoke, Sides, JoinPortal, threadVars, linkVars, clientVars, procVars, Advance
<1>4. GateCounts'
    BY <1>0 DEF SessionTypeOK, ThreadsInvoke, GateCounts, Signallers, Openers, Sides,
       JoinPortal, threadVars, linkVars, clientVars, procVars, Advance
<1>5. FinishedInv'
    BY <1>0 DEF SessionTypeOK, FinishedInv, AllFinished, GateCounts, Signallers, Openers, ThreadsInvoke, TeardownInv, Sides,
       JoinPortal, threadVars, linkVars, clientVars, procVars, Advance
<1>6. TeardownInv'
    BY <1>0 DEF SessionTypeOK, TeardownInv, Sock, Sides, JoinPortal, threadVars, linkVars, clientVars, procVars, Advance
<1>7. FailuresLost'
    BY <1>0 DEF SessionTypeOK, FailuresLost, Sides, JoinPortal, threadVars, linkVars, clientVars, procVars, Advance
<1>8. StatusInv'
    BY <1>0, ClientSide DEF SessionTypeOK, StatusInv, FinishedInv, TeardownInv, Sides,
       JoinPortal, threadVars, linkVars, clientVars, procVars, Advance
<1> QED
    BY <1>1, <1>2, <1>3, <1>4, <1>5, <1>6, <1>7, <1>8

LEMMA DisposeDoneSession ==
    ASSUME SessionInv, CountsAgree, NEW s \in Sides, DisposeDone(s)
    PROVE  SessionInv'
<1> USE DEF SessionInv
<1>0. UNCHANGED dataVars /\ UNCHANGED <<dstPc, srcPc, lost, srcSock, dstSock>>
    BY DataSeen DEF DisposeDone, Advance
<1>1. BlockInv' /\ DeliveryInv'
    BY <1>0, DataFrame
<1>2. SessionTypeOK'
    BY <1>1, ClientSide DEF BlockInv, SessionTypeOK, ThreadStates, PortalStates, TeardownStages, Sides,
       DisposeDone, threadVars, linkVars, clientVars, procVars, Advance
<1>3. ThreadsInvoke'
    BY <1>0 DEF SessionTypeOK, ThreadsInvoke, Sides, DisposeDone, threadVars, linkVars, clientVars, procVars, Advance
<1>4. GateCounts'
    BY <1>0 DEF SessionTypeOK, ThreadsInvoke, GateCounts, Signallers, Openers, Sides,
       DisposeDone, threadVars, linkVars, clientVars, procVars, Advance
<1>5. FinishedInv'
    BY <1>0 DEF SessionTypeOK, FinishedInv, AllFinished, GateCounts, Signallers, Openers, ThreadsInvoke, TeardownInv, Sides,
       DisposeDone, threadVars, linkVars, clientVars, procVars, Advance
<1>6. TeardownInv'
    BY <1>0 DEF SessionTypeOK, TeardownInv, Sock, Sides, DisposeDone, threadVars, linkVars, clientVars, procVars, Advance
<1>7. FailuresLost'
    BY <1>0 DEF SessionTypeOK, FailuresLost, Sides, DisposeDone, threadVars, linkVars, clientVars, procVars, Advance
<1>8. StatusInv'
    BY <1>0, ClientSide DEF SessionTypeOK, StatusInv, FinishedInv, TeardownInv, Sides,
       DisposeDone, threadVars, linkVars, clientVars, procVars, Advance
<1> QED
    BY <1>1, <1>2, <1>3, <1>4, <1>5, <1>6, <1>7, <1>8

LEMMA ClientExitsSession ==
    ASSUME SessionInv, CountsAgree, ClientExits
    PROVE  SessionInv'
<1> USE DEF SessionInv
<1>0. UNCHANGED dataVars /\ UNCHANGED <<dstPc, srcPc, lost, srcSock, dstSock>>
    BY DataSeen DEF ClientExits
<1>1. BlockInv' /\ DeliveryInv'
    BY <1>0, DataFrame
<1>2. SessionTypeOK'
    BY <1>1, ClientSide DEF BlockInv, SessionTypeOK, ThreadStates, PortalStates, TeardownStages, Sides,
       ClientExits, threadVars, linkVars, clientVars, procVars
<1>3. ThreadsInvoke'
    BY <1>0 DEF SessionTypeOK, ThreadsInvoke, Sides, ClientExits, threadVars, linkVars, clientVars, procVars
<1>4. GateCounts'
    BY <1>0 DEF SessionTypeOK, ThreadsInvoke, GateCounts, Signallers, Openers, Sides,
       ClientExits, threadVars, linkVars, clientVars, procVars
<1>5. FinishedInv'
    BY <1>0 DEF SessionTypeOK, FinishedInv, AllFinished, GateCounts, Signallers, Openers, ThreadsInvoke, TeardownInv, Sides,
       ClientExits, threadVars, linkVars, clientVars, procVars
<1>6. TeardownInv'
    BY <1>0 DEF SessionTypeOK, TeardownInv, Sock, Sides, ClientExits, threadVars, linkVars, clientVars, procVars
<1>7. FailuresLost'
    BY <1>0 DEF SessionTypeOK, FailuresLost, Sides, ClientExits, threadVars, linkVars, clientVars, procVars
<1>8. StatusInv'
    BY <1>0, ClientSide DEF SessionTypeOK, StatusInv, FinishedInv, TeardownInv, Sides,
       ClientExits, threadVars, linkVars, clientVars, procVars
<1> QED
    BY <1>1, <1>2, <1>3, <1>4, <1>5, <1>6, <1>7, <1>8

LEMMA LosePortalSession ==
    ASSUME SessionInv, CountsAgree, LosePortal
    PROVE  SessionInv'
<1> USE DEF SessionInv
<1>0. UNCHANGED dataVars /\ UNCHANGED <<dstPc, srcPc, lost, srcSock, dstSock>>
    BY DataSeen DEF LosePortal, Meets
<1>1. BlockInv' /\ DeliveryInv'
    BY <1>0, DataFrame
<1>2. SessionTypeOK'
    BY <1>1, ClientSide DEF BlockInv, SessionTypeOK, ThreadStates, PortalStates, TeardownStages, Sides,
       LosePortal, threadVars, linkVars, clientVars, procVars, Meets
<1>3. ThreadsInvoke'
    BY <1>0 DEF SessionTypeOK, ThreadsInvoke, Sides, LosePortal, threadVars, linkVars, clientVars, procVars, Meets
<1>4. GateCounts'
    BY <1>0 DEF SessionTypeOK, ThreadsInvoke, GateCounts, Signallers, Openers, Sides,
       LosePortal, threadVars, linkVars, clientVars, procVars, Meets
<1>5. FinishedInv'
    BY <1>0 DEF SessionTypeOK, FinishedInv, AllFinished, GateCounts, Signallers, Openers, ThreadsInvoke, TeardownInv, Sides,
       LosePortal, threadVars, linkVars, clientVars, procVars, Meets
<1>6. TeardownInv'
    BY <1>0 DEF SessionTypeOK, TeardownInv, Sock, Sides, LosePortal, threadVars, linkVars, clientVars, procVars, Meets
<1>7. FailuresLost'
    BY <1>0 DEF SessionTypeOK, FailuresLost, Sides, LosePortal, threadVars, linkVars, clientVars, procVars, Meets
<1>8. StatusInv'
    BY <1>0, ClientSide DEF SessionTypeOK, StatusInv, FinishedInv, TeardownInv, Sides,
       LosePortal, threadVars, linkVars, clientVars, procVars, Meets
<1> QED
    BY <1>1, <1>2, <1>3, <1>4, <1>5, <1>6, <1>7, <1>8

LEMMA InterruptSession ==
    ASSUME SessionInv, CountsAgree, NEW s \in Sides, Interrupt(s)
    PROVE  SessionInv'
<1> USE DEF SessionInv
<1>0. UNCHANGED dataVars /\ UNCHANGED <<dstPc, srcPc, lost, srcSock, dstSock>>
    BY DataSeen DEF Interrupt, Meets, RequireDispose
<1>1. BlockInv' /\ DeliveryInv'
    BY <1>0, DataFrame
<1>2. SessionTypeOK'
    BY <1>1, ClientSide DEF BlockInv, SessionTypeOK, ThreadStates, PortalStates, TeardownStages, Sides,
       Interrupt, threadVars, linkVars, clientVars, procVars, Meets, RequireDispose
<1>3. ThreadsInvoke'
    BY <1>0 DEF SessionTypeOK, ThreadsInvoke, Sides, Interrupt, threadVars, linkVars, clientVars, procVars, Meets, RequireDispose
<1>4. GateCounts'
    BY <1>0 DEF SessionTypeOK, ThreadsInvoke, GateCounts, Signallers, Openers, Sides,
       Interrupt, threadVars, linkVars, clientVars, procVars, Meets, RequireDispose
<1>5. FinishedInv'
    BY <1>0 DEF SessionTypeOK, FinishedInv, AllFinished, GateCounts, Signallers, Openers, ThreadsInvoke, TeardownInv, Sides,
       Interrupt, threadVars, linkVars, clientVars, procVars, Meets, RequireDispose
<1>6. TeardownInv'
    BY <1>0 DEF SessionTypeOK, TeardownInv, Sock, Sides, Interrupt, threadVars, linkVars, clientVars, procVars, Meets, RequireDispose
<1>7. FailuresLost'
    BY <1>0 DEF SessionTypeOK, FailuresLost, Sides, Interrupt, threadVars, linkVars, clientVars, procVars, Meets, RequireDispose
<1>8. StatusInv'
    BY <1>0, ClientSide DEF SessionTypeOK, StatusInv, FinishedInv, TeardownInv, Sides,
       Interrupt, threadVars, linkVars, clientVars, procVars, Meets, RequireDispose
<1> QED
    BY <1>1, <1>2, <1>3, <1>4, <1>5, <1>6, <1>7, <1>8

----------------------------------------------------------------------------
(* Steps that touch the data plane.                                        *)

\* What a step of invoke_channel shows of itself: a destination thread fails
\* only if its connection is closed at either end or lost.
LEMMA SourceShows ==
    ASSUME NEW c \in Channels, SourceStep(c)
    PROVE  UNCHANGED <<dstPc, lost, srcSock, dstSock>>
BY DEF SourceStep, BeginSource, ClaimBlock, NextFile, SendBlock, SendTail, SendFails, netVars, dstVars

LEMMA DestinationShows ==
    ASSUME BlockInv, NEW c \in Channels, DestinationStep(c)
    PROVE  /\ UNCHANGED <<lost, srcSock, dstSock>>
           /\ \A d \in Channels \ {c} : dstPc'[d] = dstPc[d]
           /\ dstPc[c] \notin {"done", "failed"} /\ dstPc'[c] # "idle"
           /\ dstPc'[c] = "failed" => lost[c] \/ ~srcSock[c] \/ ~dstSock[c]
<1>1. dstPc \in [Channels -> DstStates]
    BY DEF BlockInv, TypeOK
<1>2. CASE RecvHeader(c)
    <2> DEFINE m == Head(wire[c])
    <2>1. wire[c] # <<>> /\ Live(m)
        BY <1>2 DEF RecvHeader, Live
    <2>2. wire[c] \in Seq(Message) /\ 1 \in Positions(c) /\ m = wire[c][1]
        BY <2>1 DEF BlockInv, TypeOK, Positions
    <2>3. m \in Message /\ Claimed(m) /\ Fresh(m)
        BY <2>2, WireMessages DEF BlockInv, BlocksClaimed, BlocksFresh
    <2>4. recv_ctx[m.file].mapped
        BY <2>1, <2>3, PendingBlockMapped
    <2> QED
        BY <1>1, <1>2, <2>4 DEF RecvHeader, netVars
<1>3. CASE ~RecvHeader(c)
    BY <1>1, <1>3 DEF DestinationStep, BeginDestination, RecvTail, RecvBody, CountBlock, CompleteFile,
       RecvFails, netVars, srcVars
<1> QED
    BY <1>2, <1>3

LEMMA EnterChannelSession ==
    ASSUME SessionInv, CountsAgree, NEW s \in Sides, NEW c \in Channels, EnterChannel(s, c)
    PROVE  SessionInv'
<1> USE DEF SessionInv
<1>0. /\ s = "source" => SourceStep(c)
      /\ s = "destination" => BeginDestination(c) /\ DestinationStep(c)
      /\ s \in {"source", "destination"}
    BY DEF EnterChannel, SourceStep, DestinationStep, Sides
<1>1. BlockInv' /\ DeliveryInv'
    BY <1>0, ThreadDelivery
<1>a. /\ UNCHANGED <<lost, srcSock, dstSock>>
      /\ \A d \in Channels : s = "source" \/ d # c => dstPc'[d] = dstPc[d]
      /\ s = "destination" => dstPc[c] = "idle" /\ dstPc'[c] = "header"
    BY <1>0, SourceShows, DestinationShows DEF BeginDestination, BlockInv, TypeOK
<1>2. SessionTypeOK'
    BY <1>1 DEF BlockInv, SessionTypeOK, ThreadStates, Sides,
       EnterChannel, SetThread, linkVars, clientVars, procVars
<1>3. ThreadsInvoke'
    BY <1>a DEF SessionTypeOK, ThreadsInvoke, Sides, EnterChannel, SetThread
<1>4. GateCounts'
    <2>1. Signallers' = Signallers
        BY <1>a DEF SessionTypeOK, ThreadsInvoke, Signallers, Sides, EnterChannel, SetThread
    <2>2. Openers' = Openers
        BY DEF SessionTypeOK, Openers, Sides, EnterChannel, SetThread
    <2> QED
        BY <2>1, <2>2 DEF GateCounts, EnterChannel
<1>5. FinishedInv'
    BY <1>a DEF SessionTypeOK, FinishedInv, AllFinished, Sides, EnterChannel, linkVars
<1>6. TeardownInv'
    BY <1>a DEF SessionTypeOK, TeardownInv, Sock, Sides, EnterChannel, SetThread, linkVars
<1>7. FailuresLost'
    BY <1>0, <1>a DEF FailuresLost, EnterChannel, linkVars
<1>8. StatusInv'
    BY <1>a, ClientSide DEF SessionTypeOK, ThreadsInvoke, StatusInv, Sides, EnterChannel, SetThread, linkVars, clientVars
<1> QED
    BY <1>1, <1>2, <1>3, <1>4, <1>5, <1>6, <1>7, <1>8

LEMMA RunChannelSession ==
    ASSUME SessionInv, CountsAgree, NEW s \in Sides, NEW c \in Channels, RunChannel(s, c)
    PROVE  SessionInv'
<1> USE DEF SessionInv
<1>0. /\ SourceStep(c) \/ (DestinationStep(c) /\ chanThread["destination"][c] = "inside")
      /\ UNCHANGED <<chanThread, portal, gate, portalSock, portalLost, finished>>
      /\ UNCHANGED <<teardown, alive, faults, status, exit>>
    BY DEF RunChannel, Sides, sessionVars, threadVars, linkVars, procVars, clientVars
<1>1. BlockInv' /\ DeliveryInv'
    BY <1>0, ThreadDelivery
<1>a. /\ UNCHANGED <<lost, srcSock, dstSock>>
      /\ \/ dstPc' = dstPc
         \/ /\ \A d \in Channels \ {c} : dstPc'[d] = dstPc[d]
            /\ chanThread["destination"][c] = "inside"
            /\ dstPc[c] \notin {"done", "failed"} /\ dstPc'[c] # "idle"
            /\ dstPc'[c] = "failed" => lost[c] \/ ~srcSock[c] \/ ~dstSock[c]
    BY <1>0, SourceShows, DestinationShows
<1>2. SessionTypeOK'
    BY <1>0, <1>1 DEF BlockInv, SessionTypeOK
<1>3. ThreadsInvoke'
    BY <1>0, <1>a DEF ThreadsInvoke
<1>4. GateCounts'
    <2>1. Signallers' = Signallers
        BY <1>0, <1>a DEF Signallers
    <2>2. Openers' = Openers
        BY <1>0 DEF Openers
    <2> QED
        BY <1>0, <2>1, <2>2 DEF GateCounts
<1>5. FinishedInv'
    BY <1>0, <1>a DEF FinishedInv, AllFinished
<1>6. TeardownInv'
    BY <1>0, <1>a DEF TeardownInv, Sock
<1>7. FailuresLost'
    <2>1. portalSock["source"] /\ portalSock["destination"] => srcSock[c] /\ dstSock[c]
        BY DEF TeardownInv, Sock, Sides
    <2>2. finished \in {"inFlight", "received"} => AllFinished
        BY DEF FinishedInv
    <2> QED
        BY <1>0, <1>a, <2>1, <2>2 DEF FailuresLost, AllFinished
<1>8. StatusInv'
    BY <1>0, <1>a DEF StatusInv
<1> QED
    BY <1>1, <1>2, <1>3, <1>4, <1>5, <1>6, <1>7, <1>8

LEMMA DisposeTransferSession ==
    ASSUME SessionInv, CountsAgree, NEW s \in Sides, DisposeTransfer(s)
    PROVE  SessionInv'
<1> USE DEF SessionInv
<1>0. /\ Disturbance
      /\ UNCHANGED <<dstPc, lost, srcSock, dstSock>>
      /\ teardown[s] = "portalClosed" /\ teardown' = [teardown EXCEPT ![s] = "disposed"]
      /\ IF s = "source" THEN gate' = gate ELSE gate' = ForceSignalled
      /\ UNCHANGED <<chanThread, portal, portalSock, portalLost, finished, alive, faults, status, exit>>
    BY DEF DisposeTransfer, Advance, Disturbance, DisposeSource, DisposeDestination,
       dstVars, netVars, linkVars, procVars, clientVars
<1>1. BlockInv' /\ DeliveryInv'
    BY <1>0, DisturbanceDelivery, DisturbanceInv
<1>2. SessionTypeOK'
    <2>1. gate' \in [count : Nat, open : BOOLEAN]
        <3>1. GateCount \in Nat
            BY SessionAssumption
        <3>2. gate' = gate \/ gate' = [count |-> GateCount, open |-> TRUE]
            BY <1>0 DEF ForceSignalled
        <3>3. gate \in [count : Nat, open : BOOLEAN]
            BY DEF SessionTypeOK
        <3>4. CASE gate' = gate
            BY <3>3, <3>4
        <3>5. CASE gate' = [count |-> GateCount, open |-> TRUE]
            <4>1. [count |-> GateCount, open |-> TRUE] \in [count : Nat, open : BOOLEAN]
                BY <3>1
            <4> QED
                BY <3>5, <4>1
        <3> QED
            BY <3>2, <3>4, <3>5
    <2>2. teardown' \in [Sides -> TeardownStages]
        BY <1>0 DEF SessionTypeOK, TeardownStages
    <2> QED
        BY <1>0, <1>1, <2>1, <2>2 DEF BlockInv, SessionTypeOK
<1>3. ThreadsInvoke'
    BY <1>0 DEF ThreadsInvoke
<1>4. GateCounts'
    BY <1>0 DEF SessionTypeOK, GateCounts, Signallers, Openers, Sides
<1>5. FinishedInv'
    BY <1>0 DEF FinishedInv, AllFinished
<1>6. TeardownInv'
    BY <1>0 DEF SessionTypeOK, TeardownInv, Sock, Sides
<1>7. FailuresLost'
    BY <1>0 DEF FailuresLost
<1>8. StatusInv'
    BY <1>0, ClientSide DEF SessionTypeOK, StatusInv, Sides
<1> QED
    BY <1>1, <1>2, <1>3, <1>4, <1>5, <1>6, <1>7, <1>8

\* What closing sockets shows of itself.
LEMMA CloseShows ==
    ASSUME SessionInv, NEW s \in Sides, NEW C,
           IF s = "source" THEN CloseSourceSocks(C) ELSE CloseDestinationSocks(C)
    PROVE  /\ BlockInv' /\ DeliveryInv' /\ UNCHANGED <<dstPc, lost>>
           /\ \A t \in Sides \ {s} : \A c \in Channels : Sock(t, c)' = Sock(t, c)
<1>1. BlockInv' /\ DeliveryInv'
    BY CloseSocksDelivery DEF SessionInv
<1> QED
    BY <1>1 DEF CloseSourceSocks, CloseDestinationSocks, dstVars, Sock, Sides

LEMMA CloseChannelSession ==
    ASSUME SessionInv, CountsAgree, NEW s \in Sides, NEW c \in Channels, CloseChannel(s, c)
    PROVE  SessionInv'
<1> USE DEF SessionInv
<1>0. /\ teardown[s] = "joined"
      /\ IF s = "source" THEN CloseSourceSocks({c}) ELSE CloseDestinationSocks({c})
      /\ UNCHANGED <<chanThread, portal, gate, portalSock, portalLost, finished>>
      /\ UNCHANGED <<teardown, alive, faults, status, exit>>
    BY DEF CloseChannel, sessionVars, threadVars, linkVars, procVars, clientVars
<1>1. /\ BlockInv' /\ DeliveryInv' /\ UNCHANGED <<dstPc, lost>>
      /\ \A t \in Sides \ {s} : \A d \in Channels : Sock(t, d)' = Sock(t, d)
    BY <1>0, CloseShows
<1>2. SessionTypeOK'
    BY <1>0, <1>1 DEF BlockInv, SessionTypeOK
<1>3. ThreadsInvoke' /\ FinishedInv' /\ FailuresLost'
    BY <1>0, <1>1 DEF ThreadsInvoke, FinishedInv, AllFinished, FailuresLost
<1>4. GateCounts'
    BY <1>0, <1>1 DEF GateCounts, Signallers, Openers
<1>5. TeardownInv'
    BY <1>0, <1>1 DEF TeardownInv
<1>6. StatusInv'
    BY <1>0, <1>1 DEF StatusInv
<1> QED
    BY <1>1, <1>2, <1>3, <1>4, <1>5, <1>6

\* A process dies: its sockets are closed, and its threads take no more steps.
LEMMA DiesSession ==
    ASSUME SessionInv, CountsAgree, NEW s \in Sides, Dies(s), faults' \in 0 .. MaxFaults
    PROVE  SessionInv'
<1> USE DEF SessionInv
<1>0. /\ IF s = "source" THEN CloseSourceSocks(Channels) ELSE CloseDestinationSocks(Channels)
      /\ alive' = [alive EXCEPT ![s] = FALSE] /\ portalSock' = [portalSock EXCEPT ![s] = FALSE]
      /\ UNCHANGED <<chanThread, portal, gate, portalLost, finished, teardown, status, exit>>
    BY DEF Dies, threadVars, clientVars
<1>1. /\ BlockInv' /\ DeliveryInv' /\ UNCHANGED <<dstPc, lost>>
      /\ \A t \in Sides \ {s} : \A d \in Channels : Sock(t, d)' = Sock(t, d)
    BY <1>0, CloseShows
<1>2. SessionTypeOK'
    BY <1>0, <1>1 DEF BlockInv, SessionTypeOK, Sides
<1>3. ThreadsInvoke' /\ FinishedInv' /\ FailuresLost'
    BY <1>0, <1>1 DEF SessionTypeOK, ThreadsInvoke, FinishedInv, AllFinished, FailuresLost, Sides
<1>4. GateCounts'
    BY <1>0, <1>1 DEF GateCounts, Signallers, Openers
<1>5. TeardownInv'
    BY <1>0, <1>1 DEF SessionTypeOK, TeardownInv
<1>6. StatusInv'
    BY <1>0, <1>1 DEF StatusInv
<1> QED
    BY <1>1, <1>2, <1>3, <1>4, <1>5, <1>6

LEMMA AbortSession ==
    ASSUME SessionInv, CountsAgree, NEW s \in Sides, AssertAborts(s) \/ Crash(s)
    PROVE  SessionInv'
<1>1. Dies(s)
    BY DEF AssertAborts, Crash
<1>2. faults' \in 0 .. MaxFaults
    BY DEF AssertAborts, Crash, Meets, SessionInv, SessionTypeOK
<1> QED
    BY <1>1, <1>2, DiesSession

LEMMA LoseChannelSession ==
    ASSUME SessionInv, CountsAgree, NEW c \in Channels, LoseChannel(c)
    PROVE  SessionInv'
<1> USE DEF SessionInv
<1>0. /\ Disturbance /\ lost' = [lost EXCEPT ![c] = TRUE]
      /\ UNCHANGED <<dstPc, srcSock, dstSock>>
      /\ UNCHANGED <<chanThread, portal, gate, portalSock, portalLost, finished>>
      /\ UNCHANGED <<teardown, alive, status, exit>> /\ faults' \in 0 .. MaxFaults
    <2>1. Disturbance
        BY DEF LoseChannel, Disturbance
    <2>2. /\ lost' = [lost EXCEPT ![c] = TRUE] /\ UNCHANGED <<dstPc, srcSock, dstSock>>
        BY DEF LoseChannel, LoseConnection, dstVars
    <2>3. /\ UNCHANGED <<chanThread, portal, gate, portalSock, portalLost, finished>>
          /\ UNCHANGED <<teardown, alive, status, exit>>
        BY DEF LoseChannel, threadVars, linkVars, clientVars
    <2>4. faults' \in 0 .. MaxFaults
        BY DEF LoseChannel, Meets, SessionTypeOK
    <2> QED
        BY <2>1, <2>2, <2>3, <2>4
<1>1. BlockInv' /\ DeliveryInv'
    BY <1>0, DisturbanceDelivery, DisturbanceInv
<1>2. SessionTypeOK'
    BY <1>0, <1>1 DEF BlockInv, SessionTypeOK
<1>3. ThreadsInvoke' /\ FinishedInv'
    BY <1>0 DEF ThreadsInvoke, FinishedInv, AllFinished
<1>4. GateCounts'
    BY <1>0 DEF GateCounts, Signallers, Openers
<1>5. TeardownInv'
    BY <1>0 DEF TeardownInv, Sock
<1>6. FailuresLost'
    BY <1>0 DEF FailuresLost, SessionTypeOK, TypeOK
<1>7. StatusInv'
    BY <1>0 DEF StatusInv
<1> QED
    BY <1>1, <1>2, <1>3, <1>4, <1>5, <1>6, <1>7

----------------------------------------------------------------------------
(* The theorems.                                                           *)

LEMMA NextSession ==
    ASSUME SessionInv, CountsAgree, [SessionNext]_vars
    PROVE  SessionInv'
<1>1. ASSUME NEW s \in Sides, NEW c \in Channels, ChannelStep(s, c) PROVE SessionInv'
    BY <1>1, CheckDisposeSession, EnterChannelSession, RunChannelSession, SignalFinishedSession, OpenGateSession,
       ChannelSucceedsSession, ChannelFailsSession DEF ChannelStep
<1>2. ASSUME NEW s \in Sides, PortalStep(s) PROVE SessionInv'
    BY <1>2, EnterPortalSession, GatePassedSession, SendFinishedSession, SendFinishedFailsSession,
       RecvFinishedSession, RecvFinishedFailsSession DEF PortalStep
<1>3. ASSUME NEW s \in Sides, DisposeStep(s) PROVE SessionInv'
    BY <1>3, ClosePortalSession, DisposeTransferSession, ResetTransferSession, JoinPortalSession,
       CloseChannelSession, DisposeDoneSession DEF DisposeStep
<1>4. ASSUME NEW s \in Sides, AssertAborts(s) \/ Crash(s) PROVE SessionInv'
    BY <1>4, AbortSession
<1>5. CASE ClientExits
    BY <1>5, ClientExitsSession
<1>6. ASSUME NEW s \in Sides, Interrupt(s) PROVE SessionInv'
    BY <1>6, InterruptSession
<1>7. ASSUME NEW c \in Channels, LoseChannel(c) PROVE SessionInv'
    BY <1>7, LoseChannelSession
<1>8. CASE LosePortal
    BY <1>8, LosePortalSession
<1>9. CASE UNCHANGED vars
    <2>1. /\ UNCHANGED dataVars /\ UNCHANGED <<dstPc, srcPc, lost, srcSock, dstSock>>
          /\ UNCHANGED <<chanThread, portal, gate, portalSock, portalLost, finished>>
          /\ UNCHANGED <<teardown, alive, faults, status, exit>>
        BY <1>9, DataSeen DEF vars, sessionVars, threadVars, linkVars, procVars, clientVars
    <2>2. BlockInv' /\ DeliveryInv'
        BY <2>1, DataFrame DEF SessionInv
    <2> QED
        BY <2>1, <2>2 DEF SessionInv, BlockInv, SessionTypeOK, ThreadsInvoke, GateCounts, Signallers, Openers,
           FinishedInv, AllFinished, TeardownInv, Sock, FailuresLost, StatusInv
<1> QED
    BY <1>1, <1>2, <1>3, <1>4, <1>5, <1>6, <1>7, <1>8, <1>9 DEF SessionNext, ProgramStep, SideStep, Fault

\* SessionInv is inductive when the gate counts as many channels as there are.
\* Without that assumption it does not hold (src/src/program_options.cpp:403).
THEOREM SessionInvHolds == ASSUME CountsAgree PROVE SessionSpec => []SessionInv
<1>1. SessionInv /\ [SessionNext]_vars => SessionInv'
    BY NextSession
<1> QED
    BY InitSession, <1>1, PTL DEF SessionSpec

\* The message "finished" goes out only when every channel thread of the
\* destination has left invoke_channel, although dispose_impl forces the gate
\* (transfer.cpp:333, 633).
THEOREM FinishedIsTrue == ASSUME CountsAgree PROVE SessionSpec => []FinishedMeansAllChannelsFinished
<1>1. SessionInv => FinishedMeansAllChannelsFinished
    BY DEF SessionInv, FinishedInv, AllFinished, FinishedMeansAllChannelsFinished
<1> QED
    BY <1>1, SessionInvHolds, PTL

\* A client that downloads exits with 0 only when it has received every byte of
\* every file (client.cpp:486-500, xcp.cpp).
THEOREM DownloadExitIsTrue ==
    ASSUME CountsAgree, ~Upload PROVE SessionSpec => []ExitOkMeansComplete
<1>1. ASSUME SessionInv, ~Upload PROVE ExitOkMeansComplete
    <2> SUFFICES ASSUME exit = "ok" PROVE \A f \in Files : stored[f] = WholeFile(f)
        BY DEF ExitOkMeansComplete
    <2>1. status = "succeeded" /\ teardown["destination"] = "done" /\ AllFinished
        BY <1>1, ClientSide DEF SessionInv, StatusInv, FinishedInv
    <2>2. \A c \in Channels : chanThread["destination"][c] = "ended"
        BY <1>1, <2>1 DEF SessionInv, TeardownInv, Sides
    <2>3. \A c \in Channels : dstPc[c] = "done"
        BY <1>1, <2>1, <2>2 DEF SessionInv, StatusInv, AllFinished
    <2> QED
        BY <1>1, <2>3, TailsMeanWhole DEF SessionInv, AllTailsMeanWholeFiles
<1>2. ~Upload => (SessionInv => ExitOkMeansComplete)
    BY <1>1
<1> QED
    BY <1>2, SessionInvHolds, PTL

\* Any client exits with 0 only when every byte of every file has been
\* received, or the connection of a channel was lost.
THEOREM ExitIsTrueUnlessLost ==
    ASSUME CountsAgree PROVE SessionSpec => []ExitOkMeansCompleteUnlessLost
<1>1. ASSUME SessionInv PROVE ExitOkMeansCompleteUnlessLost
    <2> SUFFICES ASSUME exit = "ok", \A c \in Channels : ~lost[c]
                 PROVE  \A f \in Files : stored[f] = WholeFile(f)
        BY DEF ExitOkMeansCompleteUnlessLost
    <2>1. status = "succeeded" /\ teardown[Client] = "done" /\ AllFinished
        BY <1>1 DEF SessionInv, StatusInv, FinishedInv
    <2>2. CASE Upload
        <3>1. finished = "received"
            BY <1>1, <2>1, <2>2 DEF SessionInv, StatusInv
        <3>2. \A c \in Channels : dstPc[c] = "done"
            BY <1>1, <2>1, <3>1 DEF SessionInv, FailuresLost, AllFinished
        <3> QED
            BY <1>1, <3>2, TailsMeanWhole DEF SessionInv, AllTailsMeanWholeFiles
    <2>3. CASE ~Upload
        <3>1. \A c \in Channels : chanThread["destination"][c] = "ended"
            BY <1>1, <2>1, <2>3, ClientSide DEF SessionInv, TeardownInv, Sides
        <3>2. \A c \in Channels : dstPc[c] = "done"
            BY <1>1, <2>1, <2>3, <3>1 DEF SessionInv, StatusInv, AllFinished
        <3> QED
            BY <1>1, <3>2, TailsMeanWhole DEF SessionInv, AllTailsMeanWholeFiles
    <2> QED
        BY <2>2, <2>3
<1> QED
    BY <1>1, SessionInvHolds, PTL

----------------------------------------------------------------------------
(* The session runs the data plane: every step of it is a step of          *)
(* BlockTransfer or leaves the data alone.  No assumption on the gate.     *)

LEMMA ChannelStepRefines ==
    ASSUME NEW s \in Sides, NEW c \in Channels, ChannelStep(s, c)
    PROVE  [Next]_dataVars
<1>1. CASE EnterChannel(s, c) \/ RunChannel(s, c)
    <2>1. SourceStep(c) \/ DestinationStep(c)
        BY <1>1 DEF EnterChannel, RunChannel, SourceStep, DestinationStep
    <2> QED
        BY <2>1 DEF Next, ThreadStep
<1>2. CASE ~(EnterChannel(s, c) \/ RunChannel(s, c))
    BY <1>2 DEF ChannelStep, CheckDispose, SignalFinished, OpenGate, ChannelSucceeds, ChannelFails
<1> QED
    BY <1>1, <1>2

LEMMA PortalStepRefines ==
    ASSUME NEW s \in Sides, PortalStep(s)
    PROVE  UNCHANGED dataVars
BY DEF PortalStep, EnterPortal, GatePassed, SendFinished, SendFinishedFails, RecvFinished,
   RecvFinishedFails, PortalEnds

\* A process that dies closes the sockets it still has open.
LEMMA DiesRefines ==
    ASSUME NEW s \in Sides, Dies(s), TypeOK
    PROVE  [Next]_dataVars
<1>1. Channels \in ClosedTogether
    BY DEF ClosedTogether
<1>2. CASE s = "source"
    <2>1. CloseSourceSocks(Channels)
        BY <1>2 DEF Dies
    <2>2. CASE Channels \cap Open(srcSock) # {}
        BY <1>1, <2>1, <2>2 DEF Disturbance, Next
    <2>3. CASE Channels \cap Open(srcSock) = {}
        <3>1. srcSock' = srcSock
            BY <2>1, <2>3 DEF CloseSourceSocks, Open, TypeOK
        <3> QED
            BY <2>1, <3>1 DEF CloseSourceSocks, dataVars, netVars
    <2> QED
        BY <2>2, <2>3
<1>3. CASE s = "destination"
    <2>1. CloseDestinationSocks(Channels)
        BY <1>3 DEF Dies
    <2>2. CASE Channels \cap Open(dstSock) # {}
        BY <1>1, <2>1, <2>2 DEF Disturbance, Next
    <2>3. CASE Channels \cap Open(dstSock) = {}
        <3>1. dstSock' = dstSock
            BY <2>1, <2>3 DEF CloseDestinationSocks, Open, TypeOK
        <3> QED
            BY <2>1, <3>1 DEF CloseDestinationSocks, dataVars, netVars
    <2> QED
        BY <2>2, <2>3
<1> QED
    BY <1>2, <1>3 DEF Sides

LEMMA DisposeStepRefines ==
    ASSUME NEW s \in Sides, DisposeStep(s)
    PROVE  [Next]_dataVars
<1>1. CASE DisposeTransfer(s)
    BY <1>1 DEF DisposeTransfer, Disturbance, Next
<1>2. ASSUME NEW c \in Channels, CloseChannel(s, c) PROVE [Next]_dataVars
    <2>1. {c} \in ClosedTogether /\ Sock(s, c)
        BY <1>2 DEF ClosedTogether, CloseChannel
    <2>2. CASE s = "source"
        <3>1. CloseSourceSocks({c}) /\ c \in {c} \cap Open(srcSock)
            BY <1>2, <2>1, <2>2 DEF CloseChannel, Open, Sock
        <3> QED
            BY <2>1, <3>1 DEF Disturbance, Next
    <2>3. CASE s = "destination"
        <3>1. CloseDestinationSocks({c}) /\ c \in {c} \cap Open(dstSock)
            BY <1>2, <2>1, <2>3 DEF CloseChannel, Open, Sock
        <3> QED
            BY <2>1, <3>1 DEF Disturbance, Next
    <2> QED
        BY <2>2, <2>3 DEF Sides
<1>3. CASE ClosePortal(s) \/ ResetTransfer(s) \/ JoinPortal(s) \/ DisposeDone(s)
    BY <1>3 DEF ClosePortal, ResetTransfer, JoinPortal, DisposeDone
<1> QED
    BY <1>1, <1>2, <1>3 DEF DisposeStep

LEMMA SessionNextRefines ==
    ASSUME TypeOK, [SessionNext]_vars
    PROVE  [Next]_dataVars
<1>1. ASSUME NEW s \in Sides, SideStep(s) PROVE [Next]_dataVars
    <2>1. CASE AssertAborts(s)
        BY <2>1, DiesRefines DEF AssertAborts
    <2>2. CASE ClientExits
        BY <2>2 DEF ClientExits
    <2> QED
        BY <1>1, <2>1, <2>2, ChannelStepRefines, PortalStepRefines, DisposeStepRefines DEF SideStep
<1>2. ASSUME NEW s \in Sides, Crash(s) PROVE [Next]_dataVars
    BY <1>2, DiesRefines DEF Crash
<1>3. ASSUME NEW c \in Channels, LoseChannel(c) PROVE [Next]_dataVars
    BY <1>3 DEF LoseChannel, Disturbance, Next
<1>4. CASE LosePortal \/ \E s \in Sides : Interrupt(s)
    BY <1>4 DEF LosePortal, Interrupt
<1>5. CASE UNCHANGED vars
    BY <1>5 DEF vars
<1> QED
    BY <1>1, <1>2, <1>3, <1>4, <1>5 DEF SessionNext, ProgramStep, Fault

\* Whatever the portals, the signals and the deaths of the processes do to it, a
\* transfer is a run of the data plane of BlockTransfer: everything proved of
\* that specification holds of the whole session.
THEOREM SessionImplementsTransfer == SessionSpec => Spec
<1>1. SessionInit => Init /\ BlockInv
    BY InitInv DEF SessionInit
<1>2. BlockInv /\ [SessionNext]_vars => BlockInv' /\ [Next]_dataVars
    BY SessionNextRefines, NextInv DEF BlockInv
<1> QED
    BY <1>1, <1>2, PTL DEF SessionSpec, Spec

\* The session copies files: bytes arrive once each, and a file is finished
\* once, whole, with nothing arriving after - also when a process is
\* interrupted, or dies, and whether or not the gate counts right.
THEOREM SessionCopiesFiles == SessionSpec => CopiesFiles
BY SessionImplementsTransfer, ImplementsFileCopy, PTL

\* No byte is received twice, and no thread receives into a mapping that another
\* has removed (transfer.cpp:386-408), in the whole session.
THEOREM SessionKeepsBlocksApart == SessionSpec => NoByteReceivedTwice /\ []PendingBlocksStayMapped
BY SessionImplementsTransfer, BytesReceivedOnce, PendingBlocksHaveMapping, PTL

----------------------------------------------------------------------------
(* The types of the session need no assumption on the gate either.         *)

LEMMA ChannelStepTypes ==
    ASSUME SessionTypeOK, TypeOK', NEW s \in Sides, NEW c \in Channels, ChannelStep(s, c)
    PROVE  SessionTypeOK'
<1> USE DEF SessionTypeOK, SetThread, linkVars, procVars, clientVars, sessionVars, threadVars
<1>1. CASE CheckDispose(s, c)
    BY <1>1 DEF CheckDispose, ThreadStates
<1>2. CASE EnterChannel(s, c)
    BY <1>2 DEF EnterChannel, ThreadStates
<1>3. CASE RunChannel(s, c)
    BY <1>3 DEF RunChannel
<1>4. CASE SignalFinished(c)
    BY <1>4, "destination" \in Sides DEF SignalFinished, Counted, ThreadStates, Sides
<1>5. CASE OpenGate(c)
    BY <1>5, "destination" \in Sides DEF OpenGate, Opened, ThreadStates, Sides
<1>6. CASE ChannelSucceeds(s, c)
    BY <1>6 DEF ChannelSucceeds, ThreadStates
<1>7. CASE ChannelFails(s, c)
    BY <1>7 DEF ChannelFails, StatusAfterFailure, RequireDispose, TeardownStages, ThreadStates
<1> QED
    BY <1>1, <1>2, <1>3, <1>4, <1>5, <1>6, <1>7 DEF ChannelStep

LEMMA PortalStepTypes ==
    ASSUME SessionTypeOK, TypeOK', NEW s \in Sides, PortalStep(s)
    PROVE  SessionTypeOK'
<1> USE DEF SessionTypeOK, linkVars, procVars, clientVars
<1>1. CASE EnterPortal(s)
    BY <1>1 DEF EnterPortal, PortalStates
<1>2. CASE GatePassed
    BY <1>2 DEF GatePassed, PortalStates
<1>3. ASSUME NEW t \in Sides, NEW ok \in BOOLEAN, PortalEnds(t, ok),
             finished' \in {"none", "inFlight", "received", "dropped"}
      PROVE  SessionTypeOK'
    BY <1>3 DEF PortalEnds, RequireDispose, TeardownStages, PortalStates
<1>4. CASE SendFinished \/ SendFinishedFails \/ RecvFinished \/ RecvFinishedFails
    BY <1>3, <1>4 DEF SendFinished, SendFinishedFails, RecvFinished, RecvFinishedFails, Sides
<1> QED
    BY <1>1, <1>2, <1>4 DEF PortalStep

LEMMA DisposeStepTypes ==
    ASSUME SessionTypeOK, TypeOK', NEW s \in Sides, DisposeStep(s)
    PROVE  SessionTypeOK'
<1> USE DEF SessionTypeOK, Advance, TeardownStages, linkVars, procVars, clientVars, threadVars
<1>1. CASE ClosePortal(s)
    BY <1>1 DEF ClosePortal
<1>2. CASE DisposeTransfer(s)
    <2>1. ForceSignalled \in [count : Nat, open : BOOLEAN]
        BY SessionAssumption DEF ForceSignalled
    <2>2. gate' \in [count : Nat, open : BOOLEAN]
        BY <1>2, <2>1 DEF DisposeTransfer
    <2> QED
        BY <1>2, <2>2 DEF DisposeTransfer
<1>3. CASE ResetTransfer(s) \/ JoinPortal(s) \/ DisposeDone(s)
    BY <1>3 DEF ResetTransfer, JoinPortal, DisposeDone
<1>4. ASSUME NEW c \in Channels, CloseChannel(s, c) PROVE SessionTypeOK'
    BY <1>4 DEF CloseChannel, sessionVars
<1> QED
    BY <1>1, <1>2, <1>3, <1>4 DEF DisposeStep

LEMMA SessionNextTypes ==
    ASSUME SessionTypeOK, TypeOK', [SessionNext]_vars
    PROVE  SessionTypeOK'
<1> USE DEF SessionTypeOK
<1>1. ASSUME NEW s \in Sides, Dies(s), faults' \in 0 .. MaxFaults PROVE SessionTypeOK'
    BY <1>1 DEF Dies, threadVars, clientVars
<1>2. ASSUME NEW kind, Meets(kind) PROVE faults' \in 0 .. MaxFaults
    BY <1>2, SessionAssumption DEF Meets
<1>3. ASSUME NEW s \in Sides, SideStep(s) PROVE SessionTypeOK'
    <2>1. CASE AssertAborts(s)
        BY <1>1, <2>1 DEF AssertAborts
    <2>2. CASE ClientExits
        BY <2>2 DEF ClientExits, threadVars, linkVars, procVars
    <2> QED
        BY <1>3, <2>1, <2>2, ChannelStepTypes, PortalStepTypes, DisposeStepTypes DEF SideStep
<1>4. ASSUME NEW s \in Sides, Crash(s) PROVE SessionTypeOK'
    BY <1>1, <1>2, <1>4 DEF Crash
<1>5. ASSUME NEW s \in Sides, Interrupt(s) PROVE SessionTypeOK'
    BY <1>2, <1>5 DEF Interrupt, RequireDispose, TeardownStages, threadVars, linkVars, clientVars
<1>6. ASSUME NEW c \in Channels, LoseChannel(c) PROVE SessionTypeOK'
    BY <1>2, <1>6 DEF LoseChannel, threadVars, linkVars, clientVars
<1>7. CASE LosePortal
    BY <1>2, <1>7 DEF LosePortal, threadVars, clientVars
<1>8. CASE UNCHANGED vars
    BY <1>8 DEF vars, sessionVars, threadVars, linkVars, procVars, clientVars
<1> QED
    BY <1>3, <1>4, <1>5, <1>6, <1>7, <1>8 DEF SessionNext, ProgramStep, Fault

\* Every variable of the session keeps its type.
THEOREM SessionTypes == SessionSpec => []SessionTypeOK
<1>1. SessionInit => SessionTypeOK
    BY InitSession DEF SessionInv
<1>2. SessionTypeOK /\ TypeOK' /\ [SessionNext]_vars => SessionTypeOK'
    BY SessionNextTypes
<1> QED
    BY <1>1, <1>2, SessionImplementsTransfer, TypesHold, PTL DEF SessionSpec
=============================================================================
