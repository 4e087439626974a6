--------------------------- MODULE ProgressProofs ---------------------------
(***************************************************************************)
(* What keeps a transfer going, and what makes it fail, for any channels,  *)
(* files, block sizes and faults: RunInv is inductive beside SessionInv,   *)
(* no state but the last leaves every thread waiting, and nothing fails    *)
(* without a fault.                                                        *)
(***************************************************************************)
EXTENDS SessionProofs

USE SessionAssumption, ChannelsAssumption, FilesAssumption, WireAssumption

\* What the steps that touch no data leave of the data plane.
LEMMA DataKept ==
    UNCHANGED dataVars =>
        UNCHANGED <<srcPc, srcOpen, wire, lost, srcSock, dstSock, dstPc, dstDisposed>>
BY DEF dataVars, srcVars, netVars, dstVars

\* The tails on their way are not touched by the steps outside invoke_channel;
\* connections break and sockets close for good.
LEMMA TailsFrame ==
    ASSUME TailsArrive, UNCHANGED <<srcPc, dstPc, wire>>,
           \A c \in Channels : (lost[c] => lost'[c]) /\ (dstSock'[c] => dstSock[c])
    PROVE  TailsArrive'
BY DEF TailsArrive, Positions

\* Once the message "finished" is out in an undisturbed transfer, every channel
\* has been carried to its tail.
LEMMA QuietDone ==
    ASSUME SessionInv, RunInv, faults = 0, Signallers = Channels, NEW c \in Channels
    PROVE  /\ dstPc[c] = "done"
           /\ chanThread["destination"][c] \in {"opening", "counted", "returning", "ended"}
           /\ srcPc[c] = "done" /\ chanThread["source"][c] \in {"inside", "ended"}
<1>1. /\ chanThread["destination"][c] \in {"opening", "counted", "returning", "ended"}
      /\ dstPc[c] # "idle"
    BY DEF Signallers
<1>2. dstPc[c] = "done"
    BY <1>1 DEF SessionInv, ThreadsInvoke, RunInv, QuietInv
<1>3. srcPc[c] = "done"
    BY <1>2 DEF SessionInv, DeliveryInv, TailsLast
<1>4. chanThread["source"][c] \in ThreadStates
    BY DEF SessionInv, SessionTypeOK, Sides
<1> QED
    BY <1>1, <1>2, <1>3, <1>4 DEF RunInv, SourcesInvoke, ThreadStates

\* Until then neither side is taken down, and every socket is open.
LEMMA QuietLive ==
    ASSUME SessionInv, RunInv, faults = 0, finished = "none"
    PROVE  /\ srcOpen
           /\ \A s \in Sides : teardown[s] = "live" /\ portalSock[s] /\ \A c \in Channels : Sock(s, c)
<1>1. \A s \in Sides : teardown[s] = "live" /\ alive[s]
    BY DEF RunInv, QuietInv, SignalsGoneGate, TransferGone, Sides
<1> QED
    BY <1>1 DEF SessionInv, TeardownInv, RunInv, SocksInv, DisposeInv, Sides

LEMMA InitRun == SessionInit => RunInv
<1> SUFFICES ASSUME SessionInit PROVE RunInv
    OBVIOUS
<1>1. \A c \in Channels : /\ dstPc[c] = "idle" /\ srcPc[c] = "idle" /\ lost[c] = FALSE
                          /\ srcSock[c] = TRUE /\ dstSock[c] = TRUE
    BY DEF SessionInit, Init
<1>2. SourcesInvoke /\ SocksInv /\ LiveInv /\ TailsArrive
    BY <1>1 DEF SessionInit, SourcesInvoke, SocksInv, LiveInv, TailsArrive, Sides
<1>3. DisposeInv /\ Signallers = {} /\ Openers = {}
    BY <1>1 DEF SessionInit, Init, DisposeInv, Signallers, Openers, Sides
<1>4. QuietInv
    BY <1>1, ClientSide DEF SessionInit, QuietInv, Sides
<1> QED
    BY <1>2, <1>3, <1>4 DEF RunInv

----------------------------------------------------------------------------
(* The steps of the threads outside invoke_channel.                        *)

LEMMA CheckDisposeRuns ==
    ASSUME SessionInv, RunInv, CountsAgree, NEW s \in Sides, NEW c \in Channels, CheckDispose(s, c)
    PROVE  RunInv'
<1> USE DEF RunInv
<1>0. /\ UNCHANGED <<srcPc, srcOpen, wire, lost, srcSock, dstSock, dstPc, dstDisposed>>
      /\ SessionTypeOK /\ ThreadsInvoke /\ TeardownInv /\ FinishedInv
    BY DataKept DEF SessionInv, CheckDispose, threadVars, linkVars, procVars, clientVars, SetThread
<1>1. SourcesInvoke'
    BY <1>0 DEF SourcesInvoke, SessionTypeOK, Sides, CheckDispose, threadVars, linkVars, procVars, clientVars, SetThread
<1>2. SocksInv'
    BY <1>0 DEF SocksInv, Sock, SessionTypeOK, Sides, CheckDispose, threadVars, linkVars, procVars, clientVars, SetThread
<1>3. DisposeInv'
    BY <1>0 DEF DisposeInv, Signallers, Openers, ThreadsInvoke, SessionTypeOK, Sides, CheckDispose, threadVars, linkVars, procVars, clientVars, SetThread
<1>4. LiveInv'
    BY <1>0 DEF LiveInv, SessionTypeOK, Sides, CheckDispose, threadVars, linkVars, procVars, clientVars, SetThread
<1>5. TailsArrive'
    BY <1>0, TailsFrame
<1>6. QuietInv'
    BY <1>0, ClientSide DEF QuietInv, Signallers, Openers, SignalsGoneGate, TransferGone, ThreadsInvoke, FinishedInv, SessionTypeOK, Sides, CheckDispose, threadVars, linkVars, procVars, clientVars, SetThread
<1> QED
    BY <1>1, <1>2, <1>3, <1>4, <1>5, <1>6

LEMMA SignalFinishedRuns ==
    ASSUME SessionInv, RunInv, CountsAgree, NEW c \in Channels, SignalFinished(c)
    PROVE  RunInv'
<1> USE DEF RunInv
<1>0. /\ UNCHANGED <<srcPc, srcOpen, wire, lost, srcSock, dstSock, dstPc, dstDisposed>>
      /\ SessionTypeOK /\ ThreadsInvoke /\ TeardownInv /\ FinishedInv
    BY DataKept DEF SessionInv, SignalFinished, threadVars, linkVars, procVars, clientVars, SetThread, Counted
<1>1. SourcesInvoke'
    BY <1>0 DEF SourcesInvoke, SessionTypeOK, Sides, SignalFinished, threadVars, linkVars, procVars, clientVars, SetThread, Counted
<1>2. SocksInv'
    BY <1>0 DEF SocksInv, Sock, SessionTypeOK, Sides, SignalFinished, threadVars, linkVars, procVars, clientVars, SetThread, Counted
<1>a. Signallers' = Signallers \cup {c} /\ c \notin Signallers /\ Signallers \subseteq Channels
    BY <1>0 DEF SessionTypeOK, Signallers, Sides, SignalFinished, SetThread
<1>b. Openers' = IF gate.count + 1 = GateCount THEN Openers \cup {c} ELSE Openers
    BY <1>0 DEF SessionTypeOK, Openers, Sides, SignalFinished, SetThread, Counted
<1>3. DisposeInv'
    <2>1. UNCHANGED <<srcOpen, dstDisposed, teardown>> /\ gate'.open = gate.open
        BY <1>0 DEF SignalFinished, Counted, SessionTypeOK
    <2>2. ASSUME ~dstDisposed, Signallers' = Channels PROVE Openers' # {}
        <3>1. Cardinality(Channels) = Cardinality(Signallers) + 1
            BY <2>2, <1>a, FS_Subset, FS_AddElement
        <3>2. gate.count = Cardinality(Signallers)
            BY <2>2 DEF DisposeInv, SessionInv, GateCounts
        <3> QED
            BY <1>b, <3>1, <3>2 DEF CountsAgree
    <2> QED
        BY <2>1, <2>2 DEF DisposeInv
<1>4. LiveInv'
    BY <1>0 DEF LiveInv, SessionTypeOK, Sides, SignalFinished, threadVars, linkVars, procVars, clientVars, SetThread, Counted
<1>5. TailsArrive'
    BY <1>0, TailsFrame
<1>6. QuietInv'
    <2> SUFFICES ASSUME faults = 0 PROVE QuietInv'
        BY DEF QuietInv, SignalFinished, procVars
    <2>1. finished = "none" /\ portal["destination"] # "sending"
        BY <1>a DEF QuietInv
    <2> QED
        BY <1>0, <2>1 DEF QuietInv, SignalFinished, linkVars, procVars, clientVars
<1> QED
    BY <1>1, <1>2, <1>3, <1>4, <1>5, <1>6

LEMMA OpenGateRuns ==
    ASSUME SessionInv, RunInv, CountsAgree, NEW c \in Channels, OpenGate(c)
    PROVE  RunInv'
<1> USE DEF RunInv
<1>0. /\ UNCHANGED <<srcPc, srcOpen, wire, lost, srcSock, dstSock, dstPc, dstDisposed>>
      /\ SessionTypeOK /\ ThreadsInvoke /\ TeardownInv /\ FinishedInv
    BY DataKept DEF SessionInv, OpenGate, threadVars, linkVars, procVars, clientVars, SetThread, Opened
<1>1. SourcesInvoke'
    BY <1>0 DEF SourcesInvoke, SessionTypeOK, Sides, OpenGate, threadVars, linkVars, procVars, clientVars, SetThread, Opened
<1>2. SocksInv'
    BY <1>0 DEF SocksInv, Sock, SessionTypeOK, Sides, OpenGate, threadVars, linkVars, procVars, clientVars, SetThread, Opened
<1>a. Signallers' = Signallers /\ Openers' \subseteq Openers /\ c \in Openers
    BY <1>0 DEF SessionTypeOK, ThreadsInvoke, Signallers, Openers, Sides, OpenGate, SetThread
<1>3. DisposeInv'
    BY <1>0, <1>a DEF DisposeInv, OpenGate, Opened, SessionTypeOK
<1>4. LiveInv'
    BY <1>0 DEF LiveInv, SessionTypeOK, Sides, OpenGate, threadVars, linkVars, procVars, clientVars, SetThread, Opened
<1>5. TailsArrive'
    BY <1>0, TailsFrame
<1>6. QuietInv'
    <2> SUFFICES ASSUME faults = 0 PROVE QuietInv'
        BY DEF QuietInv, OpenGate, procVars
    <2>1. finished = "none" /\ portal["destination"] # "sending"
        BY <1>a DEF QuietInv
    <2> QED
        BY <1>0, <2>1 DEF QuietInv, OpenGate, linkVars, procVars, clientVars
<1> QED
    BY <1>1, <1>2, <1>3, <1>4, <1>5, <1>6

LEMMA ChannelSucceedsRuns ==
    ASSUME SessionInv, RunInv, CountsAgree, NEW s \in Sides, NEW c \in Channels, ChannelSucceeds(s, c)
    PROVE  RunInv'
<1> USE DEF RunInv
<1>0. /\ UNCHANGED <<srcPc, srcOpen, wire, lost, srcSock, dstSock, dstPc, dstDisposed>>
      /\ SessionTypeOK /\ ThreadsInvoke /\ TeardownInv /\ FinishedInv
    BY DataKept DEF SessionInv, ChannelSucceeds, threadVars, linkVars, procVars, clientVars, SetThread, Returned, Failed
<1>1. SourcesInvoke'
    BY <1>0 DEF SourcesInvoke, SessionTypeOK, Sides, ChannelSucceeds, threadVars, linkVars, procVars, clientVars, SetThread, Returned, Failed
<1>2. SocksInv'
    BY <1>0 DEF SocksInv, Sock, SessionTypeOK, Sides, ChannelSucceeds, threadVars, linkVars, procVars, clientVars, SetThread, Returned, Failed
<1>3. DisposeInv'
    BY <1>0 DEF DisposeInv, Signallers, Openers, ThreadsInvoke, SessionTypeOK, Sides, ChannelSucceeds, threadVars, linkVars, procVars, clientVars, SetThread, Returned, Failed
<1>4. LiveInv'
    BY <1>0 DEF LiveInv, ThreadsInvoke, SessionTypeOK, Sides, ChannelSucceeds, SetThread, Returned, Failed
<1>5. TailsArrive'
    BY <1>0, TailsFrame
<1>6. QuietInv'
    BY <1>0, ClientSide DEF QuietInv, Signallers, Openers, SignalsGoneGate, TransferGone, ThreadsInvoke, FinishedInv, SessionTypeOK, Sides, ChannelSucceeds, threadVars, linkVars, procVars, clientVars, SetThread, Returned, Failed
<1> QED
    BY <1>1, <1>2, <1>3, <1>4, <1>5, <1>6

LEMMA ChannelFailsRuns ==
    ASSUME SessionInv, RunInv, CountsAgree, NEW s \in Sides, NEW c \in Channels, ChannelFails(s, c)
    PROVE  RunInv'
<1> USE DEF RunInv
<1>0. /\ UNCHANGED <<srcPc, srcOpen, wire, lost, srcSock, dstSock, dstPc, dstDisposed>>
      /\ SessionTypeOK /\ ThreadsInvoke /\ TeardownInv /\ FinishedInv
    BY DataKept DEF SessionInv, ChannelFails, threadVars, linkVars, procVars, clientVars, SetThread, Returned, Failed, StatusAfterFailure, RequireDispose
<1>1. SourcesInvoke'
    BY <1>0 DEF SourcesInvoke, SessionTypeOK, Sides, ChannelFails, threadVars, linkVars, procVars, clientVars, SetThread, Returned, Failed, StatusAfterFailure, RequireDispose
<1>2. SocksInv'
    BY <1>0 DEF SocksInv, Sock, SessionTypeOK, Sides, ChannelFails, threadVars, linkVars, procVars, clientVars, SetThread, Returned, Failed, StatusAfterFailure, RequireDispose
<1>3. DisposeInv'
    BY <1>0 DEF DisposeInv, Signallers, Openers, ThreadsInvoke, SessionTypeOK, Sides, ChannelFails, threadVars, linkVars, procVars, clientVars, SetThread, Returned, Failed, StatusAfterFailure, RequireDispose
<1>4. LiveInv'
    BY <1>0 DEF LiveInv, SessionTypeOK, Sides, ChannelFails, threadVars, linkVars, procVars, clientVars, SetThread, Returned, Failed, StatusAfterFailure, RequireDispose
<1>5. TailsArrive'
    BY <1>0, TailsFrame
<1>6. QuietInv'
    BY <1>0, ClientSide DEF QuietInv, Signallers, Openers, SignalsGoneGate, TransferGone, ThreadsInvoke, FinishedInv, SessionTypeOK, Sides, ChannelFails, threadVars, linkVars, procVars, clientVars, SetThread, Returned, Failed, StatusAfterFailure, RequireDispose
<1> QED
    BY <1>1, <1>2, <1>3, <1>4, <1>5, <1>6

LEMMA EnterPortalRuns ==
    ASSUME SessionInv, RunInv, CountsAgree, NEW s \in Sides, EnterPortal(s)
    PROVE  RunInv'
<1> USE DEF RunInv
<1>0. /\ UNCHANGED <<srcPc, srcOpen, wire, lost, srcSock, dstSock, dstPc, dstDisposed>>
      /\ SessionTypeOK /\ ThreadsInvoke /\ TeardownInv /\ FinishedInv
    BY DataKept DEF SessionInv, EnterPortal, threadVars, linkVars, procVars, clientVars
<1>1. SourcesInvoke'
    BY <1>0 DEF SourcesInvoke, SessionTypeOK, Sides, EnterPortal, threadVars, linkVars, procVars, clientVars
<1>2. SocksInv'
    BY <1>0 DEF SocksInv, Sock, SessionTypeOK, Sides, EnterPortal, threadVars, linkVars, procVars, clientVars
<1>3. DisposeInv'
    BY <1>0 DEF DisposeInv, Signallers, Openers, ThreadsInvoke, SessionTypeOK, Sides, EnterPortal, threadVars, linkVars, procVars, clientVars
<1>4. LiveInv'
    BY <1>0 DEF LiveInv, SessionTypeOK, Sides, EnterPortal, threadVars, linkVars, procVars, clientVars
<1>5. TailsArrive'
    BY <1>0, TailsFrame
<1>6. QuietInv'
    BY <1>0, ClientSide DEF QuietInv, Signallers, Openers, SignalsGoneGate, TransferGone, ThreadsInvoke, FinishedInv, SessionTypeOK, Sides, EnterPortal, threadVars, linkVars, procVars, clientVars
<1> QED
    BY <1>1, <1>2, <1>3, <1>4, <1>5, <1>6

LEMMA GatePassedRuns ==
    ASSUME SessionInv, RunInv, CountsAgree, GatePassed
    PROVE  RunInv'
<1> USE DEF RunInv
<1>0. /\ UNCHANGED <<srcPc, srcOpen, wire, lost, srcSock, dstSock, dstPc, dstDisposed>>
      /\ SessionTypeOK /\ ThreadsInvoke /\ TeardownInv /\ FinishedInv
    BY DataKept DEF SessionInv, GatePassed, threadVars, linkVars, procVars, clientVars
<1>1. SourcesInvoke'
    BY <1>0 DEF SourcesInvoke, SessionTypeOK, Sides, GatePassed, threadVars, linkVars, procVars, clientVars
<1>2. SocksInv'
    BY <1>0 DEF SocksInv, Sock, SessionTypeOK, Sides, GatePassed, threadVars, linkVars, procVars, clientVars
<1>3. DisposeInv'
    BY <1>0 DEF DisposeInv, Signallers, Openers, ThreadsInvoke, SessionTypeOK, Sides, GatePassed, threadVars, linkVars, procVars, clientVars
<1>4. LiveInv'
    BY <1>0 DEF LiveInv, SessionTypeOK, Sides, GatePassed, threadVars, linkVars, procVars, clientVars
<1>5. TailsArrive'
    BY <1>0, TailsFrame
<1>6. QuietInv'
    <2> SUFFICES ASSUME faults = 0 PROVE QuietInv'
        BY DEF QuietInv, GatePassed, procVars
    <2>1. finished = "none"
        BY DEF QuietInv, GatePassed
    <2>2. Signallers = Channels /\ Openers = {}
        BY <2>1, QuietLive DEF SessionInv, GateCounts, GatePassed, Sides
    <2> QED
        BY <1>0, <2>2, ClientSide DEF QuietInv, Signallers, Openers, SignalsGoneGate, TransferGone, SessionTypeOK, Sides, GatePassed,
           linkVars, procVars, clientVars
<1> QED
    BY <1>1, <1>2, <1>3, <1>4, <1>5, <1>6

LEMMA SendFinishedRuns ==
    ASSUME SessionInv, RunInv, CountsAgree, SendFinished
    PROVE  RunInv'
<1> USE DEF RunInv
<1>0. /\ UNCHANGED <<srcPc, srcOpen, wire, lost, srcSock, dstSock, dstPc, dstDisposed>>
      /\ SessionTypeOK /\ ThreadsInvoke /\ TeardownInv /\ FinishedInv
    BY DataKept DEF SessionInv, SendFinished, threadVars, linkVars, procVars, clientVars, PortalEnds, RequireDispose
<1>1. SourcesInvoke'
    BY <1>0 DEF SourcesInvoke, SessionTypeOK, Sides, SendFinished, threadVars, linkVars, procVars, clientVars, PortalEnds, RequireDispose
<1>2. SocksInv'
    BY <1>0 DEF SocksInv, Sock, SessionTypeOK, Sides, SendFinished, threadVars, linkVars, procVars, clientVars, PortalEnds, RequireDispose
<1>3. DisposeInv'
    BY <1>0 DEF DisposeInv, Signallers, Openers, ThreadsInvoke, SessionTypeOK, Sides, SendFinished, threadVars, linkVars, procVars, clientVars, PortalEnds, RequireDispose
<1>4. LiveInv'
    BY <1>0 DEF LiveInv, SessionTypeOK, Sides, SendFinished, threadVars, linkVars, procVars, clientVars, PortalEnds, RequireDispose
<1>5. TailsArrive'
    BY <1>0, TailsFrame
<1>6. QuietInv'
    <2> SUFFICES ASSUME faults = 0 PROVE QuietInv'
        BY DEF QuietInv, SendFinished, PortalEnds, procVars
    <2>1. /\ finished = "none" /\ portal["source"] # "ended" /\ status # "failed"
          /\ Signallers = Channels /\ Openers = {}
        BY DEF QuietInv, SendFinished
    <2>2. portalSock["source"] /\ ~portalLost
        BY <2>1, QuietLive DEF QuietInv, Sides
    <2>3. finished' = "inFlight" /\ Signallers' = Signallers /\ Openers' = Openers
        BY <1>0, <2>2 DEF SendFinished, PortalEnds, Signallers, Openers
    <2> QED
        BY <1>0, <2>1, <2>3, ClientSide DEF QuietInv, SessionTypeOK, Sides, SendFinished, PortalEnds,
           RequireDispose, procVars
<1> QED
    BY <1>1, <1>2, <1>3, <1>4, <1>5, <1>6

LEMMA SendFinishedFailsRuns ==
    ASSUME SessionInv, RunInv, CountsAgree, SendFinishedFails
    PROVE  RunInv'
<1> USE DEF RunInv
<1>0. /\ UNCHANGED <<srcPc, srcOpen, wire, lost, srcSock, dstSock, dstPc, dstDisposed>>
      /\ SessionTypeOK /\ ThreadsInvoke /\ TeardownInv /\ FinishedInv
    BY DataKept DEF SessionInv, SendFinishedFails, threadVars, linkVars, procVars, clientVars, PortalEnds, RequireDispose
<1>1. SourcesInvoke'
    BY <1>0 DEF SourcesInvoke, SessionTypeOK, Sides, SendFinishedFails, threadVars, linkVars, procVars, clientVars, PortalEnds, RequireDispose
<1>2. SocksInv'
    BY <1>0 DEF SocksInv, Sock, SessionTypeOK, Sides, SendFinishedFails, threadVars, linkVars, procVars, clientVars, PortalEnds, RequireDispose
<1>3. DisposeInv'
    BY <1>0 DEF DisposeInv, Signallers, Openers, ThreadsInvoke, SessionTypeOK, Sides, SendFinishedFails, threadVars, linkVars, procVars, clientVars, PortalEnds, RequireDispose
<1>4. LiveInv'
    BY <1>0 DEF LiveInv, SessionTypeOK, Sides, SendFinishedFails, threadVars, linkVars, procVars, clientVars, PortalEnds, RequireDispose
<1>5. TailsArrive'
    BY <1>0, TailsFrame
<1>6. QuietInv'
    <2> SUFFICES ASSUME faults = 0 PROVE FALSE
        BY DEF QuietInv, SendFinishedFails, PortalEnds, procVars
    <2>1. finished = "none" /\ ~portalLost
        BY DEF QuietInv, SendFinishedFails
    <2> QED
        BY <2>1, QuietLive DEF QuietInv, SocksInv, SendFinishedFails, Sides
<1> QED
    BY <1>1, <1>2, <1>3, <1>4, <1>5, <1>6

LEMMA RecvFinishedRuns ==
    ASSUME SessionInv, RunInv, CountsAgree, RecvFinished
    PROVE  RunInv'
<1> USE DEF RunInv
<1>0. /\ UNCHANGED <<srcPc, srcOpen, wire, lost, srcSock, dstSock, dstPc, dstDisposed>>
      /\ SessionTypeOK /\ ThreadsInvoke /\ TeardownInv /\ FinishedInv
    BY DataKept DEF SessionInv, RecvFinished, threadVars, linkVars, procVars, clientVars, PortalEnds, RequireDispose
<1>1. SourcesInvoke'
    BY <1>0 DEF SourcesInvoke, SessionTypeOK, Sides, RecvFinished, threadVars, linkVars, procVars, clientVars, PortalEnds, RequireDispose
<1>2. SocksInv'
    BY <1>0 DEF SocksInv, Sock, SessionTypeOK, Sides, RecvFinished, threadVars, linkVars, procVars, clientVars, PortalEnds, RequireDispose
<1>3. DisposeInv'
    BY <1>0 DEF DisposeInv, Signallers, Openers, ThreadsInvoke, SessionTypeOK, Sides, RecvFinished, threadVars, linkVars, procVars, clientVars, PortalEnds, RequireDispose
<1>4. LiveInv'
    BY <1>0 DEF LiveInv, SessionTypeOK, Sides, RecvFinished, threadVars, linkVars, procVars, clientVars, PortalEnds, RequireDispose
<1>5. TailsArrive'
    BY <1>0, TailsFrame
<1>6. QuietInv'
    BY <1>0, ClientSide DEF QuietInv, Signallers, Openers, SignalsGoneGate, TransferGone, ThreadsInvoke, FinishedInv, SessionTypeOK, Sides, RecvFinished, threadVars, linkVars, procVars, clientVars, PortalEnds, RequireDispose
<1> QED
    BY <1>1, <1>2, <1>3, <1>4, <1>5, <1>6

LEMMA RecvFinishedFailsRuns ==
    ASSUME SessionInv, RunInv, CountsAgree, RecvFinishedFails
    PROVE  RunInv'
<1> USE DEF RunInv
<1>0. /\ UNCHANGED <<srcPc, srcOpen, wire, lost, srcSock, dstSock, dstPc, dstDisposed>>
      /\ SessionTypeOK /\ ThreadsInvoke /\ TeardownInv /\ FinishedInv
    BY DataKept DEF SessionInv, RecvFinishedFails, threadVars, linkVars, procVars, clientVars, PortalEnds, RequireDispose
<1>1. SourcesInvoke'
    BY <1>0 DEF SourcesInvoke, SessionTypeOK, Sides, RecvFinishedFails, threadVars, linkVars, procVars, clientVars, PortalEnds, RequireDispose
<1>2. SocksInv'
    BY <1>0 DEF SocksInv, Sock, SessionTypeOK, Sides, RecvFinishedFails, threadVars, linkVars, procVars, clientVars, PortalEnds, RequireDispose
<1>3. DisposeInv'
    BY <1>0 DEF DisposeInv, Signallers, Openers, ThreadsInvoke, SessionTypeOK, Sides, RecvFinishedFails, threadVars, linkVars, procVars, clientVars, PortalEnds, RequireDispose
<1>4. LiveInv'
    BY <1>0 DEF LiveInv, SessionTypeOK, Sides, RecvFinishedFails, threadVars, linkVars, procVars, clientVars, PortalEnds, RequireDispose
<1>5. TailsArrive'
    BY <1>0, TailsFrame
<1>6. QuietInv'
    <2> SUFFICES ASSUME faults = 0 PROVE FALSE
        BY DEF QuietInv, RecvFinishedFails, PortalEnds, procVars
    <2>1. finished # "received" /\ finished # "dropped" /\ ~portalLost /\ teardown["source"] = "live"
        BY DEF QuietInv, RecvFinishedFails
    <2> QED
        BY <2>1, QuietLive DEF QuietInv, SocksInv, SessionInv, SessionTypeOK, RecvFinishedFails, Sides
<1> QED
    BY <1>1, <1>2, <1>3, <1>4, <1>5, <1>6

LEMMA ClosePortalRuns ==
    ASSUME SessionInv, RunInv, CountsAgree, NEW s \in Sides, ClosePortal(s)
    PROVE  RunInv'
<1> USE DEF RunInv
<1>0. /\ UNCHANGED <<srcPc, srcOpen, wire, lost, srcSock, dstSock, dstPc, dstDisposed>>
      /\ SessionTypeOK /\ ThreadsInvoke /\ TeardownInv /\ FinishedInv
    BY DataKept DEF SessionInv, ClosePortal, threadVars, linkVars, procVars, clientVars, Advance
<1>1. SourcesInvoke'
    BY <1>0 DEF SourcesInvoke, SessionTypeOK, Sides, ClosePortal, threadVars, linkVars, procVars, clientVars, Advance
<1>2. SocksInv'
    BY <1>0 DEF SocksInv, Sock, SessionTypeOK, Sides, ClosePortal, threadVars, linkVars, procVars, clientVars, Advance
<1>3. DisposeInv'
    BY <1>0 DEF DisposeInv, Signallers, Openers, ThreadsInvoke, SessionTypeOK, Sides, ClosePortal, threadVars, linkVars, procVars, clientVars, Advance
<1>4. LiveInv'
    BY <1>0 DEF LiveInv, SessionTypeOK, Sides, ClosePortal, threadVars, linkVars, procVars, clientVars, Advance
<1>5. TailsArrive'
    BY <1>0, TailsFrame
<1>6. QuietInv'
    BY <1>0, ClientSide DEF QuietInv, Signallers, Openers, SignalsGoneGate, TransferGone, ThreadsInvoke, FinishedInv, SessionTypeOK, Sides, ClosePortal, threadVars, linkVars, procVars, clientVars, Advance
<1> QED
    BY <1>1, <1>2, <1>3, <1>4, <1>5, <1>6

LEMMA ResetTransferRuns ==
    ASSUME SessionInv, RunInv, CountsAgree, NEW s \in Sides, ResetTransfer(s)
    PROVE  RunInv'
<1> USE DEF RunInv
<1>0. /\ UNCHANGED <<srcPc, srcOpen, wire, lost, srcSock, dstSock, dstPc, dstDisposed>>
      /\ SessionTypeOK /\ ThreadsInvoke /\ TeardownInv /\ FinishedInv
    BY DataKept DEF SessionInv, ResetTransfer, threadVars, linkVars, procVars, clientVars, Advance
<1>1. SourcesInvoke'
    BY <1>0 DEF SourcesInvoke, SessionTypeOK, Sides, ResetTransfer, threadVars, linkVars, procVars, clientVars, Advance
<1>2. SocksInv'
    BY <1>0 DEF SocksInv, Sock, SessionTypeOK, Sides, ResetTransfer, threadVars, linkVars, procVars, clientVars, Advance
<1>3. DisposeInv'
    BY <1>0 DEF DisposeInv, Signallers, Openers, ThreadsInvoke, SessionTypeOK, Sides, ResetTransfer, threadVars, linkVars, procVars, clientVars, Advance
<1>4. LiveInv'
    BY <1>0 DEF LiveInv, SessionTypeOK, Sides, ResetTransfer, threadVars, linkVars, procVars, clientVars, Advance
<1>5. TailsArrive'
    BY <1>0, TailsFrame
<1>6. QuietInv'
    BY <1>0, ClientSide DEF QuietInv, Signallers, Openers, SignalsGoneGate, TransferGone, ThreadsInvoke, FinishedInv, SessionTypeOK, Sides, ResetTransfer, threadVars, linkVars, procVars, clientVars, Advance
<1> QED
    BY <1>1, <1>2, <1>3, <1>4, <1>5, <1>6

LEMMA JoinPortalRuns ==
    ASSUME SessionInv, RunInv, CountsAgree, NEW s \in Sides, JoinPortal(s)
    PROVE  RunInv'
<1> USE DEF RunInv
<1>0. /\ UNCHANGED <<srcPc, srcOpen, wire, lost, srcSock, dstSock, dstPc, dstDisposed>>
      /\ SessionTypeOK /\ ThreadsInvoke /\ TeardownInv /\ FinishedInv
    BY DataKept DEF SessionInv, JoinPortal, threadVars, linkVars, procVars, clientVars, Advance
<1>1. SourcesInvoke'
    BY <1>0 DEF SourcesInvoke, SessionTypeOK, Sides, JoinPortal, threadVars, linkVars, procVars, clientVars, Advance
<1>2. SocksInv'
    BY <1>0 DEF SocksInv, Sock, SessionTypeOK, Sides, JoinPortal, threadVars, linkVars, procVars, clientVars, Advance
<1>3. DisposeInv'
    BY <1>0 DEF DisposeInv, Signallers, Openers, ThreadsInvoke, SessionTypeOK, Sides, JoinPortal, threadVars, linkVars, procVars, clientVars, Advance
<1>4. LiveInv'
    BY <1>0 DEF LiveInv, SessionTypeOK, Sides, JoinPortal, threadVars, linkVars, procVars, clientVars, Advance
<1>5. TailsArrive'
    BY <1>0, TailsFrame
<1>6. QuietInv'
    BY <1>0, ClientSide DEF QuietInv, Signallers, Openers, SignalsGoneGate, TransferGone, ThreadsInvoke, FinishedInv, SessionTypeOK, Sides, JoinPortal, threadVars, linkVars, procVars, clientVars, Advance
<1> QED
    BY <1>1, <1>2, <1>3, <1>4, <1>5, <1>6

LEMMA DisposeDoneRuns ==
    ASSUME SessionInv, RunInv, CountsAgree, NEW s \in Sides, DisposeDone(s)
    PROVE  RunInv'
<1> USE DEF RunInv
<1>0. /\ UNCHANGED <<srcPc, srcOpen, wire, lost, srcSock, dstSock, dstPc, dstDisposed>>
      /\ SessionTypeOK /\ ThreadsInvoke /\ TeardownInv /\ FinishedInv
    BY DataKept DEF SessionInv, DisposeDone, threadVars, linkVars, procVars, clientVars, Advance
<1>1. SourcesInvoke'
    BY <1>0 DEF SourcesInvoke, SessionTypeOK, Sides, DisposeDone, threadVars, linkVars, procVars, clientVars, Advance
<1>2. SocksInv'
    BY <1>0 DEF SocksInv, Sock, SessionTypeOK, Sides, DisposeDone, threadVars, linkVars, procVars, clientVars, Advance
<1>3. DisposeInv'
    BY <1>0 DEF DisposeInv, Signallers, Openers, ThreadsInvoke, SessionTypeOK, Sides, DisposeDone, threadVars, linkVars, procVars, clientVars, Advance
<1>4. LiveInv'
    BY <1>0 DEF LiveInv, SessionTypeOK, Sides, DisposeDone, threadVars, linkVars, procVars, clientVars, Advance
<1>5. TailsArrive'
    BY <1>0, TailsFrame
<1>6. QuietInv'
    BY <1>0, ClientSide DEF QuietInv, Signallers, Openers, SignalsGoneGate, TransferGone, ThreadsInvoke, FinishedInv, SessionTypeOK, Sides, DisposeDone, threadVars, linkVars, procVars, clientVars, Advance
<1> QED
    BY <1>1, <1>2, <1>3, <1>4, <1>5, <1>6

LEMMA ClientExitsRuns ==
    ASSUME SessionInv, RunInv, CountsAgree, ClientExits
    PROVE  RunInv'
<1> USE DEF RunInv
<1>0. /\ UNCHANGED <<srcPc, srcOpen, wire, lost, srcSock, dstSock, dstPc, dstDisposed>>
      /\ SessionTypeOK /\ ThreadsInvoke /\ TeardownInv /\ FinishedInv
    BY DataKept DEF SessionInv, ClientExits, threadVars, linkVars, procVars, clientVars
<1>1. SourcesInvoke'
    BY <1>0 DEF SourcesInvoke, SessionTypeOK, Sides, ClientExits, threadVars, linkVars, procVars, clientVars
<1>2. SocksInv'
    BY <1>0 DEF SocksInv, Sock, SessionTypeOK, Sides, ClientExits, threadVars, linkVars, procVars, clientVars
<1>3. DisposeInv'
    BY <1>0 DEF DisposeInv, Signallers, Openers, ThreadsInvoke, SessionTypeOK, Sides, ClientExits, threadVars, linkVars, procVars, clientVars
<1>4. LiveInv'
    BY <1>0 DEF LiveInv, SessionTypeOK, Sides, ClientExits, threadVars, linkVars, procVars, clientVars
<1>5. TailsArrive'
    BY <1>0, TailsFrame
<1>6. QuietInv'
    BY <1>0, ClientSide DEF QuietInv, Signallers, Openers, SignalsGoneGate, TransferGone, ThreadsInvoke, FinishedInv, SessionTypeOK, Sides, ClientExits, threadVars, linkVars, procVars, clientVars
<1> QED
    BY <1>1, <1>2, <1>3, <1>4, <1>5, <1>6

LEMMA InterruptRuns ==
    ASSUME SessionInv, RunInv, CountsAgree, NEW s \in Sides, Interrupt(s)
    PROVE  RunInv'
<1> USE DEF RunInv
<1>0. /\ UNCHANGED <<srcPc, srcOpen, wire, lost, srcSock, dstSock, dstPc, dstDisposed>>
      /\ SessionTypeOK /\ ThreadsInvoke /\ TeardownInv /\ FinishedInv
    BY DataKept DEF SessionInv, Interrupt, threadVars, linkVars, procVars, clientVars, Meets, RequireDispose
<1>1. SourcesInvoke'
    BY <1>0 DEF SourcesInvoke, SessionTypeOK, Sides, Interrupt, threadVars, linkVars, procVars, clientVars, Meets, RequireDispose
<1>2. SocksInv'
    BY <1>0 DEF SocksInv, Sock, SessionTypeOK, Sides, Interrupt, threadVars, linkVars, procVars, clientVars, Meets, RequireDispose
<1>3. DisposeInv'
    BY <1>0 DEF DisposeInv, Signallers, Openers, ThreadsInvoke, SessionTypeOK, Sides, Interrupt, threadVars, linkVars, procVars, clientVars, Meets, RequireDispose
<1>4. LiveInv'
    BY <1>0 DEF LiveInv, SessionTypeOK, Sides, Interrupt, threadVars, linkVars, procVars, clientVars, Meets, RequireDispose
<1>5. TailsArrive'
    BY <1>0, TailsFrame
<1>6. QuietInv'
    BY DEF QuietInv, SessionInv, SessionTypeOK, Interrupt, Meets
<1> QED
    BY <1>1, <1>2, <1>3, <1>4, <1>5, <1>6

LEMMA LosePortalRuns ==
    ASSUME SessionInv, RunInv, CountsAgree, LosePortal
    PROVE  RunInv'
<1> USE DEF RunInv
<1>0. /\ UNCHANGED <<srcPc, srcOpen, wire, lost, srcSock, dstSock, dstPc, dstDisposed>>
      /\ SessionTypeOK /\ ThreadsInvoke /\ TeardownInv /\ FinishedInv
    BY DataKept DEF SessionInv, LosePortal, threadVars, linkVars, procVars, clientVars, Meets
<1>1. SourcesInvoke'
    BY <1>0 DEF SourcesInvoke, SessionTypeOK, Sides, LosePortal, threadVars, linkVars, procVars, clientVars, Meets
<1>2. SocksInv'
    BY <1>0 DEF SocksInv, Sock, SessionTypeOK, Sides, LosePortal, threadVars, linkVars, procVars, clientVars, Meets
<1>3. DisposeInv'
    BY <1>0 DEF DisposeInv, Signallers, Openers, ThreadsInvoke, SessionTypeOK, Sides, LosePortal, threadVars, linkVars, procVars, clientVars, Meets
<1>4. LiveInv'
    BY <1>0 DEF LiveInv, SessionTypeOK, Sides, LosePortal, threadVars, linkVars, procVars, clientVars, Meets
<1>5. TailsArrive'
    BY <1>0, TailsFrame
<1>6. QuietInv'
    BY DEF QuietInv, SessionInv, SessionTypeOK, LosePortal, Meets
<1> QED
    BY <1>1, <1>2, <1>3, <1>4, <1>5, <1>6

----------------------------------------------------------------------------
(* The steps of invoke_channel.                                            *)

\* What a step of a source thread shows of itself: it fails only if the
\* connection is closed at either end or lost, or the transfer was disposed.
LEMMA SourceMoves ==
    ASSUME TypeOK, NEW c \in Channels, SourceStep(c)
    PROVE  /\ UNCHANGED <<srcOpen, dstDisposed>>
           /\ \A d \in Channels \ {c} : srcPc'[d] = srcPc[d]
           /\ srcPc[c] \notin {"done", "failed"} /\ srcPc'[c] # "idle"
           /\ srcPc'[c] = "failed" => lost[c] \/ ~srcSock[c] \/ ~dstSock[c] \/ ~srcOpen
BY DEF TypeOK, SourceStep, BeginSource, ClaimBlock, NextFile, SendBlock, SendTail, SendFails

LEMMA SourceTails ==
    ASSUME BlockInv, TailsArrive, NEW c \in Channels, SourceStep(c)
    PROVE  TailsArrive'
<1>0. TypeOK /\ srcPc \in [Channels -> SrcStates] /\ UNCHANGED <<dstPc, lost, dstSock>>
    BY SourceShows DEF BlockInv, TypeOK
<1>1. CASE ~SendBlock(c) /\ ~SendTail(c)
    <2>1. wire' = wire /\ srcPc'[c] # "done" /\ \A d \in Channels \ {c} : srcPc'[d] = srcPc[d]
        BY <1>0, <1>1 DEF SourceStep, BeginSource, ClaimBlock, NextFile, SendFails
    <2> QED
        BY <1>0, <2>1 DEF TailsArrive, Positions
<1>2. ASSUME NEW m \in Message, Transmit(c, m), \A d \in Channels \ {c} : srcPc'[d] = srcPc[d],
             srcPc'[c] = "done" => m = FinalTail
      PROVE  TailsArrive'
    <2>1. ASSUME NEW d \in Channels \ {c}, srcPc'[d] = "done", ~lost'[d], dstSock'[d]
          PROVE  dstPc'[d] = "done" \/ \E i \in Positions(d)' : ~Live(wire'[d][i])
        <3>1. wire'[d] = wire[d]
            BY <1>0, <1>2, TransmitKeeps
        <3> QED
            BY <1>0, <1>2, <2>1, <3>1 DEF TailsArrive, Positions
    <2>2. ASSUME srcPc'[c] = "done", ~lost'[c], dstSock'[c]
          PROVE  \E i \in Positions(c)' : ~Live(wire'[c][i])
        <3>1. /\ Len(wire[c]) \in Nat /\ Len(wire'[c]) = Len(wire[c]) + 1
              /\ wire'[c][Len(wire[c]) + 1] = m
            BY <1>0, <1>2, <2>2, TransmitKeeps
        <3>2. Len(wire[c]) + 1 \in Positions(c)'
            BY <3>1 DEF Positions
        <3> QED
            BY <1>2, <2>2, <3>1, <3>2, TailNotLive
    <2> QED
        BY <2>1, <2>2 DEF TailsArrive
<1>3. CASE SendBlock(c)
    <2>1. srcBlock[c] \in Message /\ Transmit(c, srcBlock[c]) /\ srcPc' = [srcPc EXCEPT ![c] = "claim"]
        BY <1>0, <1>3 DEF TypeOK, SendBlock
    <2>2. srcPc'[c] # "done" /\ \A d \in Channels \ {c} : srcPc'[d] = srcPc[d]
        BY <1>0, <2>1
    <2> QED
        BY <1>2, <2>1, <2>2
<1>4. CASE SendTail(c)
    <2>1. Transmit(c, FinalTail) /\ srcPc' = [srcPc EXCEPT ![c] = "done"]
        BY <1>4 DEF SendTail
    <2>2. \A d \in Channels \ {c} : srcPc'[d] = srcPc[d]
        BY <1>0, <2>1
    <2> QED
        BY <1>2, <2>1, <2>2, FinalTailType
<1> QED
    BY <1>1, <1>3, <1>4

LEMMA DestinationTails ==
    ASSUME BlockInv, TailsArrive, NEW c \in Channels, DestinationStep(c)
    PROVE  TailsArrive' /\ UNCHANGED <<srcPc, srcOpen, dstDisposed>>
<1>0. /\ TypeOK /\ dstPc \in [Channels -> DstStates]
      /\ UNCHANGED <<srcPc, srcOpen, lost, dstSock, dstDisposed>>
      /\ dstPc[c] # "done" /\ \A d \in Channels \ {c} : dstPc'[d] = dstPc[d]
    <2>1. UNCHANGED <<srcPc, srcOpen, dstDisposed>>
        BY DEF DestinationStep, BeginDestination, RecvTail, RecvHeader, RecvBody, CountBlock, CompleteFile,
           RecvFails, srcVars
    <2> QED
        BY <2>1, DestinationShows DEF BlockInv, TypeOK
<1>1. CASE ~RecvTail(c) /\ ~RecvBody(c)
    <2>1. wire' = wire
        BY <1>1 DEF DestinationStep, BeginDestination, RecvHeader, CountBlock, CompleteFile, RecvFails
    <2> QED
        BY <1>0, <2>1 DEF TailsArrive, Positions
<1>2. CASE RecvTail(c)
    <2>1. dstPc'[c] = "done" /\ \A d \in Channels \ {c} : wire'[d] = wire[d]
        BY <1>0, <1>2 DEF RecvTail, TypeOK
    <2> QED
        BY <1>0, <2>1 DEF TailsArrive, Positions
<1>3. CASE RecvBody(c)
    <2>1. /\ wire[c] # <<>> /\ wire' = [wire EXCEPT ![c] = Tail(@)]
          /\ Live(Head(wire[c])) /\ wire[c] \in Seq(Message) /\ wire \in [Channels -> Seq(Message)]
        BY <1>3 DEF RecvBody, BlockInv, TypeOK, HeldBlocks
    <2>2. \A d \in Channels \ {c} : wire'[d] = wire[d]
        BY <2>1
    <2>3. Live(wire[c][1])
        BY <2>1
    <2>4. \A i \in Positions(c) \ {1} : i - 1 \in Positions(c)' /\ wire'[c][i - 1] = wire[c][i]
        BY <1>0, <2>1, PopKeeps
    <2>5. (\E i \in Positions(c) : ~Live(wire[c][i])) => \E i \in Positions(c)' : ~Live(wire'[c][i])
        BY <2>3, <2>4
    <2> QED
        BY <1>0, <2>2, <2>5 DEF TailsArrive, Positions
<1> QED
    BY <1>0, <1>1, <1>2, <1>3
LEMMA EnterChannelRuns ==
    ASSUME SessionInv, RunInv, CountsAgree, NEW s \in Sides, NEW c \in Channels, EnterChannel(s, c)
    PROVE  RunInv'
<1> USE DEF RunInv
<1>0. /\ SessionTypeOK /\ ThreadsInvoke
      /\ chanThread[s][c] = "entering" /\ chanThread' = [chanThread EXCEPT ![s][c] = "inside"]
      /\ UNCHANGED <<portal, gate, portalSock, portalLost, finished, teardown, alive, faults, status, exit>>
      /\ UNCHANGED <<srcOpen, wire, lost, srcSock, dstSock, dstDisposed>>
      /\ IF s = "source" THEN srcPc' = [srcPc EXCEPT ![c] = "claim"] /\ dstPc' = dstPc
         ELSE dstPc' = [dstPc EXCEPT ![c] = "header"] /\ srcPc' = srcPc
      /\ srcPc \in [Channels -> SrcStates] /\ dstPc \in [Channels -> DstStates]
    BY DEF SessionInv, SessionTypeOK, TypeOK, EnterChannel, SetThread, BeginSource, BeginDestination,
       linkVars, procVars, clientVars, netVars, dstVars, srcVars
<1>a. s = "destination" => dstPc[c] = "idle"
    BY <1>0 DEF ThreadsInvoke
<1>b. Signallers' = Signallers /\ Openers' = Openers
    BY <1>0, <1>a DEF Signallers, Openers, SessionTypeOK, Sides
<1>1. SourcesInvoke'
    BY <1>0 DEF SourcesInvoke, SessionTypeOK, Sides
<1>2. SocksInv'
    BY <1>0 DEF SocksInv, Sock
<1>3. DisposeInv'
    BY <1>0, <1>b DEF DisposeInv
<1>4. LiveInv'
    BY <1>0 DEF LiveInv, SessionTypeOK, Sides
<1>5. TailsArrive'
    BY <1>0, <1>a DEF TailsArrive, Positions, Sides
<1>6. QuietInv'
    BY <1>0, <1>b DEF QuietInv, SignalsGoneGate, TransferGone, SessionTypeOK, Sides
<1> QED
    BY <1>1, <1>2, <1>3, <1>4, <1>5, <1>6

LEMMA RunSourceRuns ==
    ASSUME SessionInv, RunInv, CountsAgree, NEW c \in Channels, RunChannel("source", c)
    PROVE  RunInv'
<1> USE DEF RunInv
<1>0. /\ SourceStep(c) /\ chanThread["source"][c] = "inside" /\ BlockInv /\ TypeOK
      /\ UNCHANGED <<chanThread, portal, gate, portalSock, portalLost, finished>>
      /\ UNCHANGED <<teardown, alive, faults, status, exit>>
    BY DEF SessionInv, BlockInv, RunChannel, sessionVars, threadVars, linkVars, procVars, clientVars
<1>a. /\ UNCHANGED <<dstPc, lost, srcSock, dstSock, srcOpen, dstDisposed>>
      /\ \A d \in Channels \ {c} : srcPc'[d] = srcPc[d]
      /\ srcPc[c] \notin {"done", "failed"} /\ srcPc'[c] # "idle"
      /\ srcPc'[c] = "failed" => lost[c] \/ ~srcSock[c] \/ ~dstSock[c] \/ ~srcOpen
    BY <1>0, SourceShows, SourceMoves
<1>b. Signallers' = Signallers /\ Openers' = Openers
    BY <1>0, <1>a DEF Signallers, Openers
<1>1. SourcesInvoke'
    BY <1>0, <1>a DEF SourcesInvoke
<1>2. SocksInv'
    BY <1>0, <1>a DEF SocksInv, Sock
<1>3. DisposeInv'
    BY <1>0, <1>a, <1>b DEF DisposeInv
<1>4. LiveInv'
    BY <1>0, <1>a DEF LiveInv
<1>5. TailsArrive'
    BY <1>0, SourceTails
<1>6. QuietInv'
    <2> SUFFICES ASSUME faults = 0 PROVE srcPc'[c] # "failed"
        BY <1>0, <1>a, <1>b DEF QuietInv, SignalsGoneGate, TransferGone
    <2>1. finished = "none"
        BY <1>a, QuietDone DEF QuietInv
    <2>2. srcOpen /\ srcSock[c] /\ dstSock[c] /\ ~lost[c]
        BY <2>1, QuietLive DEF QuietInv, Sides, Sock
    <2> QED
        BY <1>a, <2>2
<1> QED
    BY <1>1, <1>2, <1>3, <1>4, <1>5, <1>6

LEMMA RunDestinationRuns ==
    ASSUME SessionInv, RunInv, CountsAgree, NEW c \in Channels, RunChannel("destination", c)
    PROVE  RunInv'
<1> USE DEF RunInv
<1>0. /\ DestinationStep(c) /\ chanThread["destination"][c] = "inside" /\ BlockInv
      /\ UNCHANGED <<chanThread, portal, gate, portalSock, portalLost, finished>>
      /\ UNCHANGED <<teardown, alive, faults, status, exit>>
    BY DEF SessionInv, RunChannel, sessionVars, threadVars, linkVars, procVars, clientVars
<1>a. /\ TailsArrive' /\ UNCHANGED <<srcPc, lost, srcSock, dstSock, srcOpen, dstDisposed>>
      /\ \A d \in Channels \ {c} : dstPc'[d] = dstPc[d]
      /\ dstPc[c] \notin {"done", "failed"} /\ dstPc'[c] # "idle"
      /\ dstPc'[c] = "failed" => lost[c] \/ ~srcSock[c] \/ ~dstSock[c]
    BY <1>0, DestinationShows, DestinationTails
<1>b. Signallers' = Signallers /\ Openers' = Openers
    BY <1>0, <1>a DEF Signallers, Openers
<1>1. SourcesInvoke'
    BY <1>0, <1>a DEF SourcesInvoke
<1>2. SocksInv'
    BY <1>0, <1>a DEF SocksInv, Sock
<1>3. DisposeInv'
    BY <1>0, <1>a, <1>b DEF DisposeInv
<1>4. LiveInv'
    BY <1>0, <1>a DEF LiveInv
<1>5. TailsArrive'
    BY <1>a
<1>6. QuietInv'
    <2> SUFFICES ASSUME faults = 0 PROVE dstPc'[c] # "failed"
        BY <1>0, <1>a, <1>b DEF QuietInv, SignalsGoneGate, TransferGone
    <2>1. finished = "none"
        BY <1>a, QuietDone DEF QuietInv
    <2>2. srcSock[c] /\ dstSock[c] /\ ~lost[c]
        BY <2>1, QuietLive DEF QuietInv, Sides, Sock
    <2> QED
        BY <1>a, <2>2
<1> QED
    BY <1>1, <1>2, <1>3, <1>4, <1>5, <1>6

----------------------------------------------------------------------------
(* The rest of dispose_impl, and the faults.                               *)

LEMMA DisposeTransferRuns ==
    ASSUME SessionInv, RunInv, CountsAgree, NEW s \in Sides, DisposeTransfer(s)
    PROVE  RunInv'
<1> USE DEF RunInv
<1>0. /\ SessionTypeOK /\ alive[s]
      /\ teardown[s] = "portalClosed" /\ teardown' = [teardown EXCEPT ![s] = "disposed"]
      /\ IF s = "source" THEN srcOpen' = FALSE /\ UNCHANGED <<gate, dstDisposed>>
         ELSE dstDisposed' = TRUE /\ gate'.open = TRUE /\ srcOpen' = srcOpen
      /\ UNCHANGED <<chanThread, portal, portalSock, portalLost, finished, alive, faults, status, exit>>
      /\ UNCHANGED <<srcPc, wire, lost, srcSock, dstSock, dstPc>>
    BY DEF SessionInv, DisposeTransfer, Advance, DisposeSource, DisposeDestination, ForceSignalled,
       linkVars, procVars, clientVars, netVars, dstVars, srcVars
<1>b. Signallers' = Signallers /\ Openers' = Openers
    BY <1>0 DEF Signallers, Openers
<1>1. SourcesInvoke'
    BY <1>0 DEF SourcesInvoke
<1>2. SocksInv'
    BY <1>0 DEF SocksInv, Sock, SessionTypeOK, Sides
<1>3. DisposeInv'
    BY <1>0, <1>b DEF DisposeInv, SessionTypeOK, Sides
<1>4. LiveInv'
    BY <1>0 DEF LiveInv, SessionTypeOK, Sides
<1>5. TailsArrive'
    BY <1>0, TailsFrame
<1>6. QuietInv'
    BY <1>0, <1>b DEF QuietInv, SignalsGoneGate, TransferGone, SessionTypeOK, Sides
<1> QED
    BY <1>1, <1>2, <1>3, <1>4, <1>5, <1>6

\* What closing sockets leaves of the data plane.
LEMMA CloseLeaves ==
    ASSUME NEW s \in Sides, NEW C, NEW c \in Channels,
           IF s = "source" THEN CloseSourceSocks(C) ELSE CloseDestinationSocks(C)
    PROVE  /\ UNCHANGED <<srcPc, srcOpen, wire, lost, dstPc, dstDisposed>>
           /\ dstSock'[c] => dstSock[c]
           /\ \A t \in Sides : ~Sock(t, c) => ~Sock(t, c)'
           /\ c \in C => ~Sock(s, c)'
BY DEF CloseSourceSocks, CloseDestinationSocks, srcVars, dstVars, Sock, Sides

LEMMA CloseChannelRuns ==
    ASSUME SessionInv, RunInv, CountsAgree, NEW s \in Sides, NEW c \in Channels, CloseChannel(s, c)
    PROVE  RunInv'
<1> USE DEF RunInv
<1>0. /\ IF s = "source" THEN CloseSourceSocks({c}) ELSE CloseDestinationSocks({c})
      /\ UNCHANGED <<chanThread, portal, gate, portalSock, portalLost, finished>>
      /\ UNCHANGED <<teardown, alive, faults, status, exit>>
    BY DEF CloseChannel, sessionVars, threadVars, linkVars, procVars, clientVars
<1>a. /\ UNCHANGED <<srcPc, srcOpen, wire, lost, dstPc, dstDisposed>>
      /\ \A d \in Channels : /\ dstSock'[d] => dstSock[d]
                             /\ \A t \in Sides : ~Sock(t, d) => ~Sock(t, d)'
    BY <1>0, CloseLeaves
<1>b. Signallers' = Signallers /\ Openers' = Openers
    BY <1>0, <1>a DEF Signallers, Openers
<1>1. SourcesInvoke'
    BY <1>0, <1>a DEF SourcesInvoke
<1>2. SocksInv'
    BY <1>0, <1>a DEF SocksInv
<1>3. DisposeInv'
    BY <1>0, <1>a, <1>b DEF DisposeInv
<1>4. LiveInv'
    BY <1>0, <1>a DEF LiveInv
<1>5. TailsArrive'
    BY <1>a, TailsFrame
<1>6. QuietInv'
    BY <1>0, <1>a, <1>b DEF QuietInv, SignalsGoneGate, TransferGone
<1> QED
    BY <1>1, <1>2, <1>3, <1>4, <1>5, <1>6

\* A process dies by a fault, or by using a transfer that is gone.  Of an
\* undisturbed transfer only a destination thread does that has counted and not
\* yet returned from signal: a side is taken down only when all its threads have
\* come to the tail of their channel.
LEMMA AbortHasACause ==
    ASSUME SessionInv, RunInv, NEW s \in Sides, AssertAborts(s) \/ Crash(s), faults' = 0
    PROVE  faults = 0 /\ s = "destination" /\ SignalsGoneGate
<1>0. SessionTypeOK /\ faults \in Nat /\ (faults' = faults \/ faults' = faults + 1)
    BY DEF AssertAborts, Crash, Meets, SessionInv, SessionTypeOK
<1>1. faults = 0 /\ (EntersGoneTransfer(s) \/ UsesGoneTransfer(s))
    BY <1>0 DEF AssertAborts, Crash, Meets
<1>2. TransferGone(s) /\ teardown[s] # "live"
    BY <1>1 DEF EntersGoneTransfer, UsesGoneTransfer, TransferGone
<1>3. /\ finished # "none" /\ portal[s] = "ended"
      /\ Signallers = Channels /\ Openers = {}
    BY <1>1, <1>2 DEF RunInv, QuietInv, Sides
<1>4. \A c \in Channels : /\ srcPc[c] = "done" /\ chanThread["source"][c] # "entering"
                          /\ chanThread["destination"][c] \notin {"entering", "inside"}
    BY <1>1, <1>3, QuietDone
<1>5. ~EntersGoneTransfer(s)
    BY <1>3, <1>4 DEF EntersGoneTransfer, Sides
<1> QED
    BY <1>1, <1>2, <1>3, <1>4, <1>5 DEF UsesGoneTransfer, SignalsGoneGate, Openers, Sides

LEMMA AbortRuns ==
    ASSUME SessionInv, RunInv, CountsAgree, NEW s \in Sides, AssertAborts(s) \/ Crash(s)
    PROVE  RunInv'
<1> USE DEF RunInv
<1>0. /\ SessionTypeOK
      /\ IF s = "source" THEN CloseSourceSocks(Channels) ELSE CloseDestinationSocks(Channels)
      /\ alive' = [alive EXCEPT ![s] = FALSE] /\ portalSock' = [portalSock EXCEPT ![s] = FALSE]
      /\ UNCHANGED <<chanThread, portal, gate, portalLost, finished, teardown, status, exit>>
    BY DEF SessionInv, AssertAborts, Crash, Dies, threadVars, clientVars
<1>a. /\ UNCHANGED <<srcPc, srcOpen, wire, lost, dstPc, dstDisposed>>
      /\ \A d \in Channels : /\ dstSock'[d] => dstSock[d]
                             /\ \A t \in Sides : ~Sock(t, d) => ~Sock(t, d)'
                             /\ ~Sock(s, d)'
    BY <1>0, CloseLeaves
<1>b. Signallers' = Signallers /\ Openers' = Openers
    BY <1>0, <1>a DEF Signallers, Openers
<1>1. SourcesInvoke'
    BY <1>0, <1>a DEF SourcesInvoke
<1>2. SocksInv'
    BY <1>0, <1>a DEF SocksInv, SessionTypeOK
<1>3. DisposeInv'
    BY <1>0, <1>a, <1>b DEF DisposeInv
<1>4. LiveInv'
    BY <1>0, <1>a DEF LiveInv
<1>5. TailsArrive'
    BY <1>a, TailsFrame
<1>6. QuietInv'
    <2> SUFFICES ASSUME faults' = 0 PROVE QuietInv'
        BY DEF QuietInv
    <2>1. faults = 0 /\ s = "destination" /\ SignalsGoneGate
        BY AbortHasACause
    <2>2. SignalsGoneGate' /\ alive'["source"] = alive["source"]
        BY <1>0, <2>1 DEF SignalsGoneGate, TransferGone, SessionTypeOK, Sides
    <2> QED
        BY <1>0, <1>a, <1>b, <2>1, <2>2 DEF QuietInv
<1> QED
    BY <1>1, <1>2, <1>3, <1>4, <1>5, <1>6

LEMMA LoseChannelRuns ==
    ASSUME SessionInv, RunInv, CountsAgree, NEW c \in Channels, LoseChannel(c)
    PROVE  RunInv'
<1> USE DEF RunInv
<1>0. /\ lost' = [lost EXCEPT ![c] = TRUE] /\ lost \in [Channels -> BOOLEAN]
      /\ UNCHANGED <<srcPc, srcOpen, wire, srcSock, dstSock, dstPc, dstDisposed>>
      /\ UNCHANGED <<chanThread, portal, gate, portalSock, teardown, alive>>
    BY DEF LoseChannel, LoseConnection, SessionInv, SessionTypeOK, TypeOK, srcVars, dstVars,
       threadVars, linkVars
<1>1. SourcesInvoke' /\ LiveInv'
    BY <1>0 DEF SourcesInvoke, LiveInv
<1>2. SocksInv'
    BY <1>0 DEF SocksInv, Sock
<1>3. DisposeInv'
    BY <1>0 DEF DisposeInv, Signallers, Openers
<1>4. \A d \in Channels : lost[d] => lost'[d]
    BY <1>0
<1>5. TailsArrive'
    BY <1>0, <1>4, TailsFrame
<1>6. QuietInv'
    BY DEF QuietInv, SessionInv, SessionTypeOK, LoseChannel, Meets
<1> QED
    BY <1>1, <1>2, <1>3, <1>4, <1>5, <1>6

----------------------------------------------------------------------------
(* The inductive invariant.                                                *)

LEMMA NextRuns ==
    ASSUME SessionInv, RunInv, CountsAgree, [SessionNext]_vars
    PROVE  RunInv'
<1>1. ASSUME NEW s \in Sides, NEW c \in Channels, ChannelStep(s, c) PROVE RunInv'
    <2>1. CASE RunChannel(s, c)
        BY <2>1, RunSourceRuns, RunDestinationRuns DEF Sides
    <2> QED
        BY <1>1, <2>1, CheckDisposeRuns, EnterChannelRuns, SignalFinishedRuns, OpenGateRuns,
           ChannelSucceedsRuns, ChannelFailsRuns DEF ChannelStep
<1>2. ASSUME NEW s \in Sides, PortalStep(s) PROVE RunInv'
    BY <1>2, EnterPortalRuns, GatePassedRuns, SendFinishedRuns, SendFinishedFailsRuns,
       RecvFinishedRuns, RecvFinishedFailsRuns DEF PortalStep
<1>3. ASSUME NEW s \in Sides, DisposeStep(s) PROVE RunInv'
    BY <1>3, ClosePortalRuns, DisposeTransferRuns, ResetTransferRuns, JoinPortalRuns,
       CloseChannelRuns, DisposeDoneRuns DEF DisposeStep
<1>4. ASSUME NEW s \in Sides, AssertAborts(s) \/ Crash(s) PROVE RunInv'
    BY <1>4, AbortRuns
<1>5. CASE ClientExits
    BY <1>5, ClientExitsRuns
<1>6. ASSUME NEW s \in Sides, Interrupt(s) PROVE RunInv'
    BY <1>6, InterruptRuns
<1>7. ASSUME NEW c \in Channels, LoseChannel(c) PROVE RunInv'
    BY <1>7, LoseChannelRuns
<1>8. CASE LosePortal
    BY <1>8, LosePortalRuns
<1>9. CASE UNCHANGED vars
    <2>1. /\ UNCHANGED <<srcPc, srcOpen, wire, lost, srcSock, dstSock, dstPc, dstDisposed>>
          /\ UNCHANGED <<chanThread, portal, gate, portalSock, portalLost, finished>>
          /\ UNCHANGED <<teardown, alive, faults, status, exit>>
        BY <1>9, DataKept DEF vars, sessionVars, threadVars, linkVars, procVars, clientVars
    <2> QED
        BY <2>1 DEF RunInv, SourcesInvoke, SocksInv, Sock, DisposeInv, Signallers, Openers, LiveInv, TailsArrive,
           Positions, QuietInv, SignalsGoneGate, TransferGone
<1> QED
    BY <1>1, <1>2, <1>3, <1>4, <1>5, <1>6, <1>7, <1>8, <1>9
       DEF SessionNext, ProgramStep, SideStep, Fault

\* RunInv is inductive beside SessionInv: where the threads of both sides are,
\* which sockets are open, when the gate is, and what an undisturbed transfer
\* cannot come to (src/src/client.cpp:486-543, src/src/server.cpp:312-385).
THEOREM RunInvHolds == ASSUME CountsAgree PROVE SessionSpec => []RunInv
<1>1. SessionInv /\ RunInv /\ [SessionNext]_vars => RunInv'
    BY NextRuns
<1> QED
    BY InitRun, SessionInvHolds, <1>1, PTL DEF SessionSpec

\* No order of the threads makes an undisturbed transfer fail: the client
\* reports an error, and a process dies on ASSERT(transfer != nullptr) or in a
\* destroyed transfer, only after a fault (src/src/client.cpp:94-124).  The one
\* exception: the destination's process may die in a thread that has counted in
\* gate_guard::signal and not yet read _at_least_signal, of a gate destroyed
\* since (src/src/infra/gate_guard.h:32-33), when "finished" has been sent.
THEOREM FailuresHaveACause == ASSUME CountsAgree PROVE SessionSpec => []FailureHasACause
<1>1. RunInv => FailureHasACause
    <2> SUFFICES ASSUME RunInv, faults = 0 PROVE FailureHasACause
        BY DEF FailureHasACause
    <2>1. SignalsGoneGate => finished # "none"
        BY DEF SignalsGoneGate, TransferGone, RunInv, QuietInv
    <2> QED
        BY <2>1 DEF RunInv, QuietInv, FailureHasACause
<1> QED
    BY <1>1, RunInvHolds, PTL

----------------------------------------------------------------------------
(* Somebody is always left who can take a step.                            *)

\* A thread that waits for its connection has both ends of it open.
LEMMA WaitersConnect ==
    ASSUME NEW s \in Sides, NEW c \in Channels, ThreadWaits(s, c)
    PROVE  \A t \in Sides : Sock(t, c)
BY DEF ThreadWaits, SourceWaits, DestinationWaits, Sock, Sides

\* Once it has started, dispose_impl gets to its end: what it joins has been
\* closed before, and does not wait.
LEMMA DisposeEnds ==
    ASSUME SessionInv, RunInv, NEW s \in Sides, SideWaits(s)
    PROVE  teardown[s] \in {"live", "done"}
<1> SUFFICES ASSUME DisposeWaits(s) PROVE FALSE
    BY DEF SideWaits
<1>1. CASE teardown[s] = "reset" /\ portal[s] # "ended"
    <2>1. PortalWaits(s)
        BY <1>1 DEF SideWaits
    <2>2. CASE s = "source"
        BY <1>1, <2>1, <2>2 DEF PortalWaits, SessionInv, TeardownInv
    <2>3. CASE s = "destination"
        <3>1. dstDisposed
            BY <1>1, <2>3 DEF RunInv, DisposeInv
        <3> QED
            BY <2>1, <2>3, <3>1 DEF PortalWaits, RunInv, DisposeInv
    <2> QED
        BY <2>2, <2>3 DEF Sides
<1>2. CASE teardown[s] = "joined"
    <2>1. PICK c \in Channels : ~Sock(s, c) /\ chanThread[s][c] # "ended"
        BY <1>2 DEF DisposeWaits
    <2>2. ThreadWaits(s, c)
        BY <2>1 DEF SideWaits
    <2> QED
        BY <2>1, <2>2, WaitersConnect
<1> QED
    BY <1>1, <1>2 DEF DisposeWaits

\* A destination whose dispose nobody has required does not wait for ever: its
\* portal waits at the gate for a channel, that channel for the source thread at
\* the other end, and this one neither waits for room in an empty connection
\* nor has it ended without its tail.
LEMMA LiveDestinationRuns ==
    ASSUME SessionInv, RunInv, teardown["destination"] = "live", SideWaits("destination"),
           alive["source"] => SideWaits("source")
    PROVE  FALSE
<1>0. "source" \in Sides /\ "destination" \in Sides
    BY DEF Sides
<1>1. ~gate.open
    BY <1>0 DEF RunInv, LiveInv, SideWaits, PortalWaits
<1>a. Openers = {}
    BY <1>0 DEF Openers, SideWaits, ThreadWaits, DestinationWaits
<1>2. PICK c \in Channels : c \notin Signallers
    BY <1>1, <1>a DEF RunInv, DisposeInv, Signallers
<1>3. chanThread["destination"][c] # "ended"
    BY <1>0, <1>2 DEF RunInv, LiveInv, Signallers
<1>4. /\ dstPc[c] = "header" /\ wire[c] = <<>>
      /\ srcSock[c] /\ dstSock[c] /\ ~lost[c]
    BY <1>0, <1>3 DEF SideWaits, ThreadWaits, DestinationWaits
<1>5. alive["source"] /\ teardown["source"] # "done"
    BY <1>0, <1>4 DEF RunInv, SocksInv, Sock
<1>6. SideWaits("source") /\ teardown["source"] = "live"
    BY <1>0, <1>5, DisposeEnds
<1>7. Len(wire[c]) = 0 /\ Positions(c) = {}
    BY <1>4 DEF Positions
<1>8. chanThread["source"][c] = "ended"
    <2>1. ~SourceWaits(c)
        BY <1>7 DEF SourceWaits
    <2> QED
        BY <1>0, <1>6, <2>1 DEF SideWaits, ThreadWaits
<1>9. srcPc[c] = "done"
    BY <1>0, <1>6, <1>8 DEF RunInv, LiveInv
<1> QED
    BY <1>4, <1>7, <1>9 DEF RunInv, TailsArrive

\* A source whose dispose nobody has required waits for the message "finished",
\* and only as long as the destination is there to send it.
LEMMA LiveSideRuns ==
    ASSUME SessionInv, RunInv, NEW s \in Sides, alive[s], teardown[s] = "live",
           \A t \in Sides : alive[t] => SideWaits(t)
    PROVE  FALSE
<1>0. "source" \in Sides /\ "destination" \in Sides
    BY DEF Sides
<1>1. CASE s = "destination"
    BY <1>0, <1>1, LiveDestinationRuns
<1>2. CASE s = "source"
    <2>1. portalSock["destination"]
        BY <1>0, <1>2 DEF RunInv, LiveInv, SideWaits, PortalWaits
    <2>2. alive["destination"] /\ teardown["destination"] \in {"live", "required"}
        BY <1>0, <2>1 DEF SessionInv, TeardownInv, RunInv, SocksInv
    <2>3. teardown["destination"] = "live"
        BY <1>0, <2>2, DisposeEnds
    <2> QED
        BY <1>0, <2>2, <2>3, LiveDestinationRuns
<1> QED
    BY <1>1, <1>2 DEF Sides

\* The program stops nowhere but where both sides have ended, for any number of
\* channels, however small the connections' buffers, and whatever has gone
\* wrong: in particular portal, gate, joins and channels never wait for each
\* other in a circle (src/src/server.cpp:312-361, src/src/client.cpp:527-543).
THEOREM SomebodyCanStep == ASSUME CountsAgree PROVE SessionSpec => []NobodyIsStuck
<1>1. ASSUME SessionInv, RunInv PROVE NobodyIsStuck
    <2> SUFFICES ASSUME \A t \in Sides : alive[t] => SideWaits(t), NEW s \in Sides PROVE SideEnded(s)
        BY DEF NobodyIsStuck
    <2>1. ASSUME alive[s] PROVE teardown[s] = "done"
        BY <1>1, <2>1, DisposeEnds, LiveSideRuns
    <2> QED
        BY <2>1 DEF SideEnded, SideWaits
<1> QED
    BY <1>1, SessionInvHolds, RunInvHolds, PTL

----------------------------------------------------------------------------
(* Nothing runs for ever: every step leaves less to do.                    *)

\* How to show it: what is left falls at one place, nothing changes before it.
LEMMA FallsAt ==
    ASSUME NEW i \in 1 .. 12, Falls(Left'[i], Left[i]), \A j \in 1 .. (i - 1) : Left'[j] = Left[j]
    PROVE  Below(Left', Left)
<1>1. DOMAIN Left = 1 .. 12
    BY DEF Left
<1> QED
    BY <1>1 DEF Below

\* A function falls when it falls at one argument and is the same elsewhere.
LEMMA FunctionFalls ==
    ASSUME NEW S, NEW m, NEW n, DOMAIN n = S, DOMAIN m = S, NEW x \in S,
           \A y \in S : m[y] \in Nat /\ n[y] \in Nat,
           m[x] < n[x], \A y \in S \ {x} : m[y] = n[y]
    PROVE  Falls(m, n)
<1>1. m # n
    OBVIOUS
<1>2. \A y \in S : m[y] <= n[y]
    OBVIOUS
<1> QED
    BY <1>1, <1>2 DEF Falls

\* What the levels are about: each is left as it is when its variables are.
LEMMA LevelsKept ==
    /\ faults' = faults => Left'[1] = Left[1]
    /\ curr_offset' = curr_offset => Left'[2] = Left[2]
    /\ srcFile' = srcFile => Left'[3] = Left[3]
    /\ srcPc' = srcPc => Left'[4] = Left[4]
    /\ wire' = wire => Left'[5] = Left[5]
    /\ dstPc' = dstPc => Left'[6] = Left[6]
    /\ chanThread' = chanThread => Left'[7] = Left[7]
    /\ portal' = portal => Left'[8] = Left[8]
    /\ teardown' = teardown => Left'[9] = Left[9]
    /\ alive' = alive => Left'[10] = Left[10]
    /\ srcSock' = srcSock /\ dstSock' = dstSock => Left'[11] = Left[11]
BY DEF Left, Unclaimed, Sock

LEMMA FaultFalls ==
    ASSUME SessionTypeOK, NEW kind, Meets(kind)
    PROVE  Below(Left', Left)
<1>1. faults \in Nat /\ faults' = faults + 1 /\ MaxFaults \in Nat /\ faults < MaxFaults
    BY DEF SessionTypeOK, Meets
<1>2. Falls(<<MaxFaults - faults'>>, <<MaxFaults - faults>>)
    BY <1>1 DEF Falls
<1>3. Left'[1] = <<MaxFaults - faults'>> /\ Left[1] = <<MaxFaults - faults>>
    BY DEF Left
<1> QED
    BY <1>2, <1>3, FallsAt

\* A block that is claimed leaves less of its file to claim; a thread leaves the
\* files behind one after the other.
LEMMA SourceFalls ==
    ASSUME TypeOK, NEW c \in Channels, SourceStep(c), faults' = faults
    PROVE  Below(Left', Left)
<1> DEFINE U == [f \in Files |-> Unclaimed(f)]
           N == [d \in Channels |-> NFiles + 1 - srcFile[d]]
           P == [d \in Channels |-> SrcLeft[srcPc[d]]]
<1>0. /\ Left[2] = U /\ Left[3] = N /\ Left[4] = P
      /\ Left'[2] = U' /\ Left'[3] = N' /\ Left'[4] = P'
    BY DEF Left
<1>1. CASE ClaimBlock(c)
    <2> PICK f \in Files : f = srcFile[c]
        BY <1>1 DEF ClaimBlock
    <2>1. /\ blockSize[c] \in Nat \ {0} /\ curr_offset[f] < FileSize[f]
          /\ curr_offset \in [Files -> Nat] /\ \A g \in Files : FileSize[g] \in Nat
          /\ curr_offset' = [curr_offset EXCEPT ![f] = @ + blockSize[c]]
        BY <1>1 DEF ClaimBlock, TypeOK, BlockSizes
    <2>2. Unclaimed(f)' < Unclaimed(f) /\ \A g \in Files \ {f} : Unclaimed(g)' = Unclaimed(g)
        BY <2>1 DEF Unclaimed
    <2>3. \A g \in Files : Unclaimed(g) \in Nat /\ Unclaimed(g)' \in Nat
        BY <2>1 DEF Unclaimed
    <2>4. Falls(U', U)
        BY <2>2, <2>3, FunctionFalls
    <2> QED
        BY <1>0, <2>4, FallsAt, LevelsKept
<1>2. CASE NextFile(c)
    <2>1. /\ srcFile \in [Channels -> 1 .. (NFiles + 1)] /\ srcFile[c] \in 1 .. NFiles /\ NFiles \in Nat
          /\ srcFile' = [srcFile EXCEPT ![c] = srcFile[c] + 1]
        BY <1>2 DEF NextFile, TypeOK, Files
    <2>2. N'[c] < N[c] /\ \A d \in Channels \ {c} : N'[d] = N[d]
        BY <2>1
    <2>3. \A d \in Channels : N[d] \in Nat /\ N'[d] \in Nat
        BY <2>1
    <2>4. Falls(N', N)
        BY <2>2, <2>3, FunctionFalls
    <2>5. U' = U
        <3>1. /\ curr_offset[srcFile[c]] >= FileSize[srcFile[c]] /\ blockSize[c] \in Nat
              /\ curr_offset \in [Files -> Nat] /\ \A g \in Files : FileSize[g] \in Nat
              /\ curr_offset' = [curr_offset EXCEPT ![srcFile[c]] = @ + blockSize[c]]
            BY <1>2 DEF NextFile, AllClaimed, TypeOK, BlockSizes
        <3>2. \A g \in Files : Unclaimed(g)' = Unclaimed(g)
            BY <3>1 DEF Unclaimed
        <3> QED
            BY <3>2
    <2> QED
        BY <1>0, <2>4, <2>5, FallsAt, LevelsKept
<1>3. CASE BeginSource(c) \/ SendBlock(c) \/ SendTail(c) \/ SendFails(c)
    <2>1. /\ UNCHANGED <<curr_offset, srcFile>>
          /\ srcPc \in [Channels -> SrcStates] /\ srcPc' \in [Channels -> SrcStates]
          /\ \A d \in Channels \ {c} : srcPc'[d] = srcPc[d]
        BY <1>3 DEF BeginSource, SendBlock, SendTail, SendFails, TypeOK, SrcStates
    <2>2. SrcLeft[srcPc'[c]] < SrcLeft[srcPc[c]]
        BY <1>3 DEF BeginSource, SendBlock, SendTail, SendFails, TypeOK, SrcLeft
    <2>3. \A st \in SrcStates : SrcLeft[st] \in Nat
        BY DEF SrcStates, SrcLeft
    <2>4. Falls(P', P)
        <3> HIDE DEF U, N
        <3> QED
            BY <2>1, <2>2, <2>3, FunctionFalls
    <2> QED
        BY <1>0, <2>1, <2>4, FallsAt, LevelsKept
<1> QED
    BY <1>1, <1>2, <1>3 DEF SourceStep

\* A destination thread takes a message out of the connection, or comes closer to
\* the next.
LEMMA DestinationFalls ==
    ASSUME BlockInv, NEW c \in Channels, DestinationStep(c), faults' = faults
    PROVE  Below(Left', Left)
<1> DEFINE W == [d \in Channels |-> Len(wire[d])]
           P == [d \in Channels |-> DstLeft[dstPc[d]]]
<1>0. /\ Left[5] = W /\ Left[6] = P /\ Left'[5] = W' /\ Left'[6] = P'
      /\ UNCHANGED <<curr_offset, srcFile, srcPc>>
    BY DEF Left, srcVars, DestinationStep, BeginDestination, RecvTail, RecvHeader, RecvBody,
           CountBlock, CompleteFile, RecvFails
<1>1. CASE RecvTail(c) \/ RecvBody(c)
    <2>1. /\ wire[c] # <<>> /\ wire' = [wire EXCEPT ![c] = Tail(wire[c])]
          /\ wire \in [Channels -> Seq(Message)]
        BY <1>1 DEF RecvTail, RecvBody, HeldBlocks, BlockInv, TypeOK
    <2>2. Len(Tail(wire[c])) < Len(wire[c]) /\ Tail(wire[c]) \in Seq(Message)
        BY <2>1
    <2>3. \A d \in Channels : W[d] \in Nat /\ W'[d] \in Nat
        BY <2>1, <2>2
    <2>4. Falls(W', W)
        <3>1. W'[c] < W[c] /\ \A d \in Channels \ {c} : W'[d] = W[d]
            BY <2>1, <2>2
        <3> QED
            BY <2>3, <3>1, FunctionFalls
    <2> QED
        BY <1>0, <2>4, FallsAt, LevelsKept
<1>2. CASE BeginDestination(c) \/ RecvHeader(c) \/ CountBlock(c) \/ CompleteFile(c) \/ RecvFails(c)
    <2>1. /\ wire' = wire
          /\ dstPc \in [Channels -> DstStates] /\ dstPc' \in [Channels -> DstStates]
          /\ \A d \in Channels \ {c} : dstPc'[d] = dstPc[d]
        BY <1>2 DEF BeginDestination, RecvHeader, CountBlock, CompleteFile, RecvFails, DstStates,
               BlockInv, TypeOK
    <2>2. DstLeft[dstPc'[c]] < DstLeft[dstPc[c]]
        BY <1>2 DEF BeginDestination, RecvHeader, CountBlock, CompleteFile, RecvFails, DstLeft,
               BlockInv, TypeOK
    <2>3. \A st \in DstStates : DstLeft[st] \in Nat
        BY DEF DstStates, DstLeft
    <2>4. Falls(P', P)
        <3> HIDE DEF W
        <3> QED
            BY <2>1, <2>2, <2>3, FunctionFalls
    <2> QED
        BY <1>0, <2>1, <2>4, FallsAt, LevelsKept
<1> QED
    BY <1>1, <1>2 DEF DestinationStep

\* A channel thread comes closer to its end.
LEMMA ThreadFalls ==
    ASSUME SessionTypeOK, UNCHANGED <<dataVars, faults>>, NEW s \in Sides, NEW c \in Channels,
           NEW st \in ThreadStates, SetThread(s, c, st), ThreadLeft[st] < ThreadLeft[chanThread[s][c]]
    PROVE  Below(Left', Left)
<1> DEFINE T == [t \in Sides \X Channels |-> ThreadLeft[chanThread[t[1]][t[2]]]]
<1>0. Left[7] = T /\ Left'[7] = T'
    BY DEF Left
<1>1. chanThread' = [chanThread EXCEPT ![s] = [chanThread[s] EXCEPT ![c] = st]]
      /\ chanThread \in [Sides -> [Channels -> ThreadStates]]
    BY DEF SetThread, SessionTypeOK
<1>2. \A u \in ThreadStates : ThreadLeft[u] \in Nat
    BY DEF ThreadStates, ThreadLeft
<1>3. \A r \in Sides, d \in Channels : chanThread'[r][d] = IF r = s /\ d = c THEN st ELSE chanThread[r][d]
    BY <1>1
<1>4. \A t \in Sides \X Channels : T[t] \in Nat /\ T'[t] \in Nat
    BY <1>1, <1>2, <1>3
<1>5. T'[<<s, c>>] < T[<<s, c>>] /\ \A t \in (Sides \X Channels) \ {<<s, c>>} : T'[t] = T[t]
    BY <1>3
<1>6. Falls(T', T)
    BY <1>4, <1>5, FunctionFalls
<1>7. UNCHANGED <<curr_offset, srcFile, srcPc, wire, dstPc>>
    BY DEF dataVars, srcVars, dstVars
<1> QED
    BY <1>0, <1>6, <1>7, FallsAt, LevelsKept

\* A portal thread comes closer to its end.
LEMMA PortalFalls ==
    ASSUME SessionTypeOK, SessionTypeOK', UNCHANGED <<dataVars, faults, chanThread>>, NEW s \in Sides,
           PortalLeft[portal'[s]] < PortalLeft[portal[s]], \A t \in Sides \ {s} : portal'[t] = portal[t]
    PROVE  Below(Left', Left)
<1> DEFINE P == [t \in Sides |-> PortalLeft[portal[t]]]
<1>0. Left[8] = P /\ Left'[8] = P'
    BY DEF Left
<1>1. \A u \in PortalStates : PortalLeft[u] \in Nat
    BY DEF PortalStates, PortalLeft
<1>2. \A t \in Sides : P[t] \in Nat /\ P'[t] \in Nat
    BY <1>1 DEF SessionTypeOK
<1>3. Falls(P', P)
    BY <1>2, FunctionFalls
<1>4. UNCHANGED <<curr_offset, srcFile, srcPc, wire, dstPc>>
    BY DEF dataVars, srcVars, dstVars
<1> QED
    BY <1>0, <1>3, <1>4, FallsAt, LevelsKept

\* dispose_impl comes closer to its end.
LEMMA TeardownFalls ==
    ASSUME SessionTypeOK, NEW s \in Sides, NEW from \in TeardownStages, NEW to \in TeardownStages,
           Advance(s, from, to), TeardownLeft[to] < TeardownLeft[from],
           UNCHANGED <<curr_offset, srcFile, srcPc, wire, dstPc, faults, chanThread, portal>>
    PROVE  Below(Left', Left)
<1> DEFINE P == [t \in Sides |-> TeardownLeft[teardown[t]]]
<1>0. Left[9] = P /\ Left'[9] = P'
    BY DEF Left
<1>1. \A u \in TeardownStages : TeardownLeft[u] \in Nat
    BY DEF TeardownStages, TeardownLeft
<1>2. /\ teardown \in [Sides -> TeardownStages] /\ teardown[s] = from
      /\ teardown' = [teardown EXCEPT ![s] = to]
    BY DEF Advance, SessionTypeOK
<1>3. \A t \in Sides : P[t] \in Nat /\ P'[t] \in Nat
    BY <1>1, <1>2
<1>4. P'[s] < P[s] /\ \A t \in Sides \ {s} : P'[t] = P[t]
    BY <1>2
<1>5. Falls(P', P)
    BY <1>3, <1>4, FunctionFalls
<1> QED
    BY <1>0, <1>5, FallsAt, LevelsKept

\* A socket that is open is closed.
LEMMA SocketFalls ==
    ASSUME NEW s \in Sides, NEW c \in Channels, CloseChannel(s, c), SessionTypeOK, SessionTypeOK'
    PROVE  Below(Left', Left)
<1> DEFINE O == [t \in Sides \X Channels |-> One(Sock(t[1], t[2]))]
<1>0. Left[11] = O /\ Left'[11] = O'
    BY DEF Left
<1>1. \A t \in Sides \X Channels : O[t] \in Nat /\ O'[t] \in Nat
    BY DEF One
<1>2. /\ Sock(s, c) /\ ~Sock(s, c)'
      /\ \A r \in Sides, d \in Channels : r # s \/ d # c => (Sock(r, d)' = Sock(r, d))
    <2>1. srcSock \in [Channels -> BOOLEAN] /\ dstSock \in [Channels -> BOOLEAN]
        BY DEF SessionTypeOK, TypeOK
    <2>2. CASE s = "source"
        <3>1. Sock(s, c) /\ srcSock' = [d \in Channels |-> srcSock[d] /\ d # c] /\ dstSock' = dstSock
            BY <2>2 DEF CloseChannel, CloseSourceSocks
        <3> QED
            BY <2>1, <2>2, <3>1 DEF Sock, Sides
    <2>3. CASE s = "destination"
        <3>1. Sock(s, c) /\ dstSock' = [d \in Channels |-> dstSock[d] /\ d # c] /\ srcSock' = srcSock
            BY <2>3 DEF CloseChannel, CloseDestinationSocks
        <3> QED
            BY <2>1, <2>3, <3>1 DEF Sock, Sides
    <2> QED
        BY <2>2, <2>3 DEF Sides
<1>3. O'[<<s, c>>] < O[<<s, c>>] /\ \A t \in (Sides \X Channels) \ {<<s, c>>} : O'[t] = O[t]
    BY <1>2 DEF One
<1>4. Falls(O', O)
    <2> HIDE DEF O
    <2>1. DOMAIN O = Sides \X Channels /\ DOMAIN O' = Sides \X Channels
        BY DEF O
    <2> QED
        BY <1>1, <1>3, <2>1, FunctionFalls
<1>5. UNCHANGED <<faults, curr_offset, srcFile, srcPc, wire, dstPc, chanThread, portal, teardown, alive>>
    BY DEF CloseChannel, CloseSourceSocks, CloseDestinationSocks, srcVars, dstVars, sessionVars,
           threadVars, linkVars, procVars
<1> QED
    BY <1>0, <1>4, <1>5, FallsAt, LevelsKept

\* A process dies once.
LEMMA DiesFalls ==
    ASSUME SessionTypeOK, NEW s \in Sides, alive[s], Dies(s), faults' = faults
    PROVE  Below(Left', Left)
<1> DEFINE A == [t \in Sides |-> One(alive[t])]
<1>0. Left[10] = A /\ Left'[10] = A'
    BY DEF Left
<1>1. \A t \in Sides : A[t] \in Nat /\ A'[t] \in Nat
    BY DEF One
<1>2. A'[s] < A[s] /\ \A t \in Sides \ {s} : A'[t] = A[t]
    BY DEF Dies, One, SessionTypeOK
<1>3. Falls(A', A)
    BY <1>1, <1>2, FunctionFalls
<1>4. UNCHANGED <<curr_offset, srcFile, srcPc, wire, dstPc, chanThread, portal, teardown>>
    BY DEF Dies, CloseSourceSocks, CloseDestinationSocks, srcVars, dstVars, threadVars
<1> QED
    BY <1>0, <1>3, <1>4, FallsAt, LevelsKept

\* The client exits once.
LEMMA ExitFalls ==
    ASSUME ClientExits
    PROVE  Below(Left', Left)
<1>1. Left[12] = <<One(exit = "running")>> /\ Left'[12] = <<One(exit' = "running")>>
    BY DEF Left
<1>2. Falls(<<One(exit' = "running")>>, <<One(exit = "running")>>)
    BY DEF ClientExits, Falls, One
<1>3. UNCHANGED <<faults, curr_offset, srcFile, srcPc, wire, dstPc, chanThread, portal, teardown, alive>>
      /\ UNCHANGED <<srcSock, dstSock>>
    BY DEF ClientExits, dataVars, srcVars, netVars, dstVars, threadVars, linkVars, procVars
<1> QED
    BY <1>1, <1>2, <1>3, FallsAt, LevelsKept

LEMMA ChannelStepFalls ==
    ASSUME BlockInv, SessionTypeOK, NEW s \in Sides, NEW c \in Channels, ChannelStep(s, c)
    PROVE  Below(Left', Left)
<1>1. CASE EnterChannel(s, c) \/ RunChannel(s, c)
    <2>1. /\ faults' = faults
          /\ IF s = "source" THEN SourceStep(c) ELSE DestinationStep(c)
        BY <1>1 DEF EnterChannel, RunChannel, SourceStep, DestinationStep, sessionVars, procVars
    <2> QED
        BY <2>1, SourceFalls, DestinationFalls DEF BlockInv
<1>2. CASE CheckDispose(s, c)
    <2>1. PICK st \in {"entering", "ended"} : SetThread(s, c, st)
        BY <1>2 DEF CheckDispose
    <2> QED
        BY <1>2, <2>1, ThreadFalls DEF CheckDispose, procVars, ThreadStates, ThreadLeft
<1>3. CASE s = "destination" /\ SignalFinished(c)
    <2>1. PICK st \in {"opening", "counted"} : SetThread("destination", c, st)
        BY <1>3 DEF SignalFinished
    <2>2. chanThread["destination"][c] = "inside" /\ UNCHANGED <<dataVars, faults>>
        BY <1>3 DEF SignalFinished, procVars
    <2> QED
        BY <1>3, <2>1, <2>2, ThreadFalls DEF ThreadStates, ThreadLeft
<1>4. CASE s = "destination" /\ OpenGate(c)
    <2>1. /\ chanThread[s][c] = "opening" /\ SetThread(s, c, "returning")
          /\ UNCHANGED <<dataVars, faults>>
        BY <1>4 DEF OpenGate, procVars
    <2> QED
        BY <2>1, ThreadFalls DEF ThreadStates, ThreadLeft
<1>5. CASE ChannelSucceeds(s, c) \/ ChannelFails(s, c)
    <2>1. /\ chanThread[s][c] \in {"inside", "counted", "returning"} /\ SetThread(s, c, "ended")
          /\ UNCHANGED <<dataVars, faults>>
        BY <1>5 DEF ChannelSucceeds, ChannelFails, Returned, procVars
    <2> QED
        BY <2>1, ThreadFalls DEF ThreadStates, ThreadLeft
<1> QED
    BY <1>1, <1>2, <1>3, <1>4, <1>5 DEF ChannelStep

LEMMA PortalStepFalls ==
    ASSUME SessionTypeOK, SessionTypeOK', NEW s \in Sides, PortalStep(s)
    PROVE  Below(Left', Left)
<1>1. UNCHANGED <<dataVars, faults, chanThread>> /\ \A t \in Sides \ {s} : portal'[t] = portal[t]
    BY DEF PortalStep, EnterPortal, GatePassed, SendFinished, SendFinishedFails, RecvFinished,
           RecvFinishedFails, PortalEnds, procVars, SessionTypeOK
<1>2. PortalLeft[portal'[s]] < PortalLeft[portal[s]]
    BY DEF PortalStep, EnterPortal, GatePassed, SendFinished, SendFinishedFails, RecvFinished,
           RecvFinishedFails, PortalEnds, SessionTypeOK, PortalLeft
<1> QED
    BY <1>1, <1>2, PortalFalls

LEMMA DisposeStepFalls ==
    ASSUME SessionTypeOK, SessionTypeOK', NEW s \in Sides, DisposeStep(s)
    PROVE  Below(Left', Left)
<1>1. CASE \E c \in Channels : CloseChannel(s, c)
    BY <1>1, SocketFalls
<1>2. CASE ~\E c \in Channels : CloseChannel(s, c)
    <2>1. PICK from \in TeardownStages, to \in TeardownStages :
              Advance(s, from, to) /\ TeardownLeft[to] < TeardownLeft[from]
        BY <1>2 DEF DisposeStep, ClosePortal, DisposeTransfer, ResetTransfer, JoinPortal, DisposeDone,
                    TeardownStages, TeardownLeft
    <2>2. UNCHANGED <<curr_offset, srcFile, srcPc, wire, dstPc, faults, chanThread, portal>>
        BY <1>2 DEF DisposeStep, ClosePortal, DisposeTransfer, DisposeSource, DisposeDestination,
                    ResetTransfer, JoinPortal, DisposeDone, dataVars, srcVars, dstVars, threadVars, procVars
    <2> QED
        BY <2>1, <2>2, TeardownFalls
<1> QED
    BY <1>1, <1>2

LEMMA StepFalls ==
    ASSUME BlockInv, SessionTypeOK, SessionTypeOK', SessionNext
    PROVE  Below(Left', Left)
<1>1. ASSUME NEW s \in Sides, SideStep(s) PROVE Below(Left', Left)
    <2>1. CASE AssertAborts(s)
        BY <2>1, DiesFalls DEF AssertAborts
    <2> QED
        BY <1>1, <2>1, ChannelStepFalls, PortalStepFalls, DisposeStepFalls, ExitFalls DEF SideStep
<1>2. ASSUME NEW s \in Sides, Crash(s) PROVE Below(Left', Left)
    BY <1>2, DiesFalls, FaultFalls DEF Crash
<1>3. CASE Fault /\ ~\E s \in Sides : Crash(s)
    BY <1>3, FaultFalls DEF Fault, Interrupt, LoseChannel, LosePortal
<1> QED
    BY <1>1, <1>2, <1>3 DEF SessionNext, ProgramStep, Fault

\* Every step of the session leaves less to do, whether or not the gate counts
\* right: no schedule and no sequence of faults keeps it busy for ever.  A
\* session that takes no more steps has ended, by SomebodyCanStep
\* (src/src/server.cpp:312-361, src/src/client.cpp:527-543).
THEOREM EveryStepLeavesLess == SessionSpec => NothingRunsForever
<1>1. BlockInv /\ SessionTypeOK /\ SessionTypeOK' /\ [SessionNext]_vars => [Below(Left', Left)]_vars
    BY StepFalls
<1> QED
    BY <1>1, SessionImplementsTransfer, InvariantHolds, SessionTypes, PTL
    DEF SessionSpec, NothingRunsForever
=============================================================================
