--------------------------- MODULE HandshakeProofs ---------------------------
(***************************************************************************)
(* The handshake for any number of channels and any faults: a live client  *)
(* is known, a disposed client_instance is idle, the server's shutdown     *)
(* leaves no client, nobody is stuck but a server that waits for channels, *)
(* nothing runs for ever, and (when the server's gate counts the channels  *)
(* it offers) the channels meet before any of them starts.                 *)
(***************************************************************************)
EXTENDS Handshake, FiniteSetTheorems, TLAPS

USE ConnsAssumption, SetupAssumption
    DEF Conns, Sides, netVars, clientVars, instanceVars, serverVars, CloseEnd, Connected,
        RequireClientDispose, RequireServerDispose, ClientPortalGoes, ClientChannelGoes,
        ClientTeardownGoes, ServerThreadGoes, ServerTeardownGoes, ShutdownGoes, Reject,
        ResetBacklog, ServerSends, Dies, Meets

----------------------------------------------------------------------------
(* What the steps of one process leave of the other's variables.           *)

\* The client gives the server connections, and nothing else.
LEMMA ClientFrame ==
    ASSUME ClientStep
    PROVE  /\ UNCHANGED <<toClient, instanceVars, shutdown>>
           /\ \/ UNCHANGED <<sThread, link>>
              \/ /\ cPortal = "init" /\ cPortal' = "version" /\ UNCHANGED cChannel
                 /\ sThread' = [sThread EXCEPT ![Portal] = "backlog"]
                 /\ link' = [link EXCEPT ![Portal] = "up"]
              \/ \E c \in Channels :
                    /\ cChannel[c] = "connect" /\ cChannel' = [cChannel EXCEPT ![c] = "wait"]
                    /\ UNCHANGED cPortal
                    /\ sThread' = [sThread EXCEPT ![c] = "backlog"]
                    /\ link' = [link EXCEPT ![c] = "up"]
<1> USE DEF ClientStep
<1> QED
    BY DEF ClientConnects, ClientConnectFails, ClientRecvVersion, ClientRecvInfo,
       ClientCreatesChannel, ClientSendsRequest, ClientRecvResponse, ClientPrepares,
       ClientSignalsReady, ClientPortalEnters, ClientPortalEnds, ClientChannelSocket,
       ClientChannelConnects, ClientChannelConnectFails, ClientChannelPasses, ClientChannelEnters,
       ClientChannelSucceeds, ClientChannelFails, ClientDisposesChannel, ClientClosesPortal,
       ClientDropsTransfer, ClientForcesGate, ClientJoinsPortal, ClientDisposed, ClientExits

\* The server leaves the client's threads and the state of the connections alone.
LEMMA ServerFrame ==
    ASSUME ServerStep
    PROVE  UNCHANGED <<link, toServer, faults, clientVars>>
<1> QED
    BY DEF ServerStep, AcceptConnection, RecvGreeting, GreetingFails, ServerEnters, CreateClient,
       AbandonClient, LookupClient, LookupFails, RegisterChannel, RegisterFails, SignalConnected,
       ServerChannelPasses, ServerChannelSucceeds, ServerChannelFails, ServerClosesChannel,
       ServerNegotiates, ServerSendsInfo, ServerRecvRequest, ServerPrepares, ServerRefuses,
       ServerPassesGate, ServerResponds, ServerSignalsReady, ServerPortalEnds, ServerClosesPortal,
       ServerForcesGates, ServerDropsTransfer, ServerJoinsPortal, ServerDisposed, EraserChecks,
       EraserErases, StopPortal, StopChannels, LockClients, ClearClients, ServerExits

\* An abort or a fault ends a process, breaks a connection, refuses one, or
\* asks for a dispose.
LEMMA FaultFrame ==
    ASSUME Aborts \/ Fault
    PROVE  /\ UNCHANGED <<toServer, toClient, sThread, instanceVars, cPortal, cReady, cDisposed>>
           /\ shutdown' = shutdown \/ (shutdown = "live" /\ shutdown' = "required")
           /\ cTeardown' = cTeardown \/ (cTeardown = "live" /\ cTeardown' = "required")
           /\ \/ cChannel' = cChannel
              \/ \E c \in Channels :
                    cChannel[c] = "connect" /\ cChannel' = [cChannel EXCEPT ![c] = "gaveUp"]
           /\ link' = link \/ \E k \in Conns : link' = [link EXCEPT ![k] = "lost"]
<1> QED
    BY DEF Aborts, Fault, Crash, InterruptClient, InterruptServer, LoseConnection,
       RefuseConnection

----------------------------------------------------------------------------
(* Types.                                                                  *)

LEMMA TypesStep ==
    ASSUME HandshakeTypes, [Next]_vars PROVE HandshakeTypes'
<1> USE DEF HandshakeTypes, ClientPortalStates, ClientChannelStates, ServerThreadStates,
            TeardownStages, ShutdownStages
<1>1. CASE ClientStep
    <2>1. ASSUME ClientConnects PROVE HandshakeTypes'
        BY <2>1 DEF ClientConnects
    <2>2. ASSUME ClientConnectFails PROVE HandshakeTypes'
        BY <2>2 DEF ClientConnectFails
    <2>3. ASSUME ClientRecvVersion PROVE HandshakeTypes'
        BY <2>3 DEF ClientRecvVersion
    <2>4. ASSUME ClientRecvInfo PROVE HandshakeTypes'
        BY <2>4 DEF ClientRecvInfo
    <2>5. ASSUME ClientSendsRequest PROVE HandshakeTypes'
        BY <2>5 DEF ClientSendsRequest
    <2>6. ASSUME ClientRecvResponse PROVE HandshakeTypes'
        BY <2>6 DEF ClientRecvResponse
    <2>7. ASSUME ClientPrepares PROVE HandshakeTypes'
        BY <2>7 DEF ClientPrepares
    <2>8. ASSUME ClientSignalsReady PROVE HandshakeTypes'
        BY <2>8 DEF ClientSignalsReady
    <2>9. ASSUME ClientPortalEnters PROVE HandshakeTypes'
        BY <2>9 DEF ClientPortalEnters
    <2>10. ASSUME ClientPortalEnds PROVE HandshakeTypes'
        BY <2>10 DEF ClientPortalEnds
    <2>11. ASSUME ClientClosesPortal PROVE HandshakeTypes'
        BY <2>11 DEF ClientClosesPortal
    <2>12. ASSUME ClientDropsTransfer PROVE HandshakeTypes'
        BY <2>12 DEF ClientDropsTransfer
    <2>13. ASSUME ClientForcesGate PROVE HandshakeTypes'
        BY <2>13 DEF ClientForcesGate
    <2>14. ASSUME ClientJoinsPortal PROVE HandshakeTypes'
        BY <2>14 DEF ClientJoinsPortal
    <2>15. ASSUME ClientDisposed PROVE HandshakeTypes'
        BY <2>15 DEF ClientDisposed
    <2>16. ASSUME ClientExits PROVE HandshakeTypes'
        BY <2>16 DEF ClientExits
    <2>17. ASSUME NEW c \in Channels, ClientCreatesChannel(c) PROVE HandshakeTypes'
        BY <2>17 DEF ClientCreatesChannel
    <2>18. ASSUME NEW c \in Channels, ClientChannelSocket(c) PROVE HandshakeTypes'
        BY <2>18 DEF ClientChannelSocket
    <2>19. ASSUME NEW c \in Channels, ClientChannelConnects(c) PROVE HandshakeTypes'
        BY <2>19 DEF ClientChannelConnects
    <2>20. ASSUME NEW c \in Channels, ClientChannelConnectFails(c) PROVE HandshakeTypes'
        BY <2>20 DEF ClientChannelConnectFails
    <2>21. ASSUME NEW c \in Channels, ClientChannelPasses(c) PROVE HandshakeTypes'
        BY <2>21 DEF ClientChannelPasses
    <2>22. ASSUME NEW c \in Channels, ClientChannelEnters(c) PROVE HandshakeTypes'
        BY <2>22 DEF ClientChannelEnters
    <2>23. ASSUME NEW c \in Channels, ClientChannelSucceeds(c) PROVE HandshakeTypes'
        BY <2>23 DEF ClientChannelSucceeds
    <2>24. ASSUME NEW c \in Channels, ClientChannelFails(c) PROVE HandshakeTypes'
        BY <2>24 DEF ClientChannelFails
    <2>25. ASSUME NEW c \in Channels, ClientDisposesChannel(c) PROVE HandshakeTypes'
        BY <2>25 DEF ClientDisposesChannel
    <2> QED
        BY ONLY <1>1, <2>1, <2>2, <2>3, <2>4, <2>5, <2>6, <2>7, <2>8, <2>9, <2>10, <2>11, <2>12,
           <2>13, <2>14, <2>15, <2>16, <2>17, <2>18, <2>19, <2>20, <2>21, <2>22, <2>23, <2>24,
           <2>25 DEF ClientStep
<1>2. CASE ServerStep
    <2>1. ASSUME NEW k \in Conns, AcceptConnection(k) PROVE HandshakeTypes'
        BY <2>1 DEF AcceptConnection
    <2>2. ASSUME NEW k \in Conns, RecvGreeting(k) PROVE HandshakeTypes'
        BY <2>2 DEF RecvGreeting
    <2>3. ASSUME NEW k \in Conns, GreetingFails(k) PROVE HandshakeTypes'
        BY <2>3 DEF GreetingFails
    <2>4. ASSUME NEW k \in Conns, ServerEnters(k) PROVE HandshakeTypes'
        BY <2>4 DEF ServerEnters
    <2>5. ASSUME NEW c \in Channels, LookupClient(c) PROVE HandshakeTypes'
        BY <2>5 DEF LookupClient
    <2>6. ASSUME NEW c \in Channels, LookupFails(c) PROVE HandshakeTypes'
        BY <2>6 DEF LookupFails
    <2>7. ASSUME NEW c \in Channels, RegisterChannel(c) PROVE HandshakeTypes'
        BY <2>7 DEF RegisterChannel
    <2>8. ASSUME NEW c \in Channels, RegisterFails(c) PROVE HandshakeTypes'
        BY <2>8 DEF RegisterFails
    <2>9. ASSUME NEW c \in Channels, SignalConnected(c) PROVE HandshakeTypes'
        BY <2>9 DEF SignalConnected
    <2>10. ASSUME NEW c \in Channels, ServerChannelPasses(c) PROVE HandshakeTypes'
        BY <2>10 DEF ServerChannelPasses
    <2>11. ASSUME NEW c \in Channels, ServerChannelSucceeds(c) PROVE HandshakeTypes'
        BY <2>11 DEF ServerChannelSucceeds
    <2>12. ASSUME NEW c \in Channels, ServerChannelFails(c) PROVE HandshakeTypes'
        BY <2>12 DEF ServerChannelFails
    <2>13. ASSUME NEW c \in Channels, ServerClosesChannel(c) PROVE HandshakeTypes'
        BY <2>13 DEF ServerClosesChannel
    <2>14. ASSUME CreateClient PROVE HandshakeTypes'
        BY <2>14 DEF CreateClient
    <2>15. ASSUME AbandonClient PROVE HandshakeTypes'
        BY <2>15 DEF AbandonClient
    <2>16. ASSUME ServerNegotiates PROVE HandshakeTypes'
        BY <2>16 DEF ServerNegotiates, NegotiatedVersion
    <2>17. ASSUME ServerSendsInfo PROVE HandshakeTypes'
        BY <2>17 DEF ServerSendsInfo
    <2>18. ASSUME ServerRecvRequest PROVE HandshakeTypes'
        BY <2>18 DEF ServerRecvRequest
    <2>19. ASSUME ServerPrepares PROVE HandshakeTypes'
        BY <2>19 DEF ServerPrepares
    <2>20. ASSUME ServerRefuses PROVE HandshakeTypes'
        BY <2>20 DEF ServerRefuses
    <2>21. ASSUME ServerPassesGate PROVE HandshakeTypes'
        BY <2>21 DEF ServerPassesGate
    <2>22. ASSUME ServerResponds PROVE HandshakeTypes'
        BY <2>22 DEF ServerResponds
    <2>23. ASSUME ServerSignalsReady PROVE HandshakeTypes'
        BY <2>23 DEF ServerSignalsReady
    <2>24. ASSUME ServerPortalEnds PROVE HandshakeTypes'
        BY <2>24 DEF ServerPortalEnds
    <2>25. ASSUME ServerClosesPortal PROVE HandshakeTypes'
        BY <2>25 DEF ServerClosesPortal
    <2>26. ASSUME ServerForcesGates PROVE HandshakeTypes'
        BY <2>26 DEF ServerForcesGates
    <2>27. ASSUME ServerDropsTransfer PROVE HandshakeTypes'
        BY <2>27 DEF ServerDropsTransfer
    <2>28. ASSUME ServerJoinsPortal PROVE HandshakeTypes'
        BY <2>28 DEF ServerJoinsPortal
    <2>29. ASSUME ServerDisposed PROVE HandshakeTypes'
        BY <2>29 DEF ServerDisposed
    <2>30. ASSUME EraserChecks PROVE HandshakeTypes'
        BY <2>30 DEF EraserChecks
    <2>31. ASSUME EraserErases PROVE HandshakeTypes'
        <3>1. clients' = FALSE
            BY <2>31 DEF EraserErases
        <3>2. clients' \in BOOLEAN
            BY ONLY <3>1, Zenon
        <3> QED
            BY <2>31, <3>2 DEF EraserErases
    <2>32. ASSUME StopPortal PROVE HandshakeTypes'
        BY <2>32 DEF StopPortal
    <2>33. ASSUME StopChannels PROVE HandshakeTypes'
        BY <2>33 DEF StopChannels
    <2>34. ASSUME LockClients PROVE HandshakeTypes'
        BY <2>34 DEF LockClients
    <2>35. ASSUME ClearClients PROVE HandshakeTypes'
        <3>1. clients' = FALSE
            BY <2>35 DEF ClearClients
        <3>2. clients' \in BOOLEAN
            BY ONLY <3>1, Zenon
        <3> QED
            BY <2>35, <3>2 DEF ClearClients
    <2>36. ASSUME ServerExits PROVE HandshakeTypes'
        BY <2>36 DEF ServerExits
    <2> QED
        BY ONLY <1>2, <2>1, <2>2, <2>3, <2>4, <2>5, <2>6, <2>7, <2>8, <2>9, <2>10, <2>11, <2>12,
           <2>13, <2>14, <2>15, <2>16, <2>17, <2>18, <2>19, <2>20, <2>21, <2>22, <2>23, <2>24,
           <2>25, <2>26, <2>27, <2>28, <2>29, <2>30, <2>31, <2>32, <2>33, <2>34, <2>35, <2>36 DEF
           ServerStep
<1>3. CASE Aborts
    <2>1. ASSUME NEW s \in Sides, Dies(s), UNCHANGED faults PROVE HandshakeTypes'
        BY <2>1
    <2> QED
        BY <1>3, <2>1 DEF Aborts
<1>4. CASE Fault
    <2>1. ASSUME NEW s \in Sides, Crash(s) PROVE HandshakeTypes'
        BY <2>1 DEF Crash
    <2>2. ASSUME InterruptClient PROVE HandshakeTypes'
        BY <2>2 DEF InterruptClient
    <2>3. ASSUME InterruptServer PROVE HandshakeTypes'
        BY <2>3 DEF InterruptServer
    <2>4. ASSUME NEW k \in Conns, LoseConnection(k) PROVE HandshakeTypes'
        BY <2>4 DEF LoseConnection
    <2>5. ASSUME NEW c \in Channels, RefuseConnection(c) PROVE HandshakeTypes'
        BY <2>5 DEF RefuseConnection
    <2> QED
        BY ONLY <1>4, <2>1, <2>2, <2>3, <2>4, <2>5 DEF Fault
<1>5. CASE UNCHANGED vars
    BY <1>5 DEF vars
<1> QED
    BY ONLY <1>1, <1>2, <1>3, <1>4, <1>5, [Next]_vars DEF Next, ProgramStep

----------------------------------------------------------------------------
(* The server's steps by the function they belong to.                      *)

ConnectionStep ==
    \/ \E k \in Conns :
          AcceptConnection(k) \/ RecvGreeting(k) \/ GreetingFails(k) \/ ServerEnters(k)
    \/ CreateClient \/ AbandonClient
    \/ \E c \in Channels :
          LookupClient(c) \/ LookupFails(c) \/ RegisterChannel(c) \/ RegisterFails(c)

ChannelStep ==
    \/ \E c \in Channels :
          SignalConnected(c) \/ ServerChannelPasses(c) \/ ServerChannelSucceeds(c) \/
             ServerChannelFails(c)

PortalStep ==
    \/ ServerNegotiates \/ ServerSendsInfo \/ ServerRecvRequest \/ ServerPrepares \/
       ServerRefuses \/ ServerPassesGate \/ ServerResponds \/ ServerSignalsReady \/
       ServerPortalEnds

TeardownStep ==
    \/ ServerClosesPortal \/ ServerForcesGates \/ ServerDropsTransfer \/ ServerJoinsPortal \/
       ServerDisposed \/ EraserChecks \/ EraserErases
    \/ \E c \in Channels :
          ServerClosesChannel(c)

ShutdownStep ==
    \/ StopPortal \/ StopChannels \/ LockClients \/ ClearClients \/ ServerExits

LEMMA ServerSteps ==
    ServerStep => ConnectionStep \/ ChannelStep \/ PortalStep \/ TeardownStep \/ ShutdownStep
BY DEF ServerStep, ConnectionStep, ChannelStep, PortalStep, TeardownStep, ShutdownStep

\* The instance's stages: only CreateClient makes one, and dispose_impl goes on
\* only when the threads it joins have ended.
LEMMA InstanceStep ==
    ASSUME HandshakeTypes, InstanceInv, cPortal = "init" => sThread[Portal] = "none", Next
    PROVE  InstanceInv'
<1> USE DEF HandshakeTypes, InstanceInv, Ended
<1>1. CASE ClientStep
    BY <1>1, ClientFrame
<1>2. CASE ServerStep
    <2> USE ServerFrame
    <2>1. CASE ConnectionStep
        <3>1. ASSUME NEW k \in Conns,
                     AcceptConnection(k) \/ RecvGreeting(k) \/ GreetingFails(k) \/ ServerEnters(k)
              PROVE  InstanceInv'
            BY <3>1 DEF AcceptConnection, RecvGreeting, GreetingFails, ServerEnters
        <3>2. CASE CreateClient
            BY <3>2 DEF CreateClient
        <3>3. CASE AbandonClient
            BY <3>3 DEF AbandonClient
        <3>4. ASSUME NEW c \in Channels,
                     LookupClient(c) \/ LookupFails(c) \/ RegisterChannel(c) \/ RegisterFails(c)
              PROVE  InstanceInv'
            BY <3>4 DEF LookupClient, LookupFails, RegisterChannel, RegisterFails, RundownRequired
        <3> QED
            BY ONLY <2>1, <3>1, <3>2, <3>3, <3>4 DEF ConnectionStep
    <2>2. CASE ChannelStep
        BY <2>2 DEF ChannelStep, SignalConnected, ServerChannelPasses, ServerChannelSucceeds,
           ServerChannelFails, ClientsMutexFree
    <2>3. CASE PortalStep
        BY <2>3 DEF PortalStep, ServerNegotiates, ServerSendsInfo, ServerRecvRequest,
           ServerPrepares, ServerRefuses, ServerPassesGate, ServerResponds, ServerSignalsReady,
           ServerPortalEnds, ClientsMutexFree
    <2>4. CASE TeardownStep
        BY <2>4 DEF TeardownStep, ServerClosesPortal, ServerForcesGates, ServerDropsTransfer,
           ServerJoinsPortal, ServerDisposed, EraserChecks, EraserErases, ServerClosesChannel,
           ClientsMutexFree
    <2>5. CASE ShutdownStep
        BY <2>5 DEF ShutdownStep, StopPortal, StopChannels, LockClients, ClearClients,
           ServerExits, ClientsMutexFree
    <2> QED
        BY <1>2, ServerSteps, <2>1, <2>2, <2>3, <2>4, <2>5
<1>3. CASE Aborts \/ Fault
    BY <1>3, FaultFrame
<1> QED
    BY <1>1, <1>2, <1>3 DEF Next, ProgramStep

\* RegisterChannel asks for the rundown; dispose_impl clears the list when all
\* threads on it have ended.
LEMMA RegisteredStep ==
    ASSUME HandshakeTypes, ChannelsRegistered, Next PROVE ChannelsRegistered'
<1> USE DEF HandshakeTypes, ChannelsRegistered, Ended
<1>1. CASE ClientStep
    BY <1>1, ClientFrame
<1>2. CASE ServerStep
    <2> USE ServerFrame
    <2>1. CASE ConnectionStep
        BY <2>1 DEF ConnectionStep, AcceptConnection, RecvGreeting, GreetingFails, ServerEnters,
           CreateClient, AbandonClient, LookupClient, LookupFails, RegisterChannel, RegisterFails
    <2>2. CASE ChannelStep
        BY <2>2 DEF ChannelStep, SignalConnected, ServerChannelPasses, ServerChannelSucceeds,
           ServerChannelFails
    <2>3. CASE PortalStep
        BY <2>3 DEF PortalStep, ServerNegotiates, ServerSendsInfo, ServerRecvRequest,
           ServerPrepares, ServerRefuses, ServerPassesGate, ServerResponds, ServerSignalsReady,
           ServerPortalEnds
    <2>4. CASE TeardownStep
        BY <2>4 DEF TeardownStep, ServerClosesPortal, ServerForcesGates, ServerDropsTransfer,
           ServerJoinsPortal, ServerDisposed, EraserChecks, EraserErases, ServerClosesChannel
    <2>5. CASE ShutdownStep
        BY <2>5 DEF ShutdownStep, StopPortal, StopChannels, LockClients, ClearClients, ServerExits
    <2> QED
        BY <1>2, ServerSteps, <2>1, <2>2, <2>3, <2>4, <2>5
<1>3. CASE Aborts \/ Fault
    BY <1>3, FaultFrame
<1> QED
    BY <1>1, <1>2, <1>3 DEF Next, ProgramStep

\* A client's channels come after the server's first message.
LEMMA SpokenStep ==
    ASSUME HandshakeTypes, InstanceInv, ClientSpokenTo, Next PROVE ClientSpokenTo'
<1> USE DEF HandshakeTypes, InstanceInv, ClientSpokenTo
<1>1. CASE ClientStep
    BY <1>1 DEF ClientStep, CanRecv, SentBy, Peer, ClientConnects, ClientConnectFails,
       ClientRecvVersion, ClientRecvInfo, ClientCreatesChannel, ClientSendsRequest,
       ClientRecvResponse, ClientPrepares, ClientSignalsReady, ClientPortalEnters,
       ClientPortalEnds, ClientChannelSocket, ClientChannelConnects, ClientChannelConnectFails,
       ClientChannelPasses, ClientChannelEnters, ClientChannelSucceeds, ClientChannelFails,
       ClientDisposesChannel, ClientClosesPortal, ClientDropsTransfer, ClientForcesGate,
       ClientJoinsPortal, ClientDisposed, ClientExits
<1>2. CASE ServerStep
    <2> USE ServerFrame
    <2>1. CASE ConnectionStep
        BY <2>1 DEF ConnectionStep, AcceptConnection, RecvGreeting, GreetingFails, ServerEnters,
           CreateClient, AbandonClient, LookupClient, LookupFails, RegisterChannel, RegisterFails,
           Ended
    <2>2. CASE ChannelStep
        BY <2>2 DEF ChannelStep, SignalConnected, ServerChannelPasses, ServerChannelSucceeds,
           ServerChannelFails, Ended
    <2>3. CASE PortalStep
        BY <2>3 DEF PortalStep, ServerNegotiates, ServerSendsInfo, ServerRecvRequest,
           ServerPrepares, ServerRefuses, ServerPassesGate, ServerResponds, ServerSignalsReady,
           ServerPortalEnds, Ended
    <2>4. CASE TeardownStep
        BY <2>4 DEF TeardownStep, ServerClosesPortal, ServerForcesGates, ServerDropsTransfer,
           ServerJoinsPortal, ServerDisposed, EraserChecks, EraserErases, ServerClosesChannel,
           Ended
    <2>5. CASE ShutdownStep
        BY <2>5 DEF ShutdownStep, StopPortal, StopChannels, LockClients, ClearClients,
           ServerExits, Ended
    <2> QED
        BY <1>2, ServerSteps, <2>1, <2>2, <2>3, <2>4, <2>5
<1>3. CASE Aborts \/ Fault
    BY <1>3, FaultFrame
<1> QED
    BY <1>1, <1>2, <1>3 DEF Next, ProgramStep

\* A channel is rejected only for one of the three reasons, and they last.
LEMMA KnownStep ==
    ASSUME HandshakeTypes, InstanceInv, ChannelsRegistered, ClientSpokenTo, LiveClientIsKnown, Next
    PROVE  LiveClientIsKnown'
<1> USE DEF HandshakeTypes, InstanceInv, ClientSpokenTo, LiveClientIsKnown
<1>1. CASE ClientStep
    BY <1>1, ClientFrame
<1>2. CASE ServerStep
    <2> USE ServerFrame
    <2>1. CASE ConnectionStep
        BY <2>1 DEF ConnectionStep, AcceptConnection, RecvGreeting, GreetingFails, ServerEnters,
           CreateClient, AbandonClient, LookupClient, LookupFails, RegisterChannel, RegisterFails,
           RundownRequired, Ended
    <2>2. CASE ChannelStep
        BY <2>2 DEF ChannelStep, SignalConnected, ServerChannelPasses, ServerChannelSucceeds,
           ServerChannelFails, RundownRequired, Ended
    <2>3. CASE PortalStep
        BY <2>3 DEF PortalStep, ServerNegotiates, ServerSendsInfo, ServerRecvRequest,
           ServerPrepares, ServerRefuses, ServerPassesGate, ServerResponds, ServerSignalsReady,
           ServerPortalEnds, RundownRequired, Ended
    <2>4. CASE TeardownStep
        BY <2>4 DEF TeardownStep, ServerClosesPortal, ServerForcesGates, ServerDropsTransfer,
           ServerJoinsPortal, ServerDisposed, EraserChecks, EraserErases, ServerClosesChannel,
           RundownRequired, Ended
    <2>5. CASE ShutdownStep
        BY <2>5 DEF ShutdownStep, StopPortal, StopChannels, LockClients, ClearClients,
           ServerExits, RundownRequired, Ended
    <2> QED
        BY <1>2, ServerSteps, <2>1, <2>2, <2>3, <2>4, <2>5
<1>3. CASE Aborts \/ Fault
    BY <1>3, FaultFrame
<1> QED
    BY <1>1, <1>2, <1>3 DEF Next, ProgramStep

----------------------------------------------------------------------------
(* What holds whatever the gate counts.                                    *)

LEMMA InitKnown == Init => KnownInv
<1> SUFFICES ASSUME Init PROVE KnownInv
    OBVIOUS
<1>1. HandshakeTypes
    <2>1. /\ toServer \in Seq({"request"})
          /\ toClient \in Seq({"INVALID", "V1", "info", "accepted", "error"})
        BY DEF Init
    <2>2. /\ process \in [Sides -> {"running", "exited", "crashed"}]
          /\ link \in [Conns -> {"none", "up", "lost"}]
          /\ sockOpen \in [Sides -> [Conns -> BOOLEAN]]
        BY DEF Init
    <2>3. cPortal \in ClientPortalStates /\ cChannel \in [Channels -> ClientChannelStates]
        BY DEF Init, ClientPortalStates, ClientChannelStates
    <2>4. sThread \in [Conns -> ServerThreadStates]
        BY DEF Init, ServerThreadStates
    <2>5. /\ cTeardown \in TeardownStages /\ sTeardown \in TeardownStages
          /\ shutdown \in ShutdownStages /\ faults \in 0 .. MaxFaults
        BY DEF Init, TeardownStages, ShutdownStages
    <2> QED
        BY <2>1, <2>2, <2>3, <2>4, <2>5 DEF Init, HandshakeTypes
<1>2. InstanceInv /\ ChannelsRegistered /\ ClientSpokenTo /\ LiveClientIsKnown
    BY DEF Init, InstanceInv, ChannelsRegistered, ClientSpokenTo, LiveClientIsKnown
<1> QED
    BY <1>1, <1>2 DEF KnownInv

LEMMA NextKnown == KnownInv /\ [Next]_vars => KnownInv'
<1> SUFFICES ASSUME KnownInv, [Next]_vars PROVE KnownInv'
    OBVIOUS
<1>1. HandshakeTypes'
    BY TypesStep DEF KnownInv
<1>2. CASE Next
    BY <1>1, <1>2, InstanceStep, RegisteredStep, SpokenStep, KnownStep DEF KnownInv,
       ClientSpokenTo
<1>3. CASE UNCHANGED vars
    BY <1>1, <1>3 DEF vars, KnownInv, InstanceInv, ChannelsRegistered, ClientSpokenTo,
       LiveClientIsKnown, Ended
<1> QED
    BY <1>2, <1>3

\* KnownInv is inductive, for any number of channels and faults.
THEOREM KnownInvHolds == Spec => []KnownInv
BY InitKnown, NextKnown, PTL DEF Spec

\* The server turns a channel away only when its connection broke or its
\* client is being disposed (server.cpp:777-803).
THEOREM LiveClientsAreKnown == Spec => []LiveClientIsKnown
<1>1. KnownInv => LiveClientIsKnown
    BY DEF KnownInv
<1> QED
    BY <1>1, KnownInvHolds, PTL

\* When dispose_impl of a client_instance has returned, no thread is at work in
\* it, nor will one be (server.cpp:312-385, rundown_protection.h).
THEOREM DisposedInstancesAreIdle == Spec => []DisposedInstanceIsIdle
<1>1. KnownInv => DisposedInstanceIsIdle
    BY DEF KnownInv, InstanceInv, ChannelsRegistered, DisposedInstanceIsIdle, Ended
<1> QED
    BY <1>1, KnownInvHolds, PTL

\* When the server's dispose_impl has returned, every client_instance is
\* disposed and out of the map (server.cpp:606-614).
THEOREM ShutdownDisposesClients == Spec => []ShutdownLeavesNoClient
<1>1. KnownInv => ShutdownLeavesNoClient
    BY DEF KnownInv, InstanceInv, ShutdownLeavesNoClient
<1> QED
    BY <1>1, KnownInvHolds, PTL

----------------------------------------------------------------------------
(* The gates, when the server's counts the channels it offers.             *)

Messages == {"INVALID", "V1", "info", "accepted", "error"}

LEMMA Appended ==
    ASSUME NEW q \in Seq(Messages), NEW m \in Messages
    PROVE  /\ Len(Append(q, m)) = Len(q) + 1 /\ Append(q, m)[Len(q) + 1] = m
           /\ Len(q) \in Nat
BY DEF Messages

\* What the steps of fn_portal send.
LEMMA Sent ==
    ASSUME HandshakeTypes, MessagesSent, Next
    PROVE  \/ UNCHANGED toClient
           \/ /\ Len(toClient) \in 0 .. 2 /\ Len(toClient') = Len(toClient) + 1
              /\ sThread[Portal] \in {"version", "info", "prepare", "respond"}
<1>1. CASE ClientStep
    BY <1>1, ClientFrame
<1>2. CASE Aborts \/ Fault
    BY <1>2, FaultFrame
<1>3. CASE ServerStep
    <2>1. toClient \in Seq(Messages)
        BY DEF HandshakeTypes, Messages
    <2>2. \/ UNCHANGED toClient
          \/ /\ \E m \in Messages : toClient' = Append(toClient, m)
             /\ sThread[Portal] \in {"version", "info", "prepare", "respond"}
        BY <1>3 DEF ServerStep, Messages, NegotiatedVersion, AcceptConnection, RecvGreeting,
           GreetingFails, ServerEnters, CreateClient, AbandonClient, LookupClient, LookupFails,
           RegisterChannel, RegisterFails, SignalConnected, ServerChannelPasses,
           ServerChannelSucceeds, ServerChannelFails, ServerClosesChannel, ServerNegotiates,
           ServerSendsInfo, ServerRecvRequest, ServerPrepares, ServerRefuses, ServerPassesGate,
           ServerResponds, ServerSignalsReady, ServerPortalEnds, ServerClosesPortal,
           ServerForcesGates, ServerDropsTransfer, ServerJoinsPortal, ServerDisposed,
           EraserChecks, EraserErases, StopPortal, StopChannels, LockClients, ClearClients,
           ServerExits
    <2>3. CASE sThread[Portal] \in {"version", "info", "prepare", "respond"}
        <3>1. Len(toClient) \in 0 .. 2
            BY <2>3 DEF MessagesSent
        <3> QED
            BY <2>1, <2>2, <3>1, Appended
    <2> QED
        BY <2>2, <2>3
<1> QED
    BY <1>1, <1>2, <1>3 DEF Next, ProgramStep

\* The server's answer is its last message.
LEMMA OpenedStays ==
    ASSUME HandshakeTypes, MessagesSent, Next, Opened PROVE Opened'
BY Sent DEF Opened

LEMMA MessagesStep ==
    ASSUME HandshakeTypes, InstanceInv, ClientSpokenTo, MessagesSent, Next PROVE MessagesSent'
<1>0. toClient \in Seq(Messages)
    BY DEF HandshakeTypes, Messages
<1> USE DEF HandshakeTypes, InstanceInv, MessagesSent
<1>1. CASE ClientStep
    BY <1>1, ClientFrame DEF ClientSpokenTo, Opened
<1>2. CASE ServerStep
    <2>1. CASE ConnectionStep
        BY <2>1 DEF Opened, ConnectionStep, AcceptConnection, RecvGreeting, GreetingFails,
           ServerEnters, CreateClient, AbandonClient, LookupClient, LookupFails, RegisterChannel,
           RegisterFails
    <2>2. CASE ChannelStep
        BY <2>2 DEF Opened, ChannelStep, SignalConnected, ServerChannelPasses,
           ServerChannelSucceeds, ServerChannelFails
    <2>3. CASE PortalStep
        <3>1. CASE ServerNegotiates
            <4>1. \E m \in Messages : toClient' = Append(toClient, m)
                BY <3>1 DEF ServerNegotiates, NegotiatedVersion, Messages
            <4>2. Len(toClient') = 1
                BY <1>0, <3>1, <4>1, Appended DEF ServerNegotiates
            <4> QED
                BY <3>1, <4>2 DEF ServerNegotiates
        <3>2. CASE ServerSendsInfo
            <4>1. "info" \in Messages /\ toClient' = Append(toClient, "info")
                BY <3>2 DEF ServerSendsInfo, Messages
            <4>2. Len(toClient') = Len(toClient) + 1 /\ toClient'[Len(toClient')] = "info"
                BY <1>0, <4>1, Appended
            <4>3. sThread[Portal] = "info" /\ sThread'[Portal] = "request"
                BY <3>2 DEF ServerSendsInfo
            <4>4. Len(toClient) = 1
                BY ONLY MessagesSent, <4>3 DEF MessagesSent
            <4>5. Len(toClient') = 2 /\ toClient'[2] = "info"
                BY ONLY <4>2, <4>4
            <4> QED
                BY ONLY <4>3, <4>5 DEF MessagesSent, Opened
        <3>3. CASE ServerRefuses
            <4>1. "error" \in Messages /\ toClient' = Append(toClient, "error")
                BY <3>3 DEF ServerRefuses, Messages
            <4>2. Len(toClient') = Len(toClient) + 1 /\ toClient'[Len(toClient')] = "error"
                BY <1>0, <4>1, Appended
            <4>3. sThread[Portal] = "prepare" /\ sThread'[Portal] = "gaveUp"
                BY <3>3 DEF ServerRefuses
            <4>4. Len(toClient) = 2
                BY ONLY MessagesSent, <4>3 DEF MessagesSent
            <4>5. Len(toClient') = 3 /\ toClient'[3] = "error"
                BY ONLY <4>2, <4>4
            <4> QED
                BY ONLY <4>3, <4>5 DEF MessagesSent, Opened
        <3>4. CASE ServerResponds
            <4>1. "accepted" \in Messages /\ toClient' = Append(toClient, "accepted")
                BY <3>4 DEF ServerResponds, Messages
            <4>2. Len(toClient') = Len(toClient) + 1 /\ toClient'[Len(toClient')] = "accepted"
                BY <1>0, <4>1, Appended
            <4>3. sThread[Portal] = "respond" /\ sThread'[Portal] = "signal"
                BY <3>4 DEF ServerResponds
            <4>4. Len(toClient) = 2
                BY ONLY MessagesSent, <4>3 DEF MessagesSent
            <4>5. Len(toClient') = 3 /\ toClient'[3] = "accepted"
                BY ONLY <4>2, <4>4
            <4> QED
                BY ONLY <4>3, <4>5 DEF MessagesSent, Opened
        <3>5. CASE ServerRecvRequest \/ ServerPrepares \/ ServerPassesGate \/ ServerSignalsReady \/ ServerPortalEnds
            BY <3>5 DEF Opened, ServerRecvRequest, ServerPrepares, ServerPassesGate,
               ServerSignalsReady, ServerPortalEnds
        <3> QED
            BY ONLY <2>3, <3>1, <3>2, <3>3, <3>4, <3>5 DEF PortalStep
    <2>4. CASE TeardownStep
        BY <2>4 DEF Opened, TeardownStep, ServerClosesPortal, ServerForcesGates,
           ServerDropsTransfer, ServerJoinsPortal, ServerDisposed, EraserChecks, EraserErases,
           ServerClosesChannel
    <2>5. CASE ShutdownStep
        BY <2>5 DEF Opened, ShutdownStep, StopPortal, StopChannels, LockClients, ClearClients,
           ServerExits
    <2> QED
        BY <1>2, ServerSteps, <2>1, <2>2, <2>3, <2>4, <2>5
<1>3. CASE Aborts \/ Fault
    BY <1>3, FaultFrame DEF Opened
<1> QED
    BY <1>1, <1>2, <1>3 DEF Next, ProgramStep

\* A forced gate lets threads through that then see the dispose; any other has
\* been opened by the portal thread, after the server's answer.
LEMMA EarlyStep ==
    ASSUME HandshakeTypes, InstanceInv, MessagesSent, NobodyStartsEarly, Next
    PROVE  NobodyStartsEarly'
<1>0. Opened => Opened'
    BY OpenedStays
<1> USE DEF HandshakeTypes, NobodyStartsEarly, ServerForced, ClientForced
<1>1. CASE ClientStep
    <2>1. UNCHANGED <<toClient, sTeardown, sReady>> /\ Opened' = Opened
        BY <1>1, ClientFrame DEF Opened
    <2>2. sReady' /\ ~ServerForced' => Opened'
        BY <2>1
    <2>3. cReady' /\ ~ClientForced' => Opened'
        <3>1. cReady /\ ~ClientForced => Opened
            OBVIOUS
        <3>2. cPortal = "signal" => Opened
            OBVIOUS
        <3> QED
            BY <1>1, <2>1, <3>1, <3>2 DEF ClientStep, ClientConnects, ClientConnectFails,
               ClientRecvVersion, ClientRecvInfo, ClientCreatesChannel, ClientSendsRequest,
               ClientRecvResponse, ClientPrepares, ClientSignalsReady, ClientPortalEnters,
               ClientPortalEnds, ClientChannelSocket, ClientChannelConnects,
               ClientChannelConnectFails, ClientChannelPasses, ClientChannelEnters,
               ClientChannelSucceeds, ClientChannelFails, ClientDisposesChannel,
               ClientClosesPortal, ClientDropsTransfer, ClientForcesGate, ClientJoinsPortal,
               ClientDisposed, ClientExits
    <2>4. cPortal' \in {"prepare", "signal", "enter", "transfer"} => Opened'
        <3>1. CASE ClientRecvResponse
            <4>1. Len(toClient) >= 3
                BY <3>1 DEF ClientRecvResponse, CanRecv, SentBy, Peer
            <4>2. Len(toClient) <= 3 /\ Len(toClient) \in Nat
                BY DEF MessagesSent
            <4>3. Len(toClient) = 3
                BY ONLY <4>1, <4>2
            <4>4. toClient[3] = "accepted"
                BY <3>1 DEF ClientRecvResponse
            <4>5. Opened
                BY ONLY <4>3, <4>4 DEF Opened
            <4> QED
                BY <1>0, <4>5
        <3>2. CASE ~ClientRecvResponse
            BY <1>1, <2>1, <3>2 DEF ClientStep, ClientConnects, ClientConnectFails,
               ClientRecvVersion, ClientRecvInfo, ClientCreatesChannel, ClientSendsRequest,
               ClientRecvResponse, ClientPrepares, ClientSignalsReady, ClientPortalEnters,
               ClientPortalEnds, ClientChannelSocket, ClientChannelConnects,
               ClientChannelConnectFails, ClientChannelPasses, ClientChannelEnters,
               ClientChannelSucceeds, ClientChannelFails, ClientDisposesChannel,
               ClientClosesPortal, ClientDropsTransfer, ClientForcesGate, ClientJoinsPortal,
               ClientDisposed, ClientExits
        <3> QED
            BY <3>1, <3>2
    <2>5. ASSUME NEW c \in Channels PROVE cChannel'[c] \in {"enter", "transfer", "left"} => Opened'
        BY <1>1, <2>1 DEF ClientStep, ClientConnects, ClientConnectFails, ClientRecvVersion,
           ClientRecvInfo, ClientCreatesChannel, ClientSendsRequest, ClientRecvResponse,
           ClientPrepares, ClientSignalsReady, ClientPortalEnters, ClientPortalEnds,
           ClientChannelSocket, ClientChannelConnects, ClientChannelConnectFails,
           ClientChannelPasses, ClientChannelEnters, ClientChannelSucceeds, ClientChannelFails,
           ClientDisposesChannel, ClientClosesPortal, ClientDropsTransfer, ClientForcesGate,
           ClientJoinsPortal, ClientDisposed, ClientExits
    <2>6. ASSUME NEW c \in Channels PROVE sThread'[c] \in {"enter", "transfer", "left"} => Opened'
        BY <1>1, <2>1, ClientFrame
    <2> QED
        BY <2>2, <2>3, <2>4, <2>5, <2>6
<1>2. CASE ServerStep
    <2> USE <1>0, ServerFrame DEF MessagesSent, InstanceInv
    <2>1. CASE ConnectionStep
        BY <2>1 DEF ConnectionStep, AcceptConnection, RecvGreeting, GreetingFails, ServerEnters,
           CreateClient, AbandonClient, LookupClient, LookupFails, RegisterChannel, RegisterFails,
           Opened
    <2>2. CASE ChannelStep
        BY <2>2 DEF ChannelStep, SignalConnected, ServerChannelPasses, ServerChannelSucceeds,
           ServerChannelFails, Opened
    <2>3. CASE PortalStep
        BY <2>3 DEF PortalStep, ServerNegotiates, ServerSendsInfo, ServerRecvRequest,
           ServerPrepares, ServerRefuses, ServerPassesGate, ServerResponds, ServerSignalsReady,
           ServerPortalEnds, Opened
    <2>4. CASE TeardownStep
        BY <2>4 DEF TeardownStep, ServerClosesPortal, ServerForcesGates, ServerDropsTransfer,
           ServerJoinsPortal, ServerDisposed, EraserChecks, EraserErases, ServerClosesChannel,
           Opened
    <2>5. CASE ShutdownStep
        BY <2>5 DEF ShutdownStep, StopPortal, StopChannels, LockClients, ClearClients,
           ServerExits, Opened
    <2> QED
        BY <1>2, ServerSteps, <2>1, <2>2, <2>3, <2>4, <2>5
<1>3. CASE Aborts \/ Fault
    BY <1>0, <1>3, FaultFrame DEF Opened
<1> QED
    BY <1>1, <1>2, <1>3 DEF Next, ProgramStep

LEMMA TotalIsChannels == CountsAgree => total_channel_repeats_count = Cardinality(Channels)
BY DEF CountsAgree

LEMMA ArrivedFinite == IsFiniteSet(Arrived) /\ Cardinality(Arrived) \in Nat
BY FS_Subset, FS_CardinalityType DEF Arrived

\* Who has arrived stays, and only SignalConnected brings another one.
LEMMA ArrivedStep ==
    ASSUME HandshakeTypes, ChannelsRegistered, ClientSpokenTo, Next
    PROVE  \/ Arrived' = Arrived /\ ~(\E c \in Channels : SignalConnected(c))
           \/ \E c \in Channels : SignalConnected(c) /\ c \notin Arrived /\ Arrived' = Arrived \cup {c}
<1> USE DEF HandshakeTypes, Arrived
<1>1. CASE ClientStep
    <2>1. ~(\E c \in Channels : SignalConnected(c))
        BY <1>1, ClientFrame DEF SignalConnected
    <2>2. ASSUME NEW c \in Channels PROVE (c \in Arrived)' <=> c \in Arrived
        BY <1>1, ClientFrame DEF ClientSpokenTo
    <2> QED
        BY <2>1, <2>2
<1>2. CASE Aborts \/ Fault
    BY <1>2, FaultFrame DEF SignalConnected
<1>3. CASE ServerStep
    <2>1. ASSUME NEW c \in Channels, SignalConnected(c)
          PROVE  c \notin Arrived /\ Arrived' = Arrived \cup {c}
        BY <2>1 DEF SignalConnected
    <2>2. CASE ~(\E c \in Channels : SignalConnected(c))
        <3> SUFFICES ASSUME NEW c \in Channels PROVE (c \in Arrived)' <=> c \in Arrived
            BY <2>2
        <3>1. CASE ConnectionStep
            BY <3>1, <2>2 DEF ConnectionStep, AcceptConnection, RecvGreeting, GreetingFails,
               ServerEnters, CreateClient, AbandonClient, LookupClient, LookupFails,
               RegisterChannel, RegisterFails
        <3>2. CASE ChannelStep
            BY <3>2, <2>2 DEF ChannelStep, SignalConnected, ServerChannelPasses,
               ServerChannelSucceeds, ServerChannelFails
        <3>3. CASE PortalStep
            BY <3>3, <2>2 DEF PortalStep, ServerNegotiates, ServerSendsInfo, ServerRecvRequest,
               ServerPrepares, ServerRefuses, ServerPassesGate, ServerResponds,
               ServerSignalsReady, ServerPortalEnds
        <3>4. CASE TeardownStep
            BY <3>4, <2>2 DEF TeardownStep, ServerClosesPortal, ServerForcesGates,
               ServerDropsTransfer, ServerJoinsPortal, ServerDisposed, EraserChecks, EraserErases,
               ServerClosesChannel
        <3>5. CASE ShutdownStep
            BY <3>5, <2>2 DEF ShutdownStep, StopPortal, StopChannels, LockClients, ClearClients,
               ServerExits
        <3> QED
            BY <1>3, ServerSteps, <3>1, <3>2, <3>3, <3>4, <3>5
    <2> QED
        BY <2>1, <2>2
<1> QED
    BY <1>1, <1>2, <1>3 DEF Next, ProgramStep

LEMMA GateStep ==
    ASSUME CountsAgree, HandshakeTypes, InstanceInv, ChannelsRegistered, ClientSpokenTo, GateCounts,
       Next
    PROVE  GateCounts'
<1>0. total_channel_repeats_count = Cardinality(Channels) /\ Cardinality(Channels) \in Nat
    BY TotalIsChannels, FS_CardinalityType
<1>1. ASSUME NEW c \in Channels, SignalConnected(c) PROVE GateCounts'
    <2>1. c \notin Arrived /\ Arrived' = Arrived \cup {c}
        BY <1>1, ArrivedStep DEF SignalConnected, HandshakeTypes, Arrived
    <2>2. Cardinality(Arrived') = Cardinality(Arrived) + 1
        BY <2>1, ArrivedFinite, FS_AddElement
    <2>3. UNCHANGED sTeardown /\ connected' = Signalled /\ sThread'[Portal] # "respond"
        <3>1. sThread'[Portal] = sThread[Portal]
            BY <1>1 DEF SignalConnected, HandshakeTypes
        <3>2. sThread[Portal] # "respond"
            BY <2>1 DEF GateCounts
        <3> QED
            BY <1>1, <3>1, <3>2 DEF SignalConnected
    <2>4. connected'.count = connected.count + 1 /\ connected' \in [count : Nat, open : BOOLEAN]
        BY <2>3 DEF Signalled, GateCounts
    <2>5. ASSUME ~ServerForced'
          PROVE  /\ connected'.count = Cardinality(Arrived')
                 /\ connected'.open => Arrived' = Channels /\ Channels # {}
        <3>1. connected.count = Cardinality(Arrived) /\ ~connected.open
            BY <2>1, <2>3, <2>5 DEF GateCounts, ServerForced
        <3>2. connected'.open => Cardinality(Arrived') = Cardinality(Channels)
            BY <1>0, <2>2, <2>3, <3>1 DEF Signalled
        <3>3. Arrived' \subseteq Channels
            BY <2>1 DEF Arrived
        <3>4. Cardinality(Arrived') = Cardinality(Channels) => Arrived' = Channels
            BY <3>3, FS_Subset
        <3> QED
            BY <2>2, <2>4, <3>1, <3>2, <3>4
    <2> QED
        BY <2>3, <2>4, <2>5 DEF GateCounts
<1>2. CASE Arrived' = Arrived /\ ~(\E c \in Channels : SignalConnected(c))
    <2>1. ASSUME UNCHANGED connected, ServerForced' \/ ~ServerForced,
                 sThread'[Portal] # "respond" \/ sThread[Portal] = "respond"
          PROVE  GateCounts'
        BY <1>2, <2>1 DEF GateCounts
    <2>2. CASE ClientStep
        BY <1>2, <2>1, <2>2, ClientFrame DEF ServerForced, InstanceInv, HandshakeTypes,
           ClientSpokenTo
    <2>3. CASE Aborts \/ Fault
        BY <1>2, <2>1, <2>3, FaultFrame DEF ServerForced
    <2>4. CASE ServerStep
        <3>1. CASE ConnectionStep
            BY <3>1, <1>0, <1>2, <2>1 DEF ConnectionStep, AcceptConnection, RecvGreeting,
               GreetingFails, ServerEnters, CreateClient, AbandonClient, LookupClient,
               LookupFails, RegisterChannel, RegisterFails, ServerForced, InstanceInv,
               HandshakeTypes, GateCounts
        <3>2. CASE ChannelStep
            BY <3>2, <1>0, <1>2, <2>1 DEF ChannelStep, SignalConnected, ServerChannelPasses,
               ServerChannelSucceeds, ServerChannelFails, ServerForced, InstanceInv,
               HandshakeTypes, GateCounts
        <3>3. CASE PortalStep
            BY <3>3, <1>0, <1>2, <2>1 DEF PortalStep, ServerNegotiates, ServerSendsInfo,
               ServerRecvRequest, ServerPrepares, ServerRefuses, ServerPassesGate, ServerResponds,
               ServerSignalsReady, ServerPortalEnds, ServerForced, InstanceInv, HandshakeTypes,
               GateCounts
        <3>4. CASE TeardownStep
            <4>1. CASE ServerForcesGates
                <5>1. connected' \in [count : Nat, open : BOOLEAN]
                    <6>1. [count |-> Cardinality(Channels), open |-> TRUE]
                             \in [count : Nat, open : BOOLEAN]
                        BY <1>0
                    <6> QED
                        BY <1>0, <4>1, <6>1 DEF ServerForcesGates
                <5>2. ServerForced' /\ UNCHANGED sThread
                    BY <4>1 DEF ServerForcesGates, ServerForced
                <5> QED
                    BY <1>2, <5>1, <5>2 DEF GateCounts
            <4>2. CASE ~ServerForcesGates
                BY <3>4, <4>2, <1>2, <2>1 DEF TeardownStep, ServerClosesPortal,
                   ServerDropsTransfer, ServerJoinsPortal, ServerDisposed, EraserChecks,
                   EraserErases, ServerClosesChannel, ServerForced
            <4> QED
                BY <4>1, <4>2
        <3>5. CASE ShutdownStep
            BY <3>5, <1>0, <1>2, <2>1 DEF ShutdownStep, StopPortal, StopChannels, LockClients,
               ClearClients, ServerExits, ServerForced, InstanceInv, HandshakeTypes, GateCounts
        <3> QED
            BY <2>4, ServerSteps, <3>1, <3>2, <3>3, <3>4, <3>5
    <2> QED
        BY <2>2, <2>3, <2>4 DEF Next, ProgramStep
<1> QED
    BY ArrivedStep, <1>1, <1>2

LEMMA InitMeeting == Init => MeetingInv
<1> SUFFICES ASSUME Init PROVE MeetingInv
    OBVIOUS
<1>1. MessagesSent
    BY DEF Init, MessagesSent
<1>2. GateCounts
    <2>1. Arrived = {}
        BY DEF Init, Arrived
    <2>2. connected \in [count : Nat, open : BOOLEAN] /\ connected.count = 0 /\ ~connected.open
        BY DEF Init
    <2> QED
        BY <2>1, <2>2, FS_EmptySet DEF Init, GateCounts
<1>3. NobodyStartsEarly
    BY DEF Init, NobodyStartsEarly
<1> QED
    BY <1>1, <1>2, <1>3 DEF MeetingInv

LEMMA NextMeeting ==
    ASSUME CountsAgree, KnownInv, MeetingInv, [Next]_vars PROVE MeetingInv'
<1>1. CASE Next
    BY <1>1, MessagesStep, GateStep, EarlyStep DEF MeetingInv, KnownInv
<1>2. CASE UNCHANGED vars
    <2>1. UNCHANGED <<Arrived, Opened, ServerForced, ClientForced>>
        BY <1>2 DEF vars, Arrived, Opened, ServerForced, ClientForced
    <2> QED
        BY <1>2, <2>1 DEF vars, MeetingInv, MessagesSent, GateCounts, NobodyStartsEarly
<1> QED
    BY <1>1, <1>2

----------------------------------------------------------------------------
(* Who waits for whom, whatever the gate counts.                           *)

\* The client's only message.
LEMMA RequestSent ==
    ASSUME HandshakeTypes, Next
    PROVE  toServer' = toServer \/ (ClientSendsRequest /\ Len(toServer') > 0)
<1>1. CASE ClientSendsRequest
    <2>1. toServer' = Append(toServer, "request") /\ toServer \in Seq({"request"})
        BY <1>1 DEF ClientSendsRequest, HandshakeTypes
    <2>2. Len(toServer') = Len(toServer) + 1 /\ Len(toServer) \in Nat
        BY <2>1
    <2>3. Len(toServer') > 0
        BY ONLY <2>2
    <2> QED
        BY <1>1, <2>3
<1>2. CASE ClientStep /\ ~ClientSendsRequest
    BY <1>2 DEF ClientStep, ClientConnects, ClientConnectFails, ClientRecvVersion,
       ClientRecvInfo, ClientCreatesChannel, ClientSendsRequest, ClientRecvResponse,
       ClientPrepares, ClientSignalsReady, ClientPortalEnters, ClientPortalEnds,
       ClientChannelSocket, ClientChannelConnects, ClientChannelConnectFails, ClientChannelPasses,
       ClientChannelEnters, ClientChannelSucceeds, ClientChannelFails, ClientDisposesChannel,
       ClientClosesPortal, ClientDropsTransfer, ClientForcesGate, ClientJoinsPortal,
       ClientDisposed, ClientExits
<1>3. CASE ServerStep \/ Aborts \/ Fault
    BY <1>3, ServerFrame, FaultFrame
<1> QED
    BY <1>1, <1>2, <1>3 DEF Next, ProgramStep

\* A closed end stays closed: who opens one is still connecting.
LEMMA SocksStep ==
    ASSUME HandshakeTypes, InstanceInv, ClientSpokenTo, SocksInv, ClientThreadsInv, Next
    PROVE  SocksInv'
<1> USE DEF HandshakeTypes, InstanceInv, ClientSpokenTo, SocksInv, ClientThreadsInv
<1>1. CASE ClientStep
    <2>1. CASE ClientConnects
        BY <2>1 DEF ClientConnects, Running, Listening, Ended
    <2>2. CASE ClientConnectFails
        BY <2>2 DEF ClientConnectFails, Running, Listening, Ended
    <2>3. CASE ClientRecvVersion
        BY <2>3 DEF ClientRecvVersion, Running, Listening, Ended
    <2>4. CASE ClientRecvInfo
        BY <2>4 DEF ClientRecvInfo, Running, Listening, Ended
    <2>5. CASE ClientSendsRequest
        BY <2>5 DEF ClientSendsRequest, Running, Listening, Ended
    <2>6. CASE ClientRecvResponse
        BY <2>6 DEF ClientRecvResponse, Running, Listening, Ended
    <2>7. CASE ClientPrepares
        BY <2>7 DEF ClientPrepares, Running, Listening, Ended
    <2>8. CASE ClientSignalsReady
        BY <2>8 DEF ClientSignalsReady, Running, Listening, Ended
    <2>9. CASE ClientPortalEnters
        BY <2>9 DEF ClientPortalEnters, Running, Listening, Ended
    <2>10. CASE ClientPortalEnds
        BY <2>10 DEF ClientPortalEnds, Running, Listening, Ended
    <2>11. CASE ClientClosesPortal
        BY <2>11 DEF ClientClosesPortal, Running, Listening, Ended
    <2>12. CASE ClientDropsTransfer
        BY <2>12 DEF ClientDropsTransfer, Running, Listening, Ended
    <2>13. CASE ClientForcesGate
        BY <2>13 DEF ClientForcesGate, Running, Listening, Ended
    <2>14. CASE ClientJoinsPortal
        BY <2>14 DEF ClientJoinsPortal, Running, Listening, Ended
    <2>15. CASE ClientDisposed
        BY <2>15 DEF ClientDisposed, Running, Listening, Ended
    <2>16. CASE ClientExits
        BY <2>16 DEF ClientExits, Running, Listening, Ended
    <2>17. ASSUME NEW c \in Channels, ClientCreatesChannel(c) PROVE SocksInv'
        BY <2>17 DEF ClientCreatesChannel, Running, Listening, Ended
    <2>18. ASSUME NEW c \in Channels, ClientChannelSocket(c) PROVE SocksInv'
        BY <2>18 DEF ClientChannelSocket, Running, Listening, Ended
    <2>19. ASSUME NEW c \in Channels, ClientChannelConnects(c) PROVE SocksInv'
        BY <2>19 DEF ClientChannelConnects, Running, Listening, Ended
    <2>20. ASSUME NEW c \in Channels, ClientChannelConnectFails(c) PROVE SocksInv'
        BY <2>20 DEF ClientChannelConnectFails, Running, Listening, Ended
    <2>21. ASSUME NEW c \in Channels, ClientChannelPasses(c) PROVE SocksInv'
        BY <2>21 DEF ClientChannelPasses, Running, Listening, Ended
    <2>22. ASSUME NEW c \in Channels, ClientChannelEnters(c) PROVE SocksInv'
        BY <2>22 DEF ClientChannelEnters, Running, Listening, Ended
    <2>23. ASSUME NEW c \in Channels, ClientChannelSucceeds(c) PROVE SocksInv'
        BY <2>23 DEF ClientChannelSucceeds, Running, Listening, Ended
    <2>24. ASSUME NEW c \in Channels, ClientChannelFails(c) PROVE SocksInv'
        BY <2>24 DEF ClientChannelFails, Running, Listening, Ended
    <2>25. ASSUME NEW c \in Channels, ClientDisposesChannel(c) PROVE SocksInv'
        BY <2>25 DEF ClientDisposesChannel, Running, Listening, Ended
    <2> QED BY ONLY <1>1, <2>1, <2>2, <2>3, <2>4, <2>5, <2>6, <2>7, <2>8, <2>9, <2>10, <2>11,
       <2>12, <2>13, <2>14, <2>15, <2>16, <2>17, <2>18, <2>19, <2>20, <2>21, <2>22, <2>23, <2>24,
       <2>25 DEF ClientStep
<1>2. CASE ServerStep
    <2> USE ServerFrame
    <2>1. CASE ConnectionStep
        <3>1. CASE CreateClient
            BY <3>1 DEF CreateClient, Running, Listening, Ended
        <3>2. CASE AbandonClient
            BY <3>2 DEF AbandonClient, Running, Listening, Ended
        <3>3. ASSUME NEW k \in Conns, AcceptConnection(k) PROVE SocksInv'
            BY <3>3 DEF AcceptConnection, Running, Listening, Ended
        <3>4. ASSUME NEW k \in Conns, RecvGreeting(k) PROVE SocksInv'
            BY <3>4 DEF RecvGreeting, Running, Listening, Ended
        <3>5. ASSUME NEW k \in Conns, GreetingFails(k) PROVE SocksInv'
            BY <3>5 DEF GreetingFails, Running, Listening, Ended
        <3>6. ASSUME NEW k \in Conns, ServerEnters(k) PROVE SocksInv'
            BY <3>6 DEF ServerEnters, Running, Listening, Ended
        <3>7. ASSUME NEW c \in Channels, LookupClient(c) PROVE SocksInv'
            BY <3>7 DEF LookupClient, Running, Listening, Ended
        <3>8. ASSUME NEW c \in Channels, LookupFails(c) PROVE SocksInv'
            BY <3>8 DEF LookupFails, Running, Listening, Ended
        <3>9. ASSUME NEW c \in Channels, RegisterChannel(c) PROVE SocksInv'
            BY <3>9 DEF RegisterChannel, Running, Listening, Ended
        <3>10. ASSUME NEW c \in Channels, RegisterFails(c) PROVE SocksInv'
            BY <3>10 DEF RegisterFails, Running, Listening, Ended
        <3> QED BY ONLY <2>1, <3>1, <3>2, <3>3, <3>4, <3>5, <3>6, <3>7, <3>8, <3>9, <3>10 DEF
           ConnectionStep
    <2>2. CASE ChannelStep
        <3>1. ASSUME NEW c \in Channels, SignalConnected(c) PROVE SocksInv'
            BY <3>1 DEF SignalConnected, Running, Listening, Ended
        <3>2. ASSUME NEW c \in Channels, ServerChannelPasses(c) PROVE SocksInv'
            BY <3>2 DEF ServerChannelPasses, Running, Listening, Ended
        <3>3. ASSUME NEW c \in Channels, ServerChannelSucceeds(c) PROVE SocksInv'
            BY <3>3 DEF ServerChannelSucceeds, Running, Listening, Ended
        <3>4. ASSUME NEW c \in Channels, ServerChannelFails(c) PROVE SocksInv'
            BY <3>4 DEF ServerChannelFails, Running, Listening, Ended
        <3> QED BY ONLY <2>2, <3>1, <3>2, <3>3, <3>4 DEF ChannelStep
    <2>3. CASE PortalStep
        <3>1. CASE ServerNegotiates
            BY <3>1 DEF ServerNegotiates, Running, Listening, Ended
        <3>2. CASE ServerSendsInfo
            BY <3>2 DEF ServerSendsInfo, Running, Listening, Ended
        <3>3. CASE ServerRecvRequest
            BY <3>3 DEF ServerRecvRequest, Running, Listening, Ended
        <3>4. CASE ServerPrepares
            BY <3>4 DEF ServerPrepares, Running, Listening, Ended
        <3>5. CASE ServerRefuses
            BY <3>5 DEF ServerRefuses, Running, Listening, Ended
        <3>6. CASE ServerPassesGate
            BY <3>6 DEF ServerPassesGate, Running, Listening, Ended
        <3>7. CASE ServerResponds
            BY <3>7 DEF ServerResponds, Running, Listening, Ended
        <3>8. CASE ServerSignalsReady
            BY <3>8 DEF ServerSignalsReady, Running, Listening, Ended
        <3>9. CASE ServerPortalEnds
            BY <3>9 DEF ServerPortalEnds, Running, Listening, Ended
        <3> QED BY ONLY <2>3, <3>1, <3>2, <3>3, <3>4, <3>5, <3>6, <3>7, <3>8, <3>9 DEF
           PortalStep
    <2>4. CASE TeardownStep
        <3>1. CASE ServerClosesPortal
            BY <3>1 DEF ServerClosesPortal, Running, Listening, Ended
        <3>2. CASE ServerForcesGates
            BY <3>2 DEF ServerForcesGates, Running, Listening, Ended
        <3>3. CASE ServerDropsTransfer
            BY <3>3 DEF ServerDropsTransfer, Running, Listening, Ended
        <3>4. CASE ServerJoinsPortal
            BY <3>4 DEF ServerJoinsPortal, Running, Listening, Ended
        <3>5. CASE ServerDisposed
            BY <3>5 DEF ServerDisposed, Running, Listening, Ended
        <3>6. CASE EraserChecks
            BY <3>6 DEF EraserChecks, Running, Listening, Ended
        <3>7. CASE EraserErases
            BY <3>7 DEF EraserErases, Running, Listening, Ended
        <3>8. ASSUME NEW c \in Channels, ServerClosesChannel(c) PROVE SocksInv'
            BY <3>8 DEF ServerClosesChannel, Running, Listening, Ended
        <3> QED BY ONLY <2>4, <3>1, <3>2, <3>3, <3>4, <3>5, <3>6, <3>7, <3>8 DEF TeardownStep
    <2>5. CASE ShutdownStep
        <3>1. CASE StopPortal
            BY <3>1 DEF StopPortal, Running, Listening, Ended
        <3>2. CASE StopChannels
            BY <3>2 DEF StopChannels, Running, Listening, Ended
        <3>3. CASE LockClients
            BY <3>3 DEF LockClients, Running, Listening, Ended
        <3>4. CASE ClearClients
            BY <3>4 DEF ClearClients, Running, Listening, Ended
        <3>5. CASE ServerExits
            BY <3>5 DEF ServerExits, Running, Listening, Ended
        <3> QED BY ONLY <2>5, <3>1, <3>2, <3>3, <3>4, <3>5 DEF ShutdownStep
    <2> QED
        BY <1>2, ServerSteps, <2>1, <2>2, <2>3, <2>4, <2>5
<1>3. CASE Aborts \/ Fault
    <2>1. CASE InterruptClient
        BY <2>1 DEF InterruptClient, Running, Listening, Ended
    <2>2. CASE InterruptServer
        BY <2>2 DEF InterruptServer, Running, Listening, Ended
    <2>3. ASSUME NEW k \in Conns, LoseConnection(k) PROVE SocksInv'
        BY <2>3 DEF LoseConnection, Running, Listening, Ended
    <2>4. ASSUME NEW c \in Channels, RefuseConnection(c) PROVE SocksInv'
        BY <2>4 DEF RefuseConnection, Running, Listening, Ended
    <2>9. ASSUME NEW s \in Sides, Dies(s) PROVE SocksInv'
        BY <2>9 DEF Running, Listening, Ended
    <2> QED BY <1>3, <2>9, <2>1, <2>2, <2>3, <2>4 DEF Aborts, Fault, Crash
<1> QED
    BY <1>1, <1>2, <1>3 DEF Next, ProgramStep

\* The client's threads and its dispose_impl.
LEMMA ClientThreadsStep ==
    ASSUME HandshakeTypes, InstanceInv, ClientSpokenTo, SocksInv, ClientThreadsInv, Next
    PROVE  ClientThreadsInv'
<1> USE DEF HandshakeTypes, ClientSpokenTo, ClientThreadsInv
<1>1. CASE ClientStep
    <2>1. CASE ClientConnects
        BY <2>1 DEF ClientConnects, ClientForced, Ended
    <2>2. CASE ClientConnectFails
        BY <2>2 DEF ClientConnectFails, ClientForced, Ended
    <2>3. CASE ClientRecvVersion
        BY <2>3 DEF ClientRecvVersion, ClientForced, Ended
    <2>4. CASE ClientRecvInfo
        BY <2>4 DEF ClientRecvInfo, ClientForced, Ended
    <2>5. CASE ClientSendsRequest
        BY <2>5, RequestSent DEF ClientSendsRequest, ClientForced, Ended
    <2>6. CASE ClientRecvResponse
        BY <2>6 DEF ClientRecvResponse, ClientForced, Ended
    <2>7. CASE ClientPrepares
        BY <2>7 DEF ClientPrepares, ClientForced, Ended
    <2>8. CASE ClientSignalsReady
        BY <2>8 DEF ClientSignalsReady, ClientForced, Ended
    <2>9. CASE ClientPortalEnters
        BY <2>9 DEF ClientPortalEnters, ClientForced, Ended
    <2>10. CASE ClientPortalEnds
        BY <2>10 DEF ClientPortalEnds, ClientForced, Ended
    <2>11. CASE ClientClosesPortal
        BY <2>11 DEF ClientClosesPortal, ClientForced, Ended
    <2>12. CASE ClientDropsTransfer
        BY <2>12 DEF ClientDropsTransfer, ClientForced, Ended
    <2>13. CASE ClientForcesGate
        BY <2>13 DEF ClientForcesGate, ClientForced, Ended
    <2>14. CASE ClientJoinsPortal
        BY <2>14 DEF ClientJoinsPortal, ClientForced, Ended
    <2>15. CASE ClientDisposed
        BY <2>15 DEF ClientDisposed, ClientForced, Ended
    <2>16. CASE ClientExits
        BY <2>16 DEF ClientExits, ClientForced, Ended
    <2>17. ASSUME NEW c \in Channels, ClientCreatesChannel(c) PROVE ClientThreadsInv'
        BY <2>17 DEF ClientCreatesChannel, ClientForced, Ended
    <2>18. ASSUME NEW c \in Channels, ClientChannelSocket(c) PROVE ClientThreadsInv'
        BY <2>18 DEF ClientChannelSocket, ClientForced, Ended
    <2>19. ASSUME NEW c \in Channels, ClientChannelConnects(c) PROVE ClientThreadsInv'
        BY <2>19 DEF ClientChannelConnects, ClientForced, Ended
    <2>20. ASSUME NEW c \in Channels, ClientChannelConnectFails(c) PROVE ClientThreadsInv'
        BY <2>20 DEF InstanceInv, ClientChannelConnectFails, ClientForced, Ended
    <2>21. ASSUME NEW c \in Channels, ClientChannelPasses(c) PROVE ClientThreadsInv'
        BY <2>21 DEF ClientChannelPasses, ClientForced, Ended
    <2>22. ASSUME NEW c \in Channels, ClientChannelEnters(c) PROVE ClientThreadsInv'
        BY <2>22 DEF ClientChannelEnters, ClientForced, Ended
    <2>23. ASSUME NEW c \in Channels, ClientChannelSucceeds(c) PROVE ClientThreadsInv'
        BY <2>23 DEF ClientChannelSucceeds, ClientForced, Ended
    <2>24. ASSUME NEW c \in Channels, ClientChannelFails(c) PROVE ClientThreadsInv'
        BY <2>24 DEF ClientChannelFails, ClientForced, Ended
    <2>25. ASSUME NEW c \in Channels, ClientDisposesChannel(c) PROVE ClientThreadsInv'
        BY <2>25 DEF ClientDisposesChannel, ClientForced, Ended
    <2> QED BY ONLY <1>1, <2>1, <2>2, <2>3, <2>4, <2>5, <2>6, <2>7, <2>8, <2>9, <2>10, <2>11,
       <2>12, <2>13, <2>14, <2>15, <2>16, <2>17, <2>18, <2>19, <2>20, <2>21, <2>22, <2>23, <2>24,
       <2>25 DEF ClientStep
<1>2. CASE ServerStep
    <2> USE ServerFrame
    <2>1. CASE ConnectionStep
        BY <2>1 DEF ConnectionStep, AcceptConnection, RecvGreeting, GreetingFails, ServerEnters,
           CreateClient, AbandonClient, LookupClient, LookupFails, RegisterChannel, RegisterFails,
           ClientForced, Ended
    <2>2. CASE ChannelStep
        BY <2>2 DEF ChannelStep, SignalConnected, ServerChannelPasses, ServerChannelSucceeds,
           ServerChannelFails, ClientForced, Ended
    <2>3. CASE PortalStep
        BY <2>3 DEF PortalStep, ServerNegotiates, ServerSendsInfo, ServerRecvRequest,
           ServerPrepares, ServerRefuses, ServerPassesGate, ServerResponds, ServerSignalsReady,
           ServerPortalEnds, ClientForced, Ended
    <2>4. CASE TeardownStep
        BY <2>4 DEF TeardownStep, ServerClosesPortal, ServerForcesGates, ServerDropsTransfer,
           ServerJoinsPortal, ServerDisposed, EraserChecks, EraserErases, ServerClosesChannel,
           ClientForced, Ended
    <2>5. CASE ShutdownStep
        BY <2>5 DEF ShutdownStep, StopPortal, StopChannels, LockClients, ClearClients,
           ServerExits, ClientForced, Ended
    <2> QED
        BY <1>2, ServerSteps, <2>1, <2>2, <2>3, <2>4, <2>5
<1>3. CASE Aborts \/ Fault
    <2>1. CASE InterruptClient
        BY <2>1 DEF InterruptClient, ClientForced, Ended
    <2>2. CASE InterruptServer
        BY <2>2 DEF InterruptServer, ClientForced, Ended
    <2>3. ASSUME NEW k \in Conns, LoseConnection(k) PROVE ClientThreadsInv'
        BY <2>3 DEF LoseConnection, ClientForced, Ended
    <2>4. ASSUME NEW c \in Channels, RefuseConnection(c) PROVE ClientThreadsInv'
        BY <2>4 DEF InstanceInv, RefuseConnection, ClientForced, Ended
    <2>9. ASSUME NEW s \in Sides, Dies(s) PROVE ClientThreadsInv'
        BY <2>9 DEF ClientForced, Ended
    <2> QED BY <1>3, <2>9, <2>1, <2>2, <2>3, <2>4 DEF Aborts, Fault, Crash
<1> QED
    BY <1>1, <1>2, <1>3 DEF Next, ProgramStep

\* The server's threads and its dispose_impl.
LEMMA ServerThreadsStep ==
    ASSUME HandshakeTypes, InstanceInv, ChannelsRegistered, ClientSpokenTo, ServerThreadsInv, Next
    PROVE  ServerThreadsInv'
<1> USE DEF HandshakeTypes, InstanceInv, ServerThreadsInv
<1>1. CASE ClientStep
    BY <1>1, ClientFrame DEF ClientSpokenTo, ServerForced, Ended
<1>2. CASE ServerStep
    <2> USE ServerFrame
    <2>1. CASE ConnectionStep
        <3>1. CASE CreateClient
            BY <3>1 DEF CreateClient, ServerForced, Ended, RundownRequired, ClientsMutexFree,
               ChannelsRegistered
        <3>2. CASE AbandonClient
            BY <3>2 DEF AbandonClient, ServerForced, Ended, RundownRequired, ClientsMutexFree,
               ChannelsRegistered
        <3>3. ASSUME NEW k \in Conns, AcceptConnection(k) PROVE ServerThreadsInv'
            BY <3>3 DEF AcceptConnection, ServerForced, Ended, RundownRequired,
               ClientsMutexFree, ChannelsRegistered
        <3>4. ASSUME NEW k \in Conns, RecvGreeting(k) PROVE ServerThreadsInv'
            BY <3>4 DEF RecvGreeting, ServerForced, Ended, RundownRequired, ClientsMutexFree,
               ChannelsRegistered
        <3>5. ASSUME NEW k \in Conns, GreetingFails(k) PROVE ServerThreadsInv'
            BY <3>5 DEF GreetingFails, ServerForced, Ended, RundownRequired, ClientsMutexFree,
               ChannelsRegistered
        <3>6. ASSUME NEW k \in Conns, ServerEnters(k) PROVE ServerThreadsInv'
            BY <3>6 DEF ServerEnters, ServerForced, Ended, RundownRequired, ClientsMutexFree,
               ChannelsRegistered
        <3>7. ASSUME NEW c \in Channels, LookupClient(c) PROVE ServerThreadsInv'
            BY <3>7 DEF LookupClient, ServerForced, Ended, RundownRequired, ClientsMutexFree,
               ChannelsRegistered
        <3>8. ASSUME NEW c \in Channels, LookupFails(c) PROVE ServerThreadsInv'
            BY <3>8 DEF LookupFails, ServerForced, Ended, RundownRequired, ClientsMutexFree,
               ChannelsRegistered
        <3>9. ASSUME NEW c \in Channels, RegisterChannel(c) PROVE ServerThreadsInv'
            BY <3>9 DEF RegisterChannel, ServerForced, Ended, RundownRequired, ClientsMutexFree,
               ChannelsRegistered
        <3>10. ASSUME NEW c \in Channels, RegisterFails(c) PROVE ServerThreadsInv'
            BY <3>10 DEF RegisterFails, ServerForced, Ended, RundownRequired, ClientsMutexFree,
               ChannelsRegistered
        <3> QED BY ONLY <2>1, <3>1, <3>2, <3>3, <3>4, <3>5, <3>6, <3>7, <3>8, <3>9, <3>10 DEF
           ConnectionStep
    <2>2. CASE ChannelStep
        <3>1. ASSUME NEW c \in Channels, SignalConnected(c) PROVE ServerThreadsInv'
            BY <3>1 DEF Signalled, SignalConnected, ServerForced, Ended, RundownRequired, ClientsMutexFree,
               ChannelsRegistered
        <3>2. ASSUME NEW c \in Channels, ServerChannelPasses(c) PROVE ServerThreadsInv'
            BY <3>2 DEF ServerChannelPasses, ServerForced, Ended, RundownRequired,
               ClientsMutexFree, ChannelsRegistered
        <3>3. ASSUME NEW c \in Channels, ServerChannelSucceeds(c) PROVE ServerThreadsInv'
            BY <3>3 DEF ServerChannelSucceeds, ServerForced, Ended, RundownRequired,
               ClientsMutexFree, ChannelsRegistered
        <3>4. ASSUME NEW c \in Channels, ServerChannelFails(c) PROVE ServerThreadsInv'
            BY <3>4 DEF ServerChannelFails, ServerForced, Ended, RundownRequired,
               ClientsMutexFree, ChannelsRegistered
        <3> QED BY ONLY <2>2, <3>1, <3>2, <3>3, <3>4 DEF ChannelStep
    <2>3. CASE PortalStep
        BY <2>3 DEF PortalStep, ServerNegotiates, ServerSendsInfo, ServerRecvRequest,
           ServerPrepares, ServerRefuses, ServerPassesGate, ServerResponds, ServerSignalsReady,
           ServerPortalEnds, ServerForced, Ended
    <2>4. CASE TeardownStep
        BY <2>4 DEF TeardownStep, ServerClosesPortal, ServerForcesGates, ServerDropsTransfer,
           ServerJoinsPortal, ServerDisposed, EraserChecks, EraserErases, ServerClosesChannel,
           ServerForced, Ended
    <2>5. CASE ShutdownStep
        <3>1. CASE StopPortal
            BY <3>1 DEF StopPortal, ServerForced, Ended
        <3>2. CASE StopChannels
            BY <3>2 DEF StopChannels, ServerForced, Ended
        <3>3. CASE LockClients
            BY <3>3 DEF LockClients, ServerForced, Ended
        <3>4. CASE ClearClients
            BY <3>4 DEF ClearClients, ServerForced, Ended
        <3>5. CASE ServerExits
            BY <3>5 DEF ServerExits, ServerForced, Ended
        <3> QED BY ONLY <2>5, <3>1, <3>2, <3>3, <3>4, <3>5 DEF ShutdownStep
    <2> QED
        BY <1>2, ServerSteps, <2>1, <2>2, <2>3, <2>4, <2>5
<1>3. CASE Aborts \/ Fault
    BY <1>3, FaultFrame DEF Aborts, Fault, Crash, InterruptClient, InterruptServer,
       LoseConnection, RefuseConnection, ServerForced, Ended
<1> QED
    BY <1>1, <1>2, <1>3 DEF Next, ProgramStep

LEMMA TotalIsNat == total_channel_repeats_count \in Nat
BY CountingAssumption

\* The gate opens at the signal that completes the count, or never has to.
LEMMA GateOpensStep ==
    ASSUME HandshakeTypes, InstanceInv, ChannelsRegistered, ClientSpokenTo, GateOpens, Next
    PROVE  GateOpens'
<1>1. ASSUME NEW c \in Channels, SignalConnected(c) PROVE GateOpens'
    <2>1. c \notin Arrived /\ Arrived' = Arrived \cup {c}
        BY <1>1, ArrivedStep DEF SignalConnected, HandshakeTypes, Arrived
    <2>2. Cardinality(Arrived') = Cardinality(Arrived) + 1
        BY <2>1, ArrivedFinite, FS_AddElement
    <2>3. UNCHANGED sTeardown /\ connected' = Signalled
        BY <1>1 DEF SignalConnected
    <2>4. connected'.count = connected.count + 1 /\ connected' \in [count : Nat, open : BOOLEAN]
        BY <2>3 DEF Signalled, GateOpens
    <2>5. ASSUME connected.count >= total_channel_repeats_count => connected.open
          PROVE  connected'.count >= total_channel_repeats_count => connected'.open
        <3>1. connected.count \in Nat
            BY DEF GateOpens
        <3>2. connected'.open <=> connected.open \/ connected.count + 1 = total_channel_repeats_count
            BY <2>3 DEF Signalled
        <3> QED
            BY ONLY TotalIsNat, <2>4, <2>5, <3>1, <3>2
    <2> QED
        BY <2>2, <2>3, <2>4, <2>5 DEF GateOpens, ServerForced
<1>2. CASE Arrived' = Arrived /\ ~(\E c \in Channels : SignalConnected(c))
    <2>1. ASSUME UNCHANGED connected, ServerForced' \/ ~ServerForced PROVE GateOpens'
        BY <1>2, <2>1 DEF GateOpens
    <2>2. CASE ClientStep
        BY <2>1, <2>2, ClientFrame DEF ServerForced
    <2>3. CASE Aborts \/ Fault
        BY <2>1, <2>3, FaultFrame DEF ServerForced
    <2>4. CASE ServerStep
        <3>1. CASE ConnectionStep
            BY <3>1, <2>1 DEF ConnectionStep, AcceptConnection, RecvGreeting, GreetingFails,
               ServerEnters, CreateClient, AbandonClient, LookupClient, LookupFails,
               RegisterChannel, RegisterFails, ServerForced, InstanceInv
        <3>2. CASE ChannelStep
            BY <3>2, <1>2, <2>1 DEF ChannelStep, SignalConnected, ServerChannelPasses,
               ServerChannelSucceeds, ServerChannelFails, ServerForced
        <3>3. CASE PortalStep
            BY <3>3, <2>1 DEF PortalStep, ServerNegotiates, ServerSendsInfo, ServerRecvRequest,
               ServerPrepares, ServerRefuses, ServerPassesGate, ServerResponds,
               ServerSignalsReady, ServerPortalEnds, ServerForced
        <3>4. CASE TeardownStep
            <4>1. CASE ServerForcesGates
                <5>1. connected' \in [count : Nat, open : BOOLEAN]
                    <6>1. [count |-> total_channel_repeats_count, open |-> TRUE]
                             \in [count : Nat, open : BOOLEAN]
                        BY TotalIsNat
                    <6> QED
                        BY <4>1, <6>1 DEF ServerForcesGates
                <5>2. ServerForced'
                    BY <4>1 DEF ServerForcesGates, ServerForced
                <5> QED
                    BY <5>1, <5>2 DEF GateOpens
            <4>2. CASE ~ServerForcesGates
                BY <3>4, <4>2, <2>1 DEF TeardownStep, ServerClosesPortal, ServerDropsTransfer,
                   ServerJoinsPortal, ServerDisposed, EraserChecks, EraserErases,
                   ServerClosesChannel, ServerForced
            <4> QED
                BY <4>1, <4>2
        <3>5. CASE ShutdownStep
            BY <3>5, <2>1 DEF ShutdownStep, StopPortal, StopChannels, LockClients, ClearClients,
               ServerExits, ServerForced
        <3> QED
            BY <2>4, ServerSteps, <3>1, <3>2, <3>3, <3>4, <3>5
    <2> QED
        BY <2>2, <2>3, <2>4 DEF Next, ProgramStep
<1> QED
    BY ArrivedStep, <1>1, <1>2

\* What is inductive without a word on what the gate counts.
ProgressInv == KnownInv /\ MessagesSent /\ WaitingInv

LEMMA InitWaiting == Init => WaitingInv
<1> SUFFICES ASSUME Init PROVE WaitingInv
    OBVIOUS
<1>1. SocksInv /\ ClientThreadsInv /\ ServerThreadsInv
    BY DEF Init, SocksInv, ClientThreadsInv, ServerThreadsInv, ClientForced, ServerForced, Running,
       Ended
<1>2. GateOpens
    <2>1. Arrived = {} /\ Cardinality(Arrived) = 0
        BY FS_EmptySet DEF Init, Arrived
    <2>2. connected = [count |-> 0, open |-> FALSE]
        BY DEF Init
    <2>3. connected \in [count : Nat, open : BOOLEAN] /\ connected.count = 0
        BY <2>2
    <2>4. ~(0 >= total_channel_repeats_count)
        BY CountingAssumption
    <2> QED
        BY <2>1, <2>3, <2>4 DEF GateOpens
<1> QED
    BY <1>1, <1>2 DEF WaitingInv

LEMMA NextWaiting == ProgressInv /\ [Next]_vars => ProgressInv'
<1> SUFFICES ASSUME ProgressInv, [Next]_vars PROVE ProgressInv'
    OBVIOUS
<1>1. KnownInv'
    BY NextKnown DEF ProgressInv
<1>2. CASE Next
    BY <1>1, <1>2, MessagesStep, SocksStep, ClientThreadsStep, ServerThreadsStep, GateOpensStep
    DEF ProgressInv, KnownInv, WaitingInv
<1>3. CASE UNCHANGED vars
    <2>1. UNCHANGED <<Arrived, Opened, ServerForced, ClientForced>>
          /\ \A s \in Sides : Running(s)' = Running(s)
          /\ \A k \in Conns : Listening(k)' = Listening(k)
        BY <1>3 DEF vars, Arrived, Opened, ServerForced, ClientForced, Running, Listening
    <2>2. MessagesSent' /\ GateOpens'
        BY <1>3, <2>1 DEF vars, ProgressInv, WaitingInv, MessagesSent, GateOpens
    <2>3. SocksInv' /\ ClientThreadsInv' /\ ServerThreadsInv'
        BY <1>3, <2>1 DEF vars, ProgressInv, WaitingInv, SocksInv, ClientThreadsInv, ServerThreadsInv, Ended
    <2> QED
        BY <1>1, <2>2, <2>3 DEF ProgressInv, WaitingInv
<1> QED
    BY <1>2, <1>3

\* What nobody's waiting rests on holds for any number of channels and faults,
\* also when the gate counts fewer channels than the client is offered.
THEOREM ProgressInvHolds == Spec => []ProgressInv
<1>1. Init => ProgressInv
    BY InitKnown, InitMeeting, InitWaiting DEF ProgressInv, MeetingInv
<1> QED
    BY <1>1, NextWaiting, PTL DEF Spec

\* A client that waits waits for the server's next message, with nothing wrong
\* at its own end: a dispose_impl of its own never does.
LEMMA ClientWaitsForServer ==
    ASSUME ProgressInv, ClientWaits
    PROVE  /\ cTeardown = "live" /\ link[Portal] = "up" /\ \A t \in Sides : sockOpen[t][Portal]
           /\ \/ cPortal = "version" /\ Len(toClient) < 1
              \/ cPortal = "info" /\ Len(toClient) < 2
              \/ cPortal = "response"
<1> USE DEF ProgressInv, WaitingInv
<1>1. cTeardown = "gatesForced" \/ cTeardown = "rundown" => cReady
    BY DEF ClientThreadsInv, ClientForced
<1>2. cTeardown # "rundown"
    <2> SUFFICES ASSUME cTeardown = "rundown" PROVE FALSE
        OBVIOUS
    <2>1. PICK c \in cDisposed : ~Ended(cChannel[c])
        BY DEF ClientWaits
    <2>2. c \in Channels /\ cChannel[c] # "none"
        BY DEF KnownInv, HandshakeTypes, ClientThreadsInv
    <2> QED
        BY <1>1, <2>1, <2>2 DEF ClientWaits, Ended
<1>3. cPortal # "ended"
    BY <1>2 DEF ClientThreadsInv, ClientWaits
<1>4. /\ link[Portal] = "up" /\ \A t \in Sides : sockOpen[t][Portal]
      /\ \/ cPortal = "version" /\ Len(toClient) < 1
         \/ cPortal = "info" /\ Len(toClient) < 2
         \/ cPortal = "response"
    BY <1>3 DEF ClientWaits, RecvWaits, SentBy, Peer
<1>5. cTeardown \in {"live", "required"}
    BY <1>4 DEF SocksInv
<1> QED
    BY <1>4, <1>5 DEF ClientWaits

\* A dispose_impl of the server never waits: what it joins has been let go.
LEMMA ServerDisposeGoesOn ==
    ASSUME ProgressInv, ServerWaits
    PROVE  sTeardown \in {"none", "live", "done"} /\ shutdown = "live"
<1> USE DEF ProgressInv, WaitingInv
<1>1. sTeardown # "transferGone"
    <2> SUFFICES ASSUME sTeardown = "transferGone" PROVE FALSE
        OBVIOUS
    <2>1. ~Ended(sThread[Portal]) /\ ServerThreadWaits(Portal)
        BY DEF ServerWaits
    <2>2. sThread[Portal] \notin {"none", "backlog", "greeting", "create", "rejected", "lookup", "wait"}
        BY DEF KnownInv, InstanceInv, ServerThreadsInv
    <2>3. ~sockOpen["server"][Portal] /\ connected.open
        BY DEF SocksInv, ServerThreadsInv, ServerForced
    <2> QED
        BY <2>1, <2>2, <2>3 DEF ServerThreadWaits, RecvWaits, Ended
<1>2. sTeardown # "rundown"
    <2> SUFFICES ASSUME sTeardown = "rundown" PROVE FALSE
        OBVIOUS
    <2>1. PICK c \in registered : ~Ended(sThread[c])
        BY DEF ServerWaits
    <2>2. c \in Channels /\ ServerThreadWaits(c)
        BY DEF ServerWaits, KnownInv, HandshakeTypes
    <2>3. sReady /\ sThread[c] \in {"signal", "wait", "enter", "transfer", "left", "gaveUp"}
        BY <2>2 DEF ServerThreadsInv, ServerForced
    <2> QED
        BY <2>1, <2>2, <2>3 DEF ServerThreadWaits, Ended
<1>3. shutdown # "clearing"
    BY <1>1, <1>2 DEF ServerWaits, ServerThreadsInv, KnownInv, InstanceInv
<1> QED
    BY <1>1, <1>2, <1>3 DEF ServerWaits

\* Where a server's thread waits then: for the request, or at one of the gates.
LEMMA ServerThreadWaitsAt ==
    ASSUME ProgressInv, ServerWaits, Running("server"), NEW k \in Conns
    PROVE  \/ sThread[k] \in {"none", "left", "gaveUp", "rejected"}
           \/ k = Portal /\ sThread[k] = "request" /\ RecvWaits("server", 1)
           \/ k = Portal /\ sThread[k] = "gate" /\ ~connected.open
           \/ k # Portal /\ sThread[k] = "wait" /\ ~sReady
<1>1. Listening(k) /\ ClientsMutexFree /\ ServerThreadWaits(k)
    BY ServerDisposeGoesOn DEF Listening, ClientsMutexFree, ServerWaits
<1>2. /\ sThread[Portal] # "wait"
      /\ k # Portal => sThread[k] \notin {"request", "gate"}
    BY DEF ProgressInv, WaitingInv, ServerThreadsInv, KnownInv, ChannelsRegistered
<1> QED
    BY <1>1, <1>2 DEF ServerThreadWaits

\* With its client gone, the server has nothing to wait for but channels.
LEMMA ServerAlone ==
    ASSUME ProgressInv, ServerWaits, Running("server"), ~Running("client")
    PROVE  ServerWaitsForChannels \/ ServerSettled
<1> SUFFICES ASSUME ~(sThread[Portal] = "gate" /\ ~connected.open) PROVE ServerSettled
    BY DEF ServerWaitsForChannels
<1>1. ~RecvWaits("server", 1)
    BY DEF RecvWaits, ProgressInv, WaitingInv, SocksInv
<1>2. sThread[Portal] \in {"none", "left", "gaveUp", "rejected"}
    BY <1>1, ServerThreadWaitsAt
<1>3. sTeardown \in {"none", "done"} /\ shutdown = "live"
    BY <1>2, ServerDisposeGoesOn
    DEF ProgressInv, WaitingInv, ServerThreadsInv, KnownInv, InstanceInv, Ended
<1>4. ~clients
    <2>1. CASE sTeardown = "none"
        BY <2>1 DEF ProgressInv, KnownInv, InstanceInv
    <2>2. CASE sTeardown = "done"
        <3>1. ClientsMutexFree
            BY <1>3 DEF ClientsMutexFree
        <3>2. eraser \notin {"started", "locking"}
            BY <3>1 DEF ServerWaits
        <3> QED
            BY <1>3, <2>2, <3>2 DEF ProgressInv, WaitingInv, ServerThreadsInv
    <2> QED
        BY <1>3, <2>1, <2>2
<1>5. ASSUME NEW c \in Channels PROVE ~(sThread[c] = "wait" /\ ~sReady)
    BY <1>3 DEF ProgressInv, WaitingInv, ServerThreadsInv, ServerForced
<1> QED
    BY <1>1, <1>2, <1>4, <1>5, ServerThreadWaitsAt DEF ServerSettled

\* Client and server never wait for each other, but when the server waits for
\* a channel that has been turned away because its connection broke.
LEMMA BothWait ==
    ASSUME ProgressInv, ServerWaits, ClientWaits, Running("server"), Running("client")
    PROVE  ServerWaitsForChannels
<1> USE DEF ProgressInv, WaitingInv
<1>1. /\ cTeardown = "live" /\ sockOpen["server"][Portal]
      /\ \/ cPortal = "version" /\ Len(toClient) < 1
         \/ cPortal = "info" /\ Len(toClient) < 2
         \/ cPortal = "response"
    BY ClientWaitsForServer
<1>2. sTeardown \in {"none", "live"} /\ shutdown = "live"
    BY <1>1, ServerDisposeGoesOn DEF SocksInv
<1>3. sThread[Portal] \in {"request", "gate"}
    <2>1. sThread[Portal] \notin {"none", "rejected", "left", "gaveUp"}
        BY <1>1, <1>2 DEF SocksInv, ClientThreadsInv, ServerThreadsInv, KnownInv, InstanceInv, Ended
    <2> QED
        BY <2>1, ServerThreadWaitsAt
<1>4. Len(toClient) = 2
    BY <1>3 DEF MessagesSent
<1>5. cPortal = "response"
    BY <1>1, <1>4
<1>6. sThread[Portal] = "gate" /\ ~connected.open
    <2>1. Len(toServer) > 0
        BY <1>5 DEF ClientThreadsInv
    <2>2. ASSUME RecvWaits("server", 1) PROVE Len(toServer) < 1
        BY <2>2 DEF RecvWaits, SentBy, Peer
    <2>3. Len(toServer) \in Nat
        BY DEF KnownInv, HandshakeTypes
    <2>4. ~RecvWaits("server", 1)
        BY ONLY <2>1, <2>2, <2>3
    <2> QED
        BY <1>3, <2>4, ServerThreadWaitsAt
<1>7. ASSUME NEW c \in Channels PROVE sThread[c] \in {"wait", "left", "gaveUp", "rejected"}
    <2>1. cChannel[c] = "wait"
        BY <1>1, <1>5 DEF ClientWaits, ClientThreadsInv
    <2>2. sThread[c] # "none"
        BY <2>1 DEF ClientThreadsInv
    <2> QED
        BY <2>2, ServerThreadWaitsAt
<1>8. PICK c \in Channels : sThread[c] = "rejected"
    <2> SUFFICES ASSUME \A c \in Channels : sThread[c] # "rejected" PROVE FALSE
        OBVIOUS
    <2>1. Arrived = Channels
        BY <1>7 DEF Arrived
    <2>2. connected.count = Cardinality(Channels) /\ ~(connected.count >= total_channel_repeats_count)
        BY <1>2, <1>6, <2>1 DEF GateOpens, ServerForced
    <2> QED
        BY <2>2, FS_CardinalityType, CountingAssumption
<1>9. link[c] = "lost"
    BY <1>2, <1>3, <1>8 DEF KnownInv, LiveClientIsKnown
<1>10. c \notin registered
    BY <1>8 DEF ServerThreadsInv
<1> QED
    BY <1>6, <1>9, <1>10 DEF ServerWaitsForChannels

\* Whatever the schedule and the faults, when no thread of either process can
\* take a step both have come to an end, or the server waits for channels
\* (server.cpp:240): recv, gates, clients_mutex and the joins of both
\* dispose_impl never wait in a circle.
THEOREM SomebodyCanStep == Spec => []NobodyIsStuck
<1>1. ProgressInv => NobodyIsStuck
    <2> SUFFICES ASSUME ProgressInv, \A s \in Sides : Running(s) => SideWaits(s)
                 PROVE  ServerWaitsForChannels \/ (~Running("client") /\ ServerSettled)
        BY DEF NobodyIsStuck
    <2>1. (Running("client") => ClientWaits) /\ (Running("server") => ServerWaits)
        BY DEF SideWaits
    <2>2. CASE ~Running("server")
        <3>1. ~Running("client")
            BY <2>1, <2>2, ClientWaitsForServer DEF ProgressInv, WaitingInv, SocksInv
        <3> QED
            BY <2>2, <3>1 DEF ServerSettled
    <2>3. CASE Running("server")
        BY <2>1, <2>3, ServerAlone, BothWait
    <2> QED
        BY <2>2, <2>3
<1> QED
    BY <1>1, ProgressInvHolds, PTL

\* The gate's count and the channels offered are the same sum unless -P is given
\* @repeats beside a -C (src/src/program_options.cpp:403-436, src/src/server.cpp:116-131).
THEOREM ChannelCountsAgree ==
    ASSUME ChannelRepeats = <<>> \/ PortalRepeats = 0 PROVE CountsAgree
<1>1. CASE ChannelRepeats = <<>>
    BY <1>1 DEF CountsAgree, total_channel_repeats_count, OfferedChannels
<1>2. CASE ChannelRepeats # <<>> /\ PortalRepeats = 0
    BY <1>2 DEF CountsAgree, total_channel_repeats_count, OfferedChannels, arg_portal_repeats
<1> QED
    BY <1>1, <1>2

\* HandshakeInv is inductive when the server counts the channels it offers.
THEOREM HandshakeInvHolds == ASSUME CountsAgree PROVE Spec => []HandshakeInv
<1>1. Init => HandshakeInv
    BY InitKnown, InitMeeting, InitWaiting DEF HandshakeInv
<1>2. HandshakeInv /\ [Next]_vars => HandshakeInv'
    BY NextKnown, NextMeeting, NextWaiting DEF HandshakeInv, MeetingInv, ProgressInv
<1> QED
    BY <1>1, <1>2, PTL DEF Spec

----------------------------------------------------------------------------
(* Rendezvous.                                                             *)

Started(s) ==
    IF s = "client" THEN {c \in Channels : cChannel[c] \in {"transfer", "left"}}
    ELSE {c \in Channels : sThread[c] \in {"transfer", "left"}}
StartedBy == [s \in Sides |-> Started(s)]

\* The mapping, in the names used here.
LEMMA Mapping ==
    /\ Meeting!Init <=> Arrived = {} /\ Opened = FALSE /\ StartedBy = [s \in Sides |-> {}]
    /\ Meeting!Open <=>
          Arrived = Channels /\ ~Opened /\ Opened' = TRUE /\ UNCHANGED <<Arrived, StartedBy>>
    /\ \A c \in Channels : Meeting!Arrive(c) <=>
          c \notin Arrived /\ Arrived' = Arrived \cup {c} /\ UNCHANGED <<Opened, StartedBy>>
    /\ \A s \in Sides, c \in Channels : Meeting!Start(s, c) <=>
          /\ Opened /\ c \notin StartedBy[s]
          /\ StartedBy' = [StartedBy EXCEPT ![s] = @ \cup {c}]
          /\ UNCHANGED <<Arrived, Opened>>
<1> USE DEF Arrived, Opened, Started, StartedBy
<1>1. Meeting!Init <=> Arrived = {} /\ Opened = FALSE /\ StartedBy = [s \in Sides |-> {}]
    BY DEF Meeting!Init
<1>2. Meeting!Open <=>
          Arrived = Channels /\ ~Opened /\ Opened' = TRUE /\ UNCHANGED <<Arrived, StartedBy>>
    BY DEF Meeting!Open
<1>3. ASSUME NEW c \in Channels
      PROVE  Meeting!Arrive(c) <=>
                c \notin Arrived /\ Arrived' = Arrived \cup {c} /\ UNCHANGED <<Opened, StartedBy>>
    BY DEF Meeting!Arrive
<1>4. ASSUME NEW s \in Sides, NEW c \in Channels
      PROVE  Meeting!Start(s, c) <=>
                /\ Opened /\ c \notin StartedBy[s]
                /\ StartedBy' = [StartedBy EXCEPT ![s] = @ \cup {c}]
                /\ UNCHANGED <<Arrived, Opened>>
    BY DEF Meeting!Start
<1> QED
    BY <1>1, <1>2, <1>3, <1>4

\* The server says "accepted" nowhere else.
LEMMA OpenedStep ==
    ASSUME HandshakeTypes, MessagesSent, Next, ~ServerResponds PROVE Opened' <=> Opened
<1>1. Opened => Opened'
    BY OpenedStays
<1>2. ASSUME ~Opened, Opened' PROVE FALSE
    <2>1. ~UNCHANGED toClient
        BY <1>2 DEF Opened
    <2>2. Len(toClient) = 2 /\ sThread[Portal] \in {"version", "info", "prepare", "respond"}
        <3>1. Len(toClient') = 3
            BY <1>2 DEF Opened
        <3>2. /\ Len(toClient) \in 0 .. 2 /\ Len(toClient') = Len(toClient) + 1
              /\ sThread[Portal] \in {"version", "info", "prepare", "respond"}
            BY <2>1, Sent
        <3>3. ASSUME NEW n \in 0 .. 2, n + 1 = 3 PROVE n = 2
            BY <3>3
        <3>4. Len(toClient) + 1 = 3
            BY ONLY <3>1, <3>2
        <3>5. Len(toClient) = 2
            BY ONLY <3>2, <3>3, <3>4
        <3> QED
            BY <3>2, <3>5
    <2>3. sThread[Portal] \in {"prepare", "respond"}
        BY <2>2 DEF MessagesSent
    <2>4. ServerStep
        BY <2>1, ClientFrame, FaultFrame DEF Next, ProgramStep
    <2>5. ServerRefuses
        BY <2>1, <2>3, <2>4 DEF ServerStep, AcceptConnection, RecvGreeting, GreetingFails,
           ServerEnters, CreateClient, AbandonClient, LookupClient, LookupFails, RegisterChannel,
           RegisterFails, SignalConnected, ServerChannelPasses, ServerChannelSucceeds,
           ServerChannelFails, ServerNegotiates, ServerSendsInfo, ServerRecvRequest,
           ServerPrepares, ServerRefuses, ServerPassesGate, ServerResponds, ServerSignalsReady,
           ServerPortalEnds, ServerClosesPortal, ServerForcesGates, ServerDropsTransfer,
           ServerJoinsPortal, ServerDisposed, EraserChecks, EraserErases, ServerClosesChannel,
           StopPortal, StopChannels, LockClients, ClearClients, ServerExits
    <2>6. toClient' = Append(toClient, "error") /\ toClient \in Seq(Messages) /\ "error" \in Messages
        BY <2>5 DEF ServerRefuses, HandshakeTypes, Messages
    <2>7. toClient'[3] = "error"
        <3>1. toClient'[Len(toClient) + 1] = "error"
            BY <2>6, Appended
        <3>2. Len(toClient) + 1 = 3
            BY ONLY <2>2
        <3> QED
            BY ONLY <3>1, <3>2
    <2> QED
        BY <1>2, <2>7 DEF Opened
<1> QED
    BY <1>1, <1>2

LEMMA StartedStep ==
    ASSUME HandshakeTypes, ChannelsRegistered, ClientSpokenTo, Next
    PROVE  /\ (\A c \in Channels : ~ClientChannelEnters(c)) => UNCHANGED Started("client")
           /\ (\A c \in Channels : ~ServerEnters(c)) => UNCHANGED Started("server")
<1> USE DEF HandshakeTypes
<1>1. ASSUME \A c \in Channels : ~ClientChannelEnters(c) PROVE UNCHANGED Started("client")
    <2> SUFFICES ASSUME NEW c \in Channels
                 PROVE  cChannel'[c] \in {"transfer", "left"} <=> cChannel[c] \in {"transfer", "left"}
        BY DEF Started
    <2>1. CASE ClientStep
        BY <1>1, <2>1 DEF ClientStep, ClientConnects, ClientConnectFails, ClientRecvVersion,
           ClientRecvInfo, ClientCreatesChannel, ClientSendsRequest, ClientRecvResponse,
           ClientPrepares, ClientSignalsReady, ClientPortalEnters, ClientPortalEnds,
           ClientChannelSocket, ClientChannelConnects, ClientChannelConnectFails,
           ClientChannelPasses, ClientChannelEnters, ClientChannelSucceeds, ClientChannelFails,
           ClientDisposesChannel, ClientClosesPortal, ClientDropsTransfer, ClientForcesGate,
           ClientJoinsPortal, ClientDisposed, ClientExits
    <2>2. CASE ServerStep
        BY <2>2, ServerFrame
    <2>3. CASE Aborts \/ Fault
        BY <2>3, FaultFrame
    <2> QED
        BY <2>1, <2>2, <2>3 DEF Next, ProgramStep
<1>2. ASSUME \A c \in Channels : ~ServerEnters(c) PROVE UNCHANGED Started("server")
    <2> SUFFICES ASSUME NEW d \in Channels
                 PROVE  sThread'[d] \in {"transfer", "left"} <=> sThread[d] \in {"transfer", "left"}
        BY DEF Started
    <2>1. CASE ClientStep
        BY <2>1, ClientFrame DEF ClientSpokenTo
    <2>2. CASE ServerStep
        <3>1. CASE ConnectionStep
            BY <3>1, <1>2 DEF ConnectionStep, AcceptConnection, RecvGreeting, GreetingFails,
               ServerEnters, CreateClient, AbandonClient, LookupClient, LookupFails,
               RegisterChannel, RegisterFails
        <3>2. CASE ChannelStep
            BY <3>2, <1>2 DEF ChannelStep, SignalConnected, ServerChannelPasses,
               ServerChannelSucceeds, ServerChannelFails
        <3>3. CASE PortalStep
            BY <3>3, <1>2 DEF PortalStep, ServerNegotiates, ServerSendsInfo, ServerRecvRequest,
               ServerPrepares, ServerRefuses, ServerPassesGate, ServerResponds,
               ServerSignalsReady, ServerPortalEnds
        <3>4. CASE TeardownStep
            BY <3>4, <1>2 DEF TeardownStep, ServerClosesPortal, ServerForcesGates,
               ServerDropsTransfer, ServerJoinsPortal, ServerDisposed, EraserChecks, EraserErases,
               ServerClosesChannel
        <3>5. CASE ShutdownStep
            BY <3>5, <1>2 DEF ShutdownStep, StopPortal, StopChannels, LockClients, ClearClients,
               ServerExits
        <3> QED
            BY <2>2, ServerSteps, <3>1, <3>2, <3>3, <3>4, <3>5
    <2>3. CASE Aborts \/ Fault
        BY <2>3, FaultFrame
    <2> QED
        BY <2>1, <2>2, <2>3 DEF Next, ProgramStep
<1> QED
    BY <1>1, <1>2

\* Each step of the handshake is a step of the rendezvous, or none.
LEMMA MeetingStep ==
    ASSUME CountsAgree, HandshakeInv, [Next]_vars PROVE [Meeting!Next]_<<Arrived, Opened, StartedBy>>
<1> USE DEF HandshakeInv, KnownInv, MeetingInv
<1>1. CASE UNCHANGED vars
    BY <1>1 DEF vars, Arrived, Opened, StartedBy, Started
<1>2. ASSUME Next, NEW c \in Channels, SignalConnected(c) PROVE Meeting!Next
    <2>1. c \notin Arrived /\ Arrived' = Arrived \cup {c}
        BY <1>2 DEF SignalConnected, HandshakeTypes, Arrived
    <2>2. UNCHANGED <<Opened, StartedBy>>
        BY <1>2 DEF SignalConnected, HandshakeTypes, Opened, StartedBy, Started
    <2> QED
        BY <2>1, <2>2, Mapping DEF Meeting!Next
<1>3. ASSUME Next, ServerResponds PROVE Meeting!Next
    <2>1. Arrived = Channels /\ Channels # {}
        BY <1>3 DEF ServerResponds, GateCounts
    <2>2. UNCHANGED <<Arrived, StartedBy>>
        BY <1>3 DEF ServerResponds, HandshakeTypes, Arrived, StartedBy, Started
    <2>3. Len(toClient) = 2 /\ ~Opened
        <3>1. Len(toClient) = 2
            BY <1>3 DEF ServerResponds, MessagesSent
        <3>2. 2 # 3
            OBVIOUS
        <3> QED
            BY ONLY <3>1, <3>2 DEF Opened
    <2>4. Opened'
        <3>1. /\ toClient' = Append(toClient, "accepted")
              /\ toClient \in Seq(Messages) /\ "accepted" \in Messages
            BY <1>3 DEF ServerResponds, HandshakeTypes, Messages
        <3>2. Len(toClient') = Len(toClient) + 1 /\ toClient'[Len(toClient) + 1] = "accepted"
            BY <3>1, Appended
        <3>3. Len(toClient) + 1 = 3
            BY ONLY <2>3
        <3>4. Len(toClient') = 3 /\ toClient'[3] = "accepted"
            BY ONLY <3>2, <3>3
        <3> QED
            BY <3>4 DEF Opened
    <2>5. Opened' = TRUE
        BY <2>4 DEF Opened
    <2> QED
        BY <2>1, <2>2, <2>3, <2>5, Mapping DEF Meeting!Next
<1>4. ASSUME Next, NEW c \in Channels, ServerEnters(c) PROVE Meeting!Next
    <2>1. Opened
        BY <1>4 DEF ServerEnters, NobodyStartsEarly
    <2>2. UNCHANGED <<Arrived, Opened>>
        BY <1>4 DEF ServerEnters, HandshakeTypes, Arrived, Opened
    <2>3. c \notin StartedBy["server"] /\ StartedBy' = [StartedBy EXCEPT !["server"] = @ \cup {c}]
        <3>1. UNCHANGED Started("client")
            BY <1>4 DEF ServerEnters, Started
        <3>2. c \notin Started("server") /\ Started("server")' = Started("server") \cup {c}
            BY <1>4 DEF ServerEnters, HandshakeTypes, Started
        <3> QED
            BY <3>1, <3>2 DEF StartedBy
    <2> QED
        BY <2>1, <2>2, <2>3, Mapping DEF Meeting!Next
<1>5. ASSUME Next, NEW c \in Channels, ClientChannelEnters(c) PROVE Meeting!Next
    <2>1. Opened
        BY <1>5 DEF ClientChannelEnters, NobodyStartsEarly
    <2>2. UNCHANGED <<Arrived, Opened>>
        BY <1>5 DEF ClientChannelEnters, Arrived, Opened
    <2>3. c \notin StartedBy["client"] /\ StartedBy' = [StartedBy EXCEPT !["client"] = @ \cup {c}]
        <3>1. UNCHANGED Started("server")
            BY <1>5 DEF ClientChannelEnters, Started
        <3>2. c \notin Started("client") /\ Started("client")' = Started("client") \cup {c}
            BY <1>5 DEF ClientChannelEnters, HandshakeTypes, Started
        <3> QED
            BY <3>1, <3>2 DEF StartedBy
    <2> QED
        BY <2>1, <2>2, <2>3, Mapping DEF Meeting!Next
<1>6. CASE /\ Next /\ ~ServerResponds
           /\ \A c \in Channels : ~SignalConnected(c) /\ ~ServerEnters(c) /\ ~ClientChannelEnters(c)
    <2>1. UNCHANGED Arrived
        BY <1>6, ArrivedStep
    <2>2. UNCHANGED Opened
        BY <1>6, OpenedStep DEF Opened
    <2>3. UNCHANGED <<Started("client"), Started("server")>>
        BY <1>6, StartedStep
    <2> QED
        BY <2>1, <2>2, <2>3 DEF StartedBy
<1> QED
    BY <1>1, <1>2, <1>3, <1>4, <1>5, <1>6

\* ChannelsMeet: whatever number of channels is offered and whatever goes
\* wrong, no channel of either side is in its transfer (client_channel_state::
\* fn_thread_work, client_instance::fn_channel) before all have connected and
\* the server has answered, when the server's gate counts the channels it offers.
THEOREM HandshakeMeets == ASSUME CountsAgree PROVE Spec => ChannelsMeet
<1>1. Init => Meeting!Init
    BY Mapping DEF Init, Arrived, Opened, StartedBy, Started
<1>2. HandshakeInv /\ [Next]_vars => [Meeting!Next]_<<Arrived, Opened, StartedBy>>
    BY MeetingStep
<1> QED
    BY <1>1, <1>2, HandshakeInvHolds, PTL DEF Spec, ChannelsMeet, Meeting!Spec, Arrived, Opened,
       StartedBy, Started
----------------------------------------------------------------------------
(* Nothing runs for ever: every step leaves less to do.                    *)

\* How to show it: what is left falls at one place, nothing changes before it.
LEMMA FallsAt ==
    ASSUME NEW i \in 1 .. 11, Falls(Left'[i], Left[i]), \A j \in 1 .. (i - 1) : Left'[j] = Left[j]
    PROVE  Below(Left', Left)
<1>1. DOMAIN Left = 1 .. 11
    BY DEF Left
<1> QED
    BY <1>1 DEF Below

\* A number falls when it is less, a function when it falls at one argument and
\* is the same elsewhere.
LEMMA NumberFalls ==
    ASSUME NEW m \in Int, NEW n \in Int, m < n PROVE Falls(<<m>>, <<n>>)
BY DEF Falls
LEMMA FunctionFalls ==
    ASSUME NEW S, NEW m, NEW n, DOMAIN n = S, DOMAIN m = S, NEW x \in S,
           \A y \in S : m[y] \in Nat /\ n[y] \in Nat,
           m[x] < n[x], \A y \in S \ {x} : m[y] = n[y]
    PROVE  Falls(m, n)
<1>1. m # n
    OBVIOUS
<1>2. \A y \in S : m[y] <= n[y]
    OBVIOUS
<1> QED
    BY <1>1, <1>2 DEF Falls

\* What the levels are about: each is left as it is when its variable is.
LEMMA LevelsKept ==
    /\ faults' = faults => Left'[1] = Left[1]
    /\ process' = process => Left'[2] = Left[2]
    /\ cPortal' = cPortal => Left'[3] = Left[3]
    /\ cChannel' = cChannel => Left'[4] = Left[4]
    /\ cTeardown' = cTeardown => Left'[5] = Left[5]
    /\ cDisposed' = cDisposed => Left'[6] = Left[6]
    /\ shutdown' = shutdown => Left'[7] = Left[7]
    /\ sThread' = sThread => Left'[8] = Left[8]
    /\ sTeardown' = sTeardown => Left'[9] = Left[9]
    /\ eraser' = eraser => Left'[10] = Left[10]
BY DEF Left, Running

LEMMA FaultFalls ==
    ASSUME HandshakeTypes, NEW kind, Meets(kind)
    PROVE  Below(Left', Left)
<1>1. MaxFaults - faults' < MaxFaults - faults
      /\ MaxFaults - faults' \in Int /\ MaxFaults - faults \in Int
    BY DEF HandshakeTypes
<1>2. Left'[1] = <<MaxFaults - faults'>> /\ Left[1] = <<MaxFaults - faults>>
    BY DEF Left
<1>3. Falls(Left'[1], Left[1])
    BY <1>1, <1>2, NumberFalls
<1> QED
    BY <1>3, FallsAt

\* A process comes to its end once: it exits, aborts or is killed.
LEMMA EndFalls ==
    ASSUME HandshakeTypes, NEW s \in Sides, Running(s), faults' = faults,
           NEW end \in {"exited", "crashed"}, process' = [process EXCEPT ![s] = end]
    PROVE  Below(Left', Left)
<1> DEFINE R == [t \in Sides |-> One(Running(t))]
<1>0. Left[2] = R /\ Left'[2] = R'
    BY DEF Left
<1>1. \A t \in Sides : R[t] \in Nat /\ R'[t] \in Nat
    BY DEF One
<1>2. ~Running(s)' /\ \A t \in Sides \ {s} : Running(t)' = Running(t)
    BY DEF Running, HandshakeTypes
<1>3. R'[s] < R[s] /\ \A t \in Sides \ {s} : R'[t] = R[t]
    BY <1>2 DEF One
<1>4. Falls(R', R)
    <2>1. DOMAIN R = Sides /\ DOMAIN R' = Sides
        OBVIOUS
    <2> HIDE DEF R
    <2> QED
        BY <1>1, <1>3, <2>1, FunctionFalls
<1> QED
    BY <1>0, <1>4, FallsAt, LevelsKept

\* The client's portal thread comes closer to its end.
LEMMA ClientPortalFalls ==
    ASSUME HandshakeTypes, HandshakeTypes', UNCHANGED <<faults, process>>,
           ClientPortalLeft[cPortal'] < ClientPortalLeft[cPortal]
    PROVE  Below(Left', Left)
<1>1. \A st \in ClientPortalStates : ClientPortalLeft[st] \in Int
    BY DEF ClientPortalStates, ClientPortalLeft
<1>2. Left[3] = <<ClientPortalLeft[cPortal]>> /\ Left'[3] = <<ClientPortalLeft[cPortal']>>
    BY DEF Left
<1>3. Falls(Left'[3], Left[3])
    BY <1>1, <1>2, NumberFalls DEF HandshakeTypes
<1> QED
    BY <1>3, FallsAt, LevelsKept

\* A channel thread of the client comes closer to its end.
LEMMA ClientChannelFalls ==
    ASSUME HandshakeTypes, UNCHANGED <<faults, process, cPortal>>, NEW c \in Channels,
           NEW to \in ClientChannelStates, cChannel' = [cChannel EXCEPT ![c] = to],
           ClientChannelLeft[to] < ClientChannelLeft[cChannel[c]]
    PROVE  Below(Left', Left)
<1> DEFINE T == [d \in Channels |-> ClientChannelLeft[cChannel[d]]]
<1>0. Left[4] = T /\ Left'[4] = T'
    BY DEF Left
<1>1. \A st \in ClientChannelStates : ClientChannelLeft[st] \in Nat
    BY DEF ClientChannelStates, ClientChannelLeft
<1>2. cChannel \in [Channels -> ClientChannelStates]
    BY DEF HandshakeTypes
<1>3. \A d \in Channels : T[d] \in Nat /\ T'[d] \in Nat
    BY <1>1, <1>2
<1>4. T'[c] < T[c] /\ \A d \in Channels \ {c} : T'[d] = T[d]
    BY <1>2
<1>5. Falls(T', T)
    BY <1>3, <1>4, FunctionFalls
<1> QED
    BY <1>0, <1>5, FallsAt, LevelsKept

\* The client's dispose_impl comes closer to its end.
LEMMA ClientTeardownFalls ==
    ASSUME UNCHANGED <<faults, process, cPortal, cChannel>>,
           NEW from \in TeardownStages, NEW to \in TeardownStages, cTeardown = from, cTeardown' = to,
           ClientTeardownLeft[to] < ClientTeardownLeft[from]
    PROVE  Below(Left', Left)
<1>1. \A st \in TeardownStages : ClientTeardownLeft[st] \in Int
    BY DEF TeardownStages, ClientTeardownLeft
<1>2. Left[5] = <<ClientTeardownLeft[from]>> /\ Left'[5] = <<ClientTeardownLeft[to]>>
    BY DEF Left
<1>3. Falls(Left'[5], Left[5])
    BY <1>1, <1>2, NumberFalls
<1> QED
    BY <1>3, FallsAt, LevelsKept

\* It calls dispose() on one channel more.
LEMMA ClientDisposesFalls ==
    ASSUME NEW c \in Channels, ClientDisposesChannel(c)
    PROVE  Below(Left', Left)
<1> DEFINE D == [d \in Channels |-> One(d \notin cDisposed)]
<1>0. Left[6] = D /\ Left'[6] = D'
    BY DEF Left
<1>1. \A d \in Channels : D[d] \in Nat /\ D'[d] \in Nat
    BY DEF One
<1>2. /\ c \notin cDisposed /\ cDisposed' = cDisposed \cup {c}
      /\ UNCHANGED <<faults, process, cPortal, cChannel, cTeardown>>
    BY DEF ClientDisposesChannel
<1>3. D'[c] < D[c] /\ \A d \in Channels \ {c} : D'[d] = D[d]
    BY <1>2 DEF One
<1>4. Falls(D', D)
    <2>1. DOMAIN D = Channels /\ DOMAIN D' = Channels
        OBVIOUS
    <2> HIDE DEF D
    <2> QED
        BY <1>1, <1>3, <2>1, FunctionFalls
<1> QED
    BY <1>0, <1>2, <1>4, FallsAt, LevelsKept

\* The server's shutdown comes closer to its end.
LEMMA ShutdownFalls ==
    ASSUME HandshakeTypes, HandshakeTypes', UNCHANGED <<faults, process, clientVars>>,
           ShutdownLeft[shutdown'] < ShutdownLeft[shutdown]
    PROVE  Below(Left', Left)
<1>1. \A st \in ShutdownStages : ShutdownLeft[st] \in Int
    BY DEF ShutdownStages, ShutdownLeft
<1>2. Left[7] = <<ShutdownLeft[shutdown]>> /\ Left'[7] = <<ShutdownLeft[shutdown']>>
    BY DEF Left
<1>3. Falls(Left'[7], Left[7])
    BY <1>1, <1>2, NumberFalls DEF HandshakeTypes
<1> QED
    BY <1>3, FallsAt, LevelsKept

\* The thread of an accepted connection comes closer to its end.
LEMMA ServerThreadFalls ==
    ASSUME HandshakeTypes, NEW k \in Conns, NEW from \in ServerThreadStates,
           NEW to \in ServerThreadStates, ServerThreadGoes(k, from, to),
           ServerThreadLeft[to] < ServerThreadLeft[from]
    PROVE  Below(Left', Left)
<1> DEFINE T == [l \in Conns |-> ServerThreadLeft[sThread[l]]]
<1>0. Left[8] = T /\ Left'[8] = T'
    BY DEF Left
<1>1. \A st \in ServerThreadStates : ServerThreadLeft[st] \in Nat
    BY DEF ServerThreadStates, ServerThreadLeft
<1>2. /\ sThread \in [Conns -> ServerThreadStates] /\ sThread[k] = from
      /\ sThread' = [sThread EXCEPT ![k] = to]
      /\ UNCHANGED <<faults, process, cPortal, cChannel, cTeardown, cDisposed, shutdown>>
    BY DEF HandshakeTypes
<1>3. \A l \in Conns : T[l] \in Nat /\ T'[l] \in Nat
    BY <1>1, <1>2
<1>4. T'[k] < T[k] /\ \A l \in Conns \ {k} : T'[l] = T[l]
    BY <1>2
<1>5. Falls(T', T)
    BY <1>3, <1>4, FunctionFalls
<1> QED
    BY <1>0, <1>2, <1>5, FallsAt, LevelsKept

\* client_instance::dispose_impl comes closer to its end.
LEMMA ServerTeardownFalls ==
    ASSUME NEW from \in TeardownStages, NEW to \in TeardownStages, ServerTeardownGoes(from, to),
           ServerTeardownLeft[to] < ServerTeardownLeft[from]
    PROVE  Below(Left', Left)
<1>1. \A st \in TeardownStages : ServerTeardownLeft[st] \in Int
    BY DEF TeardownStages, ServerTeardownLeft
<1>2. Left[9] = <<ServerTeardownLeft[from]>> /\ Left'[9] = <<ServerTeardownLeft[to]>>
    BY DEF Left
<1>3. Falls(Left'[9], Left[9])
    BY <1>1, <1>2, NumberFalls
<1> QED
    BY <1>3, FallsAt, LevelsKept

\* The thread that removes the client_instance comes closer to its end.
LEMMA EraserFalls ==
    ASSUME EraserChecks \/ EraserErases
    PROVE  Below(Left', Left)
<1>1. EraserLeft[eraser'] < EraserLeft[eraser] /\ EraserLeft[eraser'] \in Int /\ EraserLeft[eraser] \in Int
    BY DEF EraserChecks, EraserErases, EraserLeft
<1>2. Left[10] = <<EraserLeft[eraser]>> /\ Left'[10] = <<EraserLeft[eraser']>>
    BY DEF Left
<1>3. Falls(Left'[10], Left[10])
    BY <1>1, <1>2, NumberFalls
<1> QED
    BY <1>3, FallsAt, LevelsKept DEF EraserChecks, EraserErases

\* The server closes one channel socket more.
LEMMA ServerClosesFalls ==
    ASSUME HandshakeTypes, NEW c \in Channels, ServerClosesChannel(c)
    PROVE  Below(Left', Left)
<1> DEFINE O == [d \in Channels |-> One(sockOpen["server"][d])]
<1>0. Left[11] = O /\ Left'[11] = O'
    BY DEF Left
<1>1. \A d \in Channels : O[d] \in Nat /\ O'[d] \in Nat
    BY DEF One
<1>2. /\ sockOpen["server"][c] /\ ~sockOpen'["server"][c]
      /\ \A d \in Channels \ {c} : sockOpen'["server"][d] = sockOpen["server"][d]
    <2>1. sockOpen \in [Sides -> [Conns -> BOOLEAN]]
        BY DEF HandshakeTypes
    <2>2. sockOpen["server"][c]
          /\ sockOpen' = [sockOpen EXCEPT !["server"] = [k \in Conns |-> @[k] /\ k \notin {c}]]
        BY DEF ServerClosesChannel
    <2>3. sockOpen'["server"] = [k \in Conns |-> sockOpen["server"][k] /\ k # c]
        BY <2>1, <2>2
    <2>4. ~sockOpen'["server"][c]
        BY <2>3
    <2>5. ASSUME NEW d \in Channels \ {c} PROVE sockOpen'["server"][d] = sockOpen["server"][d]
        <3>1. sockOpen'["server"][d] = (sockOpen["server"][d] /\ d # c) /\ sockOpen["server"][d] \in BOOLEAN
            BY <2>1, <2>3
        <3> QED
            BY <3>1
    <2> QED
        BY ONLY <2>2, <2>4, <2>5
<1>3. O'[c] < O[c] /\ \A d \in Channels \ {c} : O'[d] = O[d]
    BY <1>2 DEF One
<1>4. Falls(O', O)
    <2>1. DOMAIN O = Channels /\ DOMAIN O' = Channels
        OBVIOUS
    <2> HIDE DEF O
    <2> QED
        BY <1>1, <1>3, <2>1, FunctionFalls
<1> QED
    BY <1>0, <1>4, FallsAt, LevelsKept DEF ServerClosesChannel

LEMMA ClientStepFalls ==
    ASSUME HandshakeTypes, HandshakeTypes', ClientStep
    PROVE  Below(Left', Left)
<1>1. CASE \/ ClientConnects \/ ClientConnectFails \/ ClientRecvVersion \/ ClientRecvInfo
           \/ ClientSendsRequest \/ ClientRecvResponse \/ ClientPrepares
           \/ ClientSignalsReady \/ ClientPortalEnters \/ ClientPortalEnds
    <2>1. UNCHANGED <<faults, process>> /\ ClientPortalLeft[cPortal'] < ClientPortalLeft[cPortal]
        BY <1>1 DEF ClientConnects, ClientConnectFails, ClientRecvVersion, ClientRecvInfo,
                    ClientSendsRequest, ClientRecvResponse, ClientPrepares, ClientSignalsReady,
                    ClientPortalEnters, ClientPortalEnds, ClientPortalLeft
    <2> QED
        BY <2>1, ClientPortalFalls
<1>2. ASSUME NEW c \in Channels,
             \/ ClientCreatesChannel(c)
             \/ ClientChannelSocket(c) \/ ClientChannelConnects(c) \/ ClientChannelConnectFails(c)
             \/ ClientChannelPasses(c) \/ ClientChannelEnters(c)
             \/ ClientChannelSucceeds(c) \/ ClientChannelFails(c)
      PROVE Below(Left', Left)
    <2>1. /\ UNCHANGED <<faults, process, cPortal>>
          /\ \E to \in ClientChannelStates :
                cChannel' = [cChannel EXCEPT ![c] = to]
                /\ ClientChannelLeft[to] < ClientChannelLeft[cChannel[c]]
        BY <1>2 DEF ClientCreatesChannel, ClientChannelSocket, ClientChannelConnects,
                    ClientChannelConnectFails, ClientChannelPasses, ClientChannelEnters,
                    ClientChannelSucceeds, ClientChannelFails, ClientChannelLeft, ClientChannelStates
    <2> QED
        BY <2>1, ClientChannelFalls
<1>3. CASE ClientClosesPortal \/ ClientDropsTransfer \/ ClientForcesGate \/ ClientJoinsPortal \/ ClientDisposed
    <2>1. /\ UNCHANGED <<faults, process, cPortal, cChannel>>
          /\ \E from \in TeardownStages, to \in TeardownStages :
                /\ cTeardown = from /\ cTeardown' = to
                /\ ClientTeardownLeft[to] < ClientTeardownLeft[from]
        BY <1>3 DEF ClientClosesPortal, ClientDropsTransfer, ClientForcesGate, ClientJoinsPortal,
                    ClientDisposed, TeardownStages, ClientTeardownLeft
    <2> QED
        BY <2>1, ClientTeardownFalls
<1>4. CASE ClientExits
    BY <1>4, EndFalls DEF ClientExits
<1> QED
    BY ONLY ClientStep, <1>1, <1>2, <1>3, <1>4, ClientDisposesFalls DEF ClientStep

LEMMA ServerStepFalls ==
    ASSUME HandshakeTypes, HandshakeTypes', ServerStep
    PROVE  Below(Left', Left)
<1>1. ASSUME NEW k \in Conns,
             AcceptConnection(k) \/ RecvGreeting(k) \/ GreetingFails(k) \/ ServerEnters(k)
      PROVE Below(Left', Left)
    <2>1. \E from \in ServerThreadStates, to \in ServerThreadStates :
              ServerThreadGoes(k, from, to) /\ ServerThreadLeft[to] < ServerThreadLeft[from]
        BY <1>1 DEF AcceptConnection, RecvGreeting, GreetingFails, ServerEnters, ServerThreadStates,
                    ServerThreadLeft
    <2> QED
        BY <2>1, ServerThreadFalls
<1>2. ASSUME NEW c \in Channels,
             \/ LookupClient(c) \/ LookupFails(c) \/ RegisterChannel(c) \/ RegisterFails(c)
             \/ SignalConnected(c) \/ ServerChannelPasses(c)
             \/ ServerChannelSucceeds(c) \/ ServerChannelFails(c)
      PROVE Below(Left', Left)
    <2>1. \E from \in ServerThreadStates, to \in ServerThreadStates :
              ServerThreadGoes(c, from, to) /\ ServerThreadLeft[to] < ServerThreadLeft[from]
        BY <1>2 DEF LookupClient, LookupFails, RegisterChannel, RegisterFails, SignalConnected,
                    ServerChannelPasses, ServerChannelSucceeds, ServerChannelFails,
                    ServerThreadStates, ServerThreadLeft
    <2> QED
        BY <2>1, ServerThreadFalls
<1>3. CASE \/ CreateClient \/ AbandonClient
           \/ ServerNegotiates \/ ServerSendsInfo \/ ServerRecvRequest \/ ServerPrepares \/ ServerRefuses
           \/ ServerPassesGate \/ ServerResponds \/ ServerSignalsReady \/ ServerPortalEnds
    <2>1. \E from \in ServerThreadStates, to \in ServerThreadStates :
              ServerThreadGoes(Portal, from, to) /\ ServerThreadLeft[to] < ServerThreadLeft[from]
        BY <1>3 DEF CreateClient, AbandonClient, ServerNegotiates, ServerSendsInfo, ServerRecvRequest,
                    ServerPrepares, ServerRefuses, ServerPassesGate, ServerResponds,
                    ServerSignalsReady, ServerPortalEnds, ServerThreadStates, ServerThreadLeft
    <2> QED
        BY <2>1, ServerThreadFalls
<1>4. CASE \/ ServerClosesPortal \/ ServerForcesGates \/ ServerDropsTransfer \/ ServerJoinsPortal
           \/ ServerDisposed
    <2>1. \E from \in TeardownStages, to \in TeardownStages :
              ServerTeardownGoes(from, to) /\ ServerTeardownLeft[to] < ServerTeardownLeft[from]
        BY <1>4 DEF ServerClosesPortal, ServerForcesGates, ServerDropsTransfer, ServerJoinsPortal,
                    ServerDisposed, TeardownStages, ServerTeardownLeft
    <2> QED
        BY <2>1, ServerTeardownFalls
<1>5. CASE StopPortal \/ StopChannels \/ LockClients \/ ClearClients
    <2>1. UNCHANGED <<faults, process, clientVars>> /\ ShutdownLeft[shutdown'] < ShutdownLeft[shutdown]
        BY <1>5 DEF StopPortal, StopChannels, LockClients, ClearClients, ShutdownLeft
    <2> QED
        BY <2>1, ShutdownFalls
<1>6. CASE ServerExits
    BY <1>6, EndFalls DEF ServerExits
<1> QED
    BY ONLY HandshakeTypes, ServerStep, <1>1, <1>2, <1>3, <1>4, <1>5, <1>6, EraserFalls,
       ServerClosesFalls DEF ServerStep

LEMMA StepFalls ==
    ASSUME HandshakeTypes, HandshakeTypes', Next
    PROVE  Below(Left', Left)
<1>1. CASE Aborts
    BY <1>1, EndFalls DEF Aborts
<1>2. CASE Fault
    BY <1>2, FaultFalls DEF Fault, Crash, InterruptClient, InterruptServer, LoseConnection,
                            RefuseConnection
<1> QED
    BY <1>1, <1>2, ClientStepFalls, ServerStepFalls DEF Next, ProgramStep

\* Every step of either process leaves less to do: no thread connects or waits
\* a second time, no dispose_impl starts again, and every channel is disposed
\* once, whatever the schedule and the faults.  A handshake that takes no more
\* steps has ended, or its server waits for channels, by SomebodyCanStep
\* (src/src/client.cpp:115-211, src/src/server.cpp:66-302).
THEOREM EveryStepLeavesLess == Spec => NothingRunsForever
<1>1. HandshakeTypes /\ HandshakeTypes' /\ [Next]_vars => [Below(Left', Left)]_vars
    BY StepFalls
<1>2. KnownInv => HandshakeTypes
    BY DEF KnownInv
<1> QED
    BY <1>1, <1>2, KnownInvHolds, PTL DEF Spec, NothingRunsForever
=============================================================================
