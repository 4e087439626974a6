----------------------------- MODULE Handshake -----------------------------
(***************************************************************************)
(* How one transfer of xcp comes to be: the client's portal and channels   *)
(* connect to the server (protocol V1, the comment at the head of          *)
(* server.cpp), the server finds the client_instance each connection       *)
(* belongs to, and gates hold the channel threads back until both portals  *)
(* agree.  Either process may be told to exit, or die, and any connection  *)
(* may break, at any moment.  What happens inside the transfer is          *)
(* BlockTransfer and TransferSession; here a thread that has entered it    *)
(* comes out of it some time later.                                        *)
(***************************************************************************)
EXTENDS Descent, Sequences, FiniteSets, Functions

CONSTANTS
    Portal,          \* the portal connection
    Channels,        \* the channel connections, all repeats included
    PortalChannels,  \* those of them that connect to the portal's own endpoint
    PortalRepeats,   \* the @repeats of -P (0: not given)
    ChannelRepeats,  \* the @repeats of each -C, in order
    Upload,          \* the transfer goes from the client to the server
    ClientVersions,  \* protocol version ranges of the clients in use
    Faults,          \* the kinds of fault of this instance
    MaxFaults        \* bound: how many faults happen

Conns == Channels \cup {Portal}
Sides == {"client", "server"}
Peer(s) == IF s = "client" THEN "server" ELSE "client"
FaultKinds ==
    {"loss",       \* a TCP connection breaks
     "refuse",     \* a channel cannot be connected
     "interrupt",  \* SIGINT at the client
     "shutdown",   \* SIGINT at the server
     "crash"}      \* a process dies

----------------------------------------------------------------------------
(* Counting channels: xcpd_program_options::post_process, and what          *)
(* client_instance::fn_portal offers the client.                            *)

SERVER_CHANNEL_REPEATS == 12
SumOf(rs) == FoldFunction(+, 0, rs)

arg_portal_repeats ==
    IF ChannelRepeats = <<>> /\ PortalRepeats = 0 THEN SERVER_CHANNEL_REPEATS ELSE PortalRepeats
total_channel_repeats_count ==
    (IF ChannelRepeats = <<>> THEN arg_portal_repeats ELSE 0) + SumOf(ChannelRepeats)
OfferedChannels == arg_portal_repeats + SumOf(ChannelRepeats)

ASSUME ConnsAssumption ==
    /\ IsFiniteSet(Channels) /\ Portal \notin Channels
    /\ PortalRepeats \in Nat
    /\ ChannelRepeats \in Seq(Nat \ {0})
    /\ Cardinality(Channels) = OfferedChannels
ASSUME EndpointsAssumption ==
    PortalChannels \subseteq Channels /\ Cardinality(PortalChannels) = arg_portal_repeats
ASSUME SetupAssumption ==
    /\ Upload \in BOOLEAN
    /\ ClientVersions \subseteq [lo : Nat, hi : Nat] /\ ClientVersions # {}
    /\ Faults \subseteq FaultKinds
    /\ MaxFaults \in Nat
\* The gate waits for one channel at least, and for no more than are offered
\* (post_process; the definitions above give it for every command line).
ASSUME CountingAssumption == total_channel_repeats_count \in 1 .. OfferedChannels

\* The server speaks version 1 only, and takes the highest both can speak.  It
\* gives a client whose range is empty no answer at all.
NegotiatedVersion(r) == IF r.lo > 1 \/ r.hi < 1 THEN "INVALID" ELSE "V1"

----------------------------------------------------------------------------
VARIABLES
    process,     \* each process: running, exited or crashed
    link,        \* each TCP connection: none, up or lost
    sockOpen,    \* each side's end of each connection is open
    toServer,    \* messages the client has sent on the portal, in order
    toClient,    \* messages the server has sent on the portal, in order
    faults,      \* how many faults have happened
    (* the client *)
    cPortal,     \* client_portal_state::init and its portal thread
    cChannel,    \* each client_channel_state thread
    cReady,      \* gate_client_portal_ready is open
    cTeardown,   \* how far client_portal_state::dispose_impl has gone
    cDisposed,   \* the channels dispose_impl has called dispose() on
    (* the server *)
    sThread,     \* the thread of each accepted connection
    connected,   \* gate_all_channel_repeats_connected
    sReady,      \* gate_portal_ready_to_transfer is open
    registered,  \* client_instance::channel_threads
    clients,     \* the client_instance is in server_portal_state::clients
    sTeardown,   \* how far client_instance::dispose_impl has gone
    eraser,      \* the detached thread that removes the client_instance
    shutdown     \* how far server_portal_state::dispose_impl has gone

netVars == <<process, link, sockOpen, toServer, toClient, faults>>
clientVars == <<cPortal, cChannel, cReady, cTeardown, cDisposed>>
instanceVars == <<connected, sReady, registered, clients, sTeardown, eraser>>
serverVars == <<sThread, instanceVars, shutdown>>
vars == <<netVars, clientVars, serverVars>>

ClientPortalStates ==
    {"init", "version", "info", "channels", "response", "prepare", "signal",
     "enter", "transfer", "ended"}
ClientChannelStates == {"none", "socket", "connect", "wait", "enter", "transfer", "left", "gaveUp"}
ServerThreadStates ==
    {"none", "backlog", "greeting", "create", "lookup", "register",  \* unified thread
     "version", "info", "request", "prepare", "gate", "respond",     \* fn_portal
     "signal", "wait", "enter", "transfer", "left", "gaveUp",        \* fn_portal, fn_channel
     "rejected"}
\* dispose_impl of either side, in the order of its statements (the client
\* drops the transfer before it forces the gate, the server after)
TeardownStages ==
    {"none", "live", "required", "portalClosed", "transferGone", "gatesForced", "rundown", "done"}
ShutdownStages == {"live", "required", "portalStopped", "channelsStopped", "clearing", "done"}

Init ==
    /\ process = [s \in Sides |-> "running"]
    /\ link = [k \in Conns |-> "none"]
    /\ sockOpen = [s \in Sides |-> [k \in Conns |-> FALSE]]
    /\ toServer = <<>> /\ toClient = <<>>
    /\ faults = 0
    /\ cPortal = "init"
    /\ cChannel = [c \in Channels |-> "none"]
    /\ cReady = FALSE
    /\ cTeardown = "live"
    /\ cDisposed = {}
    /\ sThread = [k \in Conns |-> "none"]
    /\ connected = [count |-> 0, open |-> FALSE]
    /\ sReady = FALSE
    /\ registered = {}
    /\ clients = FALSE
    /\ sTeardown = "none"
    /\ eraser = "none"
    /\ shutdown = "live"

----------------------------------------------------------------------------
(* Sockets.                                                                 *)

Running(s) == process[s] = "running"

Listening(k) ==
    /\ Running("server")
    /\ \/ shutdown \in {"live", "required"}
       \/ k \notin PortalChannels \cup {Portal} /\ shutdown = "portalStopped"

\* connect_and_send: the greeting (with the versions, for the portal) travels
\* with the connection, which waits for the server to accept it.
Connected(k) ==
    /\ link' = [link EXCEPT ![k] = "up"]
    /\ sockOpen' = [s \in Sides |-> [sockOpen[s] EXCEPT ![k] = TRUE]]
    /\ sThread' = [sThread EXCEPT ![k] = "backlog"]

CloseEnd(s, K) ==
    sockOpen' = [sockOpen EXCEPT ![s] = [k \in Conns |-> @[k] /\ k \notin K]]

SentBy(s) == IF s = "client" THEN toServer ELSE toClient
\* The i-th message of the peer can be received on the portal.
CanRecv(s, i) ==
    sockOpen[s][Portal] /\ link[Portal] = "up" /\ Len(SentBy(Peer(s))) >= i
\* send or recv of the i-th message fails on the portal (mutant: recv goes on
\* when the peer has closed its end).
CanFail_Deaf(s, i) == ~sockOpen[s][Portal] \/ link[Portal] = "lost"
CanFail(s, i) ==
    \/ ~sockOpen[s][Portal]
    \/ link[Portal] = "lost"
    \/ (~sockOpen[Peer(s)][Portal] /\ Len(SentBy(Peer(s))) < i)
CanFailToSend(s) ==
    ~sockOpen[s][Portal] \/ ~sockOpen[Peer(s)][Portal] \/ link[Portal] = "lost"

----------------------------------------------------------------------------
(* The client: client_portal_state.                                         *)

RequireClientDispose == cTeardown' = IF cTeardown = "live" THEN "required" ELSE cTeardown

ClientConnects ==
    /\ Running("client") /\ cPortal = "init" /\ Listening(Portal)
    /\ Connected(Portal)
    /\ cPortal' = "version"
    /\ UNCHANGED <<process, toServer, toClient, faults, cChannel, cReady, cTeardown,
                   cDisposed, instanceVars, shutdown>>

ClientConnectFails ==
    /\ Running("client") /\ cPortal = "init" /\ ~Listening(Portal)
    /\ cPortal' = "ended"
    /\ RequireClientDispose
    /\ UNCHANGED <<netVars, cChannel, cReady, cDisposed, serverVars>>

\* The portal thread goes from one statement to the next.
ClientPortalGoes(from, to) ==
    /\ Running("client") /\ cPortal = from
    /\ cPortal' = to
    /\ UNCHANGED <<process, link, sockOpen, toClient, faults, cDisposed, serverVars>>

ClientRecvVersion ==
    /\ CanRecv("client", 1) /\ toClient[1] = "V1"
    /\ ClientPortalGoes("version", "info")
    /\ UNCHANGED <<toServer, cChannel, cReady, cTeardown>>

ClientRecvInfo ==
    /\ CanRecv("client", 2)
    /\ ClientPortalGoes("info", "channels")
    /\ UNCHANGED <<toServer, cChannel, cReady, cTeardown>>

\* One client_channel_state more, with its thread.  acquire_unique() always
\* succeeds: dispose_impl runs down after it has joined this thread.
ClientCreatesChannel(c) ==
    /\ cChannel[c] = "none"
    /\ ClientPortalGoes("channels", "channels")
    /\ cChannel' = [cChannel EXCEPT ![c] = "socket"]
    /\ UNCHANGED <<toServer, cReady, cTeardown>>

ClientSendsRequest ==
    /\ \A c \in Channels : cChannel[c] # "none"
    /\ sockOpen["client"][Portal]
    /\ ClientPortalGoes("channels", "response")
    /\ toServer' = Append(toServer, "request")
    /\ UNCHANGED <<cChannel, cReady, cTeardown>>

ClientRecvResponse ==
    /\ CanRecv("client", 3) /\ toClient[3] = "accepted"
    /\ ClientPortalGoes("response", "prepare")
    /\ UNCHANGED <<toServer, cChannel, cReady, cTeardown>>

\* the shared_ptr to the transfer has been reset
ClientTransferGone == cTeardown \in {"transferGone", "gatesForced", "rundown", "done"}

\* init_transfer_info (a download) and the progress callback.
ClientPrepares ==
    /\ ~ClientTransferGone
    /\ ClientPortalGoes("prepare", "signal")
    /\ UNCHANGED <<toServer, cChannel, cReady, cTeardown>>

ClientSignalsReady ==
    /\ ClientPortalGoes("signal", "enter")
    /\ cReady' = TRUE
    /\ UNCHANGED <<toServer, cChannel, cTeardown>>

ClientPortalEnters ==
    /\ ~ClientTransferGone
    /\ ClientPortalGoes("enter", "transfer")
    /\ UNCHANGED <<toServer, cChannel, cReady, cTeardown>>

\* An early return: a socket fails, the server has said no, the destination's
\* files cannot be opened; or invoke_portal returns.
ClientPortalEnds ==
    /\ \/ cPortal = "version" /\ (CanFail("client", 1) \/ (CanRecv("client", 1) /\ toClient[1] = "INVALID"))
       \/ cPortal = "info" /\ CanFail("client", 2)
       \/ cPortal = "channels" /\ CanFailToSend("client")
                               /\ \A c \in Channels : cChannel[c] # "none"
       \/ cPortal = "response" /\ (CanFail("client", 3)
                                   \/ (CanRecv("client", 3) /\ toClient[3] = "error"))
       \/ cPortal = "prepare" /\ ~Upload /\ ~ClientTransferGone
       \/ cPortal = "transfer"
    /\ ClientPortalGoes(cPortal, "ended")
    /\ RequireClientDispose
    /\ UNCHANGED <<toServer, cChannel, cReady>>

----------------------------------------------------------------------------
(* client_channel_state::fn_thread_work                                     *)

ClientChannelGoes(c, from, to) ==
    /\ Running("client") /\ cChannel[c] = from
    /\ cChannel' = [cChannel EXCEPT ![c] = to]
    /\ UNCHANGED <<process, toServer, toClient, faults, cPortal, cReady, cDisposed,
                   instanceVars, shutdown>>

ClientChannelSocket(c) ==
    /\ ClientChannelGoes(c, "socket", "connect")
    /\ sockOpen' = [sockOpen EXCEPT !["client"][c] = TRUE]
    /\ UNCHANGED <<link, sThread, cTeardown>>

ClientChannelConnects(c) ==
    /\ sockOpen["client"][c] /\ Listening(c)
    /\ ClientChannelGoes(c, "connect", "wait")
    /\ Connected(c)
    /\ UNCHANGED cTeardown

\* A channel that fails disposes the portal (mutant: it tries again instead).
ClientChannelConnectFails_Retries(c) ==
    /\ ~sockOpen["client"][c] \/ ~Listening(c)
    /\ ClientChannelGoes(c, "connect", "socket")
    /\ UNCHANGED <<link, sockOpen, sThread, cTeardown>>
ClientChannelConnectFails(c) ==
    /\ ~sockOpen["client"][c] \/ ~Listening(c)
    /\ ClientChannelGoes(c, "connect", "gaveUp")
    /\ RequireClientDispose
    /\ UNCHANGED <<link, sockOpen, sThread>>

\* gate_client_portal_ready.wait(), then go on unless dispose is required.
ClientChannelPasses(c) ==
    /\ cReady
    /\ ClientChannelGoes(c, "wait", IF cTeardown = "live" THEN "enter" ELSE "gaveUp")
    /\ UNCHANGED <<link, sockOpen, sThread, cTeardown>>

ClientChannelEnters(c) ==
    /\ ~ClientTransferGone
    /\ ClientChannelGoes(c, "enter", "transfer")
    /\ UNCHANGED <<link, sockOpen, sThread, cTeardown>>

ClientChannelSucceeds(c) ==
    /\ ClientChannelGoes(c, "transfer", "left")
    /\ UNCHANGED <<link, sockOpen, sThread, cTeardown>>

ClientChannelFails(c) ==
    /\ ClientChannelGoes(c, "transfer", "left")
    /\ RequireClientDispose
    /\ UNCHANGED <<link, sockOpen, sThread>>

----------------------------------------------------------------------------
(* client_portal_state::dispose_impl                                        *)

ClientTeardownGoes(from, to) ==
    /\ Running("client") /\ cTeardown = from
    /\ cTeardown' = to
    /\ UNCHANGED <<link, toServer, toClient, faults, cPortal, cChannel, serverVars>>

ClientClosesPortal ==
    /\ ClientTeardownGoes("required", "portalClosed")
    /\ CloseEnd("client", {Portal})
    /\ UNCHANGED <<process, cReady, cDisposed>>

ClientDropsTransfer ==
    /\ ClientTeardownGoes("portalClosed", "transferGone")
    /\ UNCHANGED <<process, sockOpen, cReady, cDisposed>>

\* Mutant: the channel threads at the gate are not let go on.
ClientForcesGate_Not == ClientTeardownGoes("transferGone", "gatesForced")
                        /\ UNCHANGED <<process, sockOpen, cReady, cDisposed>>
ClientForcesGate ==
    /\ ClientTeardownGoes("transferGone", "gatesForced")
    /\ cReady' = TRUE
    /\ UNCHANGED <<process, sockOpen, cDisposed>>

\* The portal thread is joined, and the rundown lock taken.
ClientJoinsPortal ==
    /\ cPortal = "ended"
    /\ ClientTeardownGoes("gatesForced", "rundown")
    /\ UNCHANGED <<process, sockOpen, cReady, cDisposed>>

Ended(st) == st \in {"left", "gaveUp"}

\* dispose() of the next channel; the one before it has been joined.  A
\* channel that has no socket yet keeps the one it creates later.
ClientDisposesChannel(c) ==
    /\ cChannel[c] # "none" /\ c \notin cDisposed
    /\ \A d \in cDisposed : Ended(cChannel[d])
    /\ ClientTeardownGoes("rundown", "rundown")
    /\ cDisposed' = cDisposed \cup {c}
    /\ CloseEnd("client", {c})
    /\ UNCHANGED <<process, cReady>>

ClientDisposed ==
    /\ \A c \in Channels : cChannel[c] = "none" \/ (c \in cDisposed /\ Ended(cChannel[c]))
    /\ ClientTeardownGoes("rundown", "done")
    /\ CloseEnd("client", Conns)
    /\ UNCHANGED <<process, cReady, cDisposed>>

\* main returns.
ClientExits ==
    /\ ClientTeardownGoes("done", "done")
    /\ process' = [process EXCEPT !["client"] = "exited"]
    /\ UNCHANGED <<sockOpen, cReady, cDisposed>>

ClientStep ==
    \/ ClientConnects \/ ClientConnectFails
    \/ ClientRecvVersion \/ ClientRecvInfo
    \/ (\E c \in Channels : ClientCreatesChannel(c))
    \/ ClientSendsRequest \/ ClientRecvResponse \/ ClientPrepares
    \/ ClientSignalsReady \/ ClientPortalEnters \/ ClientPortalEnds
    \/ \E c \in Channels :
          \/ ClientChannelSocket(c) \/ ClientChannelConnects(c) \/ ClientChannelConnectFails(c)
          \/ ClientChannelPasses(c) \/ ClientChannelEnters(c)
          \/ ClientChannelSucceeds(c) \/ ClientChannelFails(c)
          \/ ClientDisposesChannel(c)
    \/ ClientClosesPortal \/ ClientDropsTransfer \/ ClientForcesGate
    \/ ClientJoinsPortal \/ ClientDisposed \/ ClientExits

----------------------------------------------------------------------------
(* The server: a thread for every accepted connection.                      *)

RequireServerDispose == sTeardown' = IF sTeardown = "live" THEN "required" ELSE sTeardown

ServerThreadGoes(k, from, to) ==
    /\ Running("server") /\ sThread[k] = from
    /\ sThread' = [sThread EXCEPT ![k] = to]
    /\ UNCHANGED <<process, link, toServer, faults, clientVars, eraser, shutdown>>

AcceptConnection(k) ==
    /\ Listening(k)
    /\ ServerThreadGoes(k, "backlog", "greeting")
    /\ UNCHANGED <<sockOpen, toClient, connected, sReady, registered, clients, sTeardown>>

\* error_cleanup of fn_thread_unified_accepted_socket
Reject(k, from) ==
    /\ ServerThreadGoes(k, from, "rejected")
    /\ CloseEnd("server", {k})
    /\ UNCHANGED <<toClient, connected, sReady, registered, clients, sTeardown>>

RecvGreeting(k) ==
    /\ link[k] = "up"
    /\ ServerThreadGoes(k, "greeting", IF k = Portal THEN "create" ELSE "lookup")
    /\ UNCHANGED <<sockOpen, toClient, connected, sReady, registered, clients, sTeardown>>

GreetingFails(k) == link[k] = "lost" /\ Reject(k, "greeting")

\* server_portal_state::dispose_impl holds clients_mutex until every client
\* is disposed.
ClientsMutexFree == shutdown # "clearing"

\* Mutants: the client is not put into the map; the second check, made under
\* the mutex, is left out.
CreateClient_NotInserted ==
    /\ ClientsMutexFree /\ shutdown = "live"
    /\ ServerThreadGoes(Portal, "create", "version")
    /\ sTeardown' = "live"
    /\ UNCHANGED <<sockOpen, toClient, connected, sReady, registered, clients>>
CreateClient_Unchecked ==
    /\ ClientsMutexFree
    /\ ServerThreadGoes(Portal, "create", "version")
    /\ clients' = TRUE /\ sTeardown' = "live"
    /\ UNCHANGED <<sockOpen, toClient, connected, sReady, registered>>

CreateClient ==
    /\ ClientsMutexFree /\ shutdown = "live"
    /\ ServerThreadGoes(Portal, "create", "version")
    /\ clients' = TRUE /\ sTeardown' = "live"
    /\ UNCHANGED <<sockOpen, toClient, connected, sReady, registered>>

AbandonClient == ClientsMutexFree /\ shutdown # "live" /\ Reject(Portal, "create")

LookupClient(c) ==
    /\ ClientsMutexFree /\ clients
    /\ ServerThreadGoes(c, "lookup", "register")
    /\ UNCHANGED <<sockOpen, toClient, connected, sReady, registered, clients, sTeardown>>

LookupFails(c) == ClientsMutexFree /\ ~clients /\ Reject(c, "lookup")

\* _rundown.acquire_unique(), and a mutant that does not ask it.
RundownRequired_Never == FALSE
RundownRequired == sTeardown \in {"rundown", "done"}

RegisterChannel(c) ==
    /\ ~RundownRequired
    /\ ServerThreadGoes(c, "register", "signal")
    /\ registered' = registered \cup {c}
    /\ UNCHANGED <<sockOpen, toClient, connected, sReady, clients, sTeardown>>

RegisterFails(c) == RundownRequired /\ Reject(c, "register")

----------------------------------------------------------------------------
(* client_instance::fn_channel                                              *)

\* Mutants of the gate: it opens one signal early; it counts down.
Signalled_Early == [count |-> connected.count + 1,
                    open |-> connected.open \/ connected.count + 2 >= total_channel_repeats_count]
Signalled_Down == [count |-> connected.count - 1, open |-> connected.open]
Signalled == [count |-> connected.count + 1,
              open |-> connected.open \/ connected.count + 1 = total_channel_repeats_count]

SignalConnected(c) ==
    /\ ServerThreadGoes(c, "signal", "wait")
    /\ connected' = Signalled
    /\ UNCHANGED <<sockOpen, toClient, sReady, registered, clients, sTeardown>>

\* gate_portal_ready_to_transfer.wait(), then go on unless dispose is required.
ServerChannelPasses(c) ==
    /\ sReady
    /\ ServerThreadGoes(c, "wait", IF sTeardown = "live" THEN "enter" ELSE "gaveUp")
    /\ UNCHANGED <<sockOpen, toClient, connected, sReady, registered, clients, sTeardown>>

ServerTransferGone == sTeardown \in {"transferGone", "rundown", "done"}

\* Also the portal thread, into invoke_portal.
ServerEnters(k) ==
    /\ ~ServerTransferGone
    /\ ServerThreadGoes(k, "enter", "transfer")
    /\ UNCHANGED <<sockOpen, toClient, connected, sReady, registered, clients, sTeardown>>

ServerChannelSucceeds(c) ==
    /\ ServerThreadGoes(c, "transfer", "left")
    /\ UNCHANGED <<sockOpen, toClient, connected, sReady, registered, clients, sTeardown>>

ServerChannelFails(c) ==
    /\ ServerThreadGoes(c, "transfer", "left")
    /\ RequireServerDispose
    /\ UNCHANGED <<sockOpen, toClient, connected, sReady, registered, clients>>

----------------------------------------------------------------------------
(* client_instance::fn_portal                                               *)

ServerNegotiates ==
    \E r \in ClientVersions :
        LET version == NegotiatedVersion(r) IN
        /\ r.lo <= r.hi
        /\ sockOpen["server"][Portal] /\ link[Portal] = "up"
        /\ ServerThreadGoes(Portal, "version", IF version = "INVALID" THEN "gaveUp" ELSE "info")
        /\ toClient' = Append(toClient, version)
        /\ IF version = "INVALID" THEN RequireServerDispose ELSE UNCHANGED sTeardown
        /\ UNCHANGED <<sockOpen, connected, sReady, registered, clients>>

ServerSends(from, message, to) ==
    /\ sockOpen["server"][Portal]
    /\ ServerThreadGoes(Portal, from, to)
    /\ toClient' = Append(toClient, message)
    /\ UNCHANGED <<sockOpen, connected, sReady, registered, clients>>

ServerSendsInfo == ServerSends("info", "info", "request") /\ UNCHANGED sTeardown

ServerRecvRequest ==
    /\ CanRecv("server", 1)
    /\ ServerThreadGoes(Portal, "request", "prepare")
    /\ UNCHANGED <<sockOpen, toClient, connected, sReady, registered, clients, sTeardown>>

\* The server's transfer_source or transfer_destination.
ServerPrepares ==
    /\ ServerThreadGoes(Portal, "prepare", "gate")
    /\ UNCHANGED <<sockOpen, toClient, connected, sReady, registered, clients, sTeardown>>

\* No home directory, or a transfer_error.
ServerRefuses == ServerSends("prepare", "error", "gaveUp") /\ RequireServerDispose

ServerPassesGate ==
    /\ connected.open
    /\ ServerThreadGoes(Portal, "gate", IF sTeardown = "live" THEN "respond" ELSE "gaveUp")
    /\ UNCHANGED <<sockOpen, toClient, connected, sReady, registered, clients, sTeardown>>

ServerResponds == ServerSends("respond", "accepted", "signal") /\ UNCHANGED sTeardown

ServerSignalsReady ==
    /\ ServerThreadGoes(Portal, "signal", "enter")
    /\ sReady' = TRUE
    /\ UNCHANGED <<sockOpen, toClient, connected, registered, clients, sTeardown>>

\* An early return: a socket fails, the client's range of versions is empty, or
\* preparing throws something else than a transfer_error; or invoke_portal
\* returns.
ServerPortalEnds ==
    LET at == sThread[Portal] IN
    /\ \/ at \in {"info", "respond"} /\ CanFailToSend("server")
       \/ at = "version" /\ (CanFailToSend("server") \/ link[Portal] = "lost"
                                       \/ \E r \in ClientVersions : r.lo > r.hi)
       \/ at = "request" /\ CanFail("server", 1)
       \/ at \in {"prepare", "transfer"}
    /\ ServerThreadGoes(Portal, at, "left")
    /\ RequireServerDispose
    /\ UNCHANGED <<sockOpen, toClient, connected, sReady, registered, clients>>

----------------------------------------------------------------------------
(* client_instance::dispose_impl                                            *)

ServerTeardownGoes(from, to) ==
    /\ Running("server") /\ sTeardown = from
    /\ sTeardown' = to
    /\ UNCHANGED <<process, link, toServer, toClient, faults, clientVars, sThread, clients, shutdown>>

ServerClosesPortal ==
    /\ ServerTeardownGoes("required", "portalClosed")
    /\ CloseEnd("server", {Portal})
    /\ UNCHANGED <<connected, sReady, registered, eraser>>

\* Mutant: the portal thread is not let go on.
ServerForcesGates_NotConnected ==
    /\ ServerTeardownGoes("portalClosed", "gatesForced")
    /\ sReady' = TRUE
    /\ UNCHANGED <<sockOpen, connected, registered, eraser>>

ServerForcesGates ==
    /\ ServerTeardownGoes("portalClosed", "gatesForced")
    /\ connected' = [count |-> total_channel_repeats_count, open |-> TRUE]
    /\ sReady' = TRUE
    /\ UNCHANGED <<sockOpen, registered, eraser>>

ServerDropsTransfer ==
    /\ ServerTeardownGoes("gatesForced", "transferGone")
    /\ UNCHANGED <<sockOpen, connected, sReady, registered, eraser>>

\* The portal thread is joined, and the rundown lock taken.
ServerJoinsPortal ==
    /\ Ended(sThread[Portal])
    /\ ServerTeardownGoes("transferGone", "rundown")
    /\ UNCHANGED <<sockOpen, connected, sReady, registered, eraser>>

ServerClosesChannel(c) ==
    /\ c \in registered /\ sockOpen["server"][c]
    /\ \A d \in registered : ~sockOpen["server"][d] => Ended(sThread[d])
    /\ ServerTeardownGoes("rundown", "rundown")
    /\ CloseEnd("server", {c})
    /\ UNCHANGED <<connected, sReady, registered, eraser>>

\* The last channel has been joined: a detached thread removes the
\* client_instance from the map, unless the server is shutting down.
ServerDisposed ==
    /\ \A c \in registered : ~sockOpen["server"][c] /\ Ended(sThread[c])
    /\ ServerTeardownGoes("rundown", "done")
    /\ registered' = {}
    /\ eraser' = IF shutdown = "live" THEN "started" ELSE eraser
    /\ UNCHANGED <<sockOpen, connected, sReady>>

EraserChecks ==
    /\ Running("server") /\ eraser = "started"
    /\ eraser' = IF shutdown = "live" THEN "locking" ELSE "done"
    /\ UNCHANGED <<netVars, clientVars, sThread, connected, sReady, registered, clients,
                   sTeardown, shutdown>>

EraserErases ==
    /\ Running("server") /\ eraser = "locking" /\ ClientsMutexFree
    /\ eraser' = "done"
    /\ clients' = FALSE
    /\ UNCHANGED <<netVars, clientVars, sThread, connected, sReady, registered, sTeardown, shutdown>>

----------------------------------------------------------------------------
(* server_portal_state::dispose_impl, after main has seen the exit required. *)

ShutdownGoes(from, to) ==
    /\ Running("server") /\ shutdown = from
    /\ shutdown' = to
    /\ UNCHANGED <<link, toServer, toClient, faults, clientVars, connected, sReady, registered, eraser>>

\* A listening socket is closed and its accept thread joined: connections
\* still in its backlog are reset.
ResetBacklog(K) ==
    LET R == {k \in K : sThread[k] = "backlog"} IN
    /\ sThread' = [k \in Conns |-> IF k \in R THEN "rejected" ELSE sThread[k]]
    /\ CloseEnd("server", R)

StopPortal ==
    /\ ShutdownGoes("required", "portalStopped")
    /\ ResetBacklog(PortalChannels \cup {Portal})
    /\ UNCHANGED <<process, clients, sTeardown>>

StopChannels ==
    /\ ShutdownGoes("portalStopped", "channelsStopped")
    /\ ResetBacklog(Channels)
    /\ UNCHANGED <<process, clients, sTeardown>>

LockClients ==
    /\ ShutdownGoes("channelsStopped", "clearing")
    /\ IF clients THEN RequireServerDispose ELSE UNCHANGED sTeardown
    /\ UNCHANGED <<process, sockOpen, sThread, clients>>

\* dispose() has returned for every client.
ClearClients ==
    /\ clients => sTeardown = "done"
    /\ ShutdownGoes("clearing", "done")
    /\ clients' = FALSE
    /\ UNCHANGED <<process, sockOpen, sThread, sTeardown>>

ServerExits ==
    /\ ShutdownGoes("done", "done")
    /\ process' = [process EXCEPT !["server"] = "exited"]
    /\ CloseEnd("server", Conns)
    /\ UNCHANGED <<sThread, clients, sTeardown>>

ServerStep ==
    \/ \E k \in Conns : AcceptConnection(k) \/ RecvGreeting(k) \/ GreetingFails(k) \/ ServerEnters(k)
    \/ CreateClient \/ AbandonClient
    \/ \E c \in Channels :
          \/ LookupClient(c) \/ LookupFails(c) \/ RegisterChannel(c) \/ RegisterFails(c)
          \/ SignalConnected(c) \/ ServerChannelPasses(c)
          \/ ServerChannelSucceeds(c) \/ ServerChannelFails(c) \/ ServerClosesChannel(c)
    \/ ServerNegotiates \/ ServerSendsInfo \/ ServerRecvRequest \/ ServerPrepares \/ ServerRefuses
    \/ ServerPassesGate \/ ServerResponds \/ ServerSignalsReady \/ ServerPortalEnds
    \/ ServerClosesPortal \/ ServerForcesGates \/ ServerDropsTransfer \/ ServerJoinsPortal
    \/ ServerDisposed \/ EraserChecks \/ EraserErases
    \/ StopPortal \/ StopChannels \/ LockClients \/ ClearClients \/ ServerExits

----------------------------------------------------------------------------
(* What goes wrong.                                                         *)

Dies(s) ==
    /\ Running(s)
    /\ process' = [process EXCEPT ![s] = "crashed"]
    /\ CloseEnd(s, Conns)
    /\ UNCHANGED <<link, toServer, toClient, clientVars, serverVars>>

\* A thread is about to use a transfer that has been reset (an assertion
\* fails or a null pointer is followed), or may still follow a shared_ptr to
\* a socket that dispose_impl has reset, or reads the server's channels while
\* they are cleared.
ClientUsesGone ==
    \/ ClientTransferGone /\ cPortal \in {"prepare", "enter"}
    \/ /\ cTeardown \notin {"live", "required"}
       /\ cPortal \in {"version", "info", "channels", "response", "enter"}
    \/ ClientTransferGone /\ \E c \in Channels : cChannel[c] = "enter"
    \/ \E c \in cDisposed : cChannel[c] = "connect"
ServerUsesGone ==
    \/ ServerTransferGone /\ \E k \in Conns : sThread[k] = "enter"
    \/ /\ sTeardown \notin {"live", "required"}
       /\ sThread[Portal] \in {"version", "info", "request", "respond", "enter"}
    \/ shutdown \notin {"live", "required", "portalStopped"} /\ sThread[Portal] = "info"

\* PANIC_TERMINATE: init_transfer_info throws something else than a
\* transfer_error at the client.
ClientPanics == cPortal = "prepare" /\ ~Upload /\ ~ClientTransferGone

Aborts == \/ (ClientUsesGone \/ ClientPanics) /\ Dies("client") /\ UNCHANGED faults
          \/ ServerUsesGone /\ Dies("server") /\ UNCHANGED faults

\* Faults matter until the client is gone.
Meets(kind) ==
    /\ Running("client")
    /\ kind \in Faults
    /\ faults < MaxFaults
    /\ faults' = faults + 1

Crash(s) == Meets("crash") /\ Dies(s)

InterruptClient ==
    /\ Meets("interrupt")
    /\ cPortal # "init" /\ cTeardown = "live"
    /\ cTeardown' = "required"
    /\ UNCHANGED <<process, link, sockOpen, toServer, toClient, cPortal, cChannel, cReady,
                   cDisposed, serverVars>>

InterruptServer ==
    /\ Meets("shutdown")
    /\ Running("server") /\ shutdown = "live"
    /\ shutdown' = "required"
    /\ UNCHANGED <<process, link, sockOpen, toServer, toClient, clientVars, sThread, instanceVars>>

LoseConnection(k) ==
    /\ Meets("loss")
    /\ link[k] = "up"
    /\ link' = [link EXCEPT ![k] = "lost"]
    /\ UNCHANGED <<process, sockOpen, toServer, toClient, clientVars, serverVars>>

RefuseConnection(c) ==
    /\ Meets("refuse")
    /\ cChannel[c] = "connect"
    /\ cChannel' = [cChannel EXCEPT ![c] = "gaveUp"]
    /\ RequireClientDispose
    /\ UNCHANGED <<process, link, sockOpen, toServer, toClient, cPortal, cReady, cDisposed, serverVars>>

Fault ==
    \/ \E s \in Sides : Crash(s)
    \/ InterruptClient \/ InterruptServer
    \/ \E k \in Conns : LoseConnection(k)
    \/ \E c \in Channels : RefuseConnection(c)

ProgramStep == ClientStep \/ ServerStep \/ Aborts
Next == ProgramStep \/ Fault
Spec == Init /\ [][Next]_vars

\* Some thread that can run does run: none of them can run for ever.
FairSpec == Spec /\ WF_vars(ProgramStep)

----------------------------------------------------------------------------
(* Properties                                                              *)

Meeting == INSTANCE Rendezvous WITH
    arrived <- {c \in Channels : sThread[c] \in {"wait", "enter", "transfer", "left", "gaveUp"}},
    opened <- Len(toClient) = 3 /\ toClient[3] = "accepted",
    started <- [s \in Sides |->
                   IF s = "client" THEN {c \in Channels : cChannel[c] \in {"transfer", "left"}}
                   ELSE {c \in Channels : sThread[c] \in {"transfer", "left"}}]

\* The protocol comment (server.cpp, Step_2 and Step_3): no channel of either
\* side enters its transfer before every channel has connected and the server
\* has answered, even when dispose forces every gate open.
ChannelsMeet == Meeting!Spec

\* A client connects its channels only after the server's fn_portal has spoken
\* to it, so the server knows it: a channel is turned away only when its
\* connection broke or its client_instance (or the server) is being disposed.
LiveClientIsKnown ==
    \A c \in Channels :
        sThread[c] = "rejected" =>
            link[c] = "lost" \/ sTeardown \notin {"none", "live"} \/ shutdown # "live"

\* When dispose_impl of a client_instance is done no thread runs in it, nor
\* can one come to: rundown protection turns away channels that found the
\* instance in the map before.
DisposedInstanceIsIdle ==
    sTeardown = "done" =>
        /\ sThread[Portal] \in {"left", "gaveUp"}
        /\ \A c \in Channels : sThread[c] \notin {"signal", "wait", "enter", "transfer"}

\* "All clients removed": when server_portal_state::dispose_impl is done every
\* client_instance is disposed, and none is created afterwards.
ShutdownLeavesNoClient ==
    shutdown = "done" => ~clients /\ sTeardown \in {"none", "done"}

\* The instance has been taken down and its memory of the client dropped.
ServerSettled ==
    \/ ~Running("server")
    \/ /\ ~clients
       /\ \A k \in Conns : sThread[k] \in {"none", "left", "gaveUp", "rejected"}

\* fn_portal waits for channels that will not connect, because the client is
\* gone or a connection broke before the server learnt whose it was.  Nothing
\* at the server watches the portal's socket meanwhile.
ServerWaitsForChannels ==
    /\ sThread[Portal] = "gate" /\ ~connected.open
    /\ ~Running("client") \/ \E c \in Channels : link[c] = "lost" /\ c \notin registered

\* Whatever goes wrong both sides come to an end, but for a server that waits
\* for all channels to be connected (and a client that waits for its answer).
HandshakeSettles ==
    <>[](ServerWaitsForChannels \/ (~Running("client") /\ ServerSettled))

\* A server told to exit does, whatever its clients are doing.
ServerShutsDown == shutdown = "required" ~> ~Running("server")

----------------------------------------------------------------------------
(* Where the threads wait, and what is left to do.                          *)

\* A recv of the peer's i-th message blocks.
RecvWaits(s, i) ==
    /\ \A t \in Sides : sockOpen[t][Portal]
    /\ link[Portal] = "up" /\ Len(SentBy(Peer(s))) < i

\* No thread of the client can take a step: messages, the gate, and the joins
\* of dispose_impl are what they wait for.
ClientWaits ==
    /\ \/ cPortal = "ended"
       \/ cPortal = "version" /\ RecvWaits("client", 1)
       \/ cPortal = "info" /\ RecvWaits("client", 2)
       \/ cPortal = "response" /\ RecvWaits("client", 3)
    /\ \A c \in Channels :
          cChannel[c] \in {"none", "left", "gaveUp"} \/ (cChannel[c] = "wait" /\ ~cReady)
    /\ \/ cTeardown = "live"
       \/ cTeardown = "gatesForced" /\ cPortal # "ended"
       \/ cTeardown = "rundown" /\ \E c \in cDisposed : ~Ended(cChannel[c])

\* Nor of the server: its accepted connections also wait for clients_mutex.
ServerThreadWaits(k) ==
    \/ sThread[k] \in {"none", "left", "gaveUp", "rejected"}
    \/ sThread[k] = "backlog" /\ ~Listening(k)
    \/ sThread[k] \in {"create", "lookup"} /\ ~ClientsMutexFree
    \/ sThread[k] = "request" /\ RecvWaits("server", 1)
    \/ sThread[k] = "gate" /\ ~connected.open
    \/ sThread[k] = "wait" /\ ~sReady
ServerWaits ==
    /\ \A k \in Conns : ServerThreadWaits(k)
    /\ \/ sTeardown \in {"none", "live", "done"}
       \/ sTeardown = "transferGone" /\ ~Ended(sThread[Portal])
       \/ sTeardown = "rundown" /\ \E c \in registered : ~sockOpen["server"][c] /\ ~Ended(sThread[c])
    /\ eraser \in {"none", "done"} \/ (eraser = "locking" /\ ~ClientsMutexFree)
    /\ shutdown = "live" \/ (shutdown = "clearing" /\ clients /\ sTeardown # "done")

SideWaits(s) == IF s = "client" THEN ClientWaits ELSE ServerWaits

\* These are the only places where a side waits: in any other state some thread
\* of it has a step to take.
WaitsAreExact ==
    /\ ENABLED (ClientStep \/ ((ClientUsesGone \/ ClientPanics) /\ Dies("client") /\ UNCHANGED faults))
          <=> Running("client") /\ ~ClientWaits
    /\ ENABLED (ServerStep \/ (ServerUsesGone /\ Dies("server") /\ UNCHANGED faults))
          <=> Running("server") /\ ~ServerWaits

\* HandshakeSettles as a property of states: when nobody can take a step, both
\* sides have come to an end, or the server waits for channels.  The two
\* processes never wait for each other's messages, and no thread waits for a
\* gate, the mutex or a join that nobody will see to.
NobodyIsStuck ==
    (\A s \in Sides : Running(s) => SideWaits(s)) =>
        ServerWaitsForChannels \/ (~Running("client") /\ ServerSettled)

ClientPortalLeft ==
    [init |-> 9, version |-> 8, info |-> 7, channels |-> 6, response |-> 5, prepare |-> 4,
     signal |-> 3, enter |-> 2, transfer |-> 1, ended |-> 0]
ClientChannelLeft ==
    [none |-> 6, socket |-> 5, connect |-> 4, wait |-> 3, enter |-> 2, transfer |-> 1,
     left |-> 0, gaveUp |-> 0]
ServerThreadLeft ==
    [none |-> 15, backlog |-> 14, greeting |-> 13, create |-> 12, lookup |-> 12, register |-> 11,
     version |-> 10, info |-> 9, request |-> 8, prepare |-> 7, gate |-> 6, respond |-> 5,
     signal |-> 4, wait |-> 3, enter |-> 2, transfer |-> 1, left |-> 0, gaveUp |-> 0, rejected |-> 0]
ClientTeardownLeft ==
    [none |-> 7, live |-> 6, required |-> 5, portalClosed |-> 4, transferGone |-> 3,
     gatesForced |-> 2, rundown |-> 1, done |-> 0]
ServerTeardownLeft ==
    [none |-> 7, live |-> 6, required |-> 5, portalClosed |-> 4, gatesForced |-> 3,
     transferGone |-> 2, rundown |-> 1, done |-> 0]
EraserLeft == [none |-> 3, started |-> 2, locking |-> 1, done |-> 0]
ShutdownLeft ==
    [live |-> 5, required |-> 4, portalStopped |-> 3, channelsStopped |-> 2, clearing |-> 1, done |-> 0]

\* What is left to do, most significant first: the client's threads may ask for
\* its dispose, the server's shutdown ends threads and asks for a dispose.
Left ==
    <<<<MaxFaults - faults>>,
      [s \in Sides |-> One(Running(s))],
      <<ClientPortalLeft[cPortal]>>,
      [c \in Channels |-> ClientChannelLeft[cChannel[c]]],
      <<ClientTeardownLeft[cTeardown]>>,
      [c \in Channels |-> One(c \notin cDisposed)],
      <<ShutdownLeft[shutdown]>>,
      [k \in Conns |-> ServerThreadLeft[sThread[k]]],
      <<ServerTeardownLeft[sTeardown]>>,
      <<EraserLeft[eraser]>>,
      [c \in Channels |-> One(sockOpen["server"][c])]>>

\* Every step of either process, or fault, leaves less to do: no thread connects
\* again, waits again, or starts a dispose_impl that has been started.
NothingRunsForever == [][Below(Left', Left)]_vars

----------------------------------------------------------------------------
(* The inductive invariant.                                                *)

\* Every variable but the gate's counter has its type.
HandshakeTypes ==
    /\ process \in [Sides -> {"running", "exited", "crashed"}]
    /\ link \in [Conns -> {"none", "up", "lost"}]
    /\ sockOpen \in [Sides -> [Conns -> BOOLEAN]]
    /\ toServer \in Seq({"request"})
    /\ toClient \in Seq({"INVALID", "V1", "info", "accepted", "error"})
    /\ faults \in 0 .. MaxFaults
    /\ cPortal \in ClientPortalStates
    /\ cChannel \in [Channels -> ClientChannelStates]
    /\ cReady \in BOOLEAN
    /\ cTeardown \in TeardownStages
    /\ cDisposed \subseteq Channels
    /\ sThread \in [Conns -> ServerThreadStates]
    /\ sReady \in BOOLEAN
    /\ registered \subseteq Channels
    /\ clients \in BOOLEAN
    /\ sTeardown \in TeardownStages
    /\ eraser \in {"none", "started", "locking", "done"}
    /\ shutdown \in ShutdownStages

\* How far a client_instance has come, and what its threads, its place in the
\* map and the eraser are then.
InstanceInv ==
    /\ sThread[Portal] \notin {"lookup", "register"}
    /\ sTeardown = "none" <=>
          sThread[Portal] \in {"none", "backlog", "greeting", "create", "rejected"}
    /\ clients => sTeardown # "none"
    /\ sTeardown \notin {"none", "done"} => clients
    /\ eraser # "none" => sTeardown = "done"
    /\ sTeardown \in {"rundown", "done"} => Ended(sThread[Portal])
    /\ sTeardown = "done" => registered = {}
    /\ shutdown = "done" => ~clients

\* A channel works in its client_instance only when it is registered.
ChannelsRegistered ==
    \A c \in Channels :
        /\ sThread[c] \notin {"create", "version", "info", "request", "prepare", "gate", "respond"}
        /\ sThread[c] \in {"signal", "wait", "enter", "transfer"} => c \in registered

\* A client connects its channels after the server has spoken to it, and the
\* server speaks when the client_instance is there.
ClientSpokenTo ==
    /\ cPortal = "init" => sThread[Portal] = "none"
    /\ cPortal \in {"info", "channels", "response", "prepare", "signal", "enter", "transfer"} =>
          Len(toClient) > 0
    /\ \A c \in Channels :
          /\ cChannel[c] # "none" => Len(toClient) > 0
          /\ sThread[c] # "none" => cChannel[c] \notin {"none", "socket", "connect"}
    /\ Len(toClient) > 0 => sTeardown # "none"

\* What keeps a live client known.
KnownInv == HandshakeTypes /\ InstanceInv /\ ChannelsRegistered /\ ClientSpokenTo /\ LiveClientIsKnown

\* The server's gate counts the channels it is told to wait for.
CountsAgree == total_channel_repeats_count = OfferedChannels

Arrived == {c \in Channels : sThread[c] \in {"wait", "enter", "transfer", "left", "gaveUp"}}
Opened == Len(toClient) = 3 /\ toClient[3] = "accepted"
ServerForced == sTeardown \in {"gatesForced", "transferGone", "rundown", "done"}
ClientForced == cTeardown \in {"gatesForced", "rundown", "done"}

\* What fn_portal has sent when it is at each step.
MessagesSent ==
    LET at == sThread[Portal] IN
    /\ Len(toClient) <= 3
    /\ at \in {"none", "backlog", "greeting", "create", "rejected", "version"} => Len(toClient) = 0
    /\ at = "info" => Len(toClient) = 1
    /\ at \in {"request", "prepare", "gate", "respond"} => Len(toClient) = 2
    /\ at \in {"signal", "enter", "transfer"} => Opened

\* The gate counts the channels that have come until dispose_impl forces it.
GateCounts ==
    /\ connected \in [count : Nat, open : BOOLEAN]
    /\ ~ServerForced =>
          /\ connected.count = Cardinality(Arrived)
          /\ connected.open => Arrived = Channels /\ Channels # {}
    /\ sThread[Portal] = "respond" => Arrived = Channels /\ Channels # {}

\* Nobody gets past a gate that is not forced, nor into the transfer, before
\* the server has answered.
NobodyStartsEarly ==
    /\ sReady /\ ~ServerForced => Opened
    /\ cReady /\ ~ClientForced => Opened
    /\ cPortal \in {"prepare", "signal", "enter", "transfer"} => Opened
    /\ \A c \in Channels :
          sThread[c] \in {"enter", "transfer", "left"} \/ cChannel[c] \in {"enter", "transfer", "left"} =>
              Opened

\* What makes the channels meet.
MeetingInv == MessagesSent /\ GateCounts /\ NobodyStartsEarly

\* The ends of the connections: a process that is gone has none, dispose_impl
\* closes the portal's first, and a channel is turned away for good.
SocksInv ==
    /\ \A s \in Sides, k \in Conns : ~Running(s) => ~sockOpen[s][k]
    /\ cTeardown \notin {"live", "required"} => ~sockOpen["client"][Portal]
    /\ sTeardown \notin {"none", "live", "required"} => ~sockOpen["server"][Portal]
    /\ \A k \in Conns :
          /\ cTeardown = "done" => ~sockOpen["client"][k]
          /\ sThread[k] = "rejected" => ~sockOpen["server"][k]
          /\ sThread[k] # "none" => link[k] # "none"
          /\ sThread[k] = "backlog" /\ Running("server") => Listening(k)

\* The client's threads: what opens the gate, and who waits for the server.
ClientThreadsInv ==
    /\ cPortal = "init" => cTeardown = "live"
    /\ cPortal = "ended" => cTeardown # "live"
    /\ cPortal \notin {"init", "ended"} => sThread[Portal] # "none"
    /\ cPortal \in {"response", "prepare", "signal", "enter", "transfer"} => Len(toServer) > 0
    /\ cTeardown \in {"rundown", "done"} => cPortal = "ended"
    /\ ClientForced => cReady
    /\ cReady /\ cTeardown = "live" => cPortal \in {"enter", "transfer"}
    /\ \A c \in Channels :
          /\ cPortal \in {"response", "prepare", "signal", "enter", "transfer"} => cChannel[c] # "none"
          /\ cChannel[c] \in {"enter", "transfer", "left"} => cReady
          /\ cChannel[c] \in {"wait", "enter", "transfer", "left"} => sThread[c] # "none"
          /\ cChannel[c] = "gaveUp" => cTeardown # "live"
          /\ c \in cDisposed => cChannel[c] # "none"
          /\ cTeardown = "done" => cChannel[c] = "none" \/ Ended(cChannel[c])

\* The server's threads: what opens its gates, and who is told to dispose.
ServerThreadsInv ==
    /\ sThread[Portal] # "wait"
    /\ Ended(sThread[Portal]) => sTeardown # "live"
    /\ ServerForced => sReady /\ connected.open
    /\ shutdown \in {"clearing", "done"} => sTeardown # "live"
    /\ sTeardown = "done" /\ shutdown = "live" =>
          eraser \in {"started", "locking"} \/ (eraser = "done" /\ ~clients)
    /\ \A c \in Channels :
          /\ c \in registered => sThread[c] \in {"signal", "wait", "enter", "transfer", "left", "gaveUp"}
          /\ sThread[c] \in {"register", "signal", "wait", "enter", "transfer", "left", "gaveUp"} =>
                sTeardown # "none"

\* The gate is open when as many have come as it counts, or it is forced.
GateOpens ==
    /\ connected \in [count : Nat, open : BOOLEAN]
    /\ ~ServerForced =>
          /\ connected.count = Cardinality(Arrived)
          /\ connected.count >= total_channel_repeats_count => connected.open

\* What keeps everybody from waiting for ever, whatever the gate counts.
WaitingInv == SocksInv /\ ClientThreadsInv /\ ServerThreadsInv /\ GateOpens

\* Every state has its types, the client_instance is in the map for as long as
\* its threads work in it, and the gates of both sides hold every channel back
\* until the server has answered, unless a dispose has forced them; and none
\* for ever.
HandshakeInv == KnownInv /\ MeetingInv /\ WaitingInv
=============================================================================
