---------------------------- MODULE ServerPortal ----------------------------
(***************************************************************************)
(* The life of the server's objects: server_portal_state, its listening    *)
(* sockets with their accept threads, the thread of every accepted         *)
(* connection, and the client_instance objects, which are shared_ptrs held *)
(* by the map of clients and by threads, but disposed by a detached thread *)
(* that holds a plain pointer, and erased by another that holds a plain    *)
(* reference to the portal.                                                *)
(*                                                                         *)
(* Many clients run here at once.  What one of them says to the server,    *)
(* and how its gates and sockets let its threads go on, is Handshake; here *)
(* a thread in fn_portal or fn_channel works until its peer or the         *)
(* disposal of its client_instance ends it.                                *)
(***************************************************************************)
EXTENDS Descent, FiniteSets

CONSTANTS
    Clients,    \* the portal connections; each makes one client_instance
    Channels,   \* the channel connections
    Owner,      \* Owner[c]: the client whose identity channel c sends
    NEndpoints, \* how many -C endpoints there are (0: the portal serves as one)
    Erring      \* the listeners whose accept() may fail although they are open

Conns == Clients \cup Channels
Listeners == 0 .. NEndpoints   \* 0 is the portal, i the i-th server_channel_state

ASSUME PartiesAssumption ==
    /\ IsFiniteSet(Conns) /\ Clients \cap Channels = {}
    /\ Owner \in [Channels -> Clients]
    /\ NEndpoints \in Nat
    /\ Erring \subseteq Listeners

\* The client_instance a connection is about.
InstanceOf(c) == IF c \in Clients THEN c ELSE Owner[c]
\* The listener a connection is made to: its portal, or any channel endpoint.
ListensFor(l, c) == l = 0 <=> (c \in Clients \/ NEndpoints = 0)

VARIABLES
    process,       \* running, exited or crashed
    exitRequired,  \* sighandle::is_exit_required()
    main,          \* where main is, inside init() or dispose() of the portal
    at,            \* the listener that init() opens or dispose() closes next
    current,       \* the client (if any) dispose_impl of the portal waits for
    portal,        \* disposable status of server_portal_state, then "destroyed"
    listener,      \* each listening socket, and the shared_ptr to it
    acceptor,      \* each accept thread
    thread,        \* the thread of each connection
    clients,       \* server_portal_state::clients
    status,        \* disposable status of each client_instance, then "destroyed"
    registered,    \* channel_threads of each client_instance
    rundown,       \* _rundown.required_rundown() of each client_instance
    disposer,      \* whoever runs dispose_impl of each client_instance
    eraser         \* the detached thread that dispose_impl starts

mainVars == <<exitRequired, main, at, current, portal>>
acceptVars == <<listener, acceptor>>
clientVars == <<clients, status, registered, rundown, disposer, eraser>>
vars == <<process, mainVars, acceptVars, thread, clientVars>>

MainStates == {"init", "waiting", "exiting", "listeners", "clients", "disposed", "returned"}
Statuses == {"normal", "disposing", "disposed", "destroyed"}
ThreadStates ==
    {"none", "greeting", "create", "lookup", "register", "working", "leaving", "destroying", "ended"}
DisposerStates == {"none", "stop", "joinPortal", "rundown", "joinChannels", "erase", "store", "ended"}
EraserStates == {"none", "started", "locking", "destroying", "done"}

Init ==
    /\ process = "running"
    /\ exitRequired = FALSE
    /\ main = "init" /\ at = 1 /\ current = {} /\ portal = "normal"
    /\ listener = [l \in Listeners |-> "none"]
    /\ acceptor = [l \in Listeners |-> "none"]
    /\ thread = [c \in Conns |-> "none"]
    /\ clients = {}
    /\ status = [k \in Clients |-> "none"]
    /\ registered = [k \in Clients |-> {}]
    /\ rundown = [k \in Clients |-> FALSE]
    /\ disposer = [k \in Clients |-> "none"]
    /\ eraser = [k \in Clients |-> "none"]

Running == process = "running"

----------------------------------------------------------------------------
(* shared_ptr<client_instance>                                              *)

\* The threads that hold a reference to client k.
Holders(k) ==
    {c \in Conns : InstanceOf(c) = k /\ thread[c] \in {"register", "working", "leaving"}}

\* clients_mutex is held while the map is cleared, and by an erasing thread
\* that runs the destructor.
MutexFree == main # "clients" /\ \A k \in Clients : eraser[k] # "destroying"

\* The first async_dispose(): the caller wins the exchange of NORMAL for
\* DISPOSING, and a thread starts dispose_impl.
AsyncDispose(k) ==
    IF status[k] = "normal"
    THEN /\ status' = [status EXCEPT ![k] = "disposing"]
         /\ disposer' = [disposer EXCEPT ![k] = "stop"]
    ELSE UNCHANGED <<status, disposer>>

\* ~client_instance ends when dispose_impl is done: async_dispose(true).
\* Mutant: async_dispose(false).
MayDestroy_Unwaited(k) == status[k] # "normal"
MayDestroy(k) == status[k] = "disposed"

----------------------------------------------------------------------------
(* main of xcpd: server_portal_state::init                                  *)

MainGoes(from, to) ==
    /\ Running /\ main = from
    /\ main' = to
    /\ UNCHANGED <<process, thread, registered, rundown, eraser>>

\* Every server_channel_state is initialised, then the portal itself.
Opening == IF at <= NEndpoints THEN at ELSE 0

OpenListener ==
    /\ MainGoes("init", IF Opening = 0 THEN "waiting" ELSE "init")
    /\ listener' = [listener EXCEPT ![Opening] = "open"]
    /\ acceptor' = [acceptor EXCEPT ![Opening] = "loop"]
    /\ at' = IF Opening = 0 THEN 0 ELSE at + 1
    /\ UNCHANGED <<exitRequired, current, portal, clients, status, disposer>>

\* No address of an endpoint can be bound.
InitFails ==
    /\ MainGoes("init", "exiting")
    /\ exitRequired' = TRUE
    /\ at' = 0
    /\ UNCHANGED <<current, portal, acceptVars, clients, status, disposer>>

\* wait_for_exit_required() returns.
WakeUp ==
    /\ exitRequired
    /\ MainGoes("waiting", "exiting")
    /\ UNCHANGED <<exitRequired, at, current, portal, acceptVars, clients, status, disposer>>

\* stop_handler: SIGINT or SIGTERM.
Signal ==
    /\ Running /\ ~exitRequired
    /\ exitRequired' = TRUE
    /\ UNCHANGED <<process, main, at, current, portal, acceptVars, thread, clientVars>>

----------------------------------------------------------------------------
(* server_portal_state::dispose_impl                                        *)

BeginDispose ==
    /\ MainGoes("exiting", "listeners")
    /\ portal' = "disposing"
    /\ UNCHANGED <<exitRequired, at, current, acceptVars, clients, status, disposer>>

\* sock->dispose()
CloseListener ==
    /\ MainGoes("listeners", "listeners")
    /\ listener[at] = "open"
    /\ listener' = [listener EXCEPT ![at] = "closed"]
    /\ UNCHANGED <<exitRequired, at, current, portal, acceptor, clients, status, disposer>>

\* sock.reset()
ResetListener ==
    /\ MainGoes("listeners", "listeners")
    /\ listener[at] = "closed"
    /\ listener' = [listener EXCEPT ![at] = "reset"]
    /\ UNCHANGED <<exitRequired, at, current, portal, acceptor, clients, status, disposer>>

\* Its accept thread is joined; after the last the mutex is taken.
JoinAcceptor ==
    /\ MainGoes("listeners", IF at = NEndpoints THEN "clients" ELSE "listeners")
    /\ listener[at] \in {"none", "reset"} /\ acceptor[at] \in {"none", "ended"}
    /\ at = NEndpoints => MutexFree
    /\ at' = IF at = NEndpoints THEN at ELSE at + 1
    /\ UNCHANGED <<exitRequired, current, portal, acceptVars, clients, status, disposer>>

\* dispose() of the next client: either main runs dispose_impl or it waits
\* for the thread that does.
DisposeClient(k) ==
    /\ k \in clients /\ current = {}
    /\ MainGoes("clients", "clients")
    /\ current' = {k}
    /\ AsyncDispose(k)
    /\ UNCHANGED <<exitRequired, at, portal, acceptVars, clients>>

\* dispose() returns when dispose_impl has, whichever thread runs it.
DisposeReturns(k) == status[k] = "disposed"

\* it.second.reset()
ResetClient ==
    /\ MainGoes("clients", "clients")
    /\ clients' = clients \ current
    /\ \E k \in current :
          /\ DisposeReturns(k)
          /\ status' = IF Holders(k) = {} THEN [status EXCEPT ![k] = "destroyed"] ELSE status
    /\ current' = {}
    /\ UNCHANGED <<exitRequired, at, portal, acceptVars, disposer>>

EndDispose ==
    /\ clients = {} /\ current = {}
    /\ MainGoes("clients", "disposed")
    /\ portal' = "disposed"
    /\ UNCHANGED <<exitRequired, at, current, acceptVars, clients, status, disposer>>

\* server_portal.reset()
DestroyPortal ==
    /\ MainGoes("disposed", "returned")
    /\ portal' = "destroyed"
    /\ UNCHANGED <<exitRequired, at, current, acceptVars, clients, status, disposer>>

MainReturns ==
    /\ Running /\ main = "returned"
    /\ process' = "exited"
    /\ UNCHANGED <<mainVars, acceptVars, thread, clientVars>>

----------------------------------------------------------------------------
(* fn_thread_accept of the portal and of each server_channel_state          *)

AcceptorGoes(l, from, to) ==
    /\ Running /\ acceptor[l] = from
    /\ acceptor' = [acceptor EXCEPT ![l] = to]
    /\ UNCHANGED <<process, mainVars, listener, clientVars>>

\* sock->accept() reads the pointer and the socket, then blocks.
CallAccept(l) ==
    /\ listener[l] = "open"
    /\ AcceptorGoes(l, "loop", "accept")
    /\ UNCHANGED thread

\* launch_thread for a new connection.  A client learns of the channels, and
\* connects them, when its fn_portal has spoken to it.
AcceptConnection(l, c) ==
    /\ listener[l] = "open"
    /\ thread[c] = "none" /\ ListensFor(l, c)
    /\ c \in Channels => status[Owner[c]] # "none"
    /\ AcceptorGoes(l, "accept", "loop")
    /\ thread' = [thread EXCEPT ![c] = "greeting"]

\* The socket is closed.  A thread that reads it after it was reset reads
\* what is left of it, if that does not end the process.  (Mutant: it does not
\* look whether the exit is required.)
AcceptFails_GoesOn(l) ==
    /\ listener[l] \in {"closed", "reset"}
    /\ \E from \in {"loop", "accept"} : AcceptorGoes(l, from, "loop")
    /\ UNCHANGED thread
AcceptFails(l) ==
    /\ listener[l] \in {"closed", "reset"}
    /\ \E from \in {"loop", "accept"} :
          AcceptorGoes(l, from, IF exitRequired THEN "ended" ELSE "loop")
    /\ UNCHANGED thread

\* accept() fails on a socket that is still open (no descriptor is left, say).
\* As long as no exit is required it is called again and the thread stays
\* where it is.
AcceptErrs(l) ==
    /\ l \in Erring /\ listener[l] = "open" /\ exitRequired
    /\ AcceptorGoes(l, "accept", "ended")
    /\ UNCHANGED thread

----------------------------------------------------------------------------
(* fn_thread_unified_accepted_socket                                        *)

ThreadGoes(c, from, to) ==
    /\ Running /\ thread[c] = from
    /\ thread' = [thread EXCEPT ![c] = to]
    /\ UNCHANGED <<process, mainVars, acceptVars, rundown, eraser>>

\* The greeting arrives or the connection fails.
RecvGreeting(c) ==
    /\ \/ ThreadGoes(c, "greeting", IF c \in Clients THEN "create" ELSE "lookup")
       \/ ThreadGoes(c, "greeting", "ended")
    /\ UNCHANGED <<clients, status, registered, disposer>>

\* Mutants: the client is not put into the map; nor is the portal's status
\* looked at again under the mutex.
CreateClient_NotInserted(k) ==
    /\ MutexFree /\ portal = "normal"
    /\ ThreadGoes(k, "create", "working")
    /\ status' = [status EXCEPT ![k] = "normal"]
    /\ UNCHANGED <<clients, registered, disposer>>
CreateClient_Unchecked(k) ==
    /\ MutexFree
    /\ ThreadGoes(k, "create", "working")
    /\ status' = [status EXCEPT ![k] = "normal"]
    /\ clients' = clients \cup {k}
    /\ UNCHANGED <<registered, disposer>>

CreateClient(k) ==
    /\ MutexFree /\ portal = "normal"
    /\ ThreadGoes(k, "create", "working")
    /\ status' = [status EXCEPT ![k] = "normal"]
    /\ clients' = clients \cup {k}
    /\ UNCHANGED <<registered, disposer>>

AbandonClient(k) ==
    /\ MutexFree /\ portal \in {"disposing", "disposed"}
    /\ ThreadGoes(k, "create", "ended")
    /\ UNCHANGED <<clients, status, registered, disposer>>

LookupClient(c) ==
    /\ MutexFree /\ portal # "destroyed"
    /\ ThreadGoes(c, "lookup", IF Owner[c] \in clients THEN "register" ELSE "ended")
    /\ UNCHANGED <<clients, status, registered, disposer>>

\* _rundown.acquire_unique(), and a mutant that does not ask it.
TurnedAway_Never(c) == FALSE
TurnedAway(c) == rundown[Owner[c]]

RegisterChannel(c) ==
    /\ ~TurnedAway(c)
    /\ ThreadGoes(c, "register", "working")
    /\ registered' = [registered EXCEPT ![Owner[c]] = @ \cup {c}]
    /\ UNCHANGED <<clients, status, disposer>>

RegisterFails(c) ==
    /\ TurnedAway(c)
    /\ ThreadGoes(c, "register", "leaving")
    /\ UNCHANGED <<clients, status, registered, disposer>>

\* fn_portal returns, and disposes its client_instance; fn_channel does so
\* when its transfer fails.
PortalEnds(k) ==
    /\ ThreadGoes(k, "working", "leaving")
    /\ AsyncDispose(k)
    /\ UNCHANGED <<clients, registered>>

ChannelSucceeds(c) ==
    /\ ThreadGoes(c, "working", "leaving")
    /\ UNCHANGED <<clients, status, registered, disposer>>

ChannelFails(c) ==
    /\ ThreadGoes(c, "working", "leaving")
    /\ AsyncDispose(Owner[c])
    /\ UNCHANGED <<clients, registered>>

\* The thread's shared_ptr goes out of scope.
DropClient(c) ==
    LET k == InstanceOf(c) IN
    /\ IF Holders(k) = {c} /\ k \notin clients
       THEN ThreadGoes(c, "leaving", "destroying") /\ AsyncDispose(k)
       ELSE ThreadGoes(c, "leaving", "ended") /\ UNCHANGED <<status, disposer>>
    /\ UNCHANGED <<clients, registered>>

DestroyClient(c) ==
    LET k == InstanceOf(c) IN
    /\ MayDestroy(k)
    /\ ThreadGoes(c, "destroying", "ended")
    /\ status' = [status EXCEPT ![k] = "destroyed"]
    /\ UNCHANGED <<clients, registered, disposer>>

----------------------------------------------------------------------------
(* client_instance::dispose_impl                                            *)

DisposerGoes(k, from, to) ==
    /\ Running /\ disposer[k] = from
    /\ disposer' = [disposer EXCEPT ![k] = to]
    /\ UNCHANGED <<process, mainVars, acceptVars, thread>>

\* The portal's socket is closed, the gates are forced, the transfer disposed.
StopPortal(k) ==
    /\ DisposerGoes(k, "stop", "joinPortal")
    /\ UNCHANGED <<clients, status, registered, rundown, eraser>>

JoinPortal(k) ==
    /\ thread[k] = "ended"
    /\ DisposerGoes(k, "joinPortal", "rundown")
    /\ UNCHANGED <<clients, status, registered, rundown, eraser>>

RunDown(k) ==
    /\ DisposerGoes(k, "rundown", "joinChannels")
    /\ rundown' = [rundown EXCEPT ![k] = TRUE]
    /\ UNCHANGED <<clients, status, registered, eraser>>

\* Each channel's socket is closed and its thread joined, in turn.
JoinChannels(k) ==
    /\ \A c \in registered[k] : thread[c] = "ended"
    /\ DisposerGoes(k, "joinChannels", "erase")
    /\ registered' = [registered EXCEPT ![k] = {}]
    /\ UNCHANGED <<clients, status, rundown, eraser>>

\* Mutant: the disposing thread itself removes the client from the map.
StartEraser_Itself(k) ==
    /\ MutexFree
    /\ DisposerGoes(k, "erase", "store")
    /\ clients' = clients \ {k}
    /\ UNCHANGED <<status, registered, rundown, eraser>>
\* The portal is asked through a reference, which is still good here.
StartEraser(k) ==
    /\ DisposerGoes(k, "erase", "store")
    /\ eraser' = IF portal = "normal" THEN [eraser EXCEPT ![k] = "started"] ELSE eraser
    /\ UNCHANGED <<clients, status, registered, rundown>>

\* _status = STATUS_DISPOSED is the last access to the object.
StoreDisposed(k) ==
    /\ DisposerGoes(k, "store", "ended")
    /\ status' = [status EXCEPT ![k] = "disposed"]
    /\ UNCHANGED <<clients, registered, rundown, eraser>>

----------------------------------------------------------------------------
(* The detached thread that erases a client from the map.                   *)

EraserGoes(k, from, to) ==
    /\ Running /\ eraser[k] = from
    /\ eraser' = [eraser EXCEPT ![k] = to]
    /\ UNCHANGED <<process, mainVars, acceptVars, thread, registered, rundown, disposer>>

EraserChecks(k) ==
    /\ portal # "destroyed"
    /\ EraserGoes(k, "started", IF portal = "normal" THEN "locking" ELSE "done")
    /\ UNCHANGED <<clients, status>>

\* clients.erase(identity), the client's destructor included.
EraserErases(k) ==
    /\ portal # "destroyed" /\ MutexFree
    /\ EraserGoes(k, "locking", IF k \in clients /\ Holders(k) = {} THEN "destroying" ELSE "done")
    /\ clients' = clients \ {k}
    /\ UNCHANGED status

EraserDestroys(k) ==
    /\ MayDestroy(k)
    /\ EraserGoes(k, "destroying", "done")
    /\ status' = [status EXCEPT ![k] = "destroyed"]
    /\ UNCHANGED clients

----------------------------------------------------------------------------
(* A thread that still follows a pointer or a reference to an object that   *)
(* is gone: the pointer an accept thread reads after sock.reset(), and the  *)
(* portal whose main is about to return.                                    *)

AcceptorReadsGone == \E l \in Listeners : acceptor[l] = "loop" /\ listener[l] = "reset"
PortalUsedGone ==
    /\ portal = "destroyed"
    /\ \/ \E c \in Conns : thread[c] \in {"create", "lookup"}
       \/ \E k \in Clients : eraser[k] \in {"started", "locking"}

Aborts ==
    /\ Running /\ (AcceptorReadsGone \/ PortalUsedGone)
    /\ process' = "crashed"
    /\ UNCHANGED <<mainVars, acceptVars, thread, clientVars>>

----------------------------------------------------------------------------
MainStep ==
    \/ OpenListener \/ InitFails \/ WakeUp
    \/ BeginDispose \/ CloseListener \/ ResetListener \/ JoinAcceptor
    \/ (\E k \in Clients : DisposeClient(k))
    \/ ResetClient \/ EndDispose \/ DestroyPortal \/ MainReturns

AcceptStep == \E l \in Listeners : CallAccept(l) \/ AcceptFails(l)

\* Once its socket is closed or its gate forced, a working thread ends.
Released(c) ==
    IF c \in Clients THEN disposer[c] = "joinPortal"
    ELSE disposer[Owner[c]] = "joinChannels" /\ c \in registered[Owner[c]]

ThreadStep ==
    \/ \E k \in Clients : CreateClient(k) \/ AbandonClient(k) \/ (Released(k) /\ PortalEnds(k))
    \/ \E c \in Channels :
          \/ LookupClient(c) \/ RegisterChannel(c) \/ RegisterFails(c)
          \/ Released(c) /\ ChannelFails(c)
    \/ \E c \in Conns : DropClient(c) \/ DestroyClient(c)

DisposerStep ==
    \E k \in Clients :
        \/ StopPortal(k) \/ JoinPortal(k) \/ RunDown(k) \/ JoinChannels(k)
        \/ StartEraser(k) \/ StoreDisposed(k)

EraserStep == \E k \in Clients : EraserChecks(k) \/ EraserErases(k) \/ EraserDestroys(k)

\* What the server does whatever its peers do.
ServerStep == MainStep \/ AcceptStep \/ ThreadStep \/ DisposerStep \/ EraserStep \/ Aborts

\* What a peer, or who runs the server, makes it do.
PeerStep ==
    \/ Signal
    \/ \E l \in Listeners : AcceptErrs(l)
    \/ \E l \in Listeners, c \in Conns : AcceptConnection(l, c)
    \/ \E c \in Conns : RecvGreeting(c)
    \/ \E k \in Clients : PortalEnds(k)
    \/ \E c \in Channels : ChannelSucceeds(c) \/ ChannelFails(c)

Next == ServerStep \/ PeerStep
Spec == Init /\ [][Next]_vars

\* Some thread that can run without its peer does: none of them runs for ever.
FairSpec == Spec /\ WF_vars(ServerStep)

----------------------------------------------------------------------------
(* Properties                                                              *)

\* Every variable has its type.
PortalTypeOK ==
    /\ process \in {"running", "exited", "crashed"}
    /\ exitRequired \in BOOLEAN
    /\ main \in MainStates /\ at \in 0 .. (NEndpoints + 1)
    /\ current \in SUBSET Clients /\ portal \in Statuses
    /\ listener \in [Listeners -> {"none", "open", "closed", "reset"}]
    /\ acceptor \in [Listeners -> {"none", "loop", "accept", "ended"}]
    /\ thread \in [Conns -> ThreadStates]
    /\ clients \subseteq Clients
    /\ status \in [Clients -> Statuses \cup {"none"}]
    /\ registered \in [Clients -> SUBSET Channels]
    /\ rundown \in [Clients -> BOOLEAN]
    /\ disposer \in [Clients -> DisposerStates]
    /\ eraser \in [Clients -> EraserStates]

\* A client_instance that has been destroyed is used by no one: not by a
\* thread in fn_portal or fn_channel, not through the map, nor by the thread
\* that disposes it, which holds a plain pointer (disposable.h:47).
NoUseAfterDestruction ==
    \A k \in Clients :
        status[k] = "destroyed" =>
            /\ k \notin clients /\ Holders(k) = {}
            /\ disposer[k] = "ended" /\ eraser[k] # "destroying"

\* The last reference to a client_instance is never dropped by a thread that
\* its dispose_impl joins: ~client_instance waits for dispose_impl, and the
\* two would wait for each other.
JoinedThreadsNeverDestroy ==
    \A c \in Conns :
        thread[c] = "destroying" => c \in Channels /\ c \notin registered[Owner[c]]

\* Who may still run when server_portal_state has been destroyed: threads that
\* have not registered with a client_instance, erasing threads, and a
\* disposing thread that has nothing left to do but to store its status.
OnlyUntrackedThreadsOutlivePortal ==
    portal = "destroyed" =>
        /\ \A l \in Listeners : acceptor[l] \in {"none", "ended"}
        /\ \A k \in Clients : disposer[k] \in {"none", "store", "ended"}
        /\ \A c \in Conns : thread[c] # "working"

\* A server told to exit does, whatever its clients are doing.
ServerExits == exitRequired ~> ~Running

\* No client_instance is leaked: once it is disposed of, it is destroyed.
DisposedIsDestroyed ==
    \A k \in Clients : status[k] = "disposing" ~> (status[k] = "destroyed" \/ ~Running)

----------------------------------------------------------------------------
(* Where the threads wait, and what is left to do.                          *)

\* main waits for the exit, for the accept thread it joins, for clients_mutex,
\* or in dispose() for the thread that runs dispose_impl.
MainWaits ==
    \/ main = "waiting" /\ ~exitRequired
    \/ /\ main = "listeners" /\ listener[at] \in {"none", "reset"}
       /\ acceptor[at] \notin {"none", "ended"} \/ (at = NEndpoints /\ ~MutexFree)
    \/ main = "clients" /\ \E k \in current : ~DisposeReturns(k)

\* A connection's thread waits for its peer (the greeting, and while it works),
\* for clients_mutex, or in the destructor for dispose_impl.
ThreadWaits(c) ==
    \/ thread[c] \in {"none", "greeting", "ended"}
    \/ thread[c] = "working" /\ ~Released(c)
    \/ thread[c] \in {"create", "lookup"} /\ ~MutexFree
    \/ thread[c] = "destroying" /\ ~MayDestroy(InstanceOf(c))

DisposerWaits(k) ==
    \/ disposer[k] \in {"none", "ended"}
    \/ disposer[k] = "joinPortal" /\ thread[k] # "ended"
    \/ disposer[k] = "joinChannels" /\ \E c \in registered[k] : thread[c] # "ended"

EraserWaits(k) ==
    \/ eraser[k] \in {"none", "done"}
    \/ eraser[k] = "locking" /\ ~MutexFree
    \/ eraser[k] = "destroying" /\ ~MayDestroy(k)

\* No thread of the server can take a step without its peers.
ServerWaits ==
    /\ MainWaits
    /\ \A l \in Listeners :
          acceptor[l] \in {"none", "ended"} \/ (acceptor[l] = "accept" /\ listener[l] = "open")
    /\ \A c \in Conns : ThreadWaits(c)
    /\ \A k \in Clients : DisposerWaits(k) /\ EraserWaits(k)

\* These are the only places where the server waits.
WaitsAreExact == ENABLED ServerStep <=> Running /\ ~ServerWaits

\* Nobody has asked the server to exit, and what it still has to do is up to its
\* peers: every client_instance is at work or destroyed, and no thread waits
\* for clients_mutex, a destructor or a join.
AtRest ==
    /\ main = "waiting" /\ ~exitRequired
    /\ \A k \in Clients : status[k] \in {"none", "normal", "destroyed"} /\ eraser[k] \in {"none", "done"}
    /\ \A c \in Conns : thread[c] \in {"none", "greeting", "working", "ended"}

\* ServerExits and DisposedIsDestroyed as a property of states: where the server
\* cannot go on by itself, it has exited or is at rest.  clients_mutex, the
\* joins of dispose_impl, the destructors and dispose() form no circle.
NobodyIsStuck == Running /\ ServerWaits => AtRest

MainLeft ==
    [init |-> 6, waiting |-> 5, exiting |-> 4, listeners |-> 3, clients |-> 2, disposed |-> 1,
     returned |-> 0]
ThreadLeft ==
    [none |-> 7, greeting |-> 6, create |-> 5, lookup |-> 5, register |-> 4, working |-> 3,
     leaving |-> 2, destroying |-> 1, ended |-> 0]
DisposerLeft ==
    [none |-> 7, stop |-> 6, joinPortal |-> 5, rundown |-> 4, joinChannels |-> 3, erase |-> 2,
     store |-> 1, ended |-> 0]
EraserLeft == [none |-> 4, started |-> 3, locking |-> 2, destroying |-> 1, done |-> 0]
ListenerLeft == [none |-> 3, open |-> 2, closed |-> 1, reset |-> 0]
AcceptorLeft == [none |-> 3, loop |-> 2, accept |-> 1, ended |-> 0]

\* What is left to do, most significant first: a thread that ends may ask for a
\* dispose, a dispose starts an eraser, and that takes a client from the map.
Left ==
    <<<<One(Running)>>,
      <<One(~exitRequired)>>,
      <<MainLeft[main]>>,
      [c \in Conns |-> ThreadLeft[thread[c]]],
      [k \in Clients |-> DisposerLeft[disposer[k]]],
      [k \in Clients |-> EraserLeft[eraser[k]]],
      [k \in Clients |-> One(k \in clients)],
      <<One(current = {})>>,
      <<NEndpoints + 1 - at>>,
      [l \in Listeners |-> ListenerLeft[listener[l]]],
      [l \in Listeners |-> AcceptorLeft[acceptor[l]]]>>

\* Every step of the server, or of a peer, leaves less to do: an accept loop
\* whose socket is gone ends, and no connection is handled or client disposed
\* twice.
NothingRunsForever == [][Below(Left', Left)]_vars

----------------------------------------------------------------------------
(* The inductive invariant.                                                *)

\* A listening socket that is gone, and its accept thread with it.
Stopped(l) == listener[l] \in {"none", "reset"} /\ acceptor[l] \in {"none", "ended"}

\* Where main is, what it has left behind and what it still holds.
MainInv ==
    /\ portal = "normal" <=> main \in {"init", "waiting", "exiting"}
    /\ portal = "disposing" <=> main \in {"listeners", "clients"}
    /\ portal = "disposed" <=> main = "disposed"
    /\ at <= NEndpoints \/ main = "init"
    /\ main \in {"waiting", "exiting"} => at = 0
    /\ main = "listeners" => \A l \in Listeners : l < at => Stopped(l)
    /\ main \in {"clients", "disposed", "returned"} => \A l \in Listeners : Stopped(l)
    /\ current # {} => main = "clients" /\ current \subseteq clients
    /\ \A j, k \in current : j = k
    /\ main \in {"disposed", "returned"} => clients = {}

\* The status of a client_instance says where its dispose_impl is, and that
\* says what has happened to its portal thread and to its place in the map.
InstanceInv ==
    \A k \in Clients :
        /\ disposer[k] = "none" <=> status[k] \in {"none", "normal"}
        /\ disposer[k] = "ended" <=> status[k] \in {"disposed", "destroyed"}
        /\ status[k] = "none" => k \notin clients /\ thread[k] \in {"none", "greeting", "create", "ended"}
        /\ status[k] # "none" => thread[k] \in {"working", "leaving", "ended"}
        /\ thread[k] \in {"working", "leaving"} => disposer[k] \in {"none", "stop", "joinPortal"}
        /\ status[k] = "normal" => thread[k] = "working"
        /\ k \in clients \/ status[k] = "none" \/ disposer[k] \in {"store", "ended"}
        /\ eraser[k] # "none" => disposer[k] \in {"store", "ended"}
        /\ rundown[k] <=> disposer[k] \in {"joinChannels", "erase", "store", "ended"}

\* A channel has a client_instance from the start; it works only when it is
\* registered, and dispose_impl has joined every registered channel when it
\* goes on to erase the client.
ChannelInv ==
    /\ \A c \in Channels :
          /\ thread[c] # "none" => status[Owner[c]] # "none"
          /\ thread[c] # "create"
          /\ thread[c] = "working" => c \in registered[Owner[c]]
    /\ \A k \in Clients :
          /\ disposer[k] \in {"erase", "store", "ended"} => registered[k] = {}
          /\ \A c \in registered[k] : Owner[c] = k /\ thread[c] \in {"working", "leaving", "ended"}

\* Threads that run the destructor of client k.
Destroying(k) == {c \in Conns : InstanceOf(c) = k /\ thread[c] = "destroying"}

\* One thread at most runs the destructor, when nobody holds a reference.
DestroyInv ==
    \A k \in Clients :
        /\ Destroying(k) # {} \/ eraser[k] = "destroying" \/ status[k] = "destroyed" =>
              k \notin clients /\ Holders(k) = {}
        /\ Destroying(k) # {} => status[k] # "destroyed" /\ eraser[k] # "destroying"
        /\ eraser[k] = "destroying" => status[k] # "destroyed"
        /\ \A c, d \in Destroying(k) : c = d

ObjectsInv ==
    /\ PortalTypeOK /\ MainInv /\ InstanceInv /\ ChannelInv /\ DestroyInv
    /\ JoinedThreadsNeverDestroy

\* Listening sockets are closed only when the exit is required.
ExitInv ==
    /\ main \notin {"init", "waiting"} => exitRequired
    /\ \A l \in Listeners :
          listener[l] \in {"closed", "reset"} => main \notin {"init", "waiting", "exiting"}

\* Somebody will destroy what is disposed: an erasing thread is on its way to a
\* client that is still in the map, unless the portal is disposed, and who
\* took it from there has left it to a thread that holds a reference.
KeptInv ==
    /\ \A k \in current : status[k] # "normal"
    /\ \A k \in Clients :
          /\ k \in clients /\ disposer[k] \in {"store", "ended"} /\ portal = "normal" =>
                eraser[k] \in {"started", "locking"}
          /\ k \notin clients /\ status[k] \notin {"none", "destroyed"} =>
                Holders(k) # {} \/ Destroying(k) # {} \/ eraser[k] = "destroying"

\* The objects of the server are used while they are there, and no longer.
PortalInv == ObjectsInv /\ ExitInv /\ KeptInv
=============================================================================
