------------------------- MODULE ServerPortalProofs -------------------------
(***************************************************************************)
(* Proofs about ServerPortal, for any number of clients, channels and      *)
(* channel endpoints: PortalInv is an invariant, and with it no            *)
(* client_instance is used after its destruction, no thread waits for      *)
(* itself, only untracked threads outlive the portal, a server that cannot *)
(* go on by itself has nothing left to end, and no run is endless.         *)
(***************************************************************************)
EXTENDS ServerPortal, TLAPS

USE PartiesAssumption

----------------------------------------------------------------------------
(* The parties.                                                            *)

\* Every connection is about a client.
LEMMA InstanceType == \A c \in Conns : InstanceOf(c) \in Clients
BY DEF InstanceOf, Conns

\* Every channel is a connection about its owner, and no client is a channel.
LEMMA ChannelOwner ==
    \A c \in Channels : c \in Conns /\ c \notin Clients /\ InstanceOf(c) = Owner[c] /\ Owner[c] \in Clients
BY DEF InstanceOf, Conns

\* Every client is a connection about itself.
LEMMA ClientConn == \A k \in Clients : k \in Conns /\ k \notin Channels /\ InstanceOf(k) = k
BY DEF InstanceOf, Conns

----------------------------------------------------------------------------
(* Steps that leave the clients and their threads alone.                   *)

ClientInv == InstanceInv /\ ChannelInv /\ DestroyInv /\ JoinedThreadsNeverDestroy

\* What holds of the clients goes on to hold when none of them is touched.
LEMMA ClientFrame ==
    ASSUME ClientInv, UNCHANGED <<thread, clientVars>>
    PROVE  ClientInv'
BY DEF ClientInv, InstanceInv, ChannelInv, DestroyInv, JoinedThreadsNeverDestroy, clientVars,
       Holders, Destroying

\* What holds of main goes on to hold when it does nothing and no client is
\* put into the map.
LEMMA MainFrame ==
    ASSUME PortalTypeOK, MainInv, UNCHANGED <<mainVars, acceptVars, clients>>
    PROVE  MainInv'
BY DEF MainInv, mainVars, acceptVars, Stopped

LEMMA InitObjects == Init => ObjectsInv
<1> SUFFICES ASSUME Init PROVE ObjectsInv
    OBVIOUS
<1>1. PortalTypeOK
  <2>1. /\ process \in {"running", "exited", "crashed"} /\ exitRequired \in BOOLEAN
        /\ main \in MainStates /\ current \in SUBSET Clients /\ portal \in Statuses
        /\ clients \subseteq Clients
    BY DEF Init, MainStates, Statuses
  <2>2. at \in 0 .. (NEndpoints + 1)
    BY DEF Init
  <2>3. /\ listener \in [Listeners -> {"none", "open", "closed", "reset"}]
        /\ acceptor \in [Listeners -> {"none", "loop", "accept", "ended"}]
        /\ thread \in [Conns -> ThreadStates]
    BY DEF Init, ThreadStates
  <2>4. /\ status \in [Clients -> Statuses \cup {"none"}]
        /\ registered \in [Clients -> SUBSET Channels]
        /\ disposer \in [Clients -> DisposerStates]
        /\ eraser \in [Clients -> EraserStates]
    BY DEF Init, DisposerStates, EraserStates
  <2>5. rundown \in [Clients -> BOOLEAN]
    BY DEF Init
  <2> QED
    BY <2>1, <2>2, <2>3, <2>4, <2>5 DEF PortalTypeOK
<1>2. MainInv
    BY DEF Init, MainInv, Listeners
<1>3. InstanceInv /\ ChannelInv
    BY ChannelOwner, ClientConn DEF Init, InstanceInv, ChannelInv
<1>4. DestroyInv /\ JoinedThreadsNeverDestroy
    BY DEF Init, DestroyInv, JoinedThreadsNeverDestroy, Holders, Destroying
<1> QED
    BY <1>1, <1>2, <1>3, <1>4 DEF ObjectsInv

\* The steps of main that are not about a client.
MainAlone ==
    \/ OpenListener \/ InitFails \/ WakeUp \/ Signal \/ BeginDispose
    \/ CloseListener \/ ResetListener \/ JoinAcceptor \/ EndDispose \/ DestroyPortal \/ MainReturns

\* What a step of main may change, and what its type then comes to.
LEMMA MainType ==
    ASSUME PortalTypeOK, UNCHANGED <<thread, clientVars>>,
           process' \in {"running", "exited", "crashed"}, exitRequired' \in BOOLEAN,
           main' \in MainStates, at' \in 0 .. (NEndpoints + 1), current' \in SUBSET Clients,
           portal' \in Statuses,
           listener' \in [Listeners -> {"none", "open", "closed", "reset"}],
           acceptor' \in [Listeners -> {"none", "loop", "accept", "ended"}]
    PROVE  PortalTypeOK'
BY DEF PortalTypeOK, clientVars

LEMMA MainAloneInv ==
    ASSUME ObjectsInv, MainAlone
    PROVE  ObjectsInv'
<1> USE DEF ObjectsInv
<1>1. UNCHANGED <<thread, clientVars>>
    BY DEF MainAlone, OpenListener, InitFails, WakeUp, Signal, BeginDispose, CloseListener,
           ResetListener, JoinAcceptor, EndDispose, DestroyPortal, MainReturns, MainGoes, clientVars
<1>2. ClientInv'
    BY <1>1, ClientFrame DEF ClientInv
<1>3. CASE OpenListener
  <2> USE <1>3 DEF OpenListener, MainGoes, PortalTypeOK, MainInv, mainVars, acceptVars, clientVars
  <2>1. PortalTypeOK'
    BY <1>1, MainType DEF MainStates, Statuses, Opening, Listeners
  <2>2. MainInv'
    BY <2>1 DEF Stopped, Opening, Listeners, MainStates, Statuses
  <2> QED
    BY <1>2, <2>1, <2>2 DEF ClientInv
<1>4. CASE InitFails
  <2> USE <1>4 DEF InitFails, MainGoes, PortalTypeOK, MainInv, mainVars, acceptVars, clientVars
  <2>1. PortalTypeOK'
    BY <1>1, MainType DEF MainStates, Statuses, Opening, Listeners
  <2>2. MainInv'
    BY <2>1 DEF Stopped, Opening, Listeners, MainStates, Statuses
  <2> QED
    BY <1>2, <2>1, <2>2 DEF ClientInv
<1>5. CASE WakeUp
  <2> USE <1>5 DEF WakeUp, MainGoes, PortalTypeOK, MainInv, mainVars, acceptVars, clientVars
  <2>1. PortalTypeOK'
    BY <1>1, MainType DEF MainStates, Statuses, Opening, Listeners
  <2>2. MainInv'
    BY <2>1 DEF Stopped, Opening, Listeners, MainStates, Statuses
  <2> QED
    BY <1>2, <2>1, <2>2 DEF ClientInv
<1>6. CASE Signal
  <2> USE <1>6 DEF Signal, MainGoes, PortalTypeOK, MainInv, mainVars, acceptVars, clientVars
  <2>1. PortalTypeOK'
    BY <1>1, MainType DEF MainStates, Statuses, Opening, Listeners
  <2>2. MainInv'
    BY <2>1 DEF Stopped, Opening, Listeners, MainStates, Statuses
  <2> QED
    BY <1>2, <2>1, <2>2 DEF ClientInv
<1>7. CASE BeginDispose
  <2> USE <1>7 DEF BeginDispose, MainGoes, PortalTypeOK, MainInv, mainVars, acceptVars, clientVars
  <2>1. PortalTypeOK'
    BY <1>1, MainType DEF MainStates, Statuses, Opening, Listeners
  <2>2. MainInv'
    BY <2>1 DEF Stopped, Opening, Listeners, MainStates, Statuses
  <2> QED
    BY <1>2, <2>1, <2>2 DEF ClientInv
<1>8. CASE CloseListener
  <2> USE <1>8 DEF CloseListener, MainGoes, PortalTypeOK, MainInv, mainVars, acceptVars, clientVars
  <2>1. PortalTypeOK'
    BY <1>1, MainType DEF MainStates, Statuses, Opening, Listeners
  <2>2. MainInv'
    BY <2>1 DEF Stopped, Opening, Listeners, MainStates, Statuses
  <2> QED
    BY <1>2, <2>1, <2>2 DEF ClientInv
<1>9. CASE ResetListener
  <2> USE <1>9 DEF ResetListener, MainGoes, PortalTypeOK, MainInv, mainVars, acceptVars, clientVars
  <2>1. PortalTypeOK'
    BY <1>1, MainType DEF MainStates, Statuses, Opening, Listeners
  <2>2. MainInv'
    BY <2>1 DEF Stopped, Opening, Listeners, MainStates, Statuses
  <2> QED
    BY <1>2, <2>1, <2>2 DEF ClientInv
<1>10. CASE JoinAcceptor
  <2> USE <1>10 DEF JoinAcceptor, MainGoes, PortalTypeOK, MainInv, mainVars, acceptVars, clientVars
  <2>1. PortalTypeOK'
    BY <1>1, MainType DEF MainStates, Statuses, Opening, Listeners
  <2>2. MainInv'
    BY <2>1 DEF Stopped, Opening, Listeners, MainStates, Statuses
  <2> QED
    BY <1>2, <2>1, <2>2 DEF ClientInv
<1>11. CASE EndDispose
  <2> USE <1>11 DEF EndDispose, MainGoes, PortalTypeOK, MainInv, mainVars, acceptVars, clientVars
  <2>1. PortalTypeOK'
    BY <1>1, MainType DEF MainStates, Statuses, Opening, Listeners
  <2>2. MainInv'
    BY <2>1 DEF Stopped, Opening, Listeners, MainStates, Statuses
  <2> QED
    BY <1>2, <2>1, <2>2 DEF ClientInv
<1>12. CASE DestroyPortal
  <2> USE <1>12 DEF DestroyPortal, MainGoes, PortalTypeOK, MainInv, mainVars, acceptVars, clientVars
  <2>1. PortalTypeOK'
    BY <1>1, MainType DEF MainStates, Statuses, Opening, Listeners
  <2>2. MainInv'
    BY <2>1 DEF Stopped, Opening, Listeners, MainStates, Statuses
  <2> QED
    BY <1>2, <2>1, <2>2 DEF ClientInv
<1>13. CASE MainReturns
  <2> USE <1>13 DEF MainReturns, MainGoes, PortalTypeOK, MainInv, mainVars, acceptVars, clientVars
  <2>1. PortalTypeOK'
    BY <1>1, MainType DEF MainStates, Statuses, Opening, Listeners
  <2>2. MainInv'
    BY <2>1 DEF Stopped, Opening, Listeners, MainStates, Statuses
  <2> QED
    BY <1>2, <2>1, <2>2 DEF ClientInv
<1> QED
    BY <1>3, <1>4, <1>5, <1>6, <1>7, <1>8, <1>9, <1>10, <1>11, <1>12, <1>13 DEF MainAlone

----------------------------------------------------------------------------
(* Steps of the threads of connections.                                    *)

\* A step that gives nobody a reference, puts nobody into the map and starts
\* no destructor.
LEMMA DestroyShrinks ==
    ASSUME DestroyInv, clients' \subseteq clients,
           \A k \in Clients :
              /\ Holders(k)' \subseteq Holders(k) /\ Destroying(k)' \subseteq Destroying(k)
              /\ eraser'[k] = "destroying" => eraser[k] = "destroying"
              /\ status'[k] = "destroyed" => status[k] = "destroyed"
    PROVE  DestroyInv'
BY DEF DestroyInv

\* The type after a thread's step.
LEMMA ThreadType ==
    ASSUME PortalTypeOK, NEW c \in Conns, NEW to \in ThreadStates,
           thread' = [thread EXCEPT ![c] = to],
           UNCHANGED <<process, mainVars, listener, eraser, rundown>>,
           acceptor' \in [Listeners -> {"none", "loop", "accept", "ended"}],
           clients' \subseteq Clients,
           status' \in [Clients -> Statuses \cup {"none"}],
           registered' \in [Clients -> SUBSET Channels],
           disposer' \in [Clients -> DisposerStates]
    PROVE  PortalTypeOK'
BY DEF PortalTypeOK, mainVars

\* The type of a status and a disposer after a dispose.
LEMMA DisposeType ==
    ASSUME PortalTypeOK, NEW k \in Clients, AsyncDispose(k)
    PROVE  /\ status' \in [Clients -> Statuses \cup {"none"}]
           /\ disposer' \in [Clients -> DisposerStates]
BY DEF PortalTypeOK, AsyncDispose, Statuses, DisposerStates

LEMMA CallAcceptInv ==
    ASSUME ObjectsInv, NEW l \in Listeners, CallAccept(l) \/ AcceptFails(l) \/ AcceptErrs(l)
    PROVE  ObjectsInv'
<1> USE DEF ObjectsInv, CallAccept, AcceptFails, AcceptErrs, AcceptorGoes
<1>1. ClientInv'
    BY ClientFrame DEF ClientInv, clientVars
<1>2. PortalTypeOK'
    BY DEF PortalTypeOK, mainVars, clientVars
<1>3. MainInv'
    BY <1>2 DEF PortalTypeOK, MainInv, Stopped, mainVars, clientVars
<1> QED
    BY <1>1, <1>2, <1>3 DEF ClientInv

LEMMA AcceptConnectionInv ==
    ASSUME ObjectsInv, NEW l \in Listeners, NEW c \in Conns, AcceptConnection(l, c)
    PROVE  ObjectsInv'
<1> USE DEF ObjectsInv, AcceptConnection, AcceptorGoes
<1>1. PortalTypeOK'
    BY DEF PortalTypeOK, ThreadStates, mainVars, clientVars
<1>2. MainInv'
    BY <1>1 DEF PortalTypeOK, MainInv, Stopped, mainVars, clientVars
<1>3. InstanceInv'
    BY <1>1, ClientConn DEF PortalTypeOK, InstanceInv, clientVars
<1>4. ChannelInv'
    BY <1>1, ChannelOwner DEF PortalTypeOK, ChannelInv, clientVars
<1>5. DestroyInv'
  <2>1. \A k \in Clients : Holders(k)' \subseteq Holders(k) /\ Destroying(k)' \subseteq Destroying(k)
    BY DEF PortalTypeOK, Holders, Destroying
  <2> QED
    BY <2>1, DestroyShrinks DEF clientVars
<1>6. JoinedThreadsNeverDestroy'
    BY DEF PortalTypeOK, JoinedThreadsNeverDestroy, clientVars
<1> QED
    BY <1>1, <1>2, <1>3, <1>4, <1>5, <1>6

\* Steps of a thread that holds nothing and gets nothing.
LEMMA GreetingInv ==
    ASSUME ObjectsInv, NEW c \in Conns, RecvGreeting(c) \/ (c \in Clients /\ AbandonClient(c))
    PROVE  ObjectsInv'
<1> USE DEF ObjectsInv, RecvGreeting, AbandonClient, ThreadGoes
<1>1. PICK to \in {"create", "lookup", "ended"} :
         /\ thread[c] \in {"greeting", "create"} /\ thread' = [thread EXCEPT ![c] = to]
         /\ c \in Channels => to # "create" /\ thread[c] = "greeting"
         /\ c \in Clients => to # "lookup"
    BY ChannelOwner, ClientConn
<1>2. PortalTypeOK'
    BY <1>1, ThreadType DEF PortalTypeOK, ThreadStates, acceptVars, clientVars
<1>3. MainInv'
    BY MainFrame
<1>4. InstanceInv'
    BY <1>1, <1>2, ClientConn DEF PortalTypeOK, InstanceInv
<1>5. ChannelInv'
    BY <1>1, <1>2, ChannelOwner DEF PortalTypeOK, ChannelInv
<1>6. DestroyInv'
  <2>1. \A k \in Clients : Holders(k)' \subseteq Holders(k) /\ Destroying(k)' \subseteq Destroying(k)
    BY <1>1 DEF PortalTypeOK, Holders, Destroying
  <2> QED
    BY <2>1, DestroyShrinks
<1>7. JoinedThreadsNeverDestroy'
    BY <1>1 DEF PortalTypeOK, JoinedThreadsNeverDestroy
<1> QED
    BY <1>2, <1>3, <1>4, <1>5, <1>6, <1>7

LEMMA CreateClientInv ==
    ASSUME ObjectsInv, NEW k \in Clients, CreateClient(k)
    PROVE  ObjectsInv'
<1> USE DEF ObjectsInv, CreateClient, ThreadGoes
<1>1. k \in Conns /\ status[k] = "none" /\ k \notin clients
    BY ClientConn DEF InstanceInv
<1>2. PortalTypeOK'
    BY <1>1, ThreadType DEF PortalTypeOK, ThreadStates, Statuses, acceptVars
<1>3. MainInv'
    BY DEF MainInv, mainVars, acceptVars, Stopped
<1>4. InstanceInv'
    BY <1>1, <1>2, ClientConn DEF PortalTypeOK, InstanceInv
<1>5. ChannelInv'
    BY <1>1, <1>2, ChannelOwner, ClientConn DEF PortalTypeOK, ChannelInv
<1>6. DestroyInv'
  <2>1. Destroying(k) = {} /\ eraser[k] # "destroying"
    BY <1>1, ClientConn, ChannelOwner DEF InstanceInv, ChannelInv, Destroying, Conns, PortalTypeOK, Destroying
  <2>2. \A j \in Clients : /\ Destroying(j)' = Destroying(j)
                           /\ j # k => Holders(j)' = Holders(j)
    BY <1>1, <2>1, ClientConn DEF PortalTypeOK, Holders, Destroying
  <2> QED
    BY <1>1, <2>1, <2>2 DEF DestroyInv, PortalTypeOK
<1>7. JoinedThreadsNeverDestroy'
    BY <1>1 DEF PortalTypeOK, JoinedThreadsNeverDestroy
<1> QED
    BY <1>2, <1>3, <1>4, <1>5, <1>6, <1>7

LEMMA LookupInv ==
    ASSUME ObjectsInv, NEW c \in Channels, LookupClient(c)
    PROVE  ObjectsInv'
<1> USE DEF ObjectsInv, LookupClient, ThreadGoes
<1>1. c \in Conns /\ c \notin Clients /\ InstanceOf(c) = Owner[c] /\ Owner[c] \in Clients
    BY ChannelOwner
<1>2. PICK to \in {"register", "ended"} :
         thread' = [thread EXCEPT ![c] = to] /\ (to = "register" => Owner[c] \in clients)
    OBVIOUS
<1>3. PortalTypeOK'
    BY <1>1, <1>2, ThreadType DEF PortalTypeOK, ThreadStates, acceptVars
<1>4. MainInv'
    BY MainFrame
<1>5. InstanceInv'
    BY <1>1, <1>2, <1>3, ClientConn DEF PortalTypeOK, InstanceInv
<1>6. ChannelInv'
    BY <1>1, <1>2, <1>3, ChannelOwner DEF PortalTypeOK, ChannelInv
<1>7. DestroyInv'
  <2>1. \A k \in Clients : /\ Destroying(k)' \subseteq Destroying(k)
                           /\ k \notin clients => Holders(k)' \subseteq Holders(k)
    BY <1>1, <1>2 DEF PortalTypeOK, Holders, Destroying
  <2> QED
    BY <2>1 DEF DestroyInv
<1>8. JoinedThreadsNeverDestroy'
    BY <1>1, <1>2 DEF PortalTypeOK, JoinedThreadsNeverDestroy
<1> QED
    BY <1>3, <1>4, <1>5, <1>6, <1>7, <1>8

LEMMA RegisterInv ==
    ASSUME ObjectsInv, NEW c \in Channels, RegisterChannel(c) \/ RegisterFails(c)
    PROVE  ObjectsInv'
<1> USE DEF ObjectsInv, RegisterChannel, RegisterFails, TurnedAway, ThreadGoes
<1>1. c \in Conns /\ c \notin Clients /\ InstanceOf(c) = Owner[c] /\ Owner[c] \in Clients
    BY ChannelOwner
<1>2. PICK to \in {"working", "leaving"} :
         /\ thread[c] = "register" /\ thread' = [thread EXCEPT ![c] = to]
         /\ \/ to = "leaving" /\ registered' = registered
            \/ to = "working" /\ ~rundown[Owner[c]]
               /\ registered' = [registered EXCEPT ![Owner[c]] = @ \cup {c}]
    OBVIOUS
<1>3. PortalTypeOK'
  <2>1. registered' \in [Clients -> SUBSET Channels]
    BY <1>1, <1>2 DEF PortalTypeOK
  <2> QED
    BY <1>1, <1>2, <2>1, ThreadType DEF PortalTypeOK, ThreadStates, acceptVars
<1>4. MainInv'
    BY MainFrame
<1>5. InstanceInv'
    BY <1>1, <1>2, <1>3, ClientConn DEF PortalTypeOK, InstanceInv
<1>6. ChannelInv'
    BY <1>1, <1>2, <1>3, ChannelOwner DEF PortalTypeOK, ChannelInv, InstanceInv
<1>7. DestroyInv'
  <2>1. \A k \in Clients : Holders(k)' \subseteq Holders(k) /\ Destroying(k)' \subseteq Destroying(k)
    BY <1>1, <1>2 DEF PortalTypeOK, Holders, Destroying
  <2> QED
    BY <2>1, DestroyShrinks
<1>8. JoinedThreadsNeverDestroy'
    BY <1>1, <1>2, ChannelOwner DEF PortalTypeOK, JoinedThreadsNeverDestroy
<1> QED
    BY <1>3, <1>4, <1>5, <1>6, <1>7, <1>8

\* A working thread ends, and disposes its client_instance or not.
LEMMA EndsInv ==
    ASSUME ObjectsInv, NEW c \in Conns,
           (c \in Clients /\ PortalEnds(c)) \/ (c \in Channels /\ (ChannelSucceeds(c) \/ ChannelFails(c)))
    PROVE  ObjectsInv'
<1> USE DEF ObjectsInv
<1> DEFINE k == InstanceOf(c)
<1>1. /\ thread[c] = "working" /\ thread' = [thread EXCEPT ![c] = "leaving"]
      /\ UNCHANGED <<process, mainVars, acceptVars, clients, registered, rundown, eraser>>
      /\ AsyncDispose(k) \/ (c \in Channels /\ UNCHANGED <<status, disposer>>)
      /\ k \in Clients
    BY ChannelOwner, ClientConn DEF PortalEnds, ChannelSucceeds, ChannelFails, ThreadGoes
<1>2. PortalTypeOK'
    BY <1>1, ThreadType, DisposeType DEF PortalTypeOK, ThreadStates, acceptVars
<1>3. MainInv'
    BY <1>1, MainFrame
<1>4. status[k] # "none"
    BY <1>1, ChannelOwner, ClientConn DEF InstanceInv, ChannelInv, Conns
<1>5. InstanceInv'
    BY <1>1, <1>2, <1>4, ClientConn, ChannelOwner DEF PortalTypeOK, InstanceInv, AsyncDispose
<1>6. ChannelInv'
    BY <1>1, <1>2, ChannelOwner, ClientConn DEF PortalTypeOK, ChannelInv, InstanceInv, AsyncDispose
<1>7. DestroyInv'
  <2>1. \A j \in Clients : Holders(j)' \subseteq Holders(j) /\ Destroying(j)' \subseteq Destroying(j)
    BY <1>1 DEF PortalTypeOK, Holders, Destroying
  <2> QED
    BY <1>1, <2>1, DestroyShrinks DEF AsyncDispose, PortalTypeOK
<1>8. JoinedThreadsNeverDestroy'
    BY <1>1 DEF PortalTypeOK, JoinedThreadsNeverDestroy
<1> QED
    BY <1>2, <1>3, <1>5, <1>6, <1>7, <1>8

\* The last reference is dropped only when dispose_impl is over, but for the
\* store of its status.
LEMMA DropInv ==
    ASSUME ObjectsInv, NEW c \in Conns, DropClient(c)
    PROVE  ObjectsInv'
<1> USE DEF ObjectsInv
<1> DEFINE k == InstanceOf(c)
<1>1. k \in Clients
    BY InstanceType
<1>2. /\ thread[c] = "leaving" /\ UNCHANGED <<process, mainVars, acceptVars, clients, registered, rundown, eraser>>
      /\ \/ Holders(k) = {c} /\ k \notin clients /\ AsyncDispose(k)
            /\ thread' = [thread EXCEPT ![c] = "destroying"]
         \/ UNCHANGED <<status, disposer>> /\ thread' = [thread EXCEPT ![c] = "ended"]
    BY DEF DropClient, ThreadGoes
<1>3. c \in Holders(k)
    BY <1>2 DEF Holders
<1>4. status[k] # "none" /\ status[k] # "destroyed"
    BY <1>1, <1>2, <1>3, ChannelOwner, ClientConn DEF InstanceInv, ChannelInv, DestroyInv, Conns
<1>5. UNCHANGED <<status, disposer>>
    BY <1>1, <1>2, <1>4 DEF InstanceInv, AsyncDispose
<1>6. k \notin clients => c \in Channels /\ registered[k] = {}
    BY <1>1, <1>2, <1>4, ClientConn, ChannelOwner DEF InstanceInv, ChannelInv, Conns
<1>7. PortalTypeOK'
    BY <1>2, <1>5, ThreadType DEF PortalTypeOK, ThreadStates, acceptVars
<1>8. MainInv'
    BY <1>2, MainFrame
<1>9. InstanceInv'
    BY <1>1, <1>2, <1>5, <1>6, <1>7, ClientConn, ChannelOwner DEF PortalTypeOK, InstanceInv
<1>10. ChannelInv'
    BY <1>1, <1>2, <1>5, <1>6, <1>7, ChannelOwner, ClientConn DEF PortalTypeOK, ChannelInv
<1>11. DestroyInv'
  <2>1. \A j \in Clients : Holders(j)' \subseteq Holders(j)
    BY <1>2 DEF PortalTypeOK, Holders
  <2>2. CASE thread' = [thread EXCEPT ![c] = "ended"]
    <3>1. \A j \in Clients : Destroying(j)' \subseteq Destroying(j)
      BY <1>2, <2>2 DEF PortalTypeOK, Destroying
    <3> QED
      BY <1>2, <1>5, <2>1, <3>1, DestroyShrinks
  <2>3. CASE /\ Holders(k) = {c} /\ k \notin clients
             /\ thread' = [thread EXCEPT ![c] = "destroying"]
    <3>1. Destroying(k) = {} /\ eraser[k] # "destroying"
      BY <1>1, <1>3 DEF DestroyInv
    <3>2. Holders(k)' = {}
      BY <1>2, <2>1, <2>3, <1>1 DEF Holders, PortalTypeOK
    <3>3. \A j \in Clients : Destroying(j)' = IF j = k THEN {c} ELSE Destroying(j)
      BY <1>2, <2>3, <3>1 DEF PortalTypeOK, Destroying
    <3> QED
      BY <1>1, <1>2, <1>4, <1>5, <2>1, <2>3, <3>1, <3>2, <3>3 DEF DestroyInv
  <2> QED
    BY <1>2, <2>2, <2>3
<1>12. JoinedThreadsNeverDestroy'
    BY <1>1, <1>2, <1>6, ChannelOwner DEF PortalTypeOK, JoinedThreadsNeverDestroy
<1> QED
    BY <1>7, <1>8, <1>9, <1>10, <1>11, <1>12

\* Whoever runs the destructor is the only one left.
LEMMA DestroyClientInv ==
    ASSUME ObjectsInv, NEW c \in Conns, DestroyClient(c)
    PROVE  ObjectsInv'
<1> USE DEF ObjectsInv, DestroyClient, ThreadGoes
<1> DEFINE k == InstanceOf(c)
<1>1. k \in Clients /\ c \in Destroying(k) /\ status[k] = "disposed"
    BY InstanceType DEF Destroying, MayDestroy
<1>2. c \in Channels /\ c \notin registered[k] /\ c \notin Clients
    BY ChannelOwner, ClientConn DEF JoinedThreadsNeverDestroy
<1>3. PortalTypeOK'
    BY <1>1, ThreadType DEF PortalTypeOK, ThreadStates, Statuses, acceptVars
<1>4. MainInv'
    BY MainFrame
<1>5. InstanceInv'
    BY <1>1, <1>2, <1>3, ClientConn DEF PortalTypeOK, InstanceInv
<1>6. ChannelInv'
    BY <1>1, <1>2, <1>3, ChannelOwner DEF PortalTypeOK, ChannelInv
<1>7. DestroyInv'
  <2>1. \A j \in Clients : Holders(j)' \subseteq Holders(j)
    BY DEF PortalTypeOK, Holders
  <2>2. \A j \in Clients : Destroying(j)' = Destroying(j) \ {c}
    BY DEF PortalTypeOK, Destroying
  <2>3. Destroying(k)' = {}
    BY <1>1, <2>2 DEF DestroyInv
  <2> QED
    BY <1>1, <2>1, <2>2, <2>3 DEF DestroyInv, PortalTypeOK
<1>8. JoinedThreadsNeverDestroy'
    BY DEF PortalTypeOK, JoinedThreadsNeverDestroy
<1> QED
    BY <1>3, <1>4, <1>5, <1>6, <1>7, <1>8

----------------------------------------------------------------------------
(* Steps of disposing and erasing threads, and of main about a client.      *)

\* A step that moves no thread of a connection leaves all holders.
LEMMA SameHolders ==
    ASSUME UNCHANGED thread
    PROVE  \A k \in Clients : Holders(k)' = Holders(k) /\ Destroying(k)' = Destroying(k)
BY DEF Holders, Destroying

LEMMA DisposerInv ==
    ASSUME ObjectsInv, NEW k \in Clients,
           \/ StopPortal(k) \/ JoinPortal(k) \/ RunDown(k) \/ JoinChannels(k)
           \/ StartEraser(k) \/ StoreDisposed(k)
    PROVE  ObjectsInv'
<1> USE DEF ObjectsInv
<1>1. UNCHANGED <<process, mainVars, acceptVars, thread, clients>>
    BY DEF StopPortal, JoinPortal, RunDown, JoinChannels, StartEraser, StoreDisposed, DisposerGoes
<1>2. k \in Conns /\ k \notin Channels
    BY ClientConn
<1>3. MainInv'
    BY <1>1, MainFrame
<1>4. CASE StopPortal(k)
  <2> USE <1>4 DEF StopPortal, DisposerGoes
  <2>1. PortalTypeOK'
    BY <1>1 DEF PortalTypeOK, DisposerStates, mainVars, acceptVars
  <2>2. InstanceInv' /\ ChannelInv'
    BY <1>1, <2>1 DEF PortalTypeOK, InstanceInv, ChannelInv
  <2>3. DestroyInv' /\ JoinedThreadsNeverDestroy'
    BY <1>1, SameHolders DEF DestroyInv, JoinedThreadsNeverDestroy
  <2> QED
    BY <1>3, <2>1, <2>2, <2>3
<1>5. CASE JoinPortal(k)
  <2> USE <1>5 DEF JoinPortal, DisposerGoes
  <2>1. PortalTypeOK'
    BY <1>1 DEF PortalTypeOK, DisposerStates, mainVars, acceptVars
  <2>2. InstanceInv' /\ ChannelInv'
    BY <1>1, <2>1 DEF PortalTypeOK, InstanceInv, ChannelInv
  <2>3. DestroyInv' /\ JoinedThreadsNeverDestroy'
    BY <1>1, SameHolders DEF DestroyInv, JoinedThreadsNeverDestroy
  <2> QED
    BY <1>3, <2>1, <2>2, <2>3
<1>6. CASE RunDown(k)
  <2> USE <1>6 DEF RunDown, DisposerGoes
  <2>1. PortalTypeOK'
    BY <1>1 DEF PortalTypeOK, DisposerStates, mainVars, acceptVars
  <2>2. InstanceInv' /\ ChannelInv'
    BY <1>1, <2>1 DEF PortalTypeOK, InstanceInv, ChannelInv
  <2>3. DestroyInv' /\ JoinedThreadsNeverDestroy'
    BY <1>1, SameHolders DEF DestroyInv, JoinedThreadsNeverDestroy
  <2> QED
    BY <1>3, <2>1, <2>2, <2>3
<1>7. CASE JoinChannels(k)
  <2> USE <1>7 DEF JoinChannels, DisposerGoes
  <2>1. PortalTypeOK'
    BY <1>1 DEF PortalTypeOK, DisposerStates, mainVars, acceptVars
  <2>2. InstanceInv'
    BY <1>1, <2>1 DEF PortalTypeOK, InstanceInv
  <2>3. ChannelInv'
    BY <1>1, <2>1, ChannelOwner DEF PortalTypeOK, ChannelInv
  <2>4. DestroyInv' /\ JoinedThreadsNeverDestroy'
    BY <1>1, SameHolders, ChannelOwner DEF DestroyInv, JoinedThreadsNeverDestroy, PortalTypeOK
  <2> QED
    BY <1>3, <2>1, <2>2, <2>3, <2>4
<1>8. CASE StartEraser(k)
  <2> USE <1>8 DEF StartEraser, DisposerGoes
  <2>1. PortalTypeOK'
    BY <1>1 DEF PortalTypeOK, DisposerStates, EraserStates, mainVars, acceptVars
  <2>2. InstanceInv' /\ ChannelInv'
    BY <1>1, <2>1 DEF PortalTypeOK, InstanceInv, ChannelInv
  <2>3. DestroyInv'
    BY <1>1, SameHolders, DestroyShrinks DEF PortalTypeOK
  <2>4. JoinedThreadsNeverDestroy'
    BY <1>1 DEF JoinedThreadsNeverDestroy
  <2> QED
    BY <1>3, <2>1, <2>2, <2>3, <2>4
<1>9. CASE StoreDisposed(k)
  <2> USE <1>9 DEF StoreDisposed, DisposerGoes
  <2>1. PortalTypeOK'
    BY <1>1 DEF PortalTypeOK, DisposerStates, Statuses, mainVars, acceptVars
  <2>2. InstanceInv' /\ ChannelInv'
    BY <1>1, <2>1, ChannelOwner DEF PortalTypeOK, InstanceInv, ChannelInv
  <2>3. DestroyInv'
    BY <1>1, SameHolders, DestroyShrinks DEF PortalTypeOK
  <2>4. JoinedThreadsNeverDestroy'
    BY <1>1 DEF JoinedThreadsNeverDestroy
  <2> QED
    BY <1>3, <2>1, <2>2, <2>3, <2>4
<1> QED
    BY <1>4, <1>5, <1>6, <1>7, <1>8, <1>9

LEMMA EraserInv ==
    ASSUME ObjectsInv, NEW k \in Clients, EraserChecks(k) \/ EraserErases(k) \/ EraserDestroys(k)
    PROVE  ObjectsInv'
<1> USE DEF ObjectsInv
<1>1. /\ UNCHANGED <<process, mainVars, acceptVars, thread, registered, rundown, disposer>>
      /\ clients' \subseteq clients
    BY DEF EraserChecks, EraserErases, EraserDestroys, EraserGoes
<1>2. k \in Conns /\ k \notin Channels
    BY ClientConn
<1>3. CASE EraserChecks(k)
  <2> USE <1>3 DEF EraserChecks, EraserGoes
  <2>1. PortalTypeOK'
    BY <1>1 DEF PortalTypeOK, EraserStates, mainVars, acceptVars
  <2>2. MainInv'
    BY MainFrame
  <2>3. InstanceInv' /\ ChannelInv'
    BY <1>1, <2>1 DEF PortalTypeOK, InstanceInv, ChannelInv
  <2>4. DestroyInv' /\ JoinedThreadsNeverDestroy'
    BY <1>1, SameHolders, DestroyShrinks DEF PortalTypeOK, JoinedThreadsNeverDestroy
  <2> QED
    BY <2>1, <2>2, <2>3, <2>4
<1>4. CASE EraserErases(k)
  <2> USE <1>4 DEF EraserErases, EraserGoes
  <2>1. PortalTypeOK'
    BY <1>1 DEF PortalTypeOK, EraserStates, mainVars, acceptVars
  <2>2. MainInv'
    BY <1>1, <2>1 DEF MainInv, MutexFree, Stopped, mainVars, acceptVars
  <2>3. InstanceInv' /\ ChannelInv'
    BY <1>1, <2>1 DEF PortalTypeOK, InstanceInv, ChannelInv
  <2>4. DestroyInv'
    BY <1>1, SameHolders DEF PortalTypeOK, DestroyInv
  <2>5. JoinedThreadsNeverDestroy'
    BY <1>1 DEF JoinedThreadsNeverDestroy
  <2> QED
    BY <2>1, <2>2, <2>3, <2>4, <2>5
<1>5. CASE EraserDestroys(k)
  <2> USE <1>5 DEF EraserDestroys, EraserGoes, MayDestroy
  <2>1. PortalTypeOK'
    BY <1>1 DEF PortalTypeOK, EraserStates, Statuses, mainVars, acceptVars
  <2>2. MainInv'
    BY MainFrame
  <2>3. InstanceInv' /\ ChannelInv'
    BY <1>1, <2>1, ChannelOwner DEF PortalTypeOK, InstanceInv, ChannelInv
  <2>4. DestroyInv'
    BY <1>1, SameHolders DEF PortalTypeOK, DestroyInv
  <2>5. JoinedThreadsNeverDestroy'
    BY <1>1 DEF JoinedThreadsNeverDestroy
  <2> QED
    BY <2>1, <2>2, <2>3, <2>4, <2>5
<1> QED
    BY <1>3, <1>4, <1>5

LEMMA DisposeClientInv ==
    ASSUME ObjectsInv, NEW k \in Clients, DisposeClient(k)
    PROVE  ObjectsInv'
<1> USE DEF ObjectsInv, DisposeClient, MainGoes
<1>1. PortalTypeOK'
    BY DisposeType DEF PortalTypeOK, MainStates, acceptVars
<1>2. MainInv'
    BY <1>1 DEF MainInv, Stopped, acceptVars
<1>3. InstanceInv'
    BY <1>1 DEF PortalTypeOK, InstanceInv, AsyncDispose
<1>4. ChannelInv'
    BY <1>1, ChannelOwner DEF PortalTypeOK, ChannelInv, InstanceInv, AsyncDispose
<1>5. DestroyInv' /\ JoinedThreadsNeverDestroy'
    BY SameHolders, DestroyShrinks DEF PortalTypeOK, JoinedThreadsNeverDestroy, AsyncDispose
<1> QED
    BY <1>1, <1>2, <1>3, <1>4, <1>5

LEMMA ResetClientInv ==
    ASSUME ObjectsInv, ResetClient
    PROVE  ObjectsInv'
<1> USE DEF ObjectsInv, ResetClient, MainGoes
<1>1. PICK k \in current :
         /\ status[k] = "disposed" /\ clients' = clients \ current
         /\ status' = IF Holders(k) = {} THEN [status EXCEPT ![k] = "destroyed"] ELSE status
    BY DEF DisposeReturns
<1>2. current = {k} /\ k \in clients /\ k \in Clients
    BY <1>1 DEF MainInv, PortalTypeOK
<1>3. PortalTypeOK'
    BY <1>1, <1>2 DEF PortalTypeOK, MainStates, Statuses, acceptVars
<1>4. MainInv'
    BY <1>1, <1>2, <1>3 DEF MainInv, Stopped, acceptVars
<1>5. InstanceInv'
    BY <1>1, <1>2, <1>3 DEF PortalTypeOK, InstanceInv
<1>6. ChannelInv'
    BY <1>1, <1>2, <1>3, ChannelOwner DEF PortalTypeOK, ChannelInv
<1>7. DestroyInv'
    BY <1>1, <1>2, SameHolders DEF PortalTypeOK, DestroyInv
<1>8. JoinedThreadsNeverDestroy'
    BY DEF JoinedThreadsNeverDestroy
<1> QED
    BY <1>3, <1>4, <1>5, <1>6, <1>7, <1>8

LEMMA AbortInv ==
    ASSUME ObjectsInv, Aborts
    PROVE  ObjectsInv'
<1> USE DEF ObjectsInv, Aborts
<1>1. ClientInv'
    BY ClientFrame DEF ClientInv
<1>2. MainInv'
    BY MainFrame DEF clientVars
<1>3. PortalTypeOK'
    BY DEF PortalTypeOK, mainVars, acceptVars, clientVars
<1> QED
    BY <1>1, <1>2, <1>3 DEF ClientInv

\* Every step keeps ObjectsInv.
LEMMA StepObjects ==
    ASSUME ObjectsInv, [Next]_vars
    PROVE  ObjectsInv'
<1>1. CASE MainStep
    BY <1>1, MainAloneInv, DisposeClientInv, ResetClientInv DEF MainStep, MainAlone
<1>2. CASE AcceptStep
    BY <1>2, CallAcceptInv DEF AcceptStep
<1>3. CASE ThreadStep
    BY <1>3, GreetingInv, CreateClientInv, LookupInv, RegisterInv, EndsInv, DropInv, DestroyClientInv,
       ClientConn, ChannelOwner DEF ThreadStep
<1>4. CASE DisposerStep
    BY <1>4, DisposerInv DEF DisposerStep
<1>5. CASE EraserStep
    BY <1>5, EraserInv DEF EraserStep
<1>6. CASE PeerStep
    BY <1>6, MainAloneInv, CallAcceptInv, AcceptConnectionInv, GreetingInv, EndsInv, ClientConn, ChannelOwner
       DEF PeerStep, MainAlone
<1>7. CASE UNCHANGED vars
  <2> USE <1>7 DEF vars, ObjectsInv
  <2>1. ClientInv'
    BY ClientFrame DEF ClientInv
  <2>2. MainInv'
    BY MainFrame DEF clientVars
  <2>3. PortalTypeOK'
    BY DEF PortalTypeOK, mainVars, acceptVars, clientVars
  <2> QED
    BY <2>1, <2>2, <2>3 DEF ClientInv
<1> QED
    BY <1>1, <1>2, <1>3, <1>4, <1>5, <1>6, <1>7, AbortInv DEF Next, ServerStep

----------------------------------------------------------------------------
(* Whatever is disposed will be destroyed.                                 *)

LEMMA InitEnding == Init => ExitInv /\ KeptInv
BY DEF Init, ExitInv, KeptInv

\* Listening sockets are closed by dispose_impl, which starts when main has seen
\* the exit required.
LEMMA ExitStep ==
    ASSUME PortalTypeOK, ExitInv, [Next]_vars PROVE ExitInv'
<1> USE DEF PortalTypeOK, ExitInv, mainVars, acceptVars, clientVars
<1>1. CASE MainStep
    <2>1. CASE OpenListener
        BY <2>1 DEF OpenListener, MainGoes, Opening, MainStates
    <2>2. CASE CloseListener \/ ResetListener
        BY <2>2 DEF CloseListener, ResetListener, MainGoes
    <2>3. CASE /\ MainStep /\ ~OpenListener /\ ~CloseListener /\ ~ResetListener
        BY <2>3 DEF MainStep, InitFails, WakeUp, BeginDispose, JoinAcceptor, DisposeClient,
                    ResetClient, EndDispose, DestroyPortal, MainReturns, MainGoes
    <2> QED
        BY <1>1, <2>1, <2>2, <2>3
<1>2. CASE AcceptStep
    BY <1>2 DEF AcceptStep, CallAccept, AcceptFails, AcceptorGoes
<1>3. CASE ThreadStep \/ DisposerStep \/ EraserStep
    BY <1>3 DEF ThreadStep, CreateClient, AbandonClient, PortalEnds, LookupClient, RegisterChannel,
                RegisterFails, ChannelFails, DropClient, DestroyClient, ThreadGoes, DisposerStep,
                StopPortal, JoinPortal, RunDown, JoinChannels, StartEraser, StoreDisposed,
                DisposerGoes, EraserStep, EraserChecks, EraserErases, EraserDestroys, EraserGoes
<1>4. CASE PeerStep
    BY <1>4 DEF PeerStep, Signal, AcceptErrs, AcceptConnection, AcceptorGoes, RecvGreeting, PortalEnds,
                ChannelSucceeds, ChannelFails, ThreadGoes
<1>5. CASE Aborts \/ UNCHANGED vars
    BY <1>5 DEF Aborts, vars
<1> QED
    BY <1>1, <1>2, <1>3, <1>4, <1>5 DEF Next, ServerStep

\* A step that moves no reference and takes no client from the map, and leaves
\* the erasing threads alone.
LEMMA KeptFrame ==
    ASSUME KeptInv, UNCHANGED <<current, clients, disposer, eraser, status>>,
           portal' = "normal" => portal = "normal",
           \A k \in Clients : Holders(k) \subseteq Holders(k)' /\ Destroying(k) \subseteq Destroying(k)'
    PROVE  KeptInv'
BY DEF KeptInv

LEMMA KeptStep ==
    ASSUME ObjectsInv, KeptInv, [Next]_vars PROVE KeptInv'
<1> USE DEF ObjectsInv
<1>1. CASE MainAlone
    <2>1. UNCHANGED <<clients, disposer, eraser, status, thread, current>>
          /\ (portal' = "normal" => portal = "normal")
        BY <1>1 DEF MainAlone, OpenListener, InitFails, WakeUp, Signal, BeginDispose, CloseListener,
               ResetListener, JoinAcceptor, EndDispose, DestroyPortal, MainReturns, MainGoes,
               clientVars, mainVars
    <2> QED
        BY <2>1, KeptFrame, SameHolders
<1>2. ASSUME NEW l \in Listeners, CallAccept(l) \/ AcceptFails(l) \/ AcceptErrs(l) PROVE KeptInv'
    BY <1>2, KeptFrame, SameHolders
       DEF CallAccept, AcceptFails, AcceptErrs, AcceptorGoes, mainVars, clientVars
<1>3. ASSUME NEW c \in Conns,
             \/ \E l \in Listeners : AcceptConnection(l, c)
             \/ RecvGreeting(c) \/ (c \in Clients /\ AbandonClient(c))
             \/ (c \in Channels /\ (LookupClient(c) \/ RegisterChannel(c) \/ RegisterFails(c)))
             \/ (c \in Channels /\ ChannelSucceeds(c))
      PROVE KeptInv'
    <2>1. UNCHANGED <<current, clients, disposer, eraser, status, portal>>
        BY <1>3 DEF AcceptConnection, AcceptorGoes, RecvGreeting, AbandonClient, LookupClient,
               RegisterChannel, RegisterFails, ChannelSucceeds, ThreadGoes, mainVars, clientVars
    <2>2. \E to \in ThreadStates :
             /\ thread' = [thread EXCEPT ![c] = to]
             /\ thread[c] \in {"register", "working"} => to \in {"working", "leaving"}
             /\ thread[c] \notin {"leaving", "destroying"}
        BY <1>3 DEF AcceptConnection, AcceptorGoes, RecvGreeting, AbandonClient, LookupClient,
               RegisterChannel, RegisterFails, ChannelSucceeds, ThreadGoes, ThreadStates
    <2>3. \A d \in Conns : /\ thread[d] = "destroying" => thread'[d] = "destroying"
                           /\ thread[d] \in {"register", "working", "leaving"} =>
                                 thread'[d] \in {"register", "working", "leaving"}
        BY <2>2 DEF PortalTypeOK
    <2>4. \A k \in Clients : Holders(k) \subseteq Holders(k)' /\ Destroying(k) \subseteq Destroying(k)'
        BY <2>3 DEF Holders, Destroying
    <2> QED
        BY <2>1, <2>4, KeptFrame
<1>4. ASSUME NEW k \in Clients, CreateClient(k) PROVE KeptInv'
    <2>1. /\ portal = "normal" /\ thread[k] = "create" /\ thread' = [thread EXCEPT ![k] = "working"]
          /\ status' = [status EXCEPT ![k] = "normal"] /\ clients' = clients \cup {k}
          /\ UNCHANGED <<current, portal, disposer, eraser>>
        BY <1>4 DEF CreateClient, ThreadGoes, mainVars
    <2>2. current = {} /\ disposer[k] = "none"
        BY <2>1, ClientConn DEF MainInv, InstanceInv
    <2>3. \A j \in Clients : Holders(j) \subseteq Holders(j)' /\ Destroying(j) \subseteq Destroying(j)'
        BY <2>1 DEF PortalTypeOK, Holders, Destroying
    <2> QED
        BY <2>1, <2>2, <2>3 DEF KeptInv, PortalTypeOK
<1>5. ASSUME NEW c \in Conns, (c \in Clients /\ PortalEnds(c)) \/ (c \in Channels /\ ChannelFails(c))
      PROVE KeptInv'
    <2>1. /\ thread[c] = "working" /\ thread' = [thread EXCEPT ![c] = "leaving"]
          /\ UNCHANGED <<current, portal, clients, eraser>>
          /\ AsyncDispose(InstanceOf(c))
        BY <1>5, ClientConn, ChannelOwner DEF PortalEnds, ChannelFails, ThreadGoes, mainVars
    <2>2. \A j \in Clients : Holders(j) \subseteq Holders(j)' /\ Destroying(j) \subseteq Destroying(j)'
        BY <2>1 DEF PortalTypeOK, Holders, Destroying
    <2> QED
        BY <2>1, <2>2, InstanceType DEF KeptInv, AsyncDispose, PortalTypeOK
<1>6. ASSUME NEW c \in Conns, DropClient(c) PROVE KeptInv'
    <2> DEFINE k == InstanceOf(c)
    <2>1. /\ thread[c] = "leaving" /\ UNCHANGED <<current, portal, clients, eraser>>
          /\ \/ AsyncDispose(k) /\ thread' = [thread EXCEPT ![c] = "destroying"]
             \/ /\ ~(Holders(k) = {c} /\ k \notin clients)
                /\ UNCHANGED <<status, disposer>> /\ thread' = [thread EXCEPT ![c] = "ended"]
        BY <1>6 DEF DropClient, ThreadGoes, mainVars
    <2>2. /\ k \in Clients /\ c \in Holders(k)
          /\ \A j \in Clients : j # k => Holders(j)' = Holders(j)
          /\ Holders(k)' = Holders(k) \ {c}
        BY <2>1, InstanceType DEF PortalTypeOK, Holders
    <2>3. \A j \in Clients : Destroying(j) \subseteq Destroying(j)'
        BY <2>1 DEF PortalTypeOK, Destroying
    <2>4. CASE AsyncDispose(k) /\ thread' = [thread EXCEPT ![c] = "destroying"]
        <3>1. c \in Destroying(k)'
            BY <2>4 DEF PortalTypeOK, Destroying
        <3> QED
            BY <2>1, <2>2, <2>3, <2>4, <3>1 DEF KeptInv, AsyncDispose, PortalTypeOK
    <2>5. CASE ~(Holders(k) = {c} /\ k \notin clients) /\ UNCHANGED <<status, disposer>>
        BY <2>1, <2>2, <2>3, <2>5 DEF KeptInv
    <2> QED
        BY <2>1, <2>4, <2>5
<1>7. ASSUME NEW c \in Conns, DestroyClient(c) PROVE KeptInv'
    <2> DEFINE k == InstanceOf(c)
    <2>1. /\ thread[c] = "destroying" /\ thread' = [thread EXCEPT ![c] = "ended"]
          /\ status' = [status EXCEPT ![k] = "destroyed"]
          /\ UNCHANGED <<current, portal, clients, disposer, eraser>>
        BY <1>7 DEF DestroyClient, ThreadGoes, mainVars
    <2>2. /\ k \in Clients
          /\ \A j \in Clients : Holders(j)' = Holders(j) /\ (j # k => Destroying(j)' = Destroying(j))
        BY <2>1, InstanceType DEF PortalTypeOK, Holders, Destroying
    <2> QED
        BY <2>1, <2>2 DEF KeptInv, PortalTypeOK
<1>8. ASSUME NEW k \in Clients,
             \/ StopPortal(k) \/ JoinPortal(k) \/ RunDown(k) \/ JoinChannels(k)
             \/ StartEraser(k) \/ StoreDisposed(k)
      PROVE KeptInv'
    <2>1. UNCHANGED <<current, portal, clients, thread>>
        BY <1>8 DEF StopPortal, JoinPortal, RunDown, JoinChannels, StartEraser, StoreDisposed,
               DisposerGoes, mainVars
    <2>2. CASE StopPortal(k) \/ JoinPortal(k) \/ RunDown(k) \/ JoinChannels(k)
        <3>1. UNCHANGED <<status, eraser>>
              /\ \E to \in DisposerStates \ {"store", "ended"} : disposer' = [disposer EXCEPT ![k] = to]
            BY <2>2 DEF StopPortal, JoinPortal, RunDown, JoinChannels, DisposerGoes, DisposerStates
        <3> QED
            BY <2>1, <3>1, SameHolders DEF KeptInv, PortalTypeOK
    <2>3. CASE StartEraser(k)
        BY <2>1, <2>3, SameHolders DEF StartEraser, DisposerGoes, KeptInv, PortalTypeOK, InstanceInv
    <2>4. CASE StoreDisposed(k)
        <3>1. status[k] = "disposing"
            BY <2>4 DEF StoreDisposed, DisposerGoes, InstanceInv, PortalTypeOK, Statuses
        <3> QED
            BY <2>1, <2>4, <3>1, SameHolders DEF StoreDisposed, DisposerGoes, KeptInv, PortalTypeOK
    <2> QED
        BY <1>8, <2>2, <2>3, <2>4
<1>9. ASSUME NEW k \in Clients, EraserChecks(k) \/ EraserErases(k) \/ EraserDestroys(k) PROVE KeptInv'
    <2>1. UNCHANGED <<current, portal, disposer, thread>>
        BY <1>9 DEF EraserChecks, EraserErases, EraserDestroys, EraserGoes, mainVars
    <2>2. CASE EraserChecks(k)
        BY <2>1, <2>2, SameHolders DEF EraserChecks, EraserGoes, KeptInv, PortalTypeOK
    <2>3. CASE EraserErases(k)
        BY <2>1, <2>3, SameHolders DEF EraserErases, EraserGoes, KeptInv, PortalTypeOK
    <2>4. CASE EraserDestroys(k)
        BY <2>1, <2>4, SameHolders DEF EraserDestroys, EraserGoes, KeptInv, PortalTypeOK
    <2> QED
        BY <1>9, <2>2, <2>3, <2>4
<1>10. ASSUME NEW k \in Clients, DisposeClient(k) PROVE KeptInv'
    BY <1>10, SameHolders DEF DisposeClient, MainGoes, AsyncDispose, KeptInv, PortalTypeOK
<1>11. CASE ResetClient
    <2>1. PICK k \in current :
             /\ status[k] = "disposed"
             /\ status' = IF Holders(k) = {} THEN [status EXCEPT ![k] = "destroyed"] ELSE status
        BY <1>11 DEF ResetClient, DisposeReturns
    <2>2. current = {k} /\ k \in Clients
        BY <2>1 DEF MainInv, PortalTypeOK
    <2>3. clients' = clients \ {k} /\ current' = {} /\ UNCHANGED <<portal, disposer, eraser, thread>>
        BY <1>11, <2>2 DEF ResetClient, MainGoes
    <2> QED
        BY <2>1, <2>2, <2>3, SameHolders DEF KeptInv, PortalTypeOK
<1>12. CASE Aborts \/ UNCHANGED vars
    BY <1>12, KeptFrame, SameHolders DEF Aborts, vars, mainVars, clientVars
<1> QED
    BY <1>1, <1>2, <1>3, <1>4, <1>5, <1>6, <1>7, <1>8, <1>9, <1>10, <1>11, <1>12, ClientConn, ChannelOwner
       DEF Next, ServerStep, MainStep, AcceptStep, ThreadStep, DisposerStep, EraserStep, PeerStep, MainAlone

----------------------------------------------------------------------------
(* The theorems.                                                           *)

\* PortalInv holds in every state of the server, whatever its clients, peers
\* and signals do.
THEOREM PortalInvHolds == Spec => []PortalInv
<1>1. Init => PortalInv
    BY InitObjects, InitEnding DEF PortalInv
<1>2. PortalInv /\ [Next]_vars => PortalInv'
    BY StepObjects, ExitStep, KeptStep DEF PortalInv, ObjectsInv
<1> QED
    BY <1>1, <1>2, PTL DEF Spec

\* No client_instance is used after its destruction: not by its threads, not
\* through the map, not by the detached thread that disposes it.
THEOREM DestroyedClientsAreUnused == Spec => []NoUseAfterDestruction
<1>1. PortalInv => NoUseAfterDestruction
    BY DEF PortalInv, ObjectsInv, InstanceInv, DestroyInv, NoUseAfterDestruction
<1> QED
    BY <1>1, PortalInvHolds, PTL

\* No thread that dispose_impl joins runs the destructor that waits for
\* dispose_impl: the two never wait for each other.
THEOREM NoThreadWaitsForItself == Spec => []JoinedThreadsNeverDestroy
<1>1. PortalInv => JoinedThreadsNeverDestroy
    BY DEF PortalInv, ObjectsInv
<1> QED
    BY <1>1, PortalInvHolds, PTL

\* When the portal object is destroyed the accept threads, the threads in
\* fn_portal and fn_channel and the disposing threads are done with it.
THEOREM TrackedThreadsEndFirst == Spec => []OnlyUntrackedThreadsOutlivePortal
<1>1. PortalInv => OnlyUntrackedThreadsOutlivePortal
  <2> SUFFICES ASSUME PortalInv, portal = "destroyed"
               PROVE  OnlyUntrackedThreadsOutlivePortal
    BY DEF OnlyUntrackedThreadsOutlivePortal
  <2> USE DEF PortalInv, ObjectsInv
  <2>1. main = "returned" /\ clients = {} /\ \A l \in Listeners : Stopped(l)
    BY DEF MainInv, PortalTypeOK, MainStates
  <2>2. \A k \in Clients : disposer[k] \in {"none", "store", "ended"}
    BY <2>1 DEF InstanceInv
  <2>3. \A k \in Clients : thread[k] # "working"
    BY <2>1, <2>2 DEF InstanceInv
  <2>4. \A c \in Channels : thread[c] # "working"
    BY <2>1, <2>2, ChannelOwner DEF InstanceInv, ChannelInv
  <2> QED
    BY <2>1, <2>2, <2>3, <2>4 DEF OnlyUntrackedThreadsOutlivePortal, Stopped, Conns
<1> QED
    BY <1>1, PortalInvHolds, PTL
----------------------------------------------------------------------------
(* Nobody is stuck.                                                        *)

\* A dispose_impl never waits: it lets go on the threads that it joins.
LEMMA DisposeGoesOn ==
    ASSUME PortalInv, ServerWaits, NEW k \in Clients
    PROVE  disposer[k] \in {"none", "ended"}
<1> USE DEF PortalInv, ObjectsInv
<1>1. DisposerWaits(k) /\ \A c \in Conns : ThreadWaits(c)
    BY DEF ServerWaits
<1>2. disposer[k] # "joinPortal"
    <2> SUFFICES ASSUME disposer[k] = "joinPortal" PROVE FALSE
        OBVIOUS
    <2>1. status[k] # "none" /\ thread[k] # "ended"
        BY <1>1 DEF DisposerWaits, InstanceInv
    <2>2. thread[k] \in {"working", "leaving"}
        BY <2>1 DEF InstanceInv
    <2>3. Released(k)
        BY DEF Released
    <2> QED
        BY <1>1, <2>2, <2>3, ClientConn DEF ThreadWaits
<1>3. disposer[k] # "joinChannels"
    <2> SUFFICES ASSUME disposer[k] = "joinChannels" PROVE FALSE
        OBVIOUS
    <2>1. PICK c \in registered[k] : thread[c] # "ended"
        BY <1>1 DEF DisposerWaits
    <2>2. c \in Channels /\ Owner[c] = k /\ thread[c] \in {"working", "leaving"}
        BY <2>1 DEF ChannelInv, PortalTypeOK
    <2>3. Released(c)
        BY <2>2, ChannelOwner DEF Released
    <2> QED
        BY <1>1, <2>2, <2>3, ChannelOwner DEF ThreadWaits
<1> QED
    BY <1>1, <1>2, <1>3 DEF DisposerWaits

\* Who destroys a client does not wait either: it is out of the map, so its
\* dispose_impl is over.
LEMMA DestructorGoesOn ==
    ASSUME PortalInv, ServerWaits
    PROVE  /\ \A c \in Conns : thread[c] # "destroying"
           /\ \A k \in Clients : eraser[k] # "destroying"
<1> USE DEF PortalInv, ObjectsInv
<1>1. ASSUME NEW k \in Clients, Destroying(k) # {} \/ eraser[k] = "destroying", status[k] # "none"
      PROVE  status[k] = "disposed"
    <2>1. k \notin clients /\ status[k] # "destroyed"
        BY <1>1 DEF DestroyInv
    <2>2. disposer[k] = "ended"
        BY <1>1, <2>1, DisposeGoesOn DEF InstanceInv
    <2> QED
        BY <2>1, <2>2 DEF InstanceInv
<1>2. ASSUME NEW c \in Conns, thread[c] = "destroying" PROVE FALSE
    <2>1. c \in Channels /\ InstanceOf(c) = Owner[c] /\ Owner[c] \in Clients
        BY <1>2, ChannelOwner DEF JoinedThreadsNeverDestroy
    <2>2. status[Owner[c]] # "none" /\ c \in Destroying(Owner[c])
        BY <1>2, <2>1 DEF ChannelInv, Destroying
    <2>3. MayDestroy(InstanceOf(c))
        BY <1>1, <2>1, <2>2 DEF MayDestroy
    <2> QED
        BY <1>2, <2>3 DEF ServerWaits, ThreadWaits
<1>3. ASSUME NEW k \in Clients, eraser[k] = "destroying" PROVE FALSE
    <2>1. status[k] # "none"
        BY <1>3 DEF InstanceInv
    <2>2. MayDestroy(k)
        BY <1>1, <1>3, <2>1 DEF MayDestroy
    <2> QED
        BY <1>3, <2>2 DEF ServerWaits, EraserWaits
<1> QED
    BY <1>2, <1>3

\* So main waits for nothing but the exit.
LEMMA MainGoesOn ==
    ASSUME PortalInv, ServerWaits
    PROVE  main = "waiting" /\ ~exitRequired /\ MutexFree
<1> USE DEF PortalInv, ObjectsInv
<1>1. main # "clients"
    <2> SUFFICES ASSUME main = "clients" PROVE FALSE
        OBVIOUS
    <2>1. PICK k \in current : status[k] # "disposed"
        BY DEF ServerWaits, MainWaits, DisposeReturns
    <2>2. k \in clients /\ k \in Clients /\ status[k] # "normal"
        BY <2>1 DEF MainInv, PortalTypeOK, KeptInv
    <2>3. status[k] \notin {"none", "destroyed"}
        BY <2>2 DEF InstanceInv, DestroyInv
    <2>4. disposer[k] \notin {"none", "ended"}
        BY <2>1, <2>2, <2>3 DEF InstanceInv
    <2> QED
        BY <2>2, <2>4, DisposeGoesOn
<1>2. MutexFree
    BY <1>1, DestructorGoesOn DEF MutexFree
<1>3. main # "listeners"
    <2> SUFFICES ASSUME main = "listeners" PROVE FALSE
        OBVIOUS
    <2>1. listener[at] \in {"none", "reset"} /\ acceptor[at] \notin {"none", "ended"}
        BY <1>2 DEF ServerWaits, MainWaits
    <2>2. at \in Listeners
        BY DEF MainInv, PortalTypeOK, Listeners
    <2> QED
        BY <2>1, <2>2 DEF ServerWaits
<1> QED
    BY <1>1, <1>2, <1>3 DEF ServerWaits, MainWaits

\* Where the server cannot go on by itself it is at rest: whatever its clients
\* do or leave undone, an exit that is required is reached, and a client that is
\* disposed is destroyed (src/src/server.cpp:364-383 and 581-614,
\* src/src/infra/disposable.h:26-84).
THEOREM SomebodyCanStep == Spec => []NobodyIsStuck
<1>1. PortalInv => NobodyIsStuck
    <2> SUFFICES ASSUME PortalInv, ServerWaits PROVE AtRest
        BY DEF NobodyIsStuck
    <2> USE DEF PortalInv, ObjectsInv
    <2>1. main = "waiting" /\ ~exitRequired /\ MutexFree /\ portal = "normal"
        BY MainGoesOn DEF MainInv
    <2>2. ASSUME NEW c \in Conns PROVE thread[c] \in {"none", "greeting", "working", "ended"}
        BY <2>1, DestructorGoesOn DEF ServerWaits, ThreadWaits
    <2>3. ASSUME NEW k \in Clients PROVE eraser[k] \in {"none", "done"}
        BY <2>1, DestructorGoesOn DEF ServerWaits, EraserWaits
    <2>4. ASSUME NEW k \in Clients, status[k] \notin {"none", "normal", "destroyed"} PROVE FALSE
        <3>1. disposer[k] = "ended"
            BY <2>4, DisposeGoesOn DEF InstanceInv
        <3>2. k \notin clients
            BY <2>1, <2>3, <3>1 DEF KeptInv
        <3>3. PICK c \in Conns : c \in Holders(k)
            BY <2>3, <2>4, <3>2, DestructorGoesOn DEF KeptInv, Holders, Destroying
        <3>4. thread[c] = "working" /\ InstanceOf(c) = k
            BY <2>2, <3>3 DEF Holders
        <3>5. c \in Channels
            BY <3>1, <3>4, ClientConn DEF InstanceInv, Conns
        <3>6. c \in registered[k] /\ registered[k] = {}
            BY <3>1, <3>4, <3>5, ChannelOwner DEF ChannelInv
        <3> QED
            BY <3>6
    <2> QED
        BY <2>1, <2>2, <2>3, <2>4 DEF AtRest
<1> QED
    BY <1>1, PortalInvHolds, PTL
----------------------------------------------------------------------------
(* Nothing runs for ever: every step leaves less to do.                    *)

\* How to show it: what is left falls at one place, nothing changes before it.
LEMMA FallsAt ==
    ASSUME NEW i \in 1 .. 11, Falls(Left'[i], Left[i]), \A j \in 1 .. (i - 1) : Left'[j] = Left[j]
    PROVE  Below(Left', Left)
<1>1. DOMAIN Left = 1 .. 11
    BY DEF Left
<1> QED
    BY <1>1 DEF Below

\* A number falls when it is less, a function when it falls at one argument and
\* is the same elsewhere.
LEMMA NumberFalls ==
    ASSUME NEW m \in Int, NEW n \in Int, m < n PROVE Falls(<<m>>, <<n>>)
BY DEF Falls
LEMMA FunctionFalls ==
    ASSUME NEW S, NEW m, NEW n, DOMAIN n = S, DOMAIN m = S, NEW x \in S,
           \A y \in S : m[y] \in Nat /\ n[y] \in Nat,
           m[x] < n[x], \A y \in S \ {x} : m[y] = n[y]
    PROVE  Falls(m, n)
<1>1. m # n
    OBVIOUS
<1>2. \A y \in S : m[y] <= n[y]
    OBVIOUS
<1> QED
    BY <1>1, <1>2 DEF Falls

\* What the levels are about: each is left as it is when its variable is.
LEMMA LevelsKept ==
    /\ process' = process => Left'[1] = Left[1]
    /\ exitRequired' = exitRequired => Left'[2] = Left[2]
    /\ main' = main => Left'[3] = Left[3]
    /\ thread' = thread => Left'[4] = Left[4]
    /\ disposer' = disposer => Left'[5] = Left[5]
    /\ eraser' = eraser => Left'[6] = Left[6]
    /\ clients' = clients => Left'[7] = Left[7]
    /\ current' = current => Left'[8] = Left[8]
    /\ at' = at => Left'[9] = Left[9]
    /\ listener' = listener => Left'[10] = Left[10]
BY DEF Left, Running

\* The process ends once.
LEMMA EndFalls ==
    ASSUME Running, ~Running'
    PROVE  Below(Left', Left)
<1>1. Left[1] = <<1>> /\ Left'[1] = <<0>>
    BY DEF Left, One
<1>2. Falls(Left'[1], Left[1])
    BY <1>1, NumberFalls
<1> QED
    BY <1>2, FallsAt

\* The exit is required once.
LEMMA RequireFalls ==
    ASSUME ~exitRequired, exitRequired', process' = process
    PROVE  Below(Left', Left)
<1>1. Left[2] = <<1>> /\ Left'[2] = <<0>>
    BY DEF Left, One
<1>2. Falls(Left'[2], Left[2])
    BY <1>1, NumberFalls
<1> QED
    BY <1>2, FallsAt, LevelsKept

\* main comes closer to its end.
LEMMA MainFalls ==
    ASSUME PortalTypeOK, PortalTypeOK', UNCHANGED <<process, exitRequired>>,
           MainLeft[main'] < MainLeft[main]
    PROVE  Below(Left', Left)
<1>1. \A m \in MainStates : MainLeft[m] \in Int
    BY DEF MainStates, MainLeft
<1>2. Left[3] = <<MainLeft[main]>> /\ Left'[3] = <<MainLeft[main']>>
    BY DEF Left
<1>3. Falls(Left'[3], Left[3])
    BY <1>1, <1>2, NumberFalls DEF PortalTypeOK
<1> QED
    BY <1>3, FallsAt, LevelsKept

\* A connection's thread comes closer to its end.
LEMMA ThreadFalls ==
    ASSUME PortalTypeOK, UNCHANGED <<process, exitRequired, main>>, NEW c \in Conns,
           NEW to \in ThreadStates, thread' = [thread EXCEPT ![c] = to],
           ThreadLeft[to] < ThreadLeft[thread[c]]
    PROVE  Below(Left', Left)
<1> DEFINE T == [d \in Conns |-> ThreadLeft[thread[d]]]
<1>0. Left[4] = T /\ Left'[4] = T'
    BY DEF Left
<1>1. \A st \in ThreadStates : ThreadLeft[st] \in Nat
    BY DEF ThreadStates, ThreadLeft
<1>2. thread \in [Conns -> ThreadStates]
    BY DEF PortalTypeOK
<1>3. \A d \in Conns : T[d] \in Nat /\ T'[d] \in Nat
    BY <1>1, <1>2
<1>4. T'[c] < T[c] /\ \A d \in Conns \ {c} : T'[d] = T[d]
    BY <1>2
<1>5. Falls(T', T)
    BY <1>3, <1>4, FunctionFalls
<1> QED
    BY <1>0, <1>5, FallsAt, LevelsKept

\* A dispose_impl starts, or comes closer to its end.
LEMMA DisposerFalls ==
    ASSUME PortalTypeOK, UNCHANGED <<process, exitRequired, main, thread>>, NEW k \in Clients,
           NEW to \in DisposerStates, disposer' = [disposer EXCEPT ![k] = to],
           DisposerLeft[to] < DisposerLeft[disposer[k]]
    PROVE  Below(Left', Left)
<1> DEFINE D == [j \in Clients |-> DisposerLeft[disposer[j]]]
<1>0. Left[5] = D /\ Left'[5] = D'
    BY DEF Left
<1>1. \A st \in DisposerStates : DisposerLeft[st] \in Nat
    BY DEF DisposerStates, DisposerLeft
<1>2. disposer \in [Clients -> DisposerStates]
    BY DEF PortalTypeOK
<1>3. \A j \in Clients : D[j] \in Nat /\ D'[j] \in Nat
    BY <1>1, <1>2
<1>4. D'[k] < D[k] /\ \A j \in Clients \ {k} : D'[j] = D[j]
    BY <1>2
<1>5. Falls(D', D)
    BY <1>3, <1>4, FunctionFalls
<1> QED
    BY <1>0, <1>5, FallsAt, LevelsKept

\* An erasing thread comes closer to its end.
LEMMA EraserFalls ==
    ASSUME PortalTypeOK, NEW k \in Clients, EraserChecks(k) \/ EraserErases(k) \/ EraserDestroys(k)
    PROVE  Below(Left', Left)
<1> DEFINE E == [j \in Clients |-> EraserLeft[eraser[j]]]
<1>0. Left[6] = E /\ Left'[6] = E'
    BY DEF Left
<1>1. \A st \in EraserStates : EraserLeft[st] \in Nat
    BY DEF EraserStates, EraserLeft
<1>2. PICK to \in EraserStates :
         /\ eraser' = [eraser EXCEPT ![k] = to] /\ EraserLeft[to] < EraserLeft[eraser[k]]
         /\ UNCHANGED <<process, exitRequired, main, thread, disposer>>
    BY DEF EraserChecks, EraserErases, EraserDestroys, EraserGoes, EraserStates, EraserLeft, mainVars
<1>3. eraser \in [Clients -> EraserStates]
    BY DEF PortalTypeOK
<1>4. \A j \in Clients : E[j] \in Nat /\ E'[j] \in Nat
    BY <1>1, <1>2, <1>3
<1>5. E'[k] < E[k] /\ \A j \in Clients \ {k} : E'[j] = E[j]
    BY <1>2, <1>3
<1>6. Falls(E', E)
    BY <1>4, <1>5, FunctionFalls
<1> QED
    BY <1>0, <1>2, <1>6, FallsAt, LevelsKept

\* main disposes one client more: it waits for it, and then takes it from the map.
LEMMA DisposeClientFalls ==
    ASSUME PortalTypeOK, InstanceInv, NEW k \in Clients, DisposeClient(k)
    PROVE  Below(Left', Left)
<1>1. current = {} /\ current' = {k} /\ AsyncDispose(k)
      /\ UNCHANGED <<process, exitRequired, main, thread, eraser, clients>>
    BY DEF DisposeClient, MainGoes
<1>2. CASE status[k] = "normal"
    <2>1. disposer[k] = "none" /\ disposer' = [disposer EXCEPT ![k] = "stop"]
        BY <1>1, <1>2 DEF InstanceInv, AsyncDispose
    <2>2. "stop" \in DisposerStates /\ DisposerLeft["stop"] < DisposerLeft[disposer[k]]
        BY <2>1 DEF DisposerStates, DisposerLeft
    <2> QED
        BY <1>1, <2>1, <2>2, DisposerFalls
<1>3. CASE status[k] # "normal"
    <2>1. Left[8] = <<1>> /\ Left'[8] = <<0>>
        BY <1>1 DEF Left, One
    <2>2. Falls(Left'[8], Left[8])
        BY <2>1, NumberFalls
    <2> QED
        BY <1>1, <1>3, <2>2, FallsAt, LevelsKept DEF AsyncDispose
<1> QED
    BY <1>2, <1>3

LEMMA ResetClientFalls ==
    ASSUME PortalTypeOK, MainInv, ResetClient
    PROVE  Below(Left', Left)
<1> DEFINE M == [k \in Clients |-> One(k \in clients)]
<1>0. Left[7] = M /\ Left'[7] = M'
    BY DEF Left
<1>1. \A k \in Clients : M[k] \in Nat /\ M'[k] \in Nat
    BY DEF One
<1>2. PICK k \in current : TRUE
    BY DEF ResetClient
<1>3. k \in Clients /\ k \in clients /\ clients' = clients \ {k}
      /\ UNCHANGED <<process, exitRequired, main, thread, disposer, eraser>>
    BY <1>2 DEF ResetClient, MainGoes, MainInv, PortalTypeOK
<1>4. M'[k] < M[k] /\ \A j \in Clients \ {k} : M'[j] = M[j]
    BY <1>3 DEF One
<1>5. Falls(M', M)
    <2>1. DOMAIN M = Clients /\ DOMAIN M' = Clients
        OBVIOUS
    <2> HIDE DEF M
    <2> QED
        BY <1>1, <1>3, <1>4, <2>1, FunctionFalls
<1> QED
    BY <1>0, <1>3, <1>5, FallsAt, LevelsKept

\* One listening socket more is seen to.
LEMMA NextFalls ==
    ASSUME PortalTypeOK, at' = at + 1,
           UNCHANGED <<process, exitRequired, main, thread, disposer, eraser, clients, current>>
    PROVE  Below(Left', Left)
<1>1. Left[9] = <<NEndpoints + 1 - at>> /\ Left'[9] = <<NEndpoints + 1 - at'>>
    BY DEF Left
<1>2. Falls(Left'[9], Left[9])
    BY <1>1, NumberFalls DEF PortalTypeOK
<1> QED
    BY <1>2, FallsAt, LevelsKept

LEMMA ListenerFalls ==
    ASSUME PortalTypeOK, MainInv, CloseListener \/ ResetListener
    PROVE  Below(Left', Left)
<1> DEFINE L == [l \in Listeners |-> ListenerLeft[listener[l]]]
<1>0. Left[10] = L /\ Left'[10] = L'
    BY DEF Left
<1>1. \A st \in {"none", "open", "closed", "reset"} : ListenerLeft[st] \in Nat
    BY DEF ListenerLeft
<1>2. at \in Listeners /\ listener \in [Listeners -> {"none", "open", "closed", "reset"}]
    BY DEF CloseListener, ResetListener, MainGoes, MainInv, PortalTypeOK, Listeners
<1>3. PICK to \in {"closed", "reset"} :
         /\ listener' = [listener EXCEPT ![at] = to] /\ ListenerLeft[to] < ListenerLeft[listener[at]]
         /\ UNCHANGED <<process, exitRequired, main, thread, disposer, eraser, clients, current, at>>
    BY DEF CloseListener, ResetListener, MainGoes, ListenerLeft
<1>4. \A l \in Listeners : L[l] \in Nat /\ L'[l] \in Nat
    BY <1>1, <1>2, <1>3
<1>5. L'[at] < L[at] /\ \A l \in Listeners \ {at} : L'[l] = L[l]
    BY <1>2, <1>3
<1>6. Falls(L', L)
    BY <1>2, <1>4, <1>5, FunctionFalls
<1> QED
    BY <1>0, <1>3, <1>6, FallsAt, LevelsKept

\* An accept thread calls accept(), or ends: its socket is gone only when the
\* exit is required.
LEMMA AcceptorFalls ==
    ASSUME PortalTypeOK, ExitInv, NEW l \in Listeners, CallAccept(l) \/ AcceptFails(l) \/ AcceptErrs(l)
    PROVE  Below(Left', Left)
<1> DEFINE A == [m \in Listeners |-> AcceptorLeft[acceptor[m]]]
<1>0. Left[11] = A /\ Left'[11] = A'
    BY DEF Left
<1>1. \A st \in {"none", "loop", "accept", "ended"} : AcceptorLeft[st] \in Nat
    BY DEF AcceptorLeft
<1>2. acceptor \in [Listeners -> {"none", "loop", "accept", "ended"}]
    BY DEF PortalTypeOK
<1>3. AcceptFails(l) => exitRequired
    BY DEF AcceptFails, ExitInv
<1>4. PICK to \in {"accept", "ended"} :
         /\ acceptor' = [acceptor EXCEPT ![l] = to] /\ AcceptorLeft[to] < AcceptorLeft[acceptor[l]]
         /\ UNCHANGED <<process, exitRequired, main, thread, disposer, eraser, clients, current, at, listener>>
    BY <1>3 DEF CallAccept, AcceptFails, AcceptErrs, AcceptorGoes, AcceptorLeft, mainVars, clientVars
<1>5. \A m \in Listeners : A[m] \in Nat /\ A'[m] \in Nat
    BY <1>1, <1>2, <1>4
<1>6. A'[l] < A[l] /\ \A m \in Listeners \ {l} : A'[m] = A[m]
    BY <1>2, <1>4
<1>7. Falls(A', A)
    BY <1>5, <1>6, FunctionFalls
<1> QED
    BY <1>0, <1>4, <1>7, FallsAt, LevelsKept

LEMMA MainStepFalls ==
    ASSUME PortalInv, PortalTypeOK', MainStep \/ Signal
    PROVE  Below(Left', Left)
<1> USE DEF PortalInv, ObjectsInv
<1>1. CASE OpenListener
    <2>1. CASE Opening = 0
        BY <1>1, <2>1, MainFalls DEF OpenListener, MainGoes, MainLeft
    <2>2. CASE Opening # 0
        BY <1>1, <2>2, NextFalls DEF OpenListener, MainGoes
    <2> QED
        BY <2>1, <2>2
<1>2. CASE InitFails
    <2>1. CASE exitRequired
        BY <1>2, <2>1, MainFalls DEF InitFails, MainGoes, MainLeft
    <2>2. CASE ~exitRequired
        BY <1>2, <2>2, RequireFalls DEF InitFails, MainGoes
    <2> QED
        BY <2>1, <2>2
<1>3. CASE JoinAcceptor
    <2>1. CASE at = NEndpoints
        BY <1>3, <2>1, MainFalls DEF JoinAcceptor, MainGoes, MainLeft
    <2>2. CASE at # NEndpoints
        BY <1>3, <2>2, NextFalls DEF JoinAcceptor, MainGoes
    <2> QED
        BY <2>1, <2>2
<1>4. CASE WakeUp \/ BeginDispose \/ EndDispose \/ DestroyPortal
    BY <1>4, MainFalls DEF WakeUp, BeginDispose, EndDispose, DestroyPortal, MainGoes, MainLeft
<1>5. CASE MainReturns
    BY <1>5, EndFalls DEF MainReturns, Running
<1>6. CASE Signal
    BY <1>6, RequireFalls DEF Signal
<1> QED
    BY <1>1, <1>2, <1>3, <1>4, <1>5, <1>6, ListenerFalls, DisposeClientFalls, ResetClientFalls DEF MainStep

LEMMA ThreadStepFalls ==
    ASSUME PortalTypeOK, NEW c \in Conns,
           \/ \E l \in Listeners : AcceptConnection(l, c)
           \/ RecvGreeting(c) \/ DropClient(c) \/ DestroyClient(c)
           \/ CreateClient(c) \/ AbandonClient(c) \/ PortalEnds(c)
           \/ LookupClient(c) \/ RegisterChannel(c) \/ RegisterFails(c)
           \/ ChannelSucceeds(c) \/ ChannelFails(c)
    PROVE  Below(Left', Left)
<1>1. /\ UNCHANGED <<process, exitRequired, main>>
      /\ \E to \in ThreadStates :
            thread' = [thread EXCEPT ![c] = to] /\ ThreadLeft[to] < ThreadLeft[thread[c]]
    BY DEF AcceptConnection, AcceptorGoes, RecvGreeting, DropClient, DestroyClient, CreateClient,
           AbandonClient, PortalEnds, LookupClient, RegisterChannel, RegisterFails, ChannelSucceeds,
           ChannelFails, ThreadGoes, ThreadStates, ThreadLeft, mainVars
<1> QED
    BY <1>1, ThreadFalls

LEMMA DisposerStepFalls ==
    ASSUME PortalTypeOK, NEW k \in Clients,
           \/ StopPortal(k) \/ JoinPortal(k) \/ RunDown(k) \/ JoinChannels(k)
           \/ StartEraser(k) \/ StoreDisposed(k)
    PROVE  Below(Left', Left)
<1>1. /\ UNCHANGED <<process, exitRequired, main, thread>>
      /\ \E to \in DisposerStates :
            disposer' = [disposer EXCEPT ![k] = to] /\ DisposerLeft[to] < DisposerLeft[disposer[k]]
    BY DEF StopPortal, JoinPortal, RunDown, JoinChannels, StartEraser, StoreDisposed, DisposerGoes,
           DisposerStates, DisposerLeft, mainVars
<1> QED
    BY <1>1, DisposerFalls

LEMMA StepFalls ==
    ASSUME PortalInv, PortalTypeOK', Next
    PROVE  Below(Left', Left)
<1> USE DEF PortalInv, ObjectsInv
<1>1. CASE MainStep \/ Signal
    BY <1>1, MainStepFalls
<1>2. CASE AcceptStep
    BY <1>2, AcceptorFalls DEF AcceptStep
<1>3. CASE ThreadStep \/ (PeerStep /\ ~Signal)
    BY <1>3, AcceptorFalls, ThreadStepFalls, ClientConn, ChannelOwner DEF ThreadStep, PeerStep
<1>4. CASE DisposerStep
    BY <1>4, DisposerStepFalls DEF DisposerStep
<1>5. CASE EraserStep
    BY <1>5, EraserFalls DEF EraserStep
<1>6. CASE Aborts
    BY <1>6, EndFalls DEF Aborts, Running
<1> QED
    BY <1>1, <1>2, <1>3, <1>4, <1>5, <1>6 DEF Next, ServerStep, PeerStep

\* Every step of the server's threads, of a peer or of an operator leaves less
\* to do: the accept loops (src/src/server.cpp:460-476 and 616-632) end once their sockets
\* are gone, and no client is created, disposed, erased or destroyed twice.
THEOREM EveryStepLeavesLess == Spec => NothingRunsForever
<1>1. PortalInv /\ PortalInv' /\ [Next]_vars => [Below(Left', Left)]_vars
    BY StepFalls DEF PortalInv, ObjectsInv
<1> QED
    BY <1>1, PortalInvHolds, PTL DEF Spec, NothingRunsForever
=============================================================================
