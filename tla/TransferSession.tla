-------------------------- MODULE TransferSession --------------------------
(***************************************************************************)
(* One transfer from the moment both portals have signalled that they are  *)
(* ready until the client exits: the channel threads of BlockTransfer, the *)
(* two portal threads, the gate on which the destination's portal waits,   *)
(* and the dispose_impl by which either process takes its side down while  *)
(* its threads are still running.                                          *)
(*                                                                         *)
(* The client (client_portal_state) is the source of an upload and the     *)
(* destination of a download; the server (client_instance) is the other    *)
(* side.  Both take their side down in the same order: portal socket,      *)
(* transfer, portal thread, channels one by one.                           *)
(***************************************************************************)
EXTENDS BlockTransfer, Descent

CONSTANTS
    Upload,     \* TRUE: the client is the source
    GateCount,  \* total_channel_repeats_count given to init_transfer_info
    Faults,     \* what may go wrong from outside: see FaultKinds
    MaxFaults   \* bound: how many faults one transfer meets

FaultKinds ==
    {"loss",        \* a channel's connection breaks (timeouts, resets, keep-alive)
     "portalLoss",  \* the portal's connection breaks
     "interrupt",   \* SIGINT at the client: it disposes its side
     "shutdown",    \* SIGINT at the server: it disposes its client_instance
     "crash"}       \* a process dies

ASSUME SessionAssumption ==
    /\ Upload \in BOOLEAN
    /\ GateCount \in Nat \ {0}
    /\ Faults \subseteq FaultKinds
    /\ MaxFaults \in Nat

Sides == {"source", "destination"}
Client == IF Upload THEN "source" ELSE "destination"
Peer(s) == CHOOSE t \in Sides : t # s

VARIABLES
    chanThread,  \* where each channel thread of each side is, outside invoke_channel
    portal,      \* where each side's portal thread is
    gate,        \* _gate_all_channels_finished of the destination
    portalSock,  \* each side's end of the portal connection is open
    portalLost,  \* the portal connection broke
    finished,    \* message_transfer_destination_finished
    teardown,    \* how far each side's dispose_impl has gone
    alive,       \* the process of each side has not died
    status,      \* transfer_result_status of the client
    exit,        \* how the client's main returned
    faults       \* how many faults have happened

threadVars == <<chanThread, portal, gate>>
linkVars == <<portalSock, portalLost, finished>>
clientVars == <<status, exit>>
procVars == <<alive, faults>>
sessionVars == <<threadVars, linkVars, teardown, procVars, clientVars>>
vars == <<dataVars, sessionVars>>

\* "opening" and "counted": the thread has raised the gate's count, and has
\* reached the limit, or not
ThreadStates == {"waiting", "entering", "inside", "opening", "counted", "returning", "ended"}
PortalStates == {"entering", "inside", "sending", "ended"}
\* dispose_impl in the order of its statements
TeardownStages ==
    {"live", "required", "portalClosed", "disposed", "reset", "joined", "done"}
\* the shared_ptr to the transfer has been reset: the object is destroyed
TransferGone(s) == teardown[s] \in {"reset", "joined", "done"}

SessionInit ==
    /\ Init
    /\ chanThread = [s \in Sides |-> [c \in Channels |-> "waiting"]]
    /\ portal = [s \in Sides |-> "entering"]
    /\ gate = [count |-> 0, open |-> FALSE]
    /\ portalSock = [s \in Sides |-> TRUE]
    /\ portalLost = FALSE
    /\ finished = "none"
    /\ teardown = [s \in Sides |-> "live"]
    /\ alive = [s \in Sides |-> TRUE]
    /\ status = "unknown"
    /\ exit = "running"
    /\ faults = 0

----------------------------------------------------------------------------
(* gate_guard: signal counts, and then opens the gate if it has reached      *)
(* exactly at_least; force_signal_all opens at once.                         *)

\* Mutants: counting down; a count forced up without waking the waiter.
Counted_Down(g) == [g EXCEPT !.count = @ - 1]
ForceSignalled_NotSet == [count |-> GateCount, open |-> FALSE]

Counted(g) == [g EXCEPT !.count = @ + 1]
Opened(g) == [g EXCEPT !.open = TRUE]
ForceSignalled == [count |-> GateCount, open |-> TRUE]

\* (async_)dispose: only the first call starts dispose_impl.
RequireDispose(s) ==
    teardown' = [teardown EXCEPT ![s] = IF @ = "live" THEN "required" ELSE @]

----------------------------------------------------------------------------
(* A channel thread: client_channel_state::fn_thread_work and               *)
(* client_instance::fn_channel once the portal is ready.                    *)

SetThread(s, c, st) == chanThread' = [chanThread EXCEPT ![s][c] = st]

\* The gate is open; go on unless dispose is required.
CheckDispose(s, c) ==
    /\ alive[s] /\ chanThread[s][c] = "waiting"
    /\ SetThread(s, c, IF teardown[s] = "live" THEN "entering" ELSE "ended")
    /\ UNCHANGED <<dataVars, portal, gate, linkVars, teardown, procVars, clientVars>>

EnterChannel(s, c) ==
    /\ alive[s] /\ chanThread[s][c] = "entering" /\ ~TransferGone(s)
    /\ SetThread(s, c, "inside")
    /\ IF s = "source" THEN BeginSource(c) ELSE BeginDestination(c)
    /\ UNCHANGED <<portal, gate, linkVars, teardown, procVars, clientVars>>

RunChannel(s, c) ==
    /\ alive[s] /\ chanThread[s][c] = "inside"
    /\ IF s = "source" THEN SourceStep(c) ELSE DestinationStep(c)
    /\ UNCHANGED sessionVars

\* The sweeper of transfer_destination::invoke_channel, on every way out: the
\* count is raised first, and _at_least_signal read after it, which is part of
\* the thread's next step.
SignalFinished(c) ==
    /\ alive["destination"] /\ chanThread["destination"][c] = "inside"
    /\ dstPc[c] \in {"done", "failed"}
    /\ gate' = Counted(gate)
    /\ SetThread("destination", c, IF gate'.count = GateCount THEN "opening" ELSE "counted")
    /\ UNCHANGED <<dataVars, portal, linkVars, teardown, procVars, clientVars>>

\* The thread that has reached the limit sets the event; the portal thread gets
\* through when the event's mutex is free again.
OpenGate(c) ==
    /\ alive["destination"] /\ chanThread["destination"][c] = "opening"
    /\ gate' = Opened(gate)
    /\ SetThread("destination", c, "returning")
    /\ UNCHANGED <<dataVars, portal, linkVars, teardown, procVars, clientVars>>

Failed(s, c) == IF s = "source" THEN srcPc[c] = "failed" ELSE dstPc[c] = "failed"
Returned(s, c) ==
    IF s = "source"
    THEN chanThread[s][c] = "inside" /\ srcPc[c] \in {"done", "failed"}
    ELSE chanThread[s][c] \in {"counted", "returning"}

\* The thread function returns; a failed transfer makes it dispose its side.
\* Mutant: so does one that succeeds.
ChannelSucceeds_Disposes(s, c) ==
    /\ alive[s] /\ Returned(s, c) /\ ~Failed(s, c)
    /\ SetThread(s, c, "ended")
    /\ RequireDispose(s)
    /\ UNCHANGED <<dataVars, portal, gate, linkVars, procVars, clientVars>>
ChannelSucceeds(s, c) ==
    /\ alive[s] /\ Returned(s, c) /\ ~Failed(s, c)
    /\ SetThread(s, c, "ended")
    /\ UNCHANGED <<dataVars, portal, gate, linkVars, teardown, procVars, clientVars>>

\* Mutant: the failure of a channel is not recorded.
StatusAfterFailure_Lost(s) == status
StatusAfterFailure(s) == IF s = Client THEN "failed" ELSE status

\* Mutant: a failed channel leaves its side up.
ChannelFails_Stays(s, c) ==
    /\ alive[s] /\ Returned(s, c) /\ Failed(s, c)
    /\ SetThread(s, c, "ended")
    /\ status' = StatusAfterFailure(s)
    /\ UNCHANGED <<dataVars, portal, gate, linkVars, teardown, procVars, exit>>
ChannelFails(s, c) ==
    /\ alive[s] /\ Returned(s, c) /\ Failed(s, c)
    /\ SetThread(s, c, "ended")
    /\ status' = StatusAfterFailure(s)
    /\ RequireDispose(s)
    /\ UNCHANGED <<dataVars, portal, gate, linkVars, procVars, exit>>

----------------------------------------------------------------------------
(* The portal threads: invoke_portal, and what the client makes of it.      *)

EnterPortal(s) ==
    /\ alive[s] /\ portal[s] = "entering" /\ ~TransferGone(s)
    /\ portal' = [portal EXCEPT ![s] = "inside"]
    /\ UNCHANGED <<dataVars, chanThread, gate, linkVars, teardown, procVars, clientVars>>

\* The end of the portal thread with the result of invoke_portal.
PortalEnds(s, success) ==
    /\ portal' = [portal EXCEPT ![s] = "ended"]
    /\ status' = IF s # Client THEN status
                 ELSE IF ~success THEN "failed"
                 ELSE IF status = "unknown" THEN "succeeded" ELSE status
    /\ RequireDispose(s)
    /\ UNCHANGED <<dataVars, chanThread, gate, portalSock, portalLost, procVars, exit>>

\* transfer_destination::invoke_portal
GatePassed ==
    /\ alive["destination"] /\ portal["destination"] = "inside" /\ gate.open
    /\ portal' = [portal EXCEPT !["destination"] = "sending"]
    /\ UNCHANGED <<dataVars, chanThread, gate, linkVars, teardown, procVars, clientVars>>

SendFinished ==
    /\ alive["destination"] /\ portal["destination"] = "sending"
    /\ portalSock["destination"]
    /\ finished' = IF portalSock["source"] /\ ~portalLost THEN "inFlight" ELSE "dropped"
    /\ PortalEnds("destination", TRUE)

SendFinishedFails ==
    /\ alive["destination"] /\ portal["destination"] = "sending"
    /\ ~portalSock["destination"] \/ ~portalSock["source"] \/ portalLost
    /\ PortalEnds("destination", FALSE)
    /\ UNCHANGED finished

\* transfer_source::invoke_portal
RecvFinished ==
    /\ alive["source"] /\ portal["source"] = "inside"
    /\ portalSock["source"] /\ finished = "inFlight"
    /\ finished' = "received"
    /\ PortalEnds("source", TRUE)

\* Mutant: that the peer has closed its end goes unnoticed.
RecvFinishedFails_Deaf ==
    /\ alive["source"] /\ portal["source"] = "inside"
    /\ ~portalSock["source"] \/ portalLost
    /\ PortalEnds("source", FALSE)
    /\ UNCHANGED finished
RecvFinishedFails ==
    /\ alive["source"] /\ portal["source"] = "inside"
    /\ \/ ~portalSock["source"] \/ portalLost
       \/ ~portalSock["destination"] /\ finished # "inFlight"
    /\ PortalEnds("source", FALSE)
    /\ UNCHANGED finished

----------------------------------------------------------------------------
(* dispose_impl of client_portal_state and client_instance.                 *)

Advance(s, from, to) ==
    /\ alive[s] /\ teardown[s] = from
    /\ teardown' = [teardown EXCEPT ![s] = to]

\* Mutant: the portal's socket is left open.
ClosePortal_Open(s) ==
    /\ Advance(s, "required", "portalClosed")
    /\ UNCHANGED <<dataVars, threadVars, linkVars, procVars, clientVars>>

ClosePortal(s) ==
    /\ Advance(s, "required", "portalClosed")
    /\ portalSock' = [portalSock EXCEPT ![s] = FALSE]
    /\ UNCHANGED <<dataVars, threadVars, portalLost, finished, procVars, clientVars>>

DisposeTransfer(s) ==
    /\ Advance(s, "portalClosed", "disposed")
    /\ IF s = "source"
       THEN DisposeSource /\ gate' = gate
       ELSE DisposeDestination /\ gate' = ForceSignalled
    /\ UNCHANGED <<chanThread, portal, linkVars, procVars, clientVars>>

ResetTransfer(s) ==
    /\ Advance(s, "disposed", "reset")
    /\ UNCHANGED <<dataVars, threadVars, linkVars, procVars, clientVars>>

JoinPortal(s) ==
    /\ portal[s] = "ended"
    /\ Advance(s, "reset", "joined")
    /\ UNCHANGED <<dataVars, threadVars, linkVars, procVars, clientVars>>

Sock(s, c) == IF s = "source" THEN srcSock[c] ELSE dstSock[c]

\* The next channel: its socket is closed and its thread joined before the
\* one after it is touched.
CloseChannel(s, c) ==
    /\ alive[s] /\ teardown[s] = "joined"
    /\ Sock(s, c)
    /\ \A d \in Channels : ~Sock(s, d) => chanThread[s][d] = "ended"
    /\ IF s = "source" THEN CloseSourceSocks({c}) ELSE CloseDestinationSocks({c})
    /\ UNCHANGED sessionVars

DisposeDone(s) ==
    /\ \A c \in Channels : ~Sock(s, c) /\ chanThread[s][c] = "ended"
    /\ Advance(s, "joined", "done")
    /\ UNCHANGED <<dataVars, threadVars, linkVars, procVars, clientVars>>

\* The client's main: the portal thread has required the exit, dispose() has
\* returned, and the exit code is read off transfer_result_status.
ClientExits ==
    /\ alive[Client] /\ teardown[Client] = "done" /\ exit = "running"
    /\ exit' = IF status = "succeeded" THEN "ok" ELSE "error"
    /\ UNCHANGED <<dataVars, threadVars, linkVars, teardown, procVars, status>>

----------------------------------------------------------------------------
(* What goes wrong.                                                         *)

\* Faults count, and matter to the client, until it exits.
Meets(kind) ==
    /\ exit = "running"
    /\ kind \in Faults
    /\ faults < MaxFaults
    /\ faults' = faults + 1

Dies(s) ==
    /\ alive' = [alive EXCEPT ![s] = FALSE]
    /\ portalSock' = [portalSock EXCEPT ![s] = FALSE]
    /\ IF s = "source" THEN CloseSourceSocks(Channels) ELSE CloseDestinationSocks(Channels)
    /\ UNCHANGED <<threadVars, portalLost, finished, teardown, clientVars>>

\* A thread that passed the dispose check is about to call invoke_channel or
\* invoke_portal on a transfer that has been reset since.
EntersGoneTransfer(s) ==
    /\ TransferGone(s)
    /\ portal[s] = "entering" \/ \E c \in Channels : chanThread[s][c] = "entering"

\* A thread is still at work in the object that has been destroyed, or in the
\* gate that was part of it.
UsesGoneTransfer(s) ==
    /\ TransferGone(s)
    /\ IF s = "source"
       THEN \E c \in Channels : chanThread[s][c] = "inside" /\ srcPc[c] \in {"claim", "send"}
       ELSE \/ portal[s] = "inside"
            \/ \E c \in Channels : chanThread[s][c] \in {"inside", "opening", "counted"}

\* ASSERT(transfer != nullptr) aborts the process.
AssertAborts(s) == alive[s] /\ EntersGoneTransfer(s) /\ Dies(s) /\ UNCHANGED faults

\* Using the destroyed object is undefined: the thread finds what was there
\* (and fails at its closed socket), or the process dies.
Crash(s) ==
    /\ alive[s] /\ exit = "running"
    /\ Meets("crash") \/ (UsesGoneTransfer(s) /\ UNCHANGED faults)
    /\ Dies(s)

Interrupt(s) ==
    /\ Meets(IF s = Client THEN "interrupt" ELSE "shutdown")
    /\ alive[s] /\ teardown[s] = "live"
    /\ RequireDispose(s)
    /\ UNCHANGED <<dataVars, threadVars, linkVars, alive, clientVars>>

LoseChannel(c) ==
    /\ Meets("loss")
    /\ LoseConnection(c)
    /\ UNCHANGED <<threadVars, linkVars, teardown, alive, clientVars>>

LosePortal ==
    /\ Meets("portalLoss")
    /\ ~portalLost
    /\ portalLost' = TRUE
    /\ UNCHANGED <<dataVars, threadVars, portalSock, finished, teardown, alive, clientVars>>

----------------------------------------------------------------------------
ChannelStep(s, c) ==
    \/ CheckDispose(s, c) \/ EnterChannel(s, c) \/ RunChannel(s, c)
    \/ s = "destination" /\ (SignalFinished(c) \/ OpenGate(c))
    \/ ChannelSucceeds(s, c) \/ ChannelFails(s, c)

PortalStep(s) ==
    \/ EnterPortal(s)
    \/ s = "destination" /\ (GatePassed \/ SendFinished \/ SendFinishedFails)
    \/ s = "source" /\ (RecvFinished \/ RecvFinishedFails)

DisposeStep(s) ==
    \/ ClosePortal(s) \/ DisposeTransfer(s) \/ ResetTransfer(s) \/ JoinPortal(s)
    \/ (\E c \in Channels : CloseChannel(s, c))
    \/ DisposeDone(s)

SideStep(s) ==
    \/ \E c \in Channels : ChannelStep(s, c)
    \/ PortalStep(s)
    \/ DisposeStep(s)
    \/ AssertAborts(s)
    \/ s = Client /\ ClientExits

ProgramStep == \E s \in Sides : SideStep(s)

Fault ==
    \/ \E s \in Sides : Crash(s) \/ Interrupt(s)
    \/ \E c \in Channels : LoseChannel(c)
    \/ LosePortal

SessionNext == ProgramStep \/ Fault
SessionSpec == SessionInit /\ [][SessionNext]_vars

\* Some thread that can run does run.  No more is needed: no thread of either
\* process can take steps for ever.
FairSession == SessionSpec /\ WF_vars(ProgramStep)

----------------------------------------------------------------------------
(* Properties                                                              *)

SessionTypeOK ==
    /\ TypeOK
    /\ chanThread \in [Sides -> [Channels -> ThreadStates]]
    /\ portal \in [Sides -> PortalStates]
    /\ gate \in [count : Nat, open : BOOLEAN]
    /\ portalSock \in [Sides -> BOOLEAN]
    /\ portalLost \in BOOLEAN
    /\ finished \in {"none", "inFlight", "received", "dropped"}
    /\ teardown \in [Sides -> TeardownStages]
    /\ alive \in [Sides -> BOOLEAN]
    /\ status \in {"unknown", "succeeded", "failed"}
    /\ exit \in {"running", "ok", "error"}
    /\ faults \in 0 .. MaxFaults

\* The client exits with 0 only when every byte of every file has been
\* received: whatever the order of portal, channel failures and dispose.
ExitOkMeansComplete ==
    exit = "ok" => \A f \in Files : stored[f] = WholeFile(f)

\* The same for an upload too, as far as the code goes: an exit code of 0 is
\* false only if the connection of a channel broke, since the server announces
\* the end even when its channels have failed.
ExitOkMeansCompleteUnlessLost ==
    exit = "ok" =>
        \/ \A f \in Files : stored[f] = WholeFile(f)
        \/ \E c \in Channels : lost[c]

\* message_transfer_destination_finished is sent only when every channel
\* thread of the destination is done receiving ("Wait for all channels
\* finished"): a gate forced open by dispose never lets it through.
FinishedMeansAllChannelsFinished ==
    finished # "none" => \A c \in Channels : dstPc[c] \in {"done", "failed"}

\* ASSERT(transfer != nullptr): no thread that passed the dispose check finds
\* the transfer gone.
NoThreadEntersGoneTransfer == \A s \in Sides : alive[s] => ~EntersGoneTransfer(s)

SideEnded(s) == ~alive[s] \/ IF s = Client THEN exit # "running" ELSE teardown[s] = "done"

\* Whatever happens to the connections and to the peer, both sides of the
\* transfer come to an end: no thread is left waiting for a channel, a portal,
\* a gate or a join, and the client's main returns.
BothSidesEnd == <>(\A s \in Sides : SideEnded(s))

\* Where a thread waits: a source thread in send, when the connection is full;
\* a destination thread in recv, when it is empty.
SourceWaits(c) ==
    /\ chanThread["source"][c] = "inside"
    /\ \/ srcPc[c] = "send" /\ srcOpen
       \/ srcPc[c] = "claim" /\ srcFile[c] \notin Files
    /\ srcSock[c] /\ dstSock[c] /\ ~lost[c] /\ Len(wire[c]) >= WireCap

DestinationWaits(c) ==
    /\ chanThread["destination"][c] = "inside"
    /\ dstPc[c] = "header" /\ wire[c] = <<>>
    /\ srcSock[c] /\ dstSock[c] /\ ~lost[c]

ThreadWaits(s, c) == IF s = "source" THEN SourceWaits(c) ELSE DestinationWaits(c)

\* A portal thread waits in recv for message_transfer_destination_finished, or
\* at the gate.
PortalWaits(s) ==
    /\ portal[s] = "inside"
    /\ IF s = "source"
       THEN /\ portalSock["source"] /\ portalSock["destination"] /\ ~portalLost
            /\ finished # "inFlight"
       ELSE ~gate.open

\* dispose_impl waits in a join, for the portal thread or for the thread of the
\* channel it has just closed.
DisposeWaits(s) ==
    \/ teardown[s] = "reset" /\ portal[s] # "ended"
    \/ teardown[s] = "joined" /\ \E c \in Channels : ~Sock(s, c) /\ chanThread[s][c] # "ended"

\* No thread of this side can take a step, nor its main thread.
SideWaits(s) ==
    /\ \A c \in Channels : chanThread[s][c] = "ended" \/ ThreadWaits(s, c)
    /\ portal[s] = "ended" \/ PortalWaits(s)
    /\ teardown[s] \in {"live", "done"} \/ DisposeWaits(s)
    /\ s = Client /\ teardown[s] = "done" => exit # "running"

\* These are the only places where a thread waits: in any other state of its
\* side some thread of it has a step to take.
WaitsAreExact == \A s \in Sides : ENABLED SideStep(s) <=> alive[s] /\ ~SideWaits(s)

\* The same as a property of states: the program stops nowhere but where both
\* sides have ended.  Whatever is waited for - a message, room in a connection,
\* the portal, the gate, a join - somebody is left who can take a step.  In
\* particular the channels, which dispose_impl closes and joins one after the
\* other, never wait for each other.
NobodyIsStuck == (\A s \in Sides : SideEnded(s)) \/ \E s \in Sides : alive[s] /\ ~SideWaits(s)

----------------------------------------------------------------------------
(* What is left to do, most significant first: a thread that claims a block *)
(* has another to send, but there is less of the file to claim.             *)

SrcLeft == [idle |-> 3, send |-> 2, claim |-> 1, done |-> 0, failed |-> 0]
DstLeft == [idle |-> 5, count |-> 4, complete |-> 3, header |-> 2, body |-> 1,
            done |-> 0, failed |-> 0]
ThreadLeft ==
    [waiting |-> 5, entering |-> 4, inside |-> 3, opening |-> 2, counted |-> 1, returning |-> 1,
     ended |-> 0]
PortalLeft == [entering |-> 3, inside |-> 2, sending |-> 1, ended |-> 0]
TeardownLeft ==
    [live |-> 6, required |-> 5, portalClosed |-> 4, disposed |-> 3, reset |-> 2,
     joined |-> 1, done |-> 0]

Unclaimed(f) == IF curr_offset[f] < FileSize[f] THEN FileSize[f] - curr_offset[f] ELSE 0

Left ==
    <<<<MaxFaults - faults>>,
      [f \in Files |-> Unclaimed(f)],
      [c \in Channels |-> NFiles + 1 - srcFile[c]],
      [c \in Channels |-> SrcLeft[srcPc[c]]],
      [c \in Channels |-> Len(wire[c])],
      [c \in Channels |-> DstLeft[dstPc[c]]],
      [t \in Sides \X Channels |-> ThreadLeft[chanThread[t[1]][t[2]]]],
      [s \in Sides |-> PortalLeft[portal[s]]],
      [s \in Sides |-> TeardownLeft[teardown[s]]],
      [s \in Sides |-> One(alive[s])],
      [t \in Sides \X Channels |-> One(Sock(t[1], t[2]))],
      <<One(exit = "running")>>>>

\* Every step, of the program or a fault, leaves less to do: no schedule keeps
\* the threads busy for ever, sending again, receiving again, or starting a
\* dispose_impl that has been started.
NothingRunsForever == [][Below(Left', Left)]_vars

----------------------------------------------------------------------------
\* A channel thread that was not the last to signal has raised the count but not
\* yet read _at_least_signal, and meanwhile the others have opened the gate and
\* the transfer, with the gate in it, has been destroyed.
SignalsGoneGate ==
    TransferGone("destination") /\ \E c \in Channels : chanThread["destination"][c] = "counted"

\* No schedule of the threads makes an undisturbed transfer fail: the client
\* reports an error, and a process dies on ASSERT(transfer != nullptr) or in a
\* transfer that has been destroyed, only after something went wrong outside.
\* The one exception is the destination's process in SignalsGoneGate, when every
\* file is whole and "finished" has been sent.
FailureHasACause ==
    faults = 0 =>
        /\ exit # "error" /\ alive["source"]
        /\ alive["destination"] \/ (SignalsGoneGate /\ finished # "none")

----------------------------------------------------------------------------
(* The inductive invariant, if the gate counts as many channels as there   *)
(* are.                                                                    *)

CountsAgree == GateCount = Cardinality(Channels)

AllFinished == \A c \in Channels : dstPc[c] \in {"done", "failed"}

\* Where a destination thread is, outside and inside invoke_channel.
ThreadsInvoke ==
    \A c \in Channels :
        /\ chanThread["destination"][c] \in {"waiting", "entering"} => dstPc[c] = "idle"
        /\ chanThread["destination"][c] = "inside" => dstPc[c] # "idle"
        /\ chanThread["destination"][c] \in {"opening", "counted", "returning"} =>
              dstPc[c] \in {"done", "failed"}
        /\ chanThread["destination"][c] = "ended" => dstPc[c] \in {"idle", "done", "failed"}

\* The channels that have raised the count of the gate, and those that will open
\* it.  It counts until dispose_impl forces it, and the last one opens it.
Signallers ==
    {c \in Channels :
        /\ chanThread["destination"][c] \in {"opening", "counted", "returning", "ended"}
        /\ dstPc[c] # "idle"}
Openers == {c \in Channels : chanThread["destination"][c] = "opening"}

GateCounts ==
    teardown["destination"] \in {"live", "required", "portalClosed"} =>
        /\ gate.count = Cardinality(Signallers)
        /\ gate.open \/ Openers # {} => Signallers = Channels
        /\ gate.open => Openers = {}
        /\ \A c, d \in Openers : c = d

\* The portal's socket is closed before the gate is forced: a portal thread
\* that can still send has passed a gate that opened by itself.
FinishedInv ==
    /\ portal["destination"] = "sending" /\ portalSock["destination"] => AllFinished
    /\ finished # "none" => AllFinished /\ portal["destination"] = "ended"

\* How far a dispose_impl has come, and what that means.
TeardownInv ==
    \A s \in Sides :
        /\ portalSock[s] => teardown[s] \in {"live", "required"} /\ \A c \in Channels : Sock(s, c)
        /\ teardown[s] \in {"joined", "done"} => portal[s] = "ended"
        /\ teardown[s] = "done" => \A c \in Channels : chanThread[s][c] = "ended"

\* While both portal connections are open only a lost connection can have made
\* a destination thread fail; the message "finished" attests to that time.
FailuresLost ==
    (portalSock["source"] /\ portalSock["destination"]) \/ finished \in {"inFlight", "received"} =>
        \A c \in Channels : dstPc[c] = "failed" => lost[c]

\* What the client knows when it sets its status, and when it exits.
StatusInv ==
    /\ status = "succeeded" =>
          IF Upload THEN finished = "received" /\ portal["source"] = "ended" ELSE finished # "none"
    /\ ~Upload => \A c \in Channels :
          dstPc[c] = "failed" /\ chanThread["destination"][c] = "ended" => status = "failed"
    /\ exit = "ok" => status = "succeeded" /\ teardown[Client] = "done"

SessionInv ==
    /\ SessionTypeOK /\ BlockInv /\ DeliveryInv
    /\ ThreadsInvoke /\ GateCounts /\ FinishedInv /\ TeardownInv /\ FailuresLost /\ StatusInv

(***************************************************************************)
(* Beyond SessionInv: what keeps the threads of both sides going, and what *)
(* nothing but a fault can bring about.                                    *)
(***************************************************************************)

\* Where a source thread is, outside and inside invoke_channel.
SourcesInvoke ==
    \A c \in Channels :
        /\ chanThread["source"][c] \in {"waiting", "entering"} => srcPc[c] = "idle"
        /\ chanThread["source"][c] = "inside" => srcPc[c] # "idle"
        /\ chanThread["source"][c] \notin {"opening", "counted", "returning"}
        /\ chanThread["source"][c] = "ended" => srcPc[c] \in {"idle", "done", "failed"}

\* The sockets of a side are open from the start until dispose_impl or the death
\* of the process closes them.
SocksInv ==
    \A s \in Sides :
        /\ ~alive[s] => ~portalSock[s] /\ \A c \in Channels : ~Sock(s, c)
        /\ alive[s] /\ teardown[s] \in {"live", "required"} => portalSock[s]
        /\ teardown[s] = "done" => \A c \in Channels : ~Sock(s, c)

\* What dispose_impl does to the transfer, and when the gate is open.
DisposeInv ==
    /\ srcOpen <=> (teardown["source"] \in {"live", "required", "portalClosed"})
    /\ dstDisposed <=> (teardown["destination"] \notin {"live", "required", "portalClosed"})
    /\ dstDisposed => gate.open
    /\ Signallers = Channels => gate.open \/ Openers # {}

\* While nobody has required its dispose, a side has its portal thread, and a
\* thread of it that has ended has carried its channel to the tail.
LiveInv ==
    \A s \in Sides : teardown[s] = "live" =>
        /\ portal[s] # "ended"
        /\ \A c \in Channels : chanThread[s][c] = "ended" =>
              IF s = "source" THEN srcPc[c] = "done" ELSE dstPc[c] = "done"

\* The tail of a source thread that is done is on its way, or was received.
TailsArrive ==
    \A c \in Channels : srcPc[c] = "done" /\ ~lost[c] /\ dstSock[c] =>
        dstPc[c] = "done" \/ \E i \in Positions(c) : ~Live(wire[c][i])

\* How far a transfer is that nothing has disturbed: neither side is taken down
\* before the message "finished" has been sent, or received.
QuietInv ==
    faults = 0 =>
        /\ alive["source"] /\ (alive["destination"] \/ SignalsGoneGate)
        /\ ~portalLost /\ \A c \in Channels : ~lost[c] /\ srcPc[c] # "failed" /\ dstPc[c] # "failed"
        /\ status # "failed" /\ exit # "error" /\ finished # "dropped"
        /\ (portal["source"] = "ended") <=> (finished = "received")
        /\ (portal["destination"] = "ended") <=> (finished # "none")
        /\ teardown["source"] # "live" => finished = "received"
        /\ teardown["destination"] # "live" => finished # "none"
        /\ finished # "none" \/ portal["destination"] = "sending" =>
              Signallers = Channels /\ Openers = {}
        /\ portal[Client] = "ended" => status = "succeeded"

RunInv == SourcesInvoke /\ SocksInv /\ DisposeInv /\ LiveInv /\ TailsArrive /\ QuietInv
=============================================================================
