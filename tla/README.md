# A verification model of xcp

`xcp` copies files between a client (`xcp`) and a server (`xcpd`) over several TCP connections at
once. This directory holds TLA+ modules translated from `src/src/`, TLC configurations that check
them on small instances, and TLAPS proofs for every value of the constants. `PROJECT.json` maps
each definition to the lines it models and lists runs, mutants, hazards, findings and theorems.

```
cd tla
tlc -workers 2 -config BlockTransfer_disturbed.cfg MCBlockTransfer     # any run
tlapm SessionProofs.tla                                                # any module of proofs
```

The program is what is under `src/src/` (some 6,000 lines); `src/thirdparty/` (option parsing,
logging, serialization) is vendored and not modelled.

## 1. Inventory

| Part (source) | State it keeps | Operations | Module |
|---|---|---|---|
| Data plane (`transfer.cpp` `invoke_channel` of both sides, `transfer.h` file contexts) | `curr_offset` of each file (atomic), block size of each channel, `recv_file_context` (handle, mapping, `received_size`) | claim a block, send, adapt the block size, final tail; receive header and body, count, complete a file; dispose | `BlockTransfer`, `BlockSizing`, `FileCopy` |
| File handles of a transfer (`transfer.cpp` preparation, `transfer.h` `close_handle`) | `file_handle` of each context, the kernel's table | open, configure, list, use, close, dispose | `FileHandles` |
| Transfer session (`invoke_portal`, thread functions, `dispose_impl` of both sides, `xcp.cpp`) | result status, `_gate_all_channels_finished`, portal socket, shared pointer to the transfer | wait for all channels, announce the end, dispose in order, exit code | `TransferSession` |
| V1 handshake: client portal and channels (`client.cpp`), server instance (`server.cpp`) | portal and channel threads, `gate_client_portal_ready`, `gate_all_channel_repeats_connected`, `gate_portal_ready_to_transfer`, `channel_threads` under the rundown lock | connect, greet, negotiate, register, prepare, agree, dispose, erase, shut down | `Handshake`, `Rendezvous` |
| Server portal (`server.cpp` `server_portal_state`, `server_channel_state`; `infra/disposable.h`) | listening sockets, accept threads, a thread for each connection, `clients` under `clients_mutex`, references to each `client_instance`, its disposable status | accept, greet, create, look up, register, dispose (also asynchronously), erase, destroy, shut down | `ServerPortal` |
| Gates and exit (`infra/gate_guard.h`, `manual_reset_event.h`, `sighandle.h`) | signal count, flag, mutex, condition variable | `signal`, `force_signal_all`, `wait`, `can_pass`, the signal handler | `GateGuard`, `Latch` |
| `infra/rundown_protection.h` | mutex, rundown flag | `acquire_unique`, `acquire_rundown` | in `Handshake`, `ServerPortal` |
| Counting channels (`program_options.cpp` `post_process`) | `total_channel_repeats_count` | sums of repeats | in `Handshake` |
| Sockets (`infra/network.cpp`) | descriptor, state | recv, send, sendv, send_file, connect, accept, close | as used by the above |
| Endpoints, users, options, progress, logging | | | not modelled |

How they interact. A client opens a *portal* connection and, after the server has told it where,
one connection per *channel* (endpoints times repeats). Every accepted connection gets a thread at
the server, which reads a greeting and either creates a `client_instance` (portal) or looks one up
in `clients` (channel). Gates hold the channel threads of both sides until the portals agree; then
each pair of channel threads runs `invoke_channel`, and the portal threads run `invoke_portal`: the
destination's waits at a gate until all of its channels have finished and sends
`message_transfer_destination_finished`. Either side may be disposed at any time, by SIGINT, by a
failing thread, by the end of the transfer, by the server's shutdown; `dispose_impl` closes sockets
and forces gates open under the threads' feet, then joins them. At the server it then starts a
detached thread that removes the instance from the map, and whoever drops the last reference
destroys it.

What is hard, and what correctness means.

* *Data plane.* Threads race for blocks with an atomic counter and different, changing block sizes;
  receivers of different channels count into one total and unmap a file when it is reached. Correct:
  blocks cover a file exactly once, a file is put away only when it is whole and always when it is,
  no block meets a file that is gone.
* *Handles.* Channels, preparation and `dispose_impl` close files without a lock, in a process that
  opens and closes other descriptors. Correct: a number that is used or closed is the file's own.
* *Session.* The exit code depends on a race between failing channels, the portal and dispose.
  Correct: 0 means a whole file; a dispose never forges a "finished"; both sides end, no schedule of
  an undisturbed transfer fails (but in one window, section 4).
* *Handshake.* Connections arrive in any order, each in a thread of its own, while the instance they
  belong to is created, agreed upon, disposed and erased. Correct: nobody starts before all have
  met; a live client is known; rundown leaves no thread in a disposed instance, shutdown no client;
  both sides come to an end.
* *Server portal.* Objects are shared, disposed by threads that hold plain pointers, and destroyed
  wherever the last reference is dropped. Correct: nobody uses a destroyed client; no thread waits
  for itself; no client is leaked; a server told to exit does.
* *Gates.* A lock-free count and test in front of a mutex and a condition variable, entered from a
  signal handler as well. Correct: open at the limit and not before, exactly once, no lost wake-up.

`PROJECT.json` lists the hazards line by line, with the properties that cover each.

## 2. Modules

### BlockTransfer, BlockSizing, FileCopy
One pair of threads per channel. `srcPc`/`dstPc` say where a thread is in `invoke_channel`;
`ClaimBlock` and `NextFile` are the two outcomes of `fetch_add`, `SendBlock` is `send_file` and the
adaptation that follows it, `RecvHeader`, `RecvBody`, `CountBlock`, `CompleteFile` the receiver's
statements where another thread can come in between. A message is a block (file, offset, length) and
`stored` the set of bytes received into each file's mapping; contents are irrelevant. `WireCap`
bounds what a connection buffers, so a send may block. `Disturbance` is what the rest of the program
and the network do to a channel: close sockets (one at a time, or all of an end when its process
dies), break the connection, dispose either side.
`Init` is the state `prepare_transfer_*` leaves: all files open, those that are not empty mapped.

`BlockSizing` is the arithmetic: `-B` and its limits, then size and time to bandwidth, decay,
truncation, alignment, cap. A `double` is the exact quotient but for its last bit, so the truncated
value is one of three neighbours. `NextBlockSizes` is what `SendBlock` takes the next size from.

`FileCopy` is the abstract promise: bytes arrive once each, in pieces of any size; a file is finished
once, whole, and nothing arrives after. `CopiesFiles` is the refinement, with `arrived` mapped to
`stored` and `finished` to the mapped files that have been put away. It promises no progress; that
what was sent does arrive is `DeliveryInv`, `AllTailsMeanWholeFiles` and `AllTailsMeanPutAway`.

### FileHandles
The same files seen as numbers in the kernel's table. `holder` says what each number names: nothing,
a file of the transfer, or something else of the process, which opens and closes descriptors of its
own (`OtherOpens`, `OtherCloses`) and may be given a number the moment it is free. `OpenFile`,
`ConfigureFails`, `AddFile` are the preparation; `TestHandle`, `CloseHandle`, `StoreInvalid` the
three statements of `close_handle` in a channel, `DisposeTests`, `DisposeCloses`, `DisposeStores` the
same in the loop of `dispose_impl`; `ReadHandle` and `SendFile` the sender's, which holds the number
by value while it waits. When contexts are added while `dispose_impl` iterates, they may move
(`stale`): what the loop then does is undefined, so anything the process can do may follow. The
model has the race the code has: two closes of one number, the second of somebody else's. The
properties say exactly when that cannot be.

### TransferSession
EXTENDS `BlockTransfer` and replaces `Disturbance` by the code that causes it: portal threads, the
gate, `async_dispose` and the statements of `dispose_impl` in their order (portal socket, transfer,
`transfer.reset()`, join the portal, then close and join the channels one by one), the client's main
and its exit code. A channel's `signal()` is two steps: `SignalFinished` raises the count, and leaves
the thread `"opening"` when it was the last (`OpenGate` then sets the event), else `"counted"`: it has
yet to read `_at_least_signal`, while the others may open the gate and the transfer, with the gate in
it, may be destroyed. `Upload` says which side is the client. Faults from outside are losses of a
channel's or the portal's connection, SIGINT at either side and crashes, `MaxFaults` of them. A
failed `ASSERT(transfer != nullptr)` aborts the process; a thread at work in the destroyed transfer,
its gate included, either goes on or crashes its process (undefined behaviour, `UsesGoneTransfer`).
`SideWaits` names every place where a thread of the session waits; `WaitsAreExact` checks it against
`ENABLED`. `Left` is a measure of the work left, in the order of `Descent` (sequences of functions
to the naturals, the most significant first), which the handshake and the server portal share.

### Handshake, Rendezvous
From the connection to the end of both sides for one client: the client's portal and channel
threads, the server's thread of each connection, both `dispose_impl`, the detached erasing thread,
and the server's shutdown. Messages travel in order on the portal connection. The transfer itself is
one state (`"transfer"`) a thread comes out of with success or failure. The counting of channels by
`post_process` and what `fn_portal` offers are separate operators, as in the code, and assumptions
tie the channels the client opens to what it was offered: as many in all, and as many of them
(`PortalChannels`) on the portal's own endpoint as `-P` repeats. A client whose range of versions is
empty gets no answer (`server.cpp:62`); an exception other than `transfer_error` in
`init_transfer_info` ends the client's process (`ClientPanics`). `Rendezvous` is the abstract promise:
no channel starts before all have arrived and the server has answered. `ChannelsMeet` is the
refinement of `Rendezvous` under a mapping of the thread states. `ClientWaits` and `ServerWaits` name
every place where the threads of either process wait (a `recv`, a gate, `clients_mutex`, a join), and
its own `WaitsAreExact` checks them against `ENABLED`; `Left` measures what is left to do.

### ServerPortal
The life of the server's objects, for any number of clients and channels: `main` inside `init()` or
`dispose()` of the portal, the listening sockets and their accept threads, the thread of every
connection, and for each `client_instance` its disposable status (`status`), who runs its
`dispose_impl` (`disposer`), the threads it will join (`registered`, `rundown`), its place in
`clients`, and its erasing thread. A reference is not a counter of its own: `Holders` are the threads
that have one, and `DropClient`, `EraserErases` and the shutdown's `ResetClient` run the destructor
when theirs was the last. The destructor waits for `dispose_impl` (`disposable.h`), and the thread
that ran it holds a plain `this`. What a client says, and how its gates and sockets let its threads
go on, is `Handshake`; here a thread works until its peer or the disposal ends it. Threads that may
still use the portal after `main` has destroyed it can bring the process down (`PortalUsedGone`),
and an accept thread can read the pointer that `dispose_impl` has reset (`AcceptorReadsGone`); both
then lead to `Aborts` or to nothing. `accept()` may also fail on an open socket (`AcceptErrs`): that
ends the accept loop once an exit is required. `ServerWaits` names every place where a thread of the server
waits (a `join`, `clients_mutex`, the destructor and `dispose()` for `dispose_impl`, its peer);
`AtRest` is the server that has nothing left to end: `main` waits for an exit, and every
`client_instance` is at work or destroyed. `Left` measures what is left to do.

### GateGuard, Latch
`gate_guard` on `manual_reset_event` with one action per atomic operation, lock, unlock, sleep and
wake-up. The handlers of the signals that `setup_signal_handler` names are threads that run on top of
another thread, which stands still with whatever it has locked. The handler of one signal may run on
top of that of another, because none of them masks the others (`sighandle.h:71`). `Latch` is the
abstract gate: `KeepsPromise` says that `GateGuard` implements it.

### Proof modules
`BlockTransferProofs`, `DeliveryProofs`, `SessionProofs`, `ProgressProofs` (each on top of the one
before),
`FileHandlesProofs`, `HandshakeProofs`, `ServerPortalProofs`, `GateGuardProofs`: section 5. `MC*`
modules hold the small instances.

## 3. Runs

| Run | Instance | Shows |
|---|---|---|
| `disturbed` | 2 channels, an empty file and one of 3 bytes, adaptive sizes up to 2, sends of no time, 1 and 5 units, at most two disturbances of any kind | the inductive invariants `BlockInv` (types included) and `DeliveryInv`; all tails mean whole files that are put away, `FileCopy` |
| `dispose` (violation) | 2 channels, a file of 3 bytes | finding: `dispose_impl` leaves files mapped |
| `file_handles` | 3 files, 4 numbers, source or destination | a number is its file's own until `dispose_impl` begins, and in it unless a channel is in `close_handle` too; listed files are closed |
| `download` | 2 channels, one block, one fault of any kind but an interrupt | `RunInv`; exit 0 means whole; a forced gate lets no "finished" out; undisturbed nothing fails but in a destroyed gate; threads wait where `SideWaits` says and nowhere else; no state where every thread waits |
| `upload` | 1 channel, an empty file and one of a block, a connection that holds one, two faults of any kind | `SessionInv`; both sides end; every step leaves less to do; exit 0 means whole unless a channel broke |
| `mismatch` (violation) | upload, 2 channels, a gate of 1 | finding: the gate counts fewer channels than were offered |
| `upload_loss` (violation) | upload, one loss | finding: exit 0 with blocks missing |
| `assert` (violation) | one interrupt | finding: the transfer can be gone when a thread asserts it is there |
| `handshake_disturbed` | 2 channels on the portal's endpoint, clients of three version ranges (one the server shares, one it does not, an empty one), one fault of any kind but a shutdown | `HandshakeInv` (with the conjuncts of progress); `Rendezvous`; rundown is complete |
| `handshake_ends` | 1 channel with its own endpoint, upload, two faults out of losses and the server's shutdown | live clients are known; the server's waits and the client's are as named, nobody is stuck, every step leaves less to do; both sides settle; a server told to exit does, and leaves no client |
| `server_clients` | 2 clients, one with a channel, a portal (whose `accept()` may fail) and a channel endpoint, exit or failure to start at any moment | `PortalInv` (no thread waits for itself included); no use after destruction, who may outlive the portal; threads wait where `ServerWaits` says, a server that cannot go on by itself is at rest, every step leaves less to do; a server told to exit does; no client is leaked |
| `gate_races` | limit 2; the handlers of two signals on top of any thread or of each other, one force, two waiters | `GateInv`, `Latch`; no lost wake-up |

*Bounds.* Two channels are enough for every race there is between channels, since a step involves at
most two of them (the safety proofs are for any number). Three bytes and adaptive sizes 1 and 2 give
a full, a cut and an overshooting block, claims of different sizes interleaved, and sizes that grow,
shrink and stay. `WireCap` 1 makes senders block as often as possible.
`AtMostTwoDisturbances` (a constraint of `disturbed`) stops the exploration after the second socket,
connection or transfer is gone: one at any point is what a single error path handles, two let the
second hit the handling of the first; without it the instance is too large, and the proofs have no
such bound. `MaxFaults` is the same for the sessions and the handshake. `download` has two channels
and one block, so that one channel carries data and the other only its tail, in any order; `upload`
has liveness, two faults and one channel. Four numbers for three files let the kernel give a closed
number to another file, to the process, or to nobody. `server_clients` has two clients so that one
can be disposed by the shutdown while the other still arrives, and one channel that may be in any
state then; `Erring` keeps the failures of `accept()` to one listener. In `gate_races` both signals
come from handlers, which do all that an ordinary signal does and more. Symmetry is used for safety only. `CHECK_DEADLOCK FALSE` everywhere: a program that has
ended stops, and a server left waiting for channels does too; `NobodyIsStuck` says of the session
that it stops only where both sides have ended, in terms of `SideWaits`, of the handshake that it
stops only there or where `fn_portal` waits for channels, and of the server portal that it stops only
where it has exited or is at rest.

*Fairness.* `FairSession` and the `FairSpec` of `Handshake` and `ServerPortal` assume only that,
while some thread can take a step, some thread does: no thread of the model can step for ever (that
is `NothingRunsForever` of the three modules), so this is what any scheduler gives. In `ServerPortal` it covers `ServerStep` only; what a peer or the
operator does (`PeerStep`: connect, greet, end a transfer, signal) may never happen, so the server
must end by itself. `GateGuard` needs strong fairness per thread, because a mutex that is released
again and again may be missed by weak fairness; spurious wake-ups are not fair. Faults are never
fair. That a thread blocked in `recv` on a broken connection comes out is the kernel's doing
(`SO_KEEPALIVE`, `network.cpp:353`); the liveness properties say what happens once it has noticed.

## 4. Findings

* `mismatch`: with `-P host@R -C ep@N` the server's `total_channel_repeats_count` is `N`
  (`program_options.cpp:403`) while the client is told to open `R + N` channels (`server.cpp:116`). In
  an upload the gate opens early, and the client may exit with 0 before the file is complete.
* `upload_loss`: the destination's sweeper signals the gate for failed channels too
  (`transfer.cpp:354`), and `error_code` is 0 regardless. When a channel breaks after the client's
  sends have returned, the client exits with 0 and the server has a file with a hole.
  `ExitIsTrueUnlessLost` (section 5) shows that this is the only way, if the counts agree.
* `dispose`: `transfer_destination::dispose_impl` closes handles before unmapping, and `unmap_file`
  on Linux does nothing without a handle; the null check at `transfer.cpp:386` is for a case that
  never occurs. (It is also why `CompletionIsNeverEarly` and `PendingBlocksHaveMapping`, section 5, hold with
  a dispose at any moment: a dispose unmaps nothing.)
* `assert`: a thread that has passed the dispose check may find the transfer already reset, and
  `ASSERT` aborts (`client.cpp:106`, `client.cpp:486`, `server.cpp:301`).

Some behaviours are exceptions in a property rather than findings, because nothing in the repository
denies them.

* `HandshakeSettles`: a server whose client is gone, or that lost a connection before its greeting,
  waits in `fn_portal` for channels that will not come, until it is shut down.
* `FailureHasACause`: a channel of an undisturbed transfer that was not the last to signal may be
  preempted between `gate_guard.h:32` and `:33`. The others open the gate, the portal announces the
  end, and the destination's side disposes and resets the transfer (`client.cpp:242`,
  `server.cpp:331`) before it joins that channel, whose thread holds no reference of its own
  (`client.cpp:107`, `server.cpp:302`): it then reads a gate that has been destroyed. Its process may
  die there, although every file is whole and "finished" is out; a downloading client then does not
  exit with 0. The property allows the death of the destination's process in this window
  (`SignalsGoneGate`) and denies every other.
* `ExitIsSeen`: a signal delivered on a thread that holds the mutex of `manual_reset_event` locks
  itself out, and so does one delivered on the handler of another that is on top of such a thread.
* `DisposeOwnsNumber`: a channel in `close_handle` while `dispose_impl` runs, or contexts that move
  under its loop, and a number may be closed that is somebody else's by then.
* `ListedFilesAreClosed`: the file whose `fchmod`, `ftruncate` or `mmap` failed stays open, and so does
  one opened after `dispose_impl` has looked.
* `OnlyUntrackedThreadsOutlivePortal`: threads still receiving a greeting, erasing threads, and a
  disposing thread about to store `DISPOSED` may run when the portal is gone; the first two use it.

## 5. Proofs

Assumptions are those the modules state: finite sets, sizes that are naturals, block sizes and limits
that are positive.

**Data plane**, any channels, files, sizes and times (`BlockTransferProofs`). The argument rests on
`BlockInv`. "No byte is received twice" is not inductive: it needs that every live block (held by a
sender, or in flight) lies inside its file and below `curr_offset` (`BlocksClaimed`), that live
blocks do not overlap (`BlocksApart`), and that none of their bytes has been received
(`BlocksFresh`). A claim starts at the old `curr_offset`, hence apart from everything; a send moves a
block, a receive takes one away. `ReceivedCountsBytes` then relates `received_size` to the
cardinality of the bytes stored and counted: adding a block adds its length because its bytes are new
to the counted set. So `received_size = file_size` means all bytes are there, and no block of that
file can be live any more. `BytesReceivedOnce`, `BytesCountedOnce`, `CompletionIsNeverEarly` and
`PendingBlocksHaveMapping` say these by themselves. `AdaptedSizeFits` is why a claim always moves `curr_offset`: however long
a block took, the next size is positive and at most the maximum. `ImplementsFileCopy` follows: a
`RecvBody` adds bytes that are missing, `CompleteFile` finds none missing, everything else stutters.

**Delivery** (`DeliveryProofs`). The converse direction, that nothing is lost on the way, is
`DeliveryInv`: every byte below `curr_offset` is in a block a sender holds, in a message, in a block
being received, or stored, unless a channel has broken (`BytesAccounted`); a tail is the last message
of its channel, and its sender has passed every file (`TailsLast`, `FilesPassed`); a file all of whose
bytes are counted is put away, or some thread is about to (`WholeFilesPutAway`). When all tails have
been received no block is anywhere else, so `AllTailsMeanWholeFiles` and `AllTailsMeanPutAway` follow.

**Session** (`SessionProofs`), any channels, faults, and either direction, under `CountsAgree` (the
gate counts as many channels as there are; `mismatch` shows what happens otherwise). `SessionInv`
adds to the two invariants above how threads, gate, portal and teardown relate. Until `dispose_impl`
forces the gate its count is the number of channels that have signalled, and the one that made it the
limit is alone in opening it (`Openers`), so a gate that opened by itself means that all have finished
(`GateCounts`). The portal's socket is closed before the gate is
forced, so a portal thread that can still send has passed such a gate (`FinishedInv`): that is
`FinishedIsTrue`. A failing channel overwrites the status before `dispose_impl` joins it, and the exit
code is read after all joins (`StatusInv`, `TeardownInv`): that gives `DownloadExitIsTrue`. While the
portal connection is open at both ends nobody has closed a channel's socket, so a channel can only
have failed because its connection was lost, and a "finished" that arrives attests to that time
(`FailuresLost`): that gives `ExitIsTrueUnlessLost` for uploads as well. The actions of `BlockTransfer`
are reused step by step, with the lemmas of the two modules below.

The composition is a refinement as well: `SessionImplementsTransfer` says that a session, projected to
the variables of the data plane, is a run of `BlockTransfer`, because whatever a portal, a dispose or a
dying process does to the data is one of its steps. It needs no `CountsAgree`, so that `FileCopy`, and
everything else proved of the data plane, holds of a session whose gate counts wrong
(`SessionCopiesFiles`, `SessionKeepsBlocksApart`); what a wrong count breaks is only what the client
is told. `SessionTypes` needs no such assumption either.

**Progress** (`ProgressProofs`). That both sides of a session end is liveness, out of the prover's
reach; the two facts it rests on are proved.

* *Nobody is stuck* (`SomebodyCanStep`, under `CountsAgree`). The invariant is `RunInv`: a side whose
  dispose nobody has required has its portal thread, and its ended channel threads have carried their
  channel to the tail (`LiveInv`); sockets are open until teardown reaches them (`SocksInv`); the gate
  is open, or about to be opened, when all have signalled, and open when the transfer is disposed
  (`DisposeInv`); the tail of a finished
  sender is under way or received (`TailsArrive`). A `dispose_impl` that has started gets to its end:
  it closes what it joins before it waits (`DisposeEnds`). A live destination that waits, waits at its
  gate for a channel with an empty connection, hence for a live source thread that has not sent its
  tail and has room to (`LiveDestinationRuns`); a live source waits for a "finished" from a
  destination that is live (`LiveSideRuns`). So there is no circle.
* *Nothing runs for ever* (`EveryStepLeavesLess`, no assumption on the gate). Every step, faults
  included, lowers `Left`: a tuple compared lexicographically whose places are functions from finite
  sets to naturals, compared pointwise. First the faults still possible, then the bytes to claim, the
  files and the states each sender has before it, then messages in flight, the receiver's state, threads,
  portals, teardown, processes, sockets. Such an order is well-founded, which is the one step of the
  argument left to the reader (it is an induction).

The last part of `RunInv`, `QuietInv`, is about transfers that nothing disturbs: neither side is taken
down before "finished" is sent, or received, and that is not before every channel has signalled and
the gate's opener is out of it. So no order of the threads makes one fail (`FailuresHaveACause`), but
for a thread that is in `signal()` without being the opener when its transfer is destroyed.

**File handles** (`FileHandlesProofs`), any number of files and descriptors. `HandlesInv`: a number
that names a file stands in that file's context (or is the one being opened), whatever the process
does with the others (`Named`), and while nothing races the converse holds as well (`QuietFiles`).
From it `UndisposedFilesOwned`, `DisposeClosesItsOwn`, `DisposeClosesAllListed`.

**Handshake** (`HandshakeProofs`), any channels, versions and faults. `KnownInv` needs no further
assumption. The client makes its channels only after a message of the server has reached it
(`ClientSpokenTo`), the server speaks only in a `client_instance`, and that is in the map until its
`dispose_impl` is done (`InstanceInv`): so `LiveClientsAreKnown`. A channel at work is one
`dispose_impl` will join (`ChannelsRegistered`), and after the joins none can register:
`DisposedInstancesAreIdle`, `ShutdownDisposesClients`. `MeetingInv` holds under `CountsAgree`. The
server's gate counts the channels that have come until `dispose_impl` forces it, so a portal thread
that is about to answer has seen them all (`GateCounts`); a channel gets past a gate of either side
either because that answer was given or because a dispose has forced the gate, and then it sees the
dispose and gives up (`NobodyStartsEarly`). `HandshakeMeets` is the refinement: `SignalConnected` is
`Arrive`, `ServerResponds` is `Open`, entering the transfer is `Start`, all else stutters.
`ChannelCountsAgree` says for which command lines `CountsAgree` holds: all but those that give `-P` its
`@repeats` beside a `-C`, the case of the `mismatch` finding.

The two facts that `HandshakeSettles` rests on are proved here as they are for the session, and
without `CountsAgree`:

* *Nobody is stuck* (`SomebodyCanStep`). `ProgressInv` is `KnownInv`, `MessagesSent` and `WaitingInv`.
  The last says which ends are open (`SocksInv`: a process that is gone has none, a `dispose_impl`
  closes its portal's first), what opens `gate_client_portal_ready` and which thread owes the
  server an answer (`ClientThreadsInv`), what opens the server's two gates and who must have been told
  to dispose when a portal thread has ended (`ServerThreadsInv`), and that the channels' gate is open
  when as many have come as it counts (`GateOpens`). Then a client that waits, waits for the next
  message of a live server (`ClientWaitsForServer`: its own joins and its gate have been seen to), and
  no `dispose_impl` of the server waits at all (`ServerDisposeGoesOn`). So the server's threads are at
  the request, at a gate, or at an end (`ServerThreadWaitsAt`), and if client and server both wait it is
  at the channels' gate, with a channel turned away, hence one whose connection broke (`BothWait`);
  that no channel is turned away otherwise is `LiveClientsAreKnown`.
* *Nothing runs for ever* (`EveryStepLeavesLess`). The order of the places of `Left` is who asks whom
  for what: faults, the ends of the processes, the client's portal, its channels, its `dispose_impl`
  (which any of those may ask for), the server's shutdown, the threads of its connections (which a
  connecting client or the shutdown may move), its `dispose_impl`, the erasing thread, the sockets.

`CountingAssumption` (the gate waits for one channel at least and for no more than are offered) is a
consequence of the definitions by induction over `ChannelRepeats`, which the prover cannot do; it is an
assumption of the module, which TLC evaluates on every instance.

**Server portal** (`ServerPortalProofs`), any clients, channels and endpoints. `ObjectsInv`: the
disposable status of a client says where its `dispose_impl` is (`InstanceInv`), that says whether its
portal thread and its channels can still be at work (`ChannelInv`), and a client that is being
destroyed, or has been, is in nobody's hands (`DestroyInv`). A thread that is joined holds no last
reference, because the map's is dropped only after the joins, by the erasing thread, or by the
shutdown after `dispose()` has returned. From it `DestroyedClientsAreUnused`, `NoThreadWaitsForItself`,
`TrackedThreadsEndFirst`.

`PortalInv` adds two parts for what `ServerExits` and `DisposedIsDestroyed` rest on.

* *Nobody is stuck* (`SomebodyCanStep`). `ExitInv`: the listening sockets close only when an exit is
  required, and then the accept loops end. `KeptInv`: a client that is disposed and still in the map has
  an erasing thread on its way, unless the portal is being disposed; one that is out of the map and not
  destroyed is held, or being destroyed, by some thread. The argument goes up the chain of who waits
  for whom. A `dispose_impl` never waits, because it has let go of the threads it joins
  (`DisposeGoesOn`). A destructor never waits, because its client was in the map until that
  `dispose_impl` was through (`DestructorGoesOn`). So `clients_mutex` is free, `main` gets through
  `dispose()` and waits for nothing but the exit (`MainGoesOn`), and a disposed client that is not
  destroyed would have a holder that can go on.
* *Nothing runs for ever* (`EveryStepLeavesLess`). The order of the places of `Left`: whether the
  process runs, the exit, `main`, the threads of the connections (which a dispose lets go, and which
  may ask for one), `dispose_impl`, the erasing threads it starts, the map, then the portal's own
  loop, its sockets and accept threads. An accept loop moves back only with a new connection.

**Gates** (`GateGuardProofs`), any threads and limit: `GateInvariantHolds`, `PassedMeansCanPass`,
`GateImplementsLatch`. `GateInv` says that the mutex is held exactly at the program points between
lock and unlock, that a thread inside `set()` has seen the count at its limit, and that the flag
implies it. Every step then maps to a step of `Latch` or to a stutter; two waiters never pass in
one step because the passing one holds the mutex.

Only model-checked: all liveness (`BothSidesEnd`, `HandshakeSettles`, `ServerShutsDown`, `ServerExits`, `DisposedIsDestroyed`,
`ExitIsSeen` and the like: fairness is out of the prover's reach) and `WaitsAreExact`
of the three modules, which is about `ENABLED`: that `SideWaits`, `ClientWaits` and `ServerWaits` name the
places where the modelled threads wait is what TLC checks, and `SomebodyCanStep` is proved of them.
With the well-foundedness of `Below` these give `BothSidesEnd`, `HandshakeSettles`, `ServerExits` and
`DisposedIsDestroyed` by hand: under the
fairness assumed, steps are taken while somebody can take one, only finitely many are, and `NobodyIsStuck`
says what has ended where they stop.

## 6. Not modelled

* Descriptor numbers of sockets: a closed socket just fails. That its number may be used again while a
  thread is still inside a call on it is listed as a hazard. `FileHandles` has the numbers of files.
* Greetings of anything but a client: wrong magic, unknown roles, ids nobody has.
* The data races on the shared pointers `sock` and `transfer`: reading one while another thread resets
  it is a possible abort (`ClientUsesGone`, `ServerUsesGone`, `UsesGoneTransfer`, `AcceptorReadsGone`),
  nothing finer.
* The busy loop of an accept thread whose `accept()` fails on an open socket while no exit is required
  (no descriptors left, say; `server.cpp:474`, `server.cpp:629`): each round is a stutter of the model, so
  that `NothingRunsForever` does not speak of it.
* The log line `stop_handler` writes (`sighandle.h:20`): whatever locks the logger takes are not in
  `GateGuard`.
* A source file that changes its size while it is sent: `send_file` then fails, like a lost connection.
* File system, permissions, directories, `cereal` encoding, option and endpoint parsing, users,
  progress lines, logging, the Windows branches; `semaphore` is never used.

## 7. Plan

Done: the modules above and their proofs. What is left, in this order:

1. `ServerPortal` and `Handshake` share the thread of a connection at two grains; a refinement between
   them would say so.
2. Sockets as descriptor numbers, in the manner of `FileHandles`.
