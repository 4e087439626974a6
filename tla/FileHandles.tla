---------------------------- MODULE FileHandles ----------------------------
(***************************************************************************)
(* The file descriptors of one transfer object, in a process that opens    *)
(* and closes others: opening the files one by one (prepare_transfer_...), *)
(* using them (the channels), and dispose_impl, which another thread may   *)
(* run at any time.                                                        *)
(*                                                                         *)
(* A file's context holds a number.  The kernel's table says what the      *)
(* number names, and gives it to somebody else once it is closed.  Nothing *)
(* guards file_handle: closing is a test, a close and a store.             *)
(***************************************************************************)
EXTENDS Naturals

CONSTANTS
    NFiles,       \* number of files of the transfer
    Descriptors,  \* the numbers the kernel may give
    INVALID       \* INVALID_FILE_HANDLE

Files == 1 .. NFiles
\* What a number names that names no file of the transfer.
Free == 0
Foreign == NFiles + 1

ASSUME HandlesAssumption ==
    /\ NFiles \in Nat \ {0}
    /\ INVALID \notin Descriptors

VARIABLES
    role,      \* transfer_source or transfer_destination
    holder,    \* what each number names: nothing, a file of the transfer, another object
    handle,    \* file_handle of each context in _send_ctx or _recv_ctx
    added,     \* how many contexts there are
    local,     \* file_handle of the context being made, on the stack
    prepPc,    \* where the thread that opens the files is
    use,       \* where the channel thread that uses each file is
    held,      \* the number that thread has read
    dispPc,    \* where dispose_impl is
    dispFile,  \* the context its loop is at
    dispEnd,   \* the end of the loop: it is read once
    dispHeld,  \* the number it has read
    stale,     \* the contexts have moved under its loop
    racing     \* (history) the files whose channel was in close_handle while dispose_impl
               \* had begun

prepVars == <<added, local, prepPc>>
useVars == <<use, held>>
dispVars == <<dispPc, dispFile, dispEnd, dispHeld>>
vars == <<role, holder, handle, prepVars, useVars, dispVars, stale, racing>>

Init ==
    /\ role \in {"source", "destination"}
    /\ holder = [d \in Descriptors |-> Free]
    /\ handle = [f \in Files |-> INVALID]
    /\ added = 0
    /\ local = INVALID
    /\ prepPc = "open"
    /\ use = [f \in Files |-> "waiting"]
    /\ held = [f \in Files |-> INVALID]
    /\ dispPc = "no"
    /\ dispFile = 1
    /\ dispEnd = 0
    /\ dispHeld = INVALID
    /\ stale = FALSE
    /\ racing = {}

\* What a number names: an invalid one nothing.
Names(d) == IF d = INVALID THEN Free ELSE holder[d]

\* close(d): an error if d is free, and its end whomever it belongs to if not.
Close(d) == holder' = IF d \in Descriptors THEN [holder EXCEPT ![d] = Free] ELSE holder

----------------------------------------------------------------------------
(* Opening the files, by the constructor of transfer_source or by          *)
(* transfer_destination::init_transfer_info.                               *)

OpenFile ==
    /\ prepPc = "open"
    /\ \E d \in Descriptors :
          /\ holder[d] = Free
          /\ holder' = [holder EXCEPT ![d] = added + 1]
          /\ local' = d
    /\ prepPc' = "configure"
    /\ UNCHANGED <<role, handle, added, useVars, dispVars, stale, racing>>

\* Before the next file is open: no such directory, a special file, open().
OpenFails ==
    /\ prepPc = "open"
    /\ prepPc' = "failed"
    /\ UNCHANGED <<role, holder, handle, added, local, useVars, dispVars, stale, racing>>

\* fstat, fchmod, ftruncate or mmap throws.  The context on the stack goes, and
\* closes nothing: it has no destructor.
ConfigureFails ==
    /\ prepPc = "configure"
    /\ prepPc' = "failed"
    /\ local' = INVALID
    /\ UNCHANGED <<role, holder, handle, added, useVars, dispVars, stale, racing>>

Looping == dispPc \in {"test", "close", "store"}

\* A defect: the context on the stack closes its number when it goes out of scope.
AddFile_Destroyed ==
    /\ prepPc = "configure"
    /\ added' = added + 1
    /\ handle' = [handle EXCEPT ![added + 1] = local]
    /\ Close(local)
    /\ local' = INVALID
    /\ prepPc' = IF added + 1 = NFiles THEN "ready" ELSE "open"
    /\ UNCHANGED <<role, useVars, dispVars, stale, racing>>

\* emplace_back: a vector that must grow moves its contexts to new memory.
AddFile ==
    /\ prepPc = "configure"
    /\ added' = added + 1
    /\ handle' = [handle EXCEPT ![added + 1] = local]
    /\ local' = INVALID
    /\ prepPc' = IF added + 1 = NFiles THEN "ready" ELSE "open"
    /\ \E moved \in {FALSE, added > 0} : stale' = (stale \/ (moved /\ Looping))
    /\ UNCHANGED <<role, holder, useVars, dispVars, racing>>

PrepareStep == OpenFile \/ OpenFails \/ ConfigureFails \/ AddFile

----------------------------------------------------------------------------
(* The channel of a destination that has received the last of a file.      *)

Use(f, from, to) == use[f] = from /\ use' = [use EXCEPT ![f] = to]

\* A defect: the context is cleared before the number is closed.
TestHandle_StoresFirst(f) ==
    /\ role = "destination"
    /\ prepPc = "ready"
    /\ Use(f, "waiting", IF handle[f] = INVALID THEN "done" ELSE "close")
    /\ handle' = [handle EXCEPT ![f] = INVALID]
    /\ UNCHANGED <<role, holder, held, prepVars, dispVars, stale, racing>>

TestHandle(f) ==
    /\ role = "destination"
    /\ prepPc = "ready"
    /\ Use(f, "waiting", IF handle[f] = INVALID THEN "done" ELSE "close")
    /\ held' = [held EXCEPT ![f] = handle[f]]
    /\ racing' = IF dispPc # "no" /\ handle[f] # INVALID THEN racing \cup {f} ELSE racing
    /\ UNCHANGED <<role, holder, handle, prepVars, dispVars, stale>>

CloseHandle(f) ==
    /\ Use(f, "close", "store")
    /\ Close(held[f])
    /\ UNCHANGED <<role, handle, prepVars, held, dispVars, stale, racing>>

\* A defect: the context keeps the number it has closed.
StoreInvalid_Kept(f) ==
    /\ Use(f, "store", "done")
    /\ held' = [held EXCEPT ![f] = INVALID]
    /\ UNCHANGED <<role, holder, handle, prepVars, dispVars, stale, racing>>

StoreInvalid(f) ==
    /\ Use(f, "store", "done")
    /\ handle' = [handle EXCEPT ![f] = INVALID]
    /\ held' = [held EXCEPT ![f] = INVALID]
    /\ UNCHANGED <<role, holder, prepVars, dispVars, stale, racing>>

----------------------------------------------------------------------------
(* A channel of a source: send_file gets the number, by value.             *)

ReadHandle(f) ==
    /\ role = "source"
    /\ prepPc = "ready"
    /\ Use(f, "waiting", "send")
    /\ held' = [held EXCEPT ![f] = handle[f]]
    /\ UNCHANGED <<role, holder, handle, prepVars, dispVars, stale, racing>>

\* sendfile reads whatever the number names by now, or fails.
SendFile(f) ==
    /\ Use(f, "send", "waiting")
    /\ Names(held[f]) # Free
    /\ held' = [held EXCEPT ![f] = INVALID]
    /\ UNCHANGED <<role, holder, handle, prepVars, dispVars, stale, racing>>

SendFileFails(f) ==
    /\ Use(f, "send", "done")
    /\ Names(held[f]) = Free
    /\ held' = [held EXCEPT ![f] = INVALID]
    /\ UNCHANGED <<role, holder, handle, prepVars, dispVars, stale, racing>>

ChannelStep(f) ==
    \/ TestHandle(f) \/ CloseHandle(f) \/ StoreInvalid(f)
    \/ ReadHandle(f) \/ SendFile(f) \/ SendFileFails(f)

----------------------------------------------------------------------------
(* dispose_impl.  Nobody can dispose a transfer_source before its          *)
(* constructor is through; a transfer_destination is known to others while *)
(* init_transfer_info opens its files.                                     *)

BeginDispose ==
    /\ dispPc = "no"
    /\ role = "source" => prepPc \in {"ready", "failed"}
    /\ dispEnd' = added
    /\ dispPc' = IF added = 0 THEN "done" ELSE "test"
    /\ racing' = {f \in Files : use[f] \in {"close", "store"}}
    /\ UNCHANGED <<role, holder, handle, prepVars, useVars, dispFile, dispHeld, stale>>

\* A defect: the loop runs one context too far.
NextContext_Past ==
    /\ dispPc' = IF dispFile > dispEnd THEN "done" ELSE "test"
    /\ dispFile' = IF dispFile > dispEnd THEN dispFile ELSE dispFile + 1
    /\ dispHeld' = INVALID

NextContext ==
    /\ dispPc' = IF dispFile = dispEnd THEN "done" ELSE "test"
    /\ dispFile' = IF dispFile = dispEnd THEN dispFile ELSE dispFile + 1
    /\ dispHeld' = INVALID

\* What the loop reads: the context, or freed memory that once held it.
Readable == IF stale THEN Descriptors \cup {INVALID} ELSE {handle[dispFile]}

DisposeTests ==
    /\ dispPc = "test"
    /\ \E h \in Readable :
          \/ h = INVALID /\ NextContext
          \/ h # INVALID /\ dispHeld' = h /\ dispPc' = "close" /\ UNCHANGED dispFile
    /\ UNCHANGED <<role, holder, handle, prepVars, useVars, dispEnd, stale, racing>>

DisposeCloses ==
    /\ dispPc = "close"
    /\ dispPc' = "store"
    /\ Close(dispHeld)
    /\ UNCHANGED <<role, handle, prepVars, useVars, dispFile, dispEnd, dispHeld, stale, racing>>

DisposeStores ==
    /\ dispPc = "store"
    /\ handle' = IF stale THEN handle ELSE [handle EXCEPT ![dispFile] = INVALID]
    /\ NextContext
    /\ UNCHANGED <<role, holder, prepVars, useVars, dispEnd, stale, racing>>

DisposeStep == BeginDispose \/ DisposeTests \/ DisposeCloses \/ DisposeStores

----------------------------------------------------------------------------
(* The rest of the process opens and closes descriptors of its own.        *)

OtherOpens(d) ==
    /\ holder[d] = Free
    /\ holder' = [holder EXCEPT ![d] = Foreign]
    /\ UNCHANGED <<role, handle, prepVars, useVars, dispVars, stale, racing>>

OtherCloses(d) ==
    /\ holder[d] = Foreign
    /\ holder' = [holder EXCEPT ![d] = Free]
    /\ UNCHANGED <<role, handle, prepVars, useVars, dispVars, stale, racing>>

Next ==
    \/ PrepareStep
    \/ \E f \in Files : ChannelStep(f)
    \/ DisposeStep
    \/ \E d \in Descriptors : OtherOpens(d) \/ OtherCloses(d)

Spec == Init /\ [][Next]_vars
----------------------------------------------------------------------------
(* Properties                                                              *)

Numbers == Descriptors \cup {INVALID}

\* Every variable has its type.
HandlesTypeOK ==
    /\ role \in {"source", "destination"}
    /\ holder \in [Descriptors -> 0 .. (NFiles + 1)]
    /\ handle \in [Files -> Numbers]
    /\ added \in 0 .. NFiles
    /\ local \in Numbers
    /\ prepPc \in {"open", "configure", "ready", "failed"}
    /\ use \in [Files -> {"waiting", "close", "store", "send", "done"}]
    /\ held \in [Files -> Numbers]
    /\ dispPc \in {"no", "test", "close", "store", "done"}
    /\ dispFile \in Files
    /\ dispEnd \in 0 .. NFiles
    /\ dispHeld \in Numbers
    /\ stale \in BOOLEAN
    /\ racing \in SUBSET Files

\* Until its transfer is disposed a listed file is open, until its channel
\* closes it, and both its context and its channel hold its own number: no
\* channel closes another's descriptor (transfer.h:175-190) or sends another
\* file's bytes (transfer.cpp:68), whatever the process opens and closes.
UndisposedFilesAreTheirOwn ==
    dispPc = "no" =>
        \A f \in Files :
            f <= added /\ use[f] \in {"waiting", "send", "close"} =>
                /\ handle[f] \in Descriptors /\ holder[handle[f]] = f
                /\ use[f] # "waiting" => held[f] = handle[f]

\* dispose_impl closes a number that is not its file's only if a channel was in
\* close_handle after it began, or if the contexts moved under its loop: a
\* transfer whose channels are through is disposed without harm to others.
DisposeOwnsNumber ==
    dispPc = "close" /\ ~stale /\ racing = {} => holder[dispHeld] = dispFile

\* When dispose_impl is through, every file that was listed when it began is
\* closed, whoever closed it.  What can be left open is the file whose
\* configuration failed, and files opened after dispose_impl had looked
\* (transfer.cpp:541-631).
ListedFilesAreClosed ==
    ~stale /\ dispPc = "done" =>
        \A d \in Descriptors : holder[d] \in Files => holder[d] > dispEnd

----------------------------------------------------------------------------
(* The inductive invariant.                                                *)

Own(f) == handle[f] \in Descriptors /\ holder[handle[f]] = f
Closed(f) == \A d \in Descriptors : holder[d] # f
Quiet == ~stale /\ racing = {}

\* The channels start when all files are open; nothing has raced before dispose.
Phases ==
    /\ prepPc \in {"open", "configure"} => added < NFiles
    /\ prepPc = "ready" => added = NFiles
    /\ prepPc # "ready" => \A f \in Files : use[f] = "waiting"
    /\ role = "source" => \A f \in Files : use[f] \notin {"close", "store"}
    /\ role = "destination" => \A f \in Files : use[f] # "send"
    /\ dispPc = "no" => Quiet
    /\ dispEnd <= added
    /\ dispPc = "no" => dispFile = 1
    /\ dispFile = 1 \/ dispFile <= dispEnd
    /\ Looping => dispFile <= dispEnd

\* Which numbers may name a file: the one in its context, or that of the file
\* being opened, or whose opening failed.
Named ==
    ~stale =>
        /\ \A d \in Descriptors : holder[d] \in Files =>
              \/ holder[d] <= added /\ handle[holder[d]] = d
              \/ holder[d] = added + 1 /\ prepPc = "failed"
              \/ holder[d] = added + 1 /\ prepPc = "configure" /\ d = local
        /\ \A f \in Files :
              /\ use[f] = "close" => handle[f] \in {held[f], INVALID}
              /\ use[f] = "store" => Closed(f)
        /\ dispPc = "close" => handle[dispFile] \in {dispHeld, INVALID}
        /\ dispPc = "store" => Closed(dispFile)
        /\ \A f \in Files : f < dispFile => Closed(f)
        /\ dispPc = "done" => \A f \in 1 .. dispEnd : Closed(f)

\* While nothing races every file is its own until it is closed.
QuietFiles ==
    Quiet =>
        /\ \A f \in Files : f <= added =>
              Own(f) \/ handle[f] = INVALID \/ use[f] = "store" \/ (dispPc = "store" /\ dispFile = f)
        /\ \A f \in Files : use[f] \in {"close", "send"} /\ dispPc = "no" => Own(f) /\ held[f] = handle[f]
        /\ \A f \in Files : f <= added /\ use[f] = "waiting" /\ dispPc = "no" => Own(f)
        /\ dispPc # "no" => \A f \in Files : use[f] \notin {"close", "store"}
        /\ dispPc = "close" => Own(dispFile) /\ dispHeld = handle[dispFile]
        /\ prepPc = "configure" => local \in Descriptors /\ holder[local] = added + 1

HandlesInv == HandlesTypeOK /\ Phases /\ Named /\ QuietFiles
=============================================================================
