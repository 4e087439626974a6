----------------------------- MODULE GateGuard -----------------------------
(***************************************************************************)
(* infra::gate_guard on infra::manual_reset_event, step by step: an atomic *)
(* counter, an atomic flag, a mutex and a condition variable.  The gates   *)
(* of a transfer, and the gate the main threads of xcp and xcpd wait at    *)
(* until an exit is required (infra::sighandle), are all of this kind.     *)
(*                                                                         *)
(* A signal handler is a thread of control as well, but one that runs on   *)
(* top of the thread it interrupts: that thread is suspended meanwhile,    *)
(* with whatever it has locked.                                            *)
(***************************************************************************)
EXTENDS Naturals

CONSTANTS
    Signallers,  \* threads that call signal() once
    Forcers,     \* threads that call force_signal_all()
    Waiters,     \* threads that call wait()
    Handlers,    \* one delivery of each of several signals: stop_handler calls signal()
    AtLeast,     \* _at_least_signal
    Nobody

Setters == Signallers \cup Forcers \cup Handlers
Threads == Setters \cup Waiters

ASSUME GateAssumption ==
    /\ AtLeast \in Nat \ {0}
    /\ Waiters \cap Setters = {}
    /\ Forcers \cap (Signallers \cup Handlers) = {}
    /\ Signallers \cap Handlers = {}
    /\ Nobody \notin Threads

VARIABLES
    count,   \* _curr_signal_count
    isSet,   \* manual_reset_event::_is_set
    mutex,   \* who holds manual_reset_event::_mutex
    pc,      \* where each thread is
    host     \* the thread each handler runs on top of

vars == <<count, isSet, mutex, pc, host>>

Init ==
    /\ count = 0
    /\ isSet = FALSE
    /\ mutex = Nobody
    /\ pc = [t \in Threads |-> IF t \in Waiters THEN "lock" ELSE "start"]
    /\ host = [h \in Handlers |-> Nobody]

\* A thread runs unless a handler is running on top of it; a handler once it
\* has been delivered.
Suspended(t) == \E h \in Handlers : host[h] = t /\ pc[h] # "done"
Runs(t) == ~Suspended(t) /\ (t \in Handlers => host[t] # Nobody)

Step(t, from, to) ==
    /\ Runs(t)
    /\ pc[t] = from
    /\ pc' = [pc EXCEPT ![t] = to]
    /\ UNCHANGED host

Acquire(t) == mutex = Nobody /\ mutex' = t
Release == mutex' = Nobody

----------------------------------------------------------------------------
(* gate_guard::signal, force_signal_all                                     *)

\* Mutant: the signal before the one that reaches the limit sets the event.
Signal_Before(t) ==
    /\ t \in Signallers \cup Handlers
    /\ Step(t, "start", IF count + 2 >= AtLeast THEN "check" ELSE "done")
    /\ count' = count + 1
    /\ UNCHANGED <<isSet, mutex>>

\* Exactly one signal reaches the limit; that one sets the event.
Signal(t) ==
    /\ t \in Signallers \cup Handlers
    /\ Step(t, "start", IF count + 1 = AtLeast THEN "check" ELSE "done")
    /\ count' = count + 1
    /\ UNCHANGED <<isSet, mutex>>

\* Mutant: sets the event and leaves the count.
ForceAll_NoCount(t) ==
    /\ t \in Forcers
    /\ Step(t, "start", "check")
    /\ UNCHANGED <<count, isSet, mutex>>
ForceAll(t) ==
    /\ t \in Forcers
    /\ Step(t, "start", "check")
    /\ count' = AtLeast
    /\ UNCHANGED <<isSet, mutex>>

----------------------------------------------------------------------------
(* manual_reset_event::set                                                  *)

\* if (_is_set) return;
SetCheck(t) ==
    /\ t \in Setters
    /\ Step(t, "check", IF isSet THEN "done" ELSE "lock")
    /\ UNCHANGED <<count, isSet, mutex>>

SetLock(t) ==
    /\ t \in Setters
    /\ Step(t, "lock", "store")
    /\ Acquire(t)
    /\ UNCHANGED <<count, isSet>>

SetStore(t) ==
    /\ Step(t, "store", "notify")
    /\ isSet' = TRUE
    /\ UNCHANGED <<count, mutex>>

\* _cond.notify_all(), and a mutant that does not reach anyone.
Woken_None(p) == p
Woken(p) == [u \in Threads |-> IF p[u] = "asleep" THEN "awake" ELSE p[u]]

SetNotify(t) ==
    /\ Runs(t) /\ pc[t] = "notify"
    /\ pc' = [Woken(pc) EXCEPT ![t] = "unlock"]
    /\ UNCHANGED <<count, isSet, mutex, host>>

SetUnlock(t) ==
    /\ t \in Setters
    /\ Step(t, "unlock", "done")
    /\ Release
    /\ UNCHANGED <<count, isSet>>

----------------------------------------------------------------------------
(* manual_reset_event::wait                                                 *)

WaitLock(t) ==
    /\ t \in Waiters
    /\ Step(t, "lock", "test")
    /\ Acquire(t)
    /\ UNCHANGED <<count, isSet>>

WaitPasses(t) ==
    /\ isSet
    /\ Step(t, "test", "unlock")
    /\ UNCHANGED <<count, isSet, mutex>>

\* _cond.wait(lock) releases the mutex and sleeps in one step
WaitSleeps(t) ==
    /\ ~isSet
    /\ Step(t, "test", "asleep")
    /\ Release
    /\ UNCHANGED <<count, isSet>>

\* a condition variable may wake a thread for no reason
WakesSpuriously(t) ==
    /\ Step(t, "asleep", "awake")
    /\ UNCHANGED <<count, isSet, mutex>>

WaitRelocks(t) ==
    /\ Step(t, "awake", "test")
    /\ Acquire(t)
    /\ UNCHANGED <<count, isSet>>

WaitUnlock(t) ==
    /\ t \in Waiters
    /\ Step(t, "unlock", "done")
    /\ Release
    /\ UNCHANGED <<count, isSet>>

----------------------------------------------------------------------------
\* The kernel delivers a signal on some thread of the process, or on top of the
\* handler of another signal: sa_mask is empty.  The line stop_handler logs is
\* left out.
Deliver(h) ==
    /\ host[h] = Nobody
    /\ \E t \in Threads :
          /\ Runs(t) /\ (t \in Handlers => pc[t] # "done")
          /\ host' = [host EXCEPT ![h] = t]
    /\ UNCHANGED <<count, isSet, mutex, pc>>

ThreadStep(t) ==
    \/ Signal(t) \/ ForceAll(t)
    \/ SetCheck(t) \/ SetLock(t) \/ SetStore(t) \/ SetNotify(t) \/ SetUnlock(t)
    \/ WaitLock(t) \/ WaitPasses(t) \/ WaitSleeps(t) \/ WaitRelocks(t) \/ WaitUnlock(t)

Next ==
    \/ \E t \in Threads : ThreadStep(t) \/ WakesSpuriously(t)
    \/ \E h \in Handlers : Deliver(h)

Spec == Init /\ [][Next]_vars

\* The scheduler runs every thread again and again, and a mutex that is
\* released for ever more is got by whoever wants it.
FairSpec == Spec /\ \A t \in Threads : SF_vars(ThreadStep(t))

----------------------------------------------------------------------------
(* Properties                                                              *)

PcStates == {"start", "check", "lock", "store", "notify", "test", "asleep", "awake", "unlock", "done"}

\* Every variable has its type.
GateTypeOK ==
    /\ count \in Nat
    /\ isSet \in BOOLEAN
    /\ mutex \in Threads \cup {Nobody}
    /\ pc \in [Threads -> PcStates]
    /\ host \in [Handlers -> Threads \cup {Nobody}]

Holds(t) == pc[t] \in {"store", "notify", "test", "unlock"}
Passed == {w \in Waiters : pc[w] \in {"unlock", "done"}}

\* The inductive invariant: the mutex is held exactly where the code holds it,
\* and whoever sets the event has seen the count at its limit.
GateInv ==
    /\ GateTypeOK
    /\ \A t \in Threads : Holds(t) <=> mutex = t
    /\ \A t \in Setters :
          /\ pc[t] \notin {"test", "asleep", "awake"}
          /\ pc[t] \notin {"start", "done"} => count >= AtLeast
          /\ pc[t] \in {"notify", "unlock"} => isSet
    /\ \A t \in Waiters : pc[t] \notin {"start", "check", "store", "notify"}
    /\ isSet => count >= AtLeast
    /\ Passed # {} => isSet

\* When wait() has returned can_pass() is true: a thread let through by the
\* gate of sighandle finds is_exit_required().
PassedCanPass == Passed # {} => count >= AtLeast

\* The gate as its users see it.
Promise == INSTANCE Latch WITH open <- isSet, passed <- Passed

\* Signals are counted whichever way they interleave with a force; the event
\* is set only at the limit, and only then does wait() return.
KeepsPromise == Promise!Spec

\* A handler that waits for the mutex a thread below it holds, however many
\* handlers lie between (every set with this handler, and with each the one it
\* runs on top of, reaches down to that thread): neither can ever go on.
SelfLocked ==
    \E h \in Handlers :
        /\ pc[h] = "lock"
        /\ \A S \in SUBSET Handlers :
              h \in S /\ (\A g \in S : host[g] \in S \cup (Threads \ Handlers)) =>
                  \E g \in S : host[g] = mutex

\* No wake-up is lost: once the limit is reached every waiter passes, wherever
\* it was when the event was set (an exit that is required lets main go on).
\* The one exception is a signal delivered on a thread that was inside set() or
\* wait() with the mutex locked.
ExitIsSeen == count >= AtLeast ~> (Passed = Waiters \/ SelfLocked)
=============================================================================
