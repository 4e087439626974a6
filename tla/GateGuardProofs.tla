-------------------------- MODULE GateGuardProofs --------------------------
(***************************************************************************)
(* Proofs about infra::gate_guard for any threads and any limit: the event *)
(* is set only at the limit, wait() returns only then, and the steps of    *)
(* the counter, the event and the mutex implement the abstract Latch.      *)
(***************************************************************************)
EXTENDS GateGuard, TLAPS

\* Where a thread holds the mutex.
Locked == {"store", "notify", "test", "unlock"}

LEMMA InitGateInv == Init => GateInv
<1> SUFFICES ASSUME Init PROVE GateInv
  OBVIOUS
<1> USE GateAssumption DEF Init, Threads, Setters
<1>1. GateTypeOK
  BY DEF GateTypeOK, PcStates
<1>2. \A t \in Threads : Holds(t) <=> mutex = t
  BY DEF Holds
<1>3. \A t \in Setters : pc[t] = "start"
  OBVIOUS
<1>4. \A t \in Waiters : pc[t] = "lock"
  OBVIOUS
<1>5. Passed = {}
  BY <1>4 DEF Passed
<1> QED
  BY <1>1, <1>2, <1>3, <1>4, <1>5 DEF GateInv

\* What every step of one thread does to the program counters.
LEMMA StepMoves ==
    ASSUME GateTypeOK, NEW t \in Threads, NEW from, NEW to \in PcStates, Step(t, from, to)
    PROVE  /\ pc[t] = from
           /\ pc'[t] = to
           /\ \A u \in Threads \ {t} : pc'[u] = pc[u]
           /\ pc' \in [Threads -> PcStates]
           /\ host' = host
BY DEF Step, GateTypeOK

\* The notification wakes the sleepers and moves the thread that gives it.
LEMMA NotifyMoves ==
    ASSUME GateInv, NEW t \in Threads, SetNotify(t)
    PROVE  /\ t \in Setters /\ pc[t] = "notify" /\ pc'[t] = "unlock"
           /\ \A u \in Threads \ {t} : pc'[u] = IF pc[u] = "asleep" THEN "awake" ELSE pc[u]
           /\ pc' \in [Threads -> PcStates]
           /\ isSet
<1>1. t \in Setters /\ isSet
  BY DEF SetNotify, GateInv, Threads
<1>2. Woken(pc) \in [Threads -> PcStates]
  BY DEF Woken, GateInv, GateTypeOK, PcStates
<1>3. pc' \in [Threads -> PcStates]
  BY <1>2 DEF SetNotify, PcStates
<1> QED
  BY <1>1, <1>3 DEF SetNotify, Woken

\* Every action but the notification moves one thread.  Such a step keeps the
\* invariant if the mutex changes as the place the thread moves to requires,
\* and if what the invariant says of that place is true.
LEMMA MoveKeepsInv ==
    ASSUME GateInv, NEW t \in Threads, NEW from \in PcStates, NEW to \in PcStates,
           Step(t, from, to),
           count' \in Nat, count >= AtLeast => count' >= AtLeast,
           isSet' \in BOOLEAN, isSet => isSet', isSet' => count' >= AtLeast,
           \/ UNCHANGED mutex /\ (from \in Locked <=> to \in Locked)
           \/ Acquire(t) /\ to \in Locked
           \/ Release /\ from \in Locked /\ to \notin Locked,
           t \in Setters => /\ to \notin {"start", "test", "asleep", "awake"}
                            /\ to # "done" => count' >= AtLeast
                            /\ to \in {"notify", "unlock"} => isSet',
           t \in Waiters => /\ to \notin {"start", "check", "store", "notify"}
                            /\ to \in {"unlock", "done"} => isSet'
    PROVE  GateInv'
<1>1. /\ pc[t] = from
      /\ pc'[t] = to
      /\ \A u \in Threads \ {t} : pc'[u] = pc[u]
      /\ pc' \in [Threads -> PcStates]
      /\ host' = host
  BY StepMoves DEF GateInv
<1>2. GateTypeOK'
  BY <1>1 DEF GateInv, GateTypeOK, Acquire, Release
<1>3. (\A u \in Threads : Holds(u) <=> mutex = u)'
  <2> SUFFICES ASSUME NEW u \in Threads PROVE Holds(u)' <=> mutex' = u
    OBVIOUS
  <2>1. \A v \in Threads : Holds(v) <=> mutex = v
    BY DEF GateInv
  <2>2. CASE u = t
    BY <1>1, <2>1, <2>2, GateAssumption DEF Holds, Acquire, Release, Locked
  <2>3. CASE u # t
    <3>1. Holds(u)' <=> Holds(u)
      BY <1>1, <2>3 DEF Holds
    <3>2. CASE UNCHANGED mutex
      BY <2>1, <3>1, <3>2
    <3>3. CASE Acquire(t)
      BY <2>1, <2>3, <3>1, <3>3, GateAssumption DEF Acquire
    <3>4. CASE Release /\ from \in Locked
      <4>1. mutex = t
        BY <1>1, <2>1, <3>4 DEF Holds, Locked
      <4> QED
        BY <2>1, <2>3, <3>1, <3>4, <4>1, GateAssumption DEF Release
    <3> QED
      BY <3>2, <3>3, <3>4
  <2> QED
    BY <2>2, <2>3
<1>4. (\A u \in Setters :
          /\ pc[u] \notin {"test", "asleep", "awake"}
          /\ pc[u] \notin {"start", "done"} => count >= AtLeast
          /\ pc[u] \in {"notify", "unlock"} => isSet)'
  <2> SUFFICES ASSUME NEW u \in Setters
               PROVE  /\ pc'[u] \notin {"test", "asleep", "awake"}
                      /\ pc'[u] \notin {"start", "done"} => count' >= AtLeast
                      /\ pc'[u] \in {"notify", "unlock"} => isSet'
    OBVIOUS
  <2>1. CASE u = t
    BY <1>1, <2>1
  <2>2. CASE u # t
    BY <1>1, <2>2 DEF GateInv, Threads
  <2> QED
    BY <2>1, <2>2
<1>5. (\A u \in Waiters : pc[u] \notin {"start", "check", "store", "notify"})'
  BY <1>1 DEF GateInv, Threads
<1>6. (Passed # {})' => isSet'
  <2> SUFFICES ASSUME NEW w \in Waiters, pc'[w] \in {"unlock", "done"} PROVE isSet'
    BY DEF Passed
  <2>1. CASE w = t
    BY <1>1, <2>1
  <2>2. CASE w # t
    <3>1. w \in Passed
      BY <1>1, <2>2 DEF Passed, Threads
    <3> QED
      BY <3>1 DEF GateInv
  <2> QED
    BY <2>1, <2>2
<1> QED
  BY <1>2, <1>3, <1>4, <1>5, <1>6 DEF GateInv

LEMMA NextKeepsGateInv == GateInv /\ [Next]_vars => GateInv'
<1> SUFFICES ASSUME GateInv, [Next]_vars PROVE GateInv'
  OBVIOUS
<1> USE DEF PcStates, Locked
<1>1. /\ count \in Nat /\ isSet \in BOOLEAN /\ AtLeast \in Nat
      /\ isSet => count >= AtLeast
      /\ Setters \subseteq Threads /\ Waiters \subseteq Threads /\ Waiters \cap Setters = {}
  BY GateAssumption DEF GateInv, GateTypeOK, Threads
<1>2. ASSUME NEW t \in Threads, ThreadStep(t) PROVE GateInv'
  <2>1. CASE Signal(t)
    BY <1>1, <2>1, MoveKeepsInv, GateAssumption DEF Signal, Setters
  <2>2. CASE ForceAll(t)
    BY <1>1, <2>2, MoveKeepsInv, GateAssumption DEF ForceAll, Setters
  <2>3. CASE SetCheck(t)
    <3>1. pc[t] = "check" /\ count >= AtLeast
      BY <2>3 DEF SetCheck, Step, GateInv
    <3> QED
      BY <1>1, <2>3, <3>1, MoveKeepsInv DEF SetCheck
  <2>4. CASE SetLock(t)
    <3>1. count >= AtLeast
      BY <2>4 DEF SetLock, Step, GateInv
    <3> QED
      BY <1>1, <2>4, <3>1, MoveKeepsInv DEF SetLock
  <2>5. CASE SetStore(t)
    <3>1. t \in Setters /\ count >= AtLeast
      BY <2>5 DEF SetStore, Step, GateInv, Threads
    <3> QED
      BY <1>1, <2>5, <3>1, MoveKeepsInv DEF SetStore
  <2>6. CASE SetNotify(t)
    BY <1>1, <2>6, NotifyMoves DEF GateInv, GateTypeOK, Holds, Passed, SetNotify
  <2>7. CASE SetUnlock(t)
    BY <1>1, <2>7, MoveKeepsInv DEF SetUnlock
  <2>8. CASE WaitLock(t)
    BY <1>1, <2>8, MoveKeepsInv DEF WaitLock
  <2>9. CASE WaitPasses(t)
    <3>1. t \in Waiters
      BY <2>9 DEF WaitPasses, Step, GateInv, Threads
    <3> QED
      BY <1>1, <2>9, <3>1, MoveKeepsInv DEF WaitPasses
  <2>10. CASE WaitSleeps(t)
    <3>1. t \in Waiters
      BY <2>10 DEF WaitSleeps, Step, GateInv, Threads
    <3> QED
      BY <1>1, <2>10, <3>1, MoveKeepsInv DEF WaitSleeps
  <2>11. CASE WaitRelocks(t)
    <3>1. t \in Waiters
      BY <2>11 DEF WaitRelocks, Step, GateInv, Threads
    <3> QED
      BY <1>1, <2>11, <3>1, MoveKeepsInv DEF WaitRelocks
  <2>12. CASE WaitUnlock(t)
    <3>1. isSet
      BY <2>12 DEF WaitUnlock, Step, GateInv, Passed
    <3> QED
      BY <1>1, <2>12, <3>1, MoveKeepsInv DEF WaitUnlock
  <2> QED
    BY <1>2, <2>1, <2>2, <2>3, <2>4, <2>5, <2>6, <2>7, <2>8, <2>9, <2>10, <2>11, <2>12 DEF ThreadStep
<1>3. ASSUME NEW t \in Threads, WakesSpuriously(t) PROVE GateInv'
  <2>1. t \in Waiters
    BY <1>3 DEF WakesSpuriously, Step, GateInv, Threads
  <2> QED
    BY <1>1, <1>3, <2>1, MoveKeepsInv DEF WakesSpuriously
<1>4. ASSUME NEW h \in Handlers, Deliver(h) PROVE GateInv'
  BY <1>4 DEF Deliver, GateInv, GateTypeOK, Holds, Passed
<1>5. CASE UNCHANGED vars
  BY <1>5 DEF vars, GateInv, GateTypeOK, Holds, Passed
<1> QED
  BY <1>2, <1>3, <1>4, <1>5 DEF Next

\* The invariant behind the gate: who holds the mutex, and that nobody sets
\* the event (gate_guard.h:28-44) before the count is at its limit.
THEOREM GateInvariantHolds == Spec => []GateInv
<1> QED
  BY InitGateInv, NextKeepsGateInv, PTL DEF Spec

\* Whoever wait() let through finds can_pass() true (gate_guard.h:46-59), for
\* any number of threads, signals and forces.
THEOREM PassedMeansCanPass == Spec => []PassedCanPass
<1>1. GateInv => PassedCanPass
  BY DEF GateInv, PassedCanPass
<1> QED
  BY <1>1, GateInvariantHolds, PTL

----------------------------------------------------------------------------
(* The gate implements the Latch                                            *)

\* A step of one thread lets nobody pass, unless it is a waiter that leaves
\* the loop of wait().
LEMMA MovePasses ==
    ASSUME GateInv, NEW t \in Threads, NEW from \in PcStates, NEW to \in PcStates,
           Step(t, from, to),
           t \in Waiters => (from \in {"unlock", "done"} <=> to \in {"unlock", "done"})
    PROVE  Passed' = Passed
<1>1. \A w \in Waiters : w \in Passed' <=> w \in Passed
  BY StepMoves DEF Passed, Threads, GateInv
<1> QED
  BY <1>1 DEF Passed

LEMMA NextImplementsLatch == GateInv /\ [Next]_vars => [Promise!Next]_(Promise!latchVars)
<1> SUFFICES ASSUME GateInv, [Next]_vars PROVE [Promise!Next]_(Promise!latchVars)
  OBVIOUS
<1> USE DEF PcStates, Promise!latchVars
<1>1. Setters \subseteq Threads /\ Waiters \subseteq Threads /\ Waiters \cap Setters = {}
  BY GateAssumption DEF Threads
<1>2. ASSUME NEW t \in Threads, ThreadStep(t) PROVE [Promise!Next]_(Promise!latchVars)
  <2>1. CASE Signal(t)
    <3>1. Passed' = Passed
      BY <1>1, <2>1, MovePasses DEF Signal, Setters
    <3> QED
      BY <2>1, <3>1 DEF Signal, Promise!Signal, Promise!Next
  <2>2. CASE ForceAll(t)
    <3>1. Passed' = Passed
      BY <1>1, <2>2, MovePasses DEF ForceAll, Setters
    <3> QED
      BY <2>2, <3>1 DEF ForceAll, Promise!Force, Promise!Next
  <2>3. CASE SetCheck(t) \/ SetLock(t) \/ SetUnlock(t)
    BY <1>1, <2>3, MovePasses DEF SetCheck, SetLock, SetUnlock
  <2>4. CASE SetStore(t)
    <3>1. t \in Setters /\ count >= AtLeast
      BY <1>1, <2>4 DEF SetStore, Step, GateInv, Threads
    <3>2. Passed' = Passed
      BY <1>1, <2>4, <3>1, MovePasses DEF SetStore
    <3> QED
      BY <2>4, <3>1, <3>2 DEF SetStore, Promise!Open, Promise!Next
  <2>5. CASE SetNotify(t)
    <3>1. \A w \in Waiters : w \in Passed' <=> w \in Passed
      BY <1>1, <2>5, NotifyMoves DEF Passed
    <3> QED
      BY <2>5, <3>1 DEF SetNotify, Passed
  <2>6. CASE WaitLock(t) \/ WaitSleeps(t) \/ WaitRelocks(t)
    BY <1>1, <2>6, MovePasses DEF WaitLock, WaitSleeps, WaitRelocks
  <2>7. CASE WaitPasses(t)
    <3>1. t \in Waiters /\ pc[t] = "test"
      BY <2>7 DEF WaitPasses, Step, GateInv, Threads
    <3>2. \A w \in Waiters : w \in Passed' <=> w \in Passed \/ w = t
      BY <1>1, <2>7, <3>1, StepMoves DEF WaitPasses, Passed, GateInv
    <3>3. Passed' = Passed \cup {t} /\ t \notin Passed
      BY <3>1, <3>2 DEF Passed
    <3> QED
      BY <2>7, <3>1, <3>3 DEF WaitPasses, Promise!Pass, Promise!Next
  <2>8. CASE WaitUnlock(t)
    BY <1>1, <2>8, MovePasses DEF WaitUnlock
  <2> QED
    BY <1>2, <2>1, <2>2, <2>3, <2>4, <2>5, <2>6, <2>7, <2>8 DEF ThreadStep
<1>3. ASSUME NEW t \in Threads, WakesSpuriously(t) PROVE [Promise!Next]_(Promise!latchVars)
  BY <1>1, <1>3, MovePasses DEF WakesSpuriously
<1>4. ASSUME NEW h \in Handlers, Deliver(h) PROVE [Promise!Next]_(Promise!latchVars)
  BY <1>4 DEF Deliver, Passed
<1>5. CASE UNCHANGED vars
  BY <1>5 DEF vars, Passed
<1> QED
  BY <1>2, <1>3, <1>4, <1>5 DEF Next

LEMMA InitImplementsLatch == Init => Promise!Init
BY GateAssumption DEF Init, Promise!Init, Passed, Threads

\* Counter, event and mutex together (gate_guard.h, manual_reset_event.h) are
\* a latch: signals and forces in any order open it only at its limit.
THEOREM GateImplementsLatch == Spec => KeepsPromise
<1> QED
  BY InitImplementsLatch, NextImplementsLatch, GateInvariantHolds, PTL
     DEF Spec, KeepsPromise, Promise!Spec
=============================================================================
