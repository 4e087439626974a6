CONSTANTS
    Signallers = {}
    Forcers = {f1}
    Waiters = {w1, w2}
    Handlers = {h1, h2}
    AtLeast = 2
    Nobody = Nobody
SPECIFICATION FairSpec
INVARIANTS GateInv
PROPERTIES KeepsPromise ExitIsSeen
CHECK_DEADLOCK FALSE
