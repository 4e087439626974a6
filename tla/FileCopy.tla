------------------------------ MODULE FileCopy ------------------------------
(***************************************************************************)
(* What the channels of a transfer promise of the files, whatever becomes  *)
(* of the connections: every byte of a file arrives at most once, in any   *)
(* order and in blocks of any size; a file is finished once, and only when *)
(* it is whole; nothing arrives for a file that is finished.  A copy may   *)
(* stop at any point.                                                      *)
(***************************************************************************)
EXTENDS Naturals

CONSTANTS Files, FileSize

VARIABLES
    arrived,   \* the bytes of each file that have arrived
    finished   \* the files that have been put away

copyVars == <<arrived, finished>>

Missing(f) == (0 .. (FileSize[f] - 1)) \ arrived[f]

Init == arrived = [f \in Files |-> {}] /\ finished = {}

Arrive(f) ==
    /\ f \notin finished
    /\ UNCHANGED finished
    /\ \E B \in SUBSET Missing(f) :
          B # {} /\ arrived' = [arrived EXCEPT ![f] = @ \cup B]

Finish(f) ==
    /\ f \notin finished
    /\ Missing(f) = {}
    /\ finished' = finished \cup {f}
    /\ UNCHANGED arrived

Next == \E f \in Files : Arrive(f) \/ Finish(f)

Spec == Init /\ [][Next]_copyVars
=============================================================================
