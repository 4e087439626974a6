---------------------------- MODULE Rendezvous -----------------------------
(***************************************************************************)
(* What the V1 handshake promises (the protocol comment at the head of     *)
(* server.cpp): the channels of a transfer meet at the server, and no      *)
(* channel of either side starts to transfer before all of them have met.  *)
(* A transfer may stop at any point; it may never start early.             *)
(***************************************************************************)
CONSTANTS Channels, Sides

VARIABLES
    arrived,  \* the channels the server has seen connect
    opened,   \* the server has said that the transfer may start
    started   \* the channels of each side that have started to transfer

Init == arrived = {} /\ opened = FALSE /\ started = [s \in Sides |-> {}]

Arrive(c) ==
    /\ c \notin arrived
    /\ arrived' = arrived \cup {c}
    /\ UNCHANGED <<opened, started>>

Open ==
    /\ arrived = Channels
    /\ ~opened
    /\ opened' = TRUE
    /\ UNCHANGED <<arrived, started>>

Start(s, c) ==
    /\ opened
    /\ c \notin started[s]
    /\ started' = [started EXCEPT ![s] = @ \cup {c}]
    /\ UNCHANGED <<arrived, opened>>

Next == \E c \in Channels : Arrive(c) \/ Open \/ \E s \in Sides : Start(s, c)

Spec == Init /\ [][Next]_<<arrived, opened, started>>
=============================================================================
