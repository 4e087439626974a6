---------------------------- MODULE MCHandshake ----------------------------
(* Small instances of Handshake for TLC.                                   *)
EXTENDS Handshake, TLC

ThisVersion == {[lo |-> 1, hi |-> 1]}
\* a later build that still speaks this version, one that does not, and one that
\* gives the bounds the wrong way round
LaterVersions == {[lo |-> 1, hi |-> 2], [lo |-> 2, hi |-> 2], [lo |-> 2, hi |-> 1]}
OwnEndpoint == <<1>>
NoEndpoints == <<>>
Symmetry == Permutations(Channels)
=============================================================================
