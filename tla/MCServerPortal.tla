--------------------------- MODULE MCServerPortal ---------------------------
(* Small instances of ServerPortal for TLC.                                *)
EXTENDS ServerPortal, TLC

CONSTANTS k1, k2, c1
OneChannel == c1 :> k1
=============================================================================
