--------------------------- MODULE MCRoutingIntents ---------------------------
(* A client's attach owner and an intent of one user, deriving one route.   *)
EXTENDS RoutingIntents, TLC

CONSTANTS a, i, r1, u1

MCUidOf == [o \in Owners |-> u1]
=============================================================================
