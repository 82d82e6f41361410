-------------------------- MODULE MCClientSessions --------------------------
(* Three processes of one user, two of which get the same process number.  *)
EXTENDS ClientSessions

CONSTANTS p1, p2, p3

SharedPid == [p \in Procs |-> IF p = p2 THEN p1 ELSE p]
=============================================================================
