------------------------ MODULE MCOwnershipJournal ------------------------
(* Two users with one owner each plus a daemon-managed owner's worth of     *)
(* conflict: two routes that both of them may ask for.                      *)
EXTENDS OwnershipJournal, TLC

CONSTANTS a, b, r1, r2, u1, u2

MCUidOf == a :> u1 @@ b :> u2
=============================================================================
