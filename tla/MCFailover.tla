----------------------------- MODULE MCFailover -----------------------------
(* A primary and one backup, and one replacement of Xray.                  *)
EXTENDS Failover

CONSTANTS n1, n2

MCCandidates == <<n1, n2>>
=============================================================================
