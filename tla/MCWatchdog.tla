----------------------------- MODULE MCWatchdog -----------------------------
(* One tunnel; two stalled rounds in a row are a stall.                    *)
EXTENDS Watchdog

\* For safety the network need not come to rest.
Restless == Init /\ [][Next /\ ~calm']_vars

\* The child's path is history: no guard reads onPath or slipped, and neither do
\* the safety properties.
SafetyView == <<childUp, pc, egress, stall, timers, slot, stale>>
=============================================================================
