--------------------------- MODULE WatchdogProofs ---------------------------
(***************************************************************************)
(* Proofs about the watchdog of a tunnel, for every stall limit and every  *)
(* budget of restarts.                                                     *)
(***************************************************************************)
EXTENDS Watchdog, TLAPS

\* Between the report of a recovery and its acknowledgement the worker may
\* hold evidence of the old child, but it cannot use it; otherwise it has
\* none, but for a probe that is over.
Acknowledged ==
    core \in {"idle", "respawn"} =>
        /\ "request" \notin stale
        /\ ~unacked => /\ stale \cap {"streak", "pending"} = {}
                       /\ pc = "probing" => "probe" \notin stale

\* A worker that has acknowledged the last recovery counts its cooldown from
\* there or later, and the slot's request was made after that.
CooldownKept ==
    /\ ~unacked /\ egressCooled => recCooled
    /\ request = "egress" => recCooled

WatchdogInv == TypeOK /\ Acknowledged /\ CooldownKept

\* The flags, apart from the rest of the type invariant.
Flags ==
    /\ calm \in BOOLEAN /\ childUp \in BOOLEAN /\ onPath \in BOOLEAN
    /\ seen \in BOOLEAN /\ offline \in BOOLEAN /\ interrupted \in BOOLEAN
    /\ online \in BOOLEAN /\ pendingEgress \in BOOLEAN /\ newer \in BOOLEAN
    /\ settled \in BOOLEAN /\ egressCooled \in BOOLEAN /\ stallCooled \in BOOLEAN
    /\ stallBefore \in BOOLEAN /\ recCooled \in BOOLEAN
    /\ authorized \in BOOLEAN /\ published \in BOOLEAN /\ unacked \in BOOLEAN
    /\ slipped \in BOOLEAN

Step == Worker \/ Core \/ World \/ Time

\* The worker, the core and the world only ever set flags to truth values.
LEMMA FlagsKept ==
    ASSUME Flags, Step
    PROVE  Flags'
<1> USE DEF Flags, world, egress, stall, timers, slot
<1>1. CASE LoopTop
  <2>1. /\ pendingEgress' \in BOOLEAN /\ egressCooled' \in BOOLEAN /\ stallBefore' \in BOOLEAN
        /\ settled' \in BOOLEAN /\ unacked' \in BOOLEAN
    BY <1>1, Zenon DEF LoopTop, SyncRecovery, Acknowledge
  <2> QED BY <1>1, <2>1, SMT DEF LoopTop
<1>2. CASE SampleNotDue
  BY <1>2 DEF SampleNotDue
<1>3. CASE Sample
  <2>1. /\ interrupted' \in BOOLEAN /\ online' \in BOOLEAN /\ authorized' \in BOOLEAN
        /\ seen' \in BOOLEAN /\ offline' \in BOOLEAN /\ pendingEgress' \in BOOLEAN
        /\ newer' \in BOOLEAN /\ settled' \in BOOLEAN
    BY <1>3, Zenon DEF Sample, EgressChanged
  <2> QED BY <1>3, <2>1, SMT DEF Sample
<1>4. CASE SampleFails
  <2>1. online' \in BOOLEAN /\ authorized' \in BOOLEAN
    BY <1>4, Zenon DEF SampleFails
  <2> QED BY <1>4, <2>1, SMT DEF SampleFails
<1>5. CASE ProbeBegin
  BY <1>5 DEF ProbeBegin
<1>6. CASE ProbeNotDue
  BY <1>6 DEF ProbeNotDue
<1>7. CASE ProbeDiscarded
  <2>1. /\ pendingEgress' \in BOOLEAN /\ egressCooled' \in BOOLEAN /\ stallBefore' \in BOOLEAN
        /\ settled' \in BOOLEAN /\ unacked' \in BOOLEAN
    BY <1>7, Zenon DEF ProbeDiscarded, SyncRecovery, Acknowledge
  <2> QED BY <1>7, <2>1, SMT DEF ProbeDiscarded
<1>8. CASE Observe
  BY <1>8 DEF Observe
<1>9. CASE CancelCleared
  <2>1. stallCooled' \in BOOLEAN /\ stallBefore' \in BOOLEAN
    BY <1>9, Zenon DEF CancelCleared
  <2>2. UNCHANGED <<world, egress, settled, egressCooled, recCooled, authorized, published, unacked,
                    slipped>>
    BY <1>9 DEF CancelCleared
  <2> QED BY <2>1, <2>2, SMT
<1>10. CASE Publish
  <2>1. /\ published' \in BOOLEAN /\ pendingEgress' \in BOOLEAN /\ egressCooled' \in BOOLEAN
        /\ stallCooled' \in BOOLEAN /\ stallBefore' \in BOOLEAN
    BY <1>10, Zenon DEF Publish, Requests, Recovery
  <2> QED BY <1>10, <2>1, SMT DEF Publish
<1>11. CASE TakeRequest
  BY <1>11 DEF TakeRequest
<1>12. CASE HealDead
  BY <1>12 DEF HealDead
<1>13. CASE TearDown
  <2>1. childUp' \in BOOLEAN
    BY <1>13, Zenon DEF TearDown
  <2> QED BY <1>13, <2>1, SMT DEF TearDown
<1>14. CASE Respawn
  <2>1. childUp' \in BOOLEAN /\ onPath' \in BOOLEAN /\ slipped' \in BOOLEAN
    BY <1>14, Zenon DEF Respawn
  <2> QED BY <1>14, <2>1, SMT DEF Respawn
<1>15. CASE Recovered
  <2>1. unacked' \in BOOLEAN /\ newer' \in BOOLEAN /\ recCooled' \in BOOLEAN
    BY <1>15, Zenon DEF Recovered
  <2> QED BY <1>15, <2>1, SMT DEF Recovered
<1>16. CASE PathChanges
  <2>1. onPath' \in BOOLEAN /\ seen' \in BOOLEAN /\ slipped' \in BOOLEAN
    BY <1>16, Zenon DEF PathChanges
  <2> QED BY <1>16, <2>1, SMT DEF PathChanges
<1>17. CASE PathBreaks
  <2>1. /\ onPath' \in BOOLEAN /\ interrupted' \in BOOLEAN
        /\ slipped' \in BOOLEAN /\ authorized' \in BOOLEAN
    BY <1>17, Zenon DEF PathBreaks, Unauthorize
  <2> QED BY <1>17, <2>1, SMT DEF PathBreaks
<1>18. CASE DefaultRouteDeleted
  <2>1. authorized' \in BOOLEAN
    BY <1>18, Zenon DEF DefaultRouteDeleted, Unauthorize
  <2> QED BY <1>18, <2>1, SMT DEF DefaultRouteDeleted
<1>19. CASE ChildDies
  <2>1. childUp' \in BOOLEAN
    BY <1>19, Zenon DEF ChildDies
  <2> QED BY <1>19, <2>1, SMT DEF ChildDies
<1>20. CASE CalmDown
  <2>1. calm' \in BOOLEAN
    BY <1>20, Zenon DEF CalmDown
  <2> QED BY <1>20, <2>1, SMT DEF CalmDown
<1>21. CASE Settle
  <2>1. settled' \in BOOLEAN
    BY <1>21, Zenon DEF Settle
  <2> QED BY <1>21, <2>1, SMT DEF Settle
<1>22. CASE EgressCools
  <2>1. egressCooled' \in BOOLEAN /\ recCooled' \in BOOLEAN
    BY <1>22, Zenon DEF EgressCools
  <2> QED BY <1>22, <2>1, SMT DEF EgressCools
<1>23. CASE StallCools
  <2>1. /\ egressCooled' \in BOOLEAN /\ recCooled' \in BOOLEAN
        /\ stallCooled' \in BOOLEAN /\ stallBefore' \in BOOLEAN
    BY <1>23, Zenon DEF StallCools
  <2> QED BY <1>23, <2>1, SMT DEF StallCools
<1> QED BY <1>1, <1>2, <1>3, <1>4, <1>5, <1>6, <1>7, <1>8, <1>9, <1>10, <1>11, <1>12, <1>13, <1>14, <1>15, <1>16, <1>17, <1>18, <1>19, <1>20, <1>21, <1>22, <1>23 DEF Step, Worker, Core, World, Time

\* The rest of the type invariant.
Shapes ==
    /\ pc \in {"top", "synced", "sampled", "probing", "observed", "publish"}
    /\ pendingStall \in {"none", "https", "udp"}
    /\ streak \in 0..StallLimit
    /\ outcome \in [https : {"skipped", "healthy", "stalled"}, sockets : {"few", "many", "unknown"}, node : BOOLEAN]
    /\ request \in Reasons \cup {"none"}
    /\ core \in {"idle", "respawn", "bind", "gone"}
    /\ restarts \in 0..MaxRespawns
    /\ stale \in SUBSET {"probe", "streak", "pending", "request"}
    /\ outcome # NoOutcome => pc \in {"probing", "observed"}

\* The streak stops at its limit, the outcome of a round is dropped once it is
\* counted, and restarts stay within their budget.
LEMMA ShapesKept ==
    ASSUME Flags, Shapes, Step
    PROVE  Shapes'
<1> USE WatchdogAssumption DEF Shapes, world, egress, stall, timers, slot
<1>1. CASE LoopTop
  <2>1. /\ pendingStall' \in {pendingStall, "none"} /\ streak' \in {streak, 0}
        /\ stale' \subseteq stale
    BY <1>1 DEF LoopTop, SyncRecovery, Acknowledge
  <2> QED BY <1>1, <2>1 DEF LoopTop
<1>2. CASE SampleNotDue
  BY <1>2 DEF SampleNotDue
<1>3. CASE Sample
  <2>1. streak' \in {streak, 0} /\ stale' \subseteq stale
    BY <1>3 DEF Sample, EgressChanged
  <2> QED BY <1>3, <2>1 DEF Sample
<1>4. CASE SampleFails
  BY <1>4 DEF SampleFails
<1>5. CASE ProbeBegin
  <2>1. /\ outcome' \in [https : {"skipped", "healthy", "stalled"}, sockets : {"few", "many", "unknown"},
                         node : BOOLEAN]
        /\ stale' \subseteq stale
    <3>1. PICK h \in {"healthy", "stalled"}, k \in {"few", "many", "unknown"}, n \in BOOLEAN :
                outcome' = IF HasProbeUrl /\ online /\ authorized
                           THEN [https |-> h, sockets |-> k, node |-> n]
                           ELSE [NoOutcome EXCEPT !.sockets = k]
      BY <1>5 DEF ProbeBegin
    <3> QED BY <1>5, <3>1 DEF ProbeBegin, NoOutcome
  <2> QED BY <1>5, <2>1 DEF ProbeBegin
<1>6. CASE ProbeNotDue
  BY <1>6 DEF ProbeNotDue
<1>7. CASE ProbeDiscarded
  <2>1. /\ pendingStall' \in {pendingStall, "none"} /\ streak' \in {streak, 0}
        /\ stale' \subseteq stale
    BY <1>7 DEF ProbeDiscarded, SyncRecovery, Acknowledge
  <2>2. NoOutcome \in [https : {"skipped", "healthy", "stalled"}, sockets : {"few", "many", "unknown"},
                       node : BOOLEAN]
    BY DEF NoOutcome
  <2> QED BY <1>7, <2>1, <2>2 DEF ProbeDiscarded
<1>8. CASE Observe
  <2>1. streak' \in 0..StallLimit
    BY <1>8 DEF Observe, Counted
  <2>2. pendingStall' \in {"none", "https", "udp"}
    BY <1>8 DEF Observe
  <2>3. stale' \in SUBSET {"probe", "streak", "pending", "request"}
    BY <1>8 DEF Observe
  <2>4. pc' = "observed" /\ UNCHANGED <<outcome, request, core, restarts>>
    BY <1>8 DEF Observe
  <2> QED BY <2>1, <2>2, <2>3, <2>4
<1>9. CASE CancelCleared
  <2>1. /\ request' \in {request, "none"} /\ stale' \subseteq stale
        /\ pc' = "publish" /\ outcome' = NoOutcome
        /\ UNCHANGED <<pendingStall, streak, core, restarts>>
    BY <1>9 DEF CancelCleared
  <2>2. NoOutcome \in [https : {"skipped", "healthy", "stalled"}, sockets : {"few", "many", "unknown"},
                       node : BOOLEAN]
    BY DEF NoOutcome
  <2> QED BY <2>1, <2>2
<1>10. CASE Publish
  <2>1. /\ request' \in {request, "egress", pendingStall}
        /\ pendingStall' \in {pendingStall, "none"}
        /\ stale' \in SUBSET {"probe", "streak", "pending", "request"}
    BY <1>10 DEF Publish, Requests, Recovery
  <2> QED BY <1>10, <2>1 DEF Publish, Reasons
<1>11. CASE TakeRequest
  BY <1>11 DEF TakeRequest
<1>12. CASE HealDead
  BY <1>12 DEF HealDead
<1>13. CASE TearDown
  BY <1>13 DEF TearDown
<1>14. CASE Respawn
  BY <1>14 DEF Respawn
<1>15. CASE Recovered
  BY <1>15 DEF Recovered
<1>16. CASE World
  BY <1>16 DEF World, PathChanges, PathBreaks, DefaultRouteDeleted, ChildDies, CalmDown
<1>17. CASE Time
  BY <1>17 DEF Time, Settle, EgressCools, StallCools
<1> QED BY <1>1, <1>2, <1>3, <1>4, <1>5, <1>6, <1>7, <1>8, <1>9, <1>10, <1>11, <1>12, <1>13, <1>14,
           <1>15, <1>16, <1>17 DEF Step, Worker, Core

\* While the core is idle, or about to restart the child, no step lets evidence
\* of an earlier child into a request.
LEMMA AcknowledgedKept ==
    ASSUME Flags, Shapes, Acknowledged, Step
    PROVE  Acknowledged'
<1> USE DEF Acknowledged, world, egress, stall, timers, slot
<1>1. CASE LoopTop
  <2>1. \/ stale' = stale \ {"streak", "pending"}
        \/ ~unacked /\ stale' = stale
    BY <1>1 DEF LoopTop, SyncRecovery, Acknowledge
  <2> QED BY <1>1, <2>1 DEF LoopTop
<1>2. CASE SampleNotDue \/ SampleFails \/ ProbeNotDue
  BY <1>2 DEF SampleNotDue, SampleFails, ProbeNotDue
<1>3. CASE Sample
  <2>1. stale' \subseteq stale
    BY <1>3 DEF Sample, EgressChanged
  <2> QED BY <1>3, <2>1 DEF Sample
<1>4. CASE ProbeBegin
  BY <1>4 DEF ProbeBegin
<1>5. CASE ProbeDiscarded
  <2>1. stale' = stale \ {"streak", "pending"} /\ pc' = "top" /\ core' = core
    BY <1>5 DEF ProbeDiscarded, SyncRecovery, Acknowledge
  <2> QED BY <2>1
<1>6. CASE Observe
  <2>1. core \in {"idle", "respawn"} => {"probe", "streak"} \cap stale = {}
    BY <1>6 DEF Observe
  <2>2. pc' = "observed" /\ UNCHANGED <<core, unacked>>
    BY <1>6 DEF Observe
  <2>3. "request" \in stale' => "request" \in stale
    BY <1>6 DEF Observe
  <2>4. {"probe", "streak"} \cap stale = {} => stale' \cap {"streak", "pending"} = {}
    BY <1>6 DEF Observe
  <2> QED BY <2>1, <2>2, <2>3, <2>4
<1>7. CASE CancelCleared
  <2>1. stale' \subseteq stale /\ pc' = "publish" /\ UNCHANGED <<core, unacked>>
    BY <1>7 DEF CancelCleared
  <2> QED BY <2>1
<1>8. CASE Publish
  <2>1. pc' = "top" /\ UNCHANGED <<core, unacked>>
    BY <1>8 DEF Publish
  <2>2. unacked => stale' = stale
    BY <1>8 DEF Publish
  <2>3. /\ "request" \in stale' => "request" \in stale \/ "pending" \in stale
        /\ stale' \cap {"streak", "pending"} \subseteq stale
    BY <1>8 DEF Publish, Requests, Recovery
  <2> QED BY <2>1, <2>2, <2>3
<1>9. CASE TakeRequest
  BY <1>9 DEF TakeRequest
<1>10. CASE HealDead
  BY <1>10 DEF HealDead
<1>11. CASE TearDown \/ Respawn
  BY <1>11 DEF TearDown, Respawn
<1>12. CASE Recovered
  <2>1. core' = "idle" /\ unacked' /\ stale' = stale \ {"request"}
    BY <1>12 DEF Recovered
  <2> QED BY <2>1
<1>13. CASE World
  BY <1>13 DEF World, PathChanges, PathBreaks, DefaultRouteDeleted, ChildDies, CalmDown
<1>14. CASE Time
  BY <1>14 DEF Time, Settle, EgressCools, StallCools
<1> QED BY <1>1, <1>2, <1>3, <1>4, <1>5, <1>6, <1>7, <1>8, <1>9, <1>10, <1>11, <1>12, <1>13, <1>14
        DEF Step, Worker, Core

\* The cooldown of the last recovery runs out before the next request for the
\* underlay is made.
LEMMA CooldownStep ==
    ASSUME Flags, Shapes, CooldownKept, Step
    PROVE  CooldownKept'
<1> USE DEF CooldownKept, world, egress, stall, timers, slot
<1>1. CASE LoopTop
  <2>1. \/ egressCooled' = recCooled
        \/ ~unacked /\ egressCooled' = egressCooled
    BY <1>1 DEF LoopTop, SyncRecovery, Acknowledge
  <2> QED BY <1>1, <2>1 DEF LoopTop
<1>2. CASE SampleNotDue \/ SampleFails \/ ProbeNotDue
  BY <1>2 DEF SampleNotDue, SampleFails, ProbeNotDue
<1>3. CASE Sample
  BY <1>3 DEF Sample
<1>4. CASE ProbeBegin
  BY <1>4 DEF ProbeBegin
<1>5. CASE ProbeDiscarded
  <2>1. egressCooled' = recCooled /\ UNCHANGED <<recCooled, request>>
    BY <1>5 DEF ProbeDiscarded, SyncRecovery, Acknowledge
  <2> QED BY <2>1
<1>6. CASE Observe
  BY <1>6 DEF Observe
<1>7. CASE CancelCleared
  <2>1. request' \in {request, "none"} /\ UNCHANGED <<egressCooled, recCooled, unacked>>
    BY <1>7 DEF CancelCleared
  <2> QED BY <2>1
<1>8. CASE Publish
  <2>1. UNCHANGED <<recCooled, unacked>>
    BY <1>8 DEF Publish
  <2>2. egressCooled' => egressCooled
    BY <1>8 DEF Publish, Requests, Recovery
  <2>3. request' = "egress" => request = "egress" \/ (~unacked /\ egressCooled)
    BY <1>8 DEF Publish, Requests, Recovery, Shapes
  <2> QED BY <2>1, <2>2, <2>3
<1>9. CASE TakeRequest \/ HealDead \/ TearDown \/ Respawn
  BY <1>9 DEF TakeRequest, HealDead, TearDown, Respawn
<1>10. CASE Recovered
  <2>1. unacked' /\ request' = "none"
    BY <1>10 DEF Recovered
  <2> QED BY <2>1
<1>11. CASE World
  BY <1>11 DEF World, PathChanges, PathBreaks, DefaultRouteDeleted, ChildDies, CalmDown
<1>12. CASE Settle
  BY <1>12 DEF Settle
<1>13. CASE EgressCools \/ StallCools
  <2>1. recCooled'
    BY <1>13 DEF EgressCools, StallCools
  <2> QED BY <2>1
<1> QED BY <1>1, <1>2, <1>3, <1>4, <1>5, <1>6, <1>7, <1>8, <1>9, <1>10, <1>11, <1>12, <1>13
        DEF Step, Worker, Core, Time

\* The two parts make up the type invariant.
LEMMA TypeParts == TypeOK <=> Flags /\ Shapes
BY DEF TypeOK, Flags, Shapes

\* The worker has sampled the path the child was started on.
LEMMA InitWatchdog == Init => WatchdogInv
<1> SUFFICES ASSUME Init PROVE WatchdogInv
  OBVIOUS
<1>1. Flags
  BY Zenon DEF Init, Flags
<1>2. Shapes
  BY WatchdogAssumption DEF Init, Shapes, NoOutcome, Reasons
<1>3. Acknowledged
  BY DEF Init, Acknowledged
<1>4. CooldownKept
  BY DEF Init, CooldownKept
<1> QED BY <1>1, <1>2, <1>3, <1>4, TypeParts DEF WatchdogInv

\* Every step keeps the invariant.
LEMMA WatchdogStep == WatchdogInv /\ [Next]_vars => WatchdogInv'
<1> SUFFICES ASSUME WatchdogInv, [Next]_vars PROVE WatchdogInv'
  OBVIOUS
<1>1. CASE Step
  <2>1. Flags' /\ Shapes'
    BY <1>1, TypeParts, FlagsKept, ShapesKept DEF WatchdogInv
  <2>2. TypeOK'
    BY <2>1 DEF TypeOK, Flags, Shapes
  <2> QED BY <1>1, <2>2, TypeParts, AcknowledgedKept, CooldownStep DEF WatchdogInv
<1>2. CASE UNCHANGED vars
  BY <1>2 DEF vars, world, egress, stall, timers, slot, WatchdogInv, TypeOK, Acknowledged, CooldownKept
<1> QED BY <1>1, <1>2 DEF Next, Step

\* The inductive invariant, for any stall limit and budget.
THEOREM WatchdogInvariant == Spec => []WatchdogInv
BY InitWatchdog, WatchdogStep, PTL DEF Spec

\* RecoveryState and the slot: no child is restarted for a stall or a leak that
\* an earlier child had, and streak, outcome and budget stay within bounds.
THEOREM EvidenceIsSound == Spec => []EvidenceSound
<1>1. WatchdogInv => EvidenceSound
  BY DEF WatchdogInv, Acknowledged, EvidenceSound, EvidenceFresh
<1> QED BY <1>1, WatchdogInvariant, PTL

\* EGRESS_COOLDOWN is kept from the last recovery of any kind, however the
\* worker's acknowledgement and the core's passes interleave.
THEOREM RestartsAreSpaced == Spec => RestartsSpaced
<1>1. WatchdogInv /\ [Next]_vars => [request = "egress" /\ TakeRequest => recCooled]_vars
  BY DEF WatchdogInv, CooldownKept
<1> QED BY <1>1, WatchdogInvariant, PTL DEF Spec, RestartsSpaced
=============================================================================
