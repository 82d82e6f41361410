------------------------------ MODULE Watchdog ------------------------------
(***************************************************************************)
(* The watchdog of one Xray tunnel (crates/daemon/src/watchdog.rs), the    *)
(* egress tracker it uses (egress.rs), and the core's side of a recovery   *)
(* (reconcile_network and heal_xray in core.rs).  The worker thread only   *)
(* observes: it samples the underlay, probes the tunnel and publishes a    *)
(* request in a shared slot.  The core takes the request, restarts the     *)
(* child and posts `recovered`, under its own lock but not in one critical *)
(* section of the slot, so the worker runs in between.                     *)
(*                                                                         *)
(* Times are kept as the one question the code asks of them: is the        *)
(* cooldown over, has the tunnel settled, is the change newer than the     *)
(* recovery.                                                               *)
(***************************************************************************)
EXTENDS Naturals

CONSTANTS
    StallLimit,     \* STALL_LIMIT
    HasProbeUrl,    \* the tunnel has a probe_url
    Leaks,          \* the child may hold more than UDP_LIMIT sockets, or hide them
    MaxRespawns     \* MAX_XRAY_RESPAWNS

ASSUME WatchdogAssumption ==
    /\ StallLimit \in Nat \ {0}
    /\ HasProbeUrl \in BOOLEAN
    /\ Leaks \in BOOLEAN
    /\ MaxRespawns \in Nat

VARIABLES
    \* The world.
    calm,           \* nothing more happens to the network or the child
    childUp,        \* the Xray child runs
    onPath,         \* it was started on the underlay path of now
    \* The worker.
    pc,             \* "top", "synced", "sampled", "probing", "observed", "publish"
    seen,           \* EgressTracker.last is the path of now
    offline,        \* EgressTracker.offline
    interrupted,    \* EgressSampler.interrupted, set by the netlink listener
    online,         \* status.uplink is Some(true)
    pendingEgress,
    newer,          \* last_egress_change is later than recovered_at
    pendingStall,   \* "none", "https" or "udp"
    streak,         \* https_stall_streak
    outcome,        \* what the probe round found
    settled,        \* probe_after has passed
    egressCooled,   \* EGRESS_COOLDOWN since last_egress_attempt
    stallCooled,    \* STALL_COOLDOWN since last_stall_attempt
    stallBefore,    \* the same for stall_before_request
    \* The slot and the core.
    authorized,
    published,      \* the slot's status.uplink is Some(true)
    request,        \* "none", "egress", "https" or "udp"
    unacked,        \* recovered_at is not what the worker has acknowledged
    core,           \* "idle", "respawn", "bind", or "gone" once torn down
    restarts,       \* xray_restarts
    recCooled,      \* EGRESS_COOLDOWN since recovered_at
    \* History.
    stale,          \* what rests on probes of an earlier child
    slipped         \* the path changed during a bind

world  == <<calm, childUp, onPath>>
egress == <<seen, offline, interrupted, online, pendingEgress, newer>>
stall  == <<pendingStall, streak, outcome>>
timers == <<settled, egressCooled, stallCooled, stallBefore, recCooled>>
slot   == <<authorized, published, request, unacked, core, restarts>>
vars   == <<world, pc, egress, stall, timers, slot, stale, slipped>>

Reasons == {"egress", "https", "udp"}
NoOutcome == [https |-> "skipped", sockets |-> "few", node |-> FALSE]

\* Shapes; the streak stops at the limit, and a round's outcome is kept only
\* until it is accounted for.
TypeOK ==
    /\ calm \in BOOLEAN /\ childUp \in BOOLEAN /\ onPath \in BOOLEAN
    /\ pc \in {"top", "synced", "sampled", "probing", "observed", "publish"}
    /\ seen \in BOOLEAN /\ offline \in BOOLEAN /\ interrupted \in BOOLEAN
    /\ online \in BOOLEAN
    /\ pendingEgress \in BOOLEAN /\ newer \in BOOLEAN
    /\ pendingStall \in {"none", "https", "udp"}
    /\ streak \in 0..StallLimit
    /\ outcome \in [https : {"skipped", "healthy", "stalled"}, sockets : {"few", "many", "unknown"}, node : BOOLEAN]
    /\ settled \in BOOLEAN /\ egressCooled \in BOOLEAN /\ stallCooled \in BOOLEAN
    /\ stallBefore \in BOOLEAN /\ recCooled \in BOOLEAN
    /\ authorized \in BOOLEAN /\ published \in BOOLEAN
    /\ request \in Reasons \cup {"none"}
    /\ unacked \in BOOLEAN
    /\ core \in {"idle", "respawn", "bind", "gone"}
    /\ restarts \in 0..MaxRespawns
    /\ stale \in SUBSET {"probe", "streak", "pending", "request"}
    /\ slipped \in BOOLEAN
    /\ outcome # NoOutcome => pc \in {"probing", "observed"}

\* The worker has taken its first sample of the path the child was started on.
Init ==
    /\ calm = FALSE /\ childUp = TRUE /\ onPath = TRUE
    /\ pc = "top"
    /\ seen = TRUE /\ offline = FALSE /\ interrupted = FALSE /\ online = TRUE
    /\ pendingEgress = FALSE /\ newer = FALSE
    /\ pendingStall = "none" /\ streak = 0 /\ outcome = NoOutcome
    /\ settled = FALSE /\ egressCooled = TRUE /\ stallCooled = TRUE
    /\ stallBefore = TRUE /\ recCooled = TRUE
    /\ authorized = TRUE /\ published = TRUE /\ request = "none" /\ unacked = FALSE
    /\ core = "idle" /\ restarts = 0
    /\ stale = {} /\ slipped = FALSE

-----------------------------------------------------------------------------
(* The worker.                                                             *)

\* Bug: a recovery does not end the streak of the child it replaced.
Acknowledge_KeepsStreak ==
    /\ pendingEgress' = (pendingEgress /\ newer)
    /\ egressCooled' = recCooled
    /\ stallBefore' = TRUE
    /\ settled' = FALSE
    /\ UNCHANGED <<pendingStall, streak, stale>>

\* Bug: every change queued so far counts as satisfied.
Acknowledge_DropsNewer ==
    /\ pendingEgress' = FALSE
    /\ egressCooled' = recCooled
    /\ stallBefore' = TRUE
    /\ settled' = FALSE
    /\ pendingStall' = "none" /\ streak' = 0
    /\ stale' = stale \ {"streak", "pending"}

Acknowledge ==
    /\ pendingEgress' = (pendingEgress /\ newer)
    /\ egressCooled' = recCooled
    /\ stallBefore' = TRUE
    /\ settled' = FALSE
    /\ pendingStall' = "none" /\ streak' = 0
    /\ stale' = stale \ {"streak", "pending"}

\* sync_recovery.
SyncRecovery ==
    IF unacked THEN Acknowledge /\ unacked' = FALSE
    ELSE UNCHANGED <<pendingEgress, egressCooled, stallBefore, settled, pendingStall, streak,
                     stale, unacked>>

\* RecoveryState.egress, for a change or a flap.
EgressChanged ==
    /\ pendingEgress' = TRUE
    /\ newer' = TRUE
    /\ settled' = FALSE
    /\ streak' = 0
    /\ stale' = stale \ {"streak"}

\* The top of the loop.
LoopTop ==
    /\ pc = "top"
    /\ pc' = "synced"
    /\ SyncRecovery
    /\ UNCHANGED <<world, seen, offline, interrupted, online, newer, outcome, stallCooled,
                   recCooled, authorized, published, request, core, restarts, slipped>>

SampleNotDue ==
    /\ pc = "synced"
    /\ pc' = "sampled"
    /\ UNCHANGED <<world, egress, stall, timers, slot, stale, slipped>>

\* EgressTracker.observe: another path, or the same one after an outage or an
\* interruption the listener heard of; or no path at all.
Sample ==
    /\ pc = "synced"
    /\ pc' = "sampled"
    /\ interrupted' = FALSE
    /\ \/ /\ online' = TRUE /\ authorized' = TRUE
          /\ seen' = TRUE /\ offline' = FALSE
          /\ IF ~seen \/ offline \/ interrupted THEN EgressChanged
             ELSE UNCHANGED <<pendingEgress, newer, settled, streak, stale>>
       \/ /\ ~calm
          /\ online' = FALSE /\ authorized' = FALSE
          /\ offline' = TRUE
          /\ UNCHANGED <<seen, pendingEgress, newer, settled, streak, stale>>
    /\ UNCHANGED <<world, pendingStall, outcome, egressCooled, stallCooled, stallBefore,
                   recCooled, published, request, unacked, core, restarts, slipped>>

SampleFails ==
    /\ pc = "synced"
    /\ ~calm
    /\ pc' = "sampled"
    /\ online' = FALSE /\ authorized' = FALSE
    /\ UNCHANGED <<world, seen, offline, interrupted, pendingEgress, newer, stall, timers,
                   published, request, unacked, core, restarts, stale, slipped>>

\* A probe round: HTTPS through the tunnel, a node's TCP port past it, and the
\* sockets of the child.
ProbeBegin ==
    /\ pc = "sampled"
    /\ settled
    /\ pc' = "probing"
    /\ \E h \in {"healthy", "stalled"}, k \in {"few", "many", "unknown"}, n \in BOOLEAN :
          /\ calm => h = "healthy" /\ k = "few"
          /\ k # "few" => Leaks
          /\ n => h = "stalled"
          /\ outcome' = IF HasProbeUrl /\ online /\ authorized
                        THEN [https |-> h, sockets |-> k, node |-> n]
                        ELSE [NoOutcome EXCEPT !.sockets = k]
    /\ stale' = stale \ {"probe"}
    /\ UNCHANGED <<world, egress, pendingStall, streak, timers, slot, slipped>>

ProbeNotDue ==
    /\ pc = "sampled"
    /\ pc' = "publish"
    /\ UNCHANGED <<world, egress, stall, timers, slot, stale, slipped>>

\* The core has posted a recovery meanwhile: the round is thrown away.
ProbeDiscarded ==
    /\ pc = "probing"
    /\ unacked
    /\ pc' = "top"
    /\ SyncRecovery
    /\ outcome' = NoOutcome
    /\ UNCHANGED <<world, seen, offline, interrupted, online, newer, stallCooled, recCooled,
                   authorized, published, request, core, restarts, slipped>>

\* The streak after the round; what matters is whether it is at the limit.
Counted ==
    CASE outcome.https = "healthy" -> 0
      [] outcome.https = "stalled" -> IF streak < StallLimit THEN streak + 1 ELSE streak
      [] OTHER -> streak

\* RecoveryState.observe: a leak outranks a stall.
Observe ==
    LET counted == Counted
        pending == CASE outcome.sockets = "many" -> "udp"
                     [] outcome.sockets # "many" /\ outcome.https = "stalled"
                        /\ counted >= StallLimit /\ outcome.node -> "https"
                     [] OTHER -> "none"
        tainted == counted > 0 /\ ({"probe", "streak"} \cap stale # {})
    IN  /\ pc = "probing"
        /\ ~unacked
        /\ pc' = "observed"
        /\ streak' = counted
        /\ pendingStall' = pending
        /\ stale' = (stale \ {"probe", "streak", "pending"})
                    \cup (IF tainted THEN {"streak"} ELSE {})
                    \cup (IF \/ pending = "https" /\ tainted
                             \/ pending = "udp" /\ "probe" \in stale
                          THEN {"pending"} ELSE {})
        /\ UNCHANGED <<world, egress, outcome, timers, slot, slipped>>

\* cancel_cleared_request, under the slot's lock.
CancelCleared ==
    LET cleared == \/ request = "https" /\ outcome.https = "healthy"
                   \/ request = "udp" /\ outcome.sockets = "few"
    IN  /\ pc = "observed"
        /\ pc' = "publish"
        /\ request' = IF cleared THEN "none" ELSE request
        /\ stallCooled' = IF cleared THEN stallBefore ELSE stallCooled
        /\ stallBefore' = IF cleared THEN TRUE ELSE stallBefore
        /\ stale' = IF cleared THEN stale \ {"request"} ELSE stale
        /\ outcome' = NoOutcome
        /\ UNCHANGED <<world, egress, pendingStall, streak, settled, egressCooled, recCooled,
                       authorized, published, unacked, core, restarts, slipped>>

\* RecoveryState.recovery.
Recovery ==
    CASE online /\ pendingEgress /\ egressCooled ->
            /\ request' = "egress"
            /\ pendingEgress' = FALSE
            /\ egressCooled' = FALSE
            /\ stale' = stale \ {"request"}
            /\ UNCHANGED <<pendingStall, stallCooled, stallBefore>>
      [] online /\ ~(pendingEgress /\ egressCooled)
         /\ pendingStall # "none" /\ stallCooled ->
            /\ request' = pendingStall
            /\ pendingStall' = "none"
            /\ stallBefore' = stallCooled
            /\ stallCooled' = FALSE
            /\ stale' = (stale \ {"pending", "request"})
                        \cup (IF "pending" \in stale THEN {"request"} ELSE {})
            /\ UNCHANGED <<pendingEgress, egressCooled>>
      [] OTHER -> UNCHANGED <<request, pendingEgress, egressCooled, pendingStall, stallCooled,
                              stallBefore, stale>>

Requests ==
    IF request = "none" /\ authorized THEN Recovery
    ELSE UNCHANGED <<request, pendingEgress, egressCooled, pendingStall, stallCooled, stallBefore,
                     stale>>

\* Bug: the slot is written without looking for a recovery first.
Publish_Unchecked ==
    /\ pc = "publish"
    /\ pc' = "top"
    /\ published' = online
    /\ Requests
    /\ UNCHANGED <<world, seen, offline, interrupted, online, newer, streak, outcome, settled,
                   recCooled, authorized, unacked, core, restarts, slipped>>

\* The end of the loop, under the slot's lock: the status, and a request if the
\* slot has none.  A recovery the worker has not seen yet sends it back to the
\* top instead.
Publish ==
    /\ pc = "publish"
    /\ pc' = "top"
    /\ IF unacked
       THEN UNCHANGED <<published, request, pendingEgress, egressCooled, pendingStall,
                        stallCooled, stallBefore, stale>>
       ELSE published' = online /\ Requests
    /\ UNCHANGED <<world, seen, offline, interrupted, online, newer, streak, outcome, settled,
                   recCooled, authorized, unacked, core, restarts, slipped>>

\* The netlink listener: the selected path is interrupted, or a default route
\* is deleted.  A sample under way may store its own verdict after the
\* listener's.
Unauthorize == authorized' = FALSE \/ (pc = "sampled" /\ UNCHANGED authorized)

PathBreaks ==
    /\ ~calm
    /\ onPath' = FALSE
    /\ interrupted' = TRUE
    /\ Unauthorize
    /\ slipped' = (slipped \/ core = "bind")
    /\ UNCHANGED <<calm, childUp, pc, seen, offline, online, pendingEgress, newer, stall,
                   timers, published, request, unacked, core, restarts, stale>>

DefaultRouteDeleted ==
    /\ ~calm
    /\ Unauthorize
    /\ UNCHANGED <<world, pc, egress, stall, timers, published, request, unacked, core, restarts,
                   stale, slipped>>

-----------------------------------------------------------------------------
(* The core: a reconcile pass finds a request, or the child dead.          *)

\* WatchdogSupervisor.online; the age limit of the sample is left out.
Online == authorized /\ published

TakeRequest ==
    /\ core = "idle"
    /\ childUp
    /\ request # "none"
    /\ Online
    /\ request' = "none"
    /\ core' = "respawn"
    /\ stale' = stale \ {"request"}
    /\ UNCHANGED <<world, pc, egress, stall, timers, authorized, published, unacked, restarts,
                   slipped>>

\* heal_xray for a dead child, within its budget.
HealDead ==
    /\ core = "idle"
    /\ ~childUp
    /\ Online
    /\ restarts < MaxRespawns
    /\ core' = "respawn"
    /\ restarts' = restarts + 1
    /\ UNCHANGED <<world, pc, egress, stall, timers, authorized, published, request, unacked,
                   stale, slipped>>

\* The budget is spent, or the respawn or the rebind failed: the owner is torn
\* down and its watchdog stopped.
TearDown ==
    /\ \/ core = "idle" /\ ~childUp /\ Online /\ restarts >= MaxRespawns
       \/ core \in {"respawn", "bind"} /\ ~calm
    /\ core' = "gone"
    /\ childUp' = FALSE
    /\ UNCHANGED <<calm, onPath, pc, egress, stall, timers, authorized, published,
                   request, unacked, restarts, stale, slipped>>

\* The new child: whatever was learned from the old one is out of date.
Respawn ==
    /\ core = "respawn"
    /\ core' = "bind"
    /\ childUp' = TRUE
    /\ onPath' = TRUE
    /\ slipped' = FALSE
    /\ stale' = (IF pc = "probing" THEN {"probe"} ELSE {})
                \cup (IF streak > 0 THEN {"streak"} ELSE {})
                \cup (IF pendingStall # "none" THEN {"pending"} ELSE {})
                \cup (IF request \in {"https", "udp"} THEN {"request"} ELSE {})
    /\ UNCHANGED <<calm, pc, egress, stall, timers, authorized, published, request,
                   unacked, restarts>>

\* The link is rebound; recovered() drops whatever was requested meanwhile.
Recovered ==
    /\ core = "bind"
    /\ core' = "idle"
    /\ request' = "none"
    /\ unacked' = TRUE
    /\ newer' = FALSE
    /\ recCooled' = FALSE
    /\ stale' = stale \ {"request"}
    /\ UNCHANGED <<world, pc, seen, offline, interrupted, online, pendingEgress, stall, settled,
                   egressCooled, stallCooled, stallBefore, authorized, published, restarts,
                   slipped>>

-----------------------------------------------------------------------------
(* The world.                                                              *)

\* Another path: the child keeps to the old one.
PathChanges ==
    /\ ~calm
    /\ onPath' = FALSE
    /\ seen' = FALSE
    /\ slipped' = (slipped \/ core = "bind")
    /\ UNCHANGED <<calm, childUp, pc, offline, interrupted, online, pendingEgress,
                   newer, stall, timers, slot, stale>>

ChildDies ==
    /\ ~calm
    /\ childUp /\ core = "idle"
    /\ childUp' = FALSE
    /\ UNCHANGED <<calm, onPath, pc, egress, stall, timers, slot, stale, slipped>>

CalmDown ==
    /\ ~calm
    /\ calm' = TRUE
    /\ UNCHANGED <<childUp, onPath, pc, egress, stall, timers, slot, stale, slipped>>

Settle ==
    /\ ~settled
    /\ settled' = TRUE
    /\ UNCHANGED <<world, pc, egress, stall, egressCooled, stallCooled, stallBefore, recCooled,
                   slot, stale, slipped>>

\* A minute passes; ten minutes pass.
EgressCools ==
    /\ ~egressCooled \/ ~recCooled
    /\ egressCooled' = TRUE /\ recCooled' = TRUE
    /\ UNCHANGED <<world, pc, egress, stall, settled, stallCooled, stallBefore, slot, stale,
                   slipped>>

StallCools ==
    /\ ~stallCooled \/ ~stallBefore
    /\ stallCooled' = TRUE /\ stallBefore' = TRUE /\ egressCooled' = TRUE /\ recCooled' = TRUE
    /\ UNCHANGED <<world, pc, egress, stall, settled, slot, stale, slipped>>

Worker ==
    \/ LoopTop
    \/ SampleNotDue \/ Sample \/ SampleFails
    \/ ProbeBegin \/ ProbeNotDue \/ ProbeDiscarded
    \/ Observe \/ CancelCleared \/ Publish

Core == TakeRequest \/ HealDead \/ TearDown \/ Respawn \/ Recovered

Up == core # "gone"

World == PathChanges \/ PathBreaks \/ DefaultRouteDeleted \/ ChildDies \/ CalmDown

Time == Settle \/ EgressCools \/ StallCools

Next == Up /\ (Worker \/ Core \/ World \/ Time)

\* The worker loops, samples are due again and again, the core's passes come
\* every 10 s and time passes.
Fairness ==
    /\ WF_vars(Up /\ Worker)
    /\ SF_vars(Up /\ Sample)
    /\ WF_vars(Up /\ Core)
    /\ SF_vars(TakeRequest)
    /\ WF_vars(Up /\ Settle)
    /\ WF_vars(Up /\ EgressCools)

Spec == Init /\ [][Next]_vars /\ Fairness

-----------------------------------------------------------------------------
\* A child is never restarted for a stall or a leak that an earlier child had:
\* probes that straddle a recovery are discarded or overtaken by it.
EvidenceFresh == core = "idle" => "request" \notin stale

\* With it, the streak stays within its limit and a probe's outcome is dropped
\* once it has been counted.
EvidenceSound == TypeOK /\ EvidenceFresh

\* Restarts for a change of the underlay keep the cooldown from the last
\* recovery of any kind: the core never takes one too early.
RestartsSpaced == [][request = "egress" /\ TakeRequest => recCooled]_vars

\* Every change of the underlay is answered: once the network is calm the child
\* runs on the path of now or the owner is torn down, unless the change fell
\* between the start of the new child and the report of its recovery.
ChangeAnswered == calm ~> (childUp /\ onPath) \/ slipped \/ core = "gone"
=============================================================================
