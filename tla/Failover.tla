------------------------------ MODULE Failover ------------------------------
(***************************************************************************)
(* Multinode failover of one Xray tunnel (crates/daemon/src/failover.rs,   *)
(* and the replacement of the Xray child in core.rs).  A worker thread per *)
(* supervisor probes the candidates, picks a tag and sends it to Xray with *)
(* a short-lived `xray api bo` command.  The core replaces a dead or       *)
(* reloaded Xray under its lock: it drops the supervisor, never joining    *)
(* the thread, restarts the child and starts a new supervisor.  All        *)
(* generations of a tunnel use the same API port.                          *)
(***************************************************************************)
EXTENDS Integers, Sequences

CONSTANTS
    Candidates, \* the candidate nodes, primary first: a sequence
    MaxSups     \* bound: supervisors of the tunnel, one after the other

STREAK_REQUIRED == 2

Nodes == {Candidates[i] : i \in 1..Len(Candidates)}
Sups  == 1..MaxSups
Tags  == Nodes \cup {"unavailable"}

ASSUME FailoverAssumption ==
    /\ Candidates \in Seq(Nodes)
    /\ MaxSups \in Nat \ {0}

VARIABLES
    autoReturn, \* auto_return_primary
    real,       \* real[n]: a probe through the node gets an answer
    committed,  \* committed[n]: the worker's verdict: "unprobed", "up", "down"
    streak,     \* streak[n]: toward the opposite verdict
    last,       \* history: the last sample of each node, or "unprobed"
    applied,    \* the tag the worker believes is selected, or "none"
    pc,         \* pc[s]: "none", "idle", "spawn", "wait" or "done"
    wanted,     \* wanted[s]: the tag of the command at hand, or "none"
    child,      \* child[s]: the command: "none", "sent", "killed", "landed", "failed"
    cur,        \* the supervisor the core knows, or 0
    stopped,    \* the supervisors told to stop
    core,       \* the core: "idle", "stopped" or "replaced"
    balancer,   \* the override in the running Xray, or "none"
    xrayUp,     \* the Xray child runs
    torn,       \* history: a command took effect and was reported failed
    calm        \* the network is calm from now on

work == <<committed, streak, last, applied>>
cmd  == <<pc, wanted, child>>
life == <<cur, stopped, core>>
env  == <<real, torn, calm, autoReturn>>
vars == <<work, cmd, life, env, balancer, xrayUp>>

Unprobed == [n \in Nodes |-> "unprobed"]
Zero     == [n \in Nodes |-> 0]

\* Shapes; a command is at hand exactly while its worker is busy with it, and
\* no streak outlives the flip it leads to.
TypeOK ==
    /\ autoReturn \in BOOLEAN
    /\ real \in [Nodes -> BOOLEAN]
    /\ committed \in [Nodes -> {"unprobed", "up", "down"}]
    /\ streak \in [Nodes -> (1 - STREAK_REQUIRED)..(STREAK_REQUIRED - 1)]
    /\ last \in [Nodes -> {"unprobed", "up", "down"}]
    /\ applied \in Tags \cup {"none"}
    /\ pc \in [Sups -> {"none", "idle", "spawn", "wait", "done"}]
    /\ wanted \in [Sups -> Tags \cup {"none"}]
    /\ child \in [Sups -> {"none", "sent", "killed", "landed", "failed"}]
    /\ cur \in 0..MaxSups
    /\ stopped \in SUBSET Sups
    /\ core \in {"idle", "stopped", "replaced"}
    /\ balancer \in Tags \cup {"none"}
    /\ xrayUp \in BOOLEAN /\ torn \in BOOLEAN /\ calm \in BOOLEAN
    /\ \A s \in Sups : child[s] # "none" => pc[s] = "wait"

Init ==
    /\ autoReturn \in BOOLEAN
    /\ real \in [Nodes -> BOOLEAN]
    /\ committed = Unprobed
    /\ streak = Zero
    /\ last = Unprobed
    /\ applied = "none"
    /\ pc = [s \in Sups |-> IF s = 1 THEN "idle" ELSE "none"]
    /\ wanted = [s \in Sups |-> "none"]
    /\ child = [s \in Sups |-> "none"]
    /\ cur = 1
    /\ stopped = {}
    /\ core = "idle"
    /\ balancer = "none"
    /\ xrayUp = TRUE
    /\ torn = FALSE
    /\ calm = FALSE

-----------------------------------------------------------------------------
(* One round of the worker.                                                *)

\* A probe goes through the node's inbound in Xray.
Sample(n) == IF xrayUp /\ real[n] THEN "up" ELSE "down"

\* Bug: a sample that agrees with the verdict does not end the streak.
Streak_NoReset(n) ==
    IF committed[n] \in {"unprobed", Sample(n)} THEN streak[n]
    ELSE streak[n] + (IF Sample(n) = "up" THEN 1 ELSE -1)

\* TrackedNode.observe: the streak after the sample, before the flip.
Streak(n) ==
    IF committed[n] \in {"unprobed", Sample(n)} THEN 0
    ELSE streak[n] + (IF Sample(n) = "up" THEN 1 ELSE -1)

\* Bug: off by one, the flip waits for a third sample.
Flips_Third(n) ==
    \/ committed[n] = "unprobed"
    \/ Streak(n) \in {STREAK_REQUIRED + 1, -(STREAK_REQUIRED + 1)}

Flips(n) ==
    \/ committed[n] = "unprobed"
    \/ Streak(n) \in {STREAK_REQUIRED, -STREAK_REQUIRED}

\* Bug: a backup is kept even when its own verdict is down.
SelectTag_Sticky(verdict) ==
    LET up == {i \in 1..Len(Candidates) : verdict[Candidates[i]] = "up"}
    IN  IF ~autoReturn /\ applied \in Nodes \ {Candidates[1]} THEN applied
        ELSE IF up = {} THEN "unavailable"
        ELSE Candidates[CHOOSE i \in up : \A j \in up : i <= j]

\* select_tag: without auto-return a healthy backup is kept, else the first
\* healthy candidate, else the blackhole.
SelectTag(verdict) ==
    LET up == {i \in 1..Len(Candidates) : verdict[Candidates[i]] = "up"}
    IN  IF ~autoReturn /\ \E i \in up : i > 1 /\ Candidates[i] = applied THEN applied
        ELSE IF up = {} THEN "unavailable"
        ELSE Candidates[CHOOSE i \in up : \A j \in up : i <= j]

Round(s) ==
    LET verdict == [n \in Nodes |-> IF Flips(n) THEN Sample(n) ELSE committed[n]]
        tag     == SelectTag(verdict)
    IN  /\ pc[s] = "idle"
        /\ s \notin stopped
        /\ committed' = verdict
        /\ streak' = [n \in Nodes |-> IF Flips(n) THEN 0 ELSE Streak(n)]
        /\ last' = [n \in Nodes |-> Sample(n)]
        /\ IF tag = applied THEN UNCHANGED <<pc, wanted>>
           ELSE /\ pc' = [pc EXCEPT ![s] = "spawn"]
                /\ wanted' = [wanted EXCEPT ![s] = tag]
        /\ UNCHANGED <<applied, child, life, env, balancer, xrayUp>>

\* Bug: a worker without work to do never looks at the flag.
WorkerEnds_Misses(s) ==
    /\ pc[s] = "idle"
    /\ s \in stopped
    /\ wanted[s] # "none"
    /\ pc' = [pc EXCEPT ![s] = "done"]
    /\ UNCHANGED <<work, wanted, child, life, env, balancer, xrayUp>>

\* The loop sees the stop flag.
WorkerEnds(s) ==
    /\ pc[s] = "idle"
    /\ s \in stopped
    /\ pc' = [pc EXCEPT ![s] = "done"]
    /\ UNCHANGED <<work, wanted, child, life, env, balancer, xrayUp>>

\* run_api_command: under the slot's lock, the flag is checked and the command
\* is spawned, or it cannot be.
SpawnCommand(s) ==
    /\ pc[s] = "spawn"
    /\ \/ /\ s \notin stopped
          /\ pc' = [pc EXCEPT ![s] = "wait"]
          /\ child' = [child EXCEPT ![s] = "sent"]
          /\ UNCHANGED wanted
       \/ /\ s \in stopped \/ ~calm
          /\ pc' = [pc EXCEPT ![s] = "idle"]
          /\ wanted' = [wanted EXCEPT ![s] = "none"]
          /\ UNCHANGED child
    /\ UNCHANGED <<work, life, env, balancer, xrayUp>>

\* The command reaches the Xray that listens on the port, if one does.  One
\* that was killed may have sent its request to the old Xray before.
Land(s) ==
    /\ child[s] = "sent" \/ (child[s] = "killed" /\ core = "stopped")
    /\ xrayUp
    /\ balancer' = wanted[s]
    /\ child' = [child EXCEPT ![s] = "landed"]
    /\ UNCHANGED <<work, pc, wanted, life, env, xrayUp>>

LandFails(s) ==
    /\ child[s] = "sent"
    /\ ~xrayUp \/ ~calm
    /\ child' = [child EXCEPT ![s] = "failed"]
    /\ UNCHANGED <<work, pc, wanted, life, env, balancer, xrayUp>>

\* The worker finds the command ended, its time over or the stop flag set; it
\* counts as applied only in the first case.
Finish(s, ok) ==
    /\ pc[s] = "wait"
    /\ \/ ok /\ child[s] = "landed" /\ s \notin stopped
       \/ ~ok /\ (child[s] = "failed" \/ s \in stopped \/ ~calm)
    /\ applied' = IF ok THEN wanted[s] ELSE applied
    /\ torn' = IF s \in stopped THEN torn ELSE ~ok /\ (torn \/ child[s] = "landed")
    /\ pc' = [pc EXCEPT ![s] = "idle"]
    /\ wanted' = [wanted EXCEPT ![s] = "none"]
    /\ child' = [child EXCEPT ![s] = "none"]
    /\ UNCHANGED <<committed, streak, last, life, real, calm, autoReturn, balancer, xrayUp>>

-----------------------------------------------------------------------------
(* The core.                                                               *)

XrayDies ==
    /\ ~calm
    /\ xrayUp
    /\ core = "idle"
    /\ cur < MaxSups
    /\ xrayUp' = FALSE
    /\ balancer' = "none"
    /\ UNCHANGED <<work, cmd, life, env>>

\* Bug: the supervisor is told to stop, its command is left running.
StopSupervisor_LeavesCommand ==
    /\ core = "idle"
    /\ cur < MaxSups
    /\ ~xrayUp \/ ~calm
    /\ core' = "stopped"
    /\ stopped' = stopped \cup {cur}
    /\ committed' = Unprobed /\ streak' = Zero /\ last' = Unprobed /\ applied' = "none"
    /\ torn' = FALSE
    /\ UNCHANGED <<pc, wanted, child, cur, real, calm, autoReturn, balancer, xrayUp>>

\* Dropping the supervisor: flag, then kill the command in the slot.  What the
\* worker has learned is of no more use.
StopSupervisor ==
    /\ core = "idle"
    /\ cur < MaxSups
    /\ ~xrayUp \/ ~calm
    /\ core' = "stopped"
    /\ stopped' = stopped \cup {cur}
    /\ child' = [child EXCEPT ![cur] = IF @ = "sent" THEN "killed" ELSE @]
    /\ committed' = Unprobed /\ streak' = Zero /\ last' = Unprobed /\ applied' = "none"
    /\ torn' = FALSE
    /\ UNCHANGED <<pc, wanted, cur, real, calm, autoReturn, balancer, xrayUp>>

\* respawn or reload: a new Xray, without the override.
ReplaceXray ==
    /\ core = "stopped"
    /\ core' = "replaced"
    /\ xrayUp' = TRUE
    /\ balancer' = "none"
    /\ UNCHANGED <<work, cmd, cur, stopped, env>>

\* A reload that fails early leaves the old Xray with its override; the next
\* pass finds it alive and gives it a supervisor again.
ReplaceFails ==
    /\ core = "stopped"
    /\ xrayUp /\ ~calm
    /\ core' = "replaced"
    /\ UNCHANGED <<work, cmd, cur, stopped, env, balancer, xrayUp>>

\* start_failover, ensure_failover.
StartSupervisor ==
    /\ core = "replaced"
    /\ core' = "idle"
    /\ cur' = cur + 1
    /\ pc' = [pc EXCEPT ![cur + 1] = "idle"]
    /\ UNCHANGED <<work, wanted, child, stopped, env, balancer, xrayUp>>

Flip(n) ==
    /\ ~calm
    /\ real' = [real EXCEPT ![n] = ~@]
    /\ UNCHANGED <<work, cmd, life, torn, calm, autoReturn, balancer, xrayUp>>

\* From here on nodes keep their health, commands work and Xray runs.
CalmDown ==
    /\ ~calm
    /\ xrayUp /\ core = "idle"
    /\ calm' = TRUE
    /\ UNCHANGED <<work, cmd, life, real, torn, autoReturn, balancer, xrayUp>>

Worker(s) ==
    \/ Round(s)
    \/ WorkerEnds(s)
    \/ SpawnCommand(s)
    \/ Land(s)
    \/ LandFails(s)
    \/ \E ok \in BOOLEAN : Finish(s, ok)

Replace == StopSupervisor \/ ReplaceXray \/ ReplaceFails \/ StartSupervisor

Next ==
    \/ \E s \in Sups : Worker(s)
    \/ XrayDies
    \/ Replace
    \/ \E n \in Nodes : Flip(n)
    \/ CalmDown

Fairness ==
    /\ \A s \in Sups : WF_vars(Worker(s))
    /\ WF_vars(~xrayUp /\ StopSupervisor)
    /\ WF_vars(ReplaceXray)
    /\ WF_vars(StartSupervisor)

Spec == Init /\ [][Next]_vars /\ Fairness

-----------------------------------------------------------------------------
\* A command of a supervisor that was told to stop never reaches an Xray that
\* was started after it ("Cancel before core replaces Xray").
StaleNeverLands ==
    [][\A s \in Sups : child[s] # "landed" /\ child'[s] = "landed" =>
         s \notin stopped \/ core = "stopped"]_vars

\* A verdict flips only on two samples in a row, whatever came before.
FlipsNeedTwo ==
    [][\A n \in Nodes :
         /\ committed[n] # "unprobed"
         /\ committed'[n] \notin {"unprobed", committed[n]}
         => last[n] = committed'[n] /\ last'[n] = committed'[n]]_vars

Up == {i \in 1..Len(Candidates) : real[Candidates[i]]}
First == IF Up = {} THEN "unavailable" ELSE Candidates[CHOOSE i \in Up : \A j \in Up : i <= j]

\* Pinned to a node that works, and to the first one with auto-return.
Pinned == balancer = First \/ (~autoReturn /\ \E i \in Up : balancer = Candidates[i])

\* Once the network is calm the balancer of the running Xray settles on the
\* right node, unless a command was cut off after it had taken effect.
Settles == calm ~> [](Pinned \/ torn)

\* A worker that is told to stop ends, so no thread of an old tunnel lingers.
StoppedEnds == \A s \in Sups : s \in stopped ~> pc[s] = "done"
=============================================================================
