----------------------------- MODULE XrayTunnel -----------------------------
(***************************************************************************)
(* One Xray tunnel of the Linux daemon: connect, reload, the reconcile     *)
(* pass that respawns a dead child and restores what the kernel lost, the  *)
(* migration of the bypass route to a new uplink, DNS re-application,      *)
(* disconnect, and recovery after a crash (crates/daemon/src/core.rs,      *)
(* xray_process.rs).                                                       *)
(*                                                                         *)
(* Everything runs under the mutex of the core.  Each save of the journal  *)
(* and each kernel call is a step of its own: the daemon can die between   *)
(* any two, any of them can fail (ok = FALSE), and at any time the child   *)
(* can die, the uplink can change and others can edit the routing table.   *)
(* The number of such troubles in one behaviour is bounded.                *)
(*                                                                         *)
(* The child outlives the daemon: it is an ordinary process.  Its TUN link *)
(* lives as long as it does, and with the link go the address, the tunnel  *)
(* routes and the DNS settings of the link.                                *)
(***************************************************************************)
EXTENDS Integers, Sequences, FiniteSets

CONSTANTS
    Uplinks,        \* the physical next hops a bypass route may use
    Configs,        \* generated Xray configurations a user may ask for
    MaxRespawns,    \* MAX_XRAY_RESPAWNS
    MaxTroubles     \* bound: failures, crashes and outside events

ASSUME XrayAssumption ==
    /\ {"none", "absent", "foreign", "process", "address", "tun", "rule", "dns", "quic"}
           \cap Uplinks = {}
    /\ Uplinks # {}
    /\ 0 \notin Configs
    /\ MaxRespawns \in Nat /\ MaxTroubles \in Nat

VARIABLES
    entry,      \* the journal entry of the tunnel, in memory
    disk,       \* the same entry in state.json
    link,       \* ifindex of the TUN link of the living child, 0 if none
    net,        \* which of the tunnel's objects the kernel holds
    byp,        \* who holds the routing key of the bypass route
    uplink,     \* the next hop of the default route
    tracked,    \* the runner has a handle on the child
    staged,     \* the configuration in the staging directory
    running,    \* the configuration the living child was started with
    failover,   \* the configuration the failover supervisor was built from
    restarts,   \* xray_restarts
    watchdog,   \* the watchdog worker: absent, not seeing the uplink, seeing it
    pc,         \* what the thread holding the core is doing
    job,        \* its operands
    mig,        \* the bypass migration in progress
    torn,       \* history: what a failed reload left inconsistent
    unsaved,    \* history: bypass routes kept in memory after a failed save
    orphaned,   \* history: the daemon died with a link its file does not name
    troubles    \* troubles so far

journals == <<entry, disk>>
kernel   == <<link, net, byp>>
child    == <<tracked, staged, running>>
sup      == <<failover, restarts, watchdog>>
core     == <<pc, job, mig>>
history  == <<torn, unsaved, orphaned>>
vars     == <<journals, kernel, uplink, child, sup, core, history, troubles>>

\* The kernel never reuses an ifindex; only which of the two journals names
\* the living link matters, so four names are enough.
Indexes   == 0..4
Resources == {"process", "address", "tun", "rule", "dns"}
OnLink    == {"address", "tun", "dns"}
NoEntry   == [state |-> "none", idx |-> 0, res |-> {}, byp |-> {}, policy |-> 0]
Entry     == [state : {"none", "applying", "applied", "stale"}, idx : Indexes,
              res : SUBSET Resources, byp : SUBSET Uplinks, policy : Configs \cup {0}]

Rest  == [why |-> "none", step |-> 0, cfg |-> 0, todo |-> {}, held |-> {}, seen |-> {}]
NoMig == [old |-> "none", new |-> "none", was |-> FALSE, here |-> FALSE, there |-> FALSE]

\* Shapes; objects of a link go with it, and an `applied` entry is complete.
TypeOK ==
    /\ entry \in Entry /\ disk \in Entry
    /\ link \in Indexes
    /\ net \in SUBSET (Resources \cup {"quic"})
    /\ byp \in Uplinks \cup {"absent", "foreign"}
    /\ uplink \in Uplinks \cup {"none"}
    /\ tracked \in BOOLEAN
    /\ {staged, running, failover} \subseteq Configs \cup {0}
    /\ restarts \in 0..MaxRespawns /\ watchdog \in {"absent", "blind", "online"}
    /\ pc \in {"down", "idle", "spawn", "index", "step", "kernel", "respawn",
               "teardown", "removing", "finish", "restore", "migrate", "replace",
               "dropOld", "forget"}
    /\ job.why \in {"none", "connect", "respawn", "restart", "pass", "reload", "request"}
    /\ pc = "down" => entry = NoEntry /\ ~tracked /\ failover = 0
    /\ link = 0 => net \cap OnLink = {}
    /\ entry.state = "none" => entry = NoEntry /\ failover = 0
    /\ entry.state # "none" => "process" \in entry.res
    /\ entry.state = "applied" => entry.idx # 0 /\ entry.res = Resources

Init ==
    /\ entry = NoEntry /\ disk = NoEntry
    /\ link = 0 /\ net = {}
    /\ byp = "absent"
    /\ uplink = CHOOSE u \in Uplinks : TRUE
    /\ tracked = FALSE /\ staged = 0 /\ running = 0
    /\ failover = 0 /\ restarts = 0 /\ watchdog = "absent"
    /\ pc = "idle" /\ job = Rest /\ mig = NoMig
    /\ torn = {} /\ unsaved = {} /\ orphaned = FALSE
    /\ troubles = 0

-----------------------------------------------------------------------------
(* Pieces.                                                                 *)

Trouble == troubles < MaxTroubles /\ troubles' = troubles + 1

\* A failure counts, unless the child's death made it inevitable.
LinkLost == pc \in {"step", "kernel", "restore"} /\ link # entry.idx
Outcome(ok) == IF ok \/ LinkLost THEN UNCHANGED troubles ELSE Trouble

\* JournalStore::save; an error says nothing about which document is on disk.
Save(e, ok) == IF ok THEN disk' = e ELSE disk' \in {disk, e}

Idle == pc' = "idle" /\ job' = Rest /\ mig' = NoMig

\* A spawned child brings up a TUN link under an ifindex never seen before.
Fresh == CHOOSE i \in Indexes \ {0} : i \notin {entry.idx, disk.idx, link}

\* tunnel_alive: the child is tracked and runs, its link is the journaled one.
Alive == tracked /\ link # 0 /\ link = entry.idx

\* xray_status, as far as the state it reports.
Running == entry.state = "applied" /\ tracked /\ link # 0

LinkGone == net \ OnLink

\* ensure_watchdog: a new worker has not seen the uplink yet.
Watched == IF watchdog = "absent" THEN "blind" ELSE watchdog

\* A failed connect or pass tears the tunnel down; a failed reload returns
\* its error, with the entry still `applied`.
GiveUp(what) ==
    IF job.why = "reload"
      THEN Idle /\ torn' = torn \cup what
      ELSE pc' = "teardown" /\ mig' = NoMig /\ UNCHANGED <<job, torn>>

-----------------------------------------------------------------------------
(* connect_xray.                                                           *)

Connect(c, ok) ==
    LET e == [NoEntry EXCEPT !.state = "applying", !.res = {"process"}, !.policy = c]
    IN /\ pc = "idle"
       /\ entry = NoEntry
       /\ link = 0
       /\ Save(e, ok)
       /\ IF ok THEN /\ entry' = e
                     /\ pc' = "spawn"
                     /\ job' = [Rest EXCEPT !.why = "connect", !.cfg = c]
          ELSE UNCHANGED <<entry, pc, job>>
       /\ UNCHANGED <<kernel, uplink, child, sup, mig, history>>

\* start: stage the configuration, spawn, wait for the link.
Spawn(ok) ==
    /\ pc = "spawn"
    /\ IF ok THEN /\ link = 0 /\ ~tracked
                  /\ link' = Fresh
                  /\ tracked' = TRUE
                  /\ staged' = job.cfg /\ running' = job.cfg
                  /\ pc' = "index"
                  /\ UNCHANGED <<job, mig, torn>>
       ELSE /\ staged' \in {staged, 0, job.cfg}
            /\ GiveUp({})
            /\ UNCHANGED <<link, tracked, running>>
    /\ UNCHANGED <<journals, net, byp, uplink, sup, unsaved, orphaned>>

\* link_index, and the journal of the new link: for a connect the index of
\* the process, for a respawn or reload the index of every resource.
TakeIndex(ok) ==
    /\ pc = "index"
    /\ link # 0
    /\ entry' = [entry EXCEPT !.idx = link]
    /\ Save(entry', ok)
    /\ IF ok THEN pc' = "step" /\ job' = [job EXCEPT !.step = 1] /\ UNCHANGED <<mig, torn>>
       ELSE GiveUp({"config", "wiring"})
    /\ UNCHANGED <<kernel, uplink, child, sup, unsaved, orphaned>>

\* The link vanished again before its index could be read.
NoIndex ==
    /\ pc = "index"
    /\ link = 0
    /\ GiveUp({"config"})
    /\ UNCHANGED <<journals, kernel, uplink, child, sup, unsaved, orphaned>>

-----------------------------------------------------------------------------
(* apply_xray_plan and rebind_xray_link: the same kernel calls, journaled  *)
(* one by one by the first and all at once by the second.  "quic" stands   *)
(* for the MTU, the link state and the QUIC reject table as well.          *)

Steps == IF job.why = "connect"
           THEN <<"address", "quic", "bypass", "tun", "rule", "dns", "dnsflag">>
           ELSE <<"address", "quic", "tun", "dns", "dnsflag">>
Now == Steps[job.step]
Working == pc \in {"step", "kernel"} /\ job.step <= Len(Steps)
AllDone == pc = "step" /\ job.step > Len(Steps)

NextStep == pc' = "step" /\ job' = [job EXCEPT !.step = @ + 1] /\ mig' = NoMig

\* The calls that are journaled ahead; the DNS flag is a save and no call.
Journaled == Now = "dnsflag" \/ (job.why = "connect" /\ Now # "quic")
Target    == Now = "bypass" => uplink # "none"

\* The next hop a bypass route is journaled and then added with.
Aim == [NoMig EXCEPT !.new = IF Now = "bypass" THEN uplink ELSE "none"]

Intent ==
    IF Now = "bypass" THEN [entry EXCEPT !.byp = @ \cup {uplink}]
    ELSE IF Now = "dnsflag" THEN entry
    ELSE [entry EXCEPT !.res = @ \cup {Now}]

JournalStep(ok) ==
    /\ Working /\ pc = "step" /\ Journaled /\ Target
    /\ entry' = Intent
    /\ Save(entry', ok)
    /\ IF ~ok THEN GiveUp({"config", "wiring"})
       ELSE /\ IF Now = "dnsflag" THEN NextStep
               ELSE pc' = "kernel" /\ mig' = Aim /\ UNCHANGED job
            /\ UNCHANGED torn
    /\ UNCHANGED <<kernel, uplink, child, sup, unsaved, orphaned>>

\* No uplink gateway for the bypass route: it is skipped.
SkipBypass ==
    /\ Working /\ pc = "step" /\ ~Target
    /\ NextStep
    /\ UNCHANGED <<journals, kernel, uplink, child, sup, history>>

Calling   == Working /\ (pc = "kernel" \/ ~Journaled)
Reachable == Now \in OnLink => link = entry.idx
Taken     == Now = "bypass" /\ byp # "absent"

\* The call succeeds, or fails in a way that leaves its effect unknown; a
\* rebind takes every DNS outcome.
KernelStep(ok) ==
    /\ Calling
    /\ ok => Reachable /\ ~Taken
    /\ LET done == Reachable /\ ~Taken
           n    == IF done /\ Now # "bypass" THEN net \cup {Now} ELSE net
           b    == IF done /\ Now = "bypass" THEN mig.new ELSE byp
       IN IF ok THEN net' = n /\ byp' = b ELSE net' \in {net, n} /\ byp' \in {byp, b}
    /\ IF ok \/ (Now = "dns" /\ job.why # "connect") THEN NextStep /\ UNCHANGED torn
       ELSE GiveUp({"config", "wiring"})
    /\ UNCHANGED <<journals, link, uplink, child, sup, unsaved, orphaned>>

\* systemd-resolved is not there: not an error.  A connect leaves the flag
\* of the resource as it is and saves nothing.
NoResolved ==
    /\ Calling /\ Now = "dns"
    /\ pc' = "step" /\ mig' = NoMig
    /\ job' = [job EXCEPT !.step = @ + (IF job.why = "connect" THEN 2 ELSE 1)]
    /\ UNCHANGED <<journals, kernel, uplink, child, sup, history>>

\* The object exists already: the claim is withdrawn in memory.  That is no
\* failure for a bypass route, nor for a tunnel route being rebound.
KernelConflict ==
    /\ Calling
    /\ Now \in {"address", "tun", "rule"} \/ Taken
    /\ entry' = IF job.why # "connect" THEN entry
                ELSE IF Now = "bypass" THEN [entry EXCEPT !.byp = @ \ {mig.new}]
                ELSE [entry EXCEPT !.res = @ \ {Now}]
    /\ IF Now = "bypass" \/ (Now = "tun" /\ job.why # "connect")
         THEN NextStep /\ UNCHANGED torn
         ELSE GiveUp({"config", "wiring"})
    /\ UNCHANGED <<disk, kernel, uplink, child, sup, unsaved, orphaned>>

\* The entry becomes `applied`; if that cannot be saved the tunnel goes again.
Commit(ok) ==
    /\ AllDone /\ job.why = "connect"
    /\ entry' = [entry EXCEPT !.state = "applied"]
    /\ Save(entry', ok)
    /\ IF ok THEN Idle /\ restarts' = 0 /\ failover' = job.cfg /\ watchdog' = Watched /\ UNCHANGED torn
       ELSE GiveUp({}) /\ UNCHANGED sup
    /\ UNCHANGED <<kernel, uplink, child, unsaved, orphaned>>

-----------------------------------------------------------------------------
(* reload_xray.                                                            *)

\* The entry must own the bypass route of its one endpoint, once.  Then the
\* supervisors stop.  The configuration file is rewritten before the geo
\* assets; either write can fail, and the old child runs on.
Reload(c, ok) ==
    /\ pc = "idle"
    /\ entry.state = "applied"
    /\ Cardinality(entry.byp) = 1
    /\ failover' = 0 /\ watchdog' = "absent"
    /\ IF ok THEN /\ staged' = c
                  /\ pc' = "respawn"
                  /\ job' = [Rest EXCEPT !.why = "reload", !.cfg = c]
                  /\ UNCHANGED torn
       ELSE /\ \/ UNCHANGED <<staged, torn>>
               \/ staged' = c /\ torn' = torn \cup {"config"}
            /\ UNCHANGED <<pc, job>>
    /\ UNCHANGED <<journals, kernel, uplink, tracked, running, restarts, mig,
                   unsaved, orphaned>>

\* Stop the tracked child and the recorded one, spawn on the staged files.
Respawn(ok) ==
    /\ pc = "respawn"
    /\ IF ok THEN /\ staged # 0
                  /\ link' = Fresh /\ net' = LinkGone
                  /\ tracked' = TRUE /\ running' = staged
                  /\ pc' = "index"
                  /\ UNCHANGED <<job, mig, torn>>
       ELSE /\ \/ UNCHANGED <<link, net, tracked, running>>
               \/ link' = 0 /\ net' = LinkGone /\ tracked' = FALSE /\ running' = 0
            /\ GiveUp({"config"})
    /\ UNCHANGED <<journals, byp, uplink, staged, sup, unsaved, orphaned>>

\* Bug: the probe policy of the entry is not brought up to date.
ReloadDone_OldPolicy(ok) ==
    /\ AllDone /\ job.why = "reload"
    /\ Save(entry, ok)
    /\ torn' = {}
    /\ IF ok THEN restarts' = 0 /\ failover' = job.cfg /\ watchdog' = Watched ELSE UNCHANGED sup
    /\ Idle
    /\ UNCHANGED <<entry, kernel, uplink, child, unsaved, orphaned>>

\* The probe policy of the new configuration is journaled last.
ReloadDone(ok) ==
    /\ AllDone /\ job.why = "reload"
    /\ entry' = [entry EXCEPT !.policy = job.cfg]
    /\ Save(entry', ok)
    /\ torn' = {}
    /\ IF ok THEN restarts' = 0 /\ failover' = job.cfg /\ watchdog' = Watched ELSE UNCHANGED sup
    /\ Idle
    /\ UNCHANGED <<kernel, uplink, child, unsaved, orphaned>>

-----------------------------------------------------------------------------
(* reconcile_network, heal_xray and restore_owned_network.                 *)

Restoring(why, seen) ==
    /\ pc' = "restore"
    /\ job' = [Rest EXCEPT !.why = why, !.seen = seen,
                           !.todo = entry.byp \cup {"tun", "rule"}]
    /\ mig' = NoMig

\* Bug: a tunnel whose budget is spent is left as it is.
HealDead_Waits ==
    /\ pc = "idle" /\ entry.state = "applied" /\ ~Alive /\ watchdog = "online"
    /\ restarts < MaxRespawns
    /\ job' = [Rest EXCEPT !.why = "respawn", !.seen = {byp}]
    /\ pc' = "respawn" /\ failover' = 0 /\ restarts' = restarts + 1
    /\ UNCHANGED <<journals, kernel, uplink, child, watchdog, mig, history>>

\* A dead tunnel, while its watchdog calls the uplink online: respawn, or tear
\* down once the budget is spent.
HealDead ==
    /\ pc = "idle" /\ entry.state = "applied" /\ ~Alive /\ watchdog = "online"
    /\ job' = [Rest EXCEPT !.why = "respawn", !.seen = {byp}]
    /\ IF restarts >= MaxRespawns
         THEN pc' = "teardown" /\ UNCHANGED sup
         ELSE pc' = "respawn" /\ failover' = 0 /\ restarts' = restarts + 1 /\ UNCHANGED watchdog
    /\ UNCHANGED <<journals, kernel, uplink, child, mig, history>>

\* A dead tunnel without a watchdog gets one, and is left alone until that has
\* seen the uplink.
WatchDead ==
    /\ pc = "idle" /\ entry.state = "applied" /\ ~Alive /\ watchdog = "absent"
    /\ watchdog' = Watched
    /\ UNCHANGED <<journals, kernel, uplink, child, failover, restarts, core, history>>

\* One look of the worker at the uplink; a look that fails shows none.
Sample(ok) ==
    /\ watchdog # "absent"
    /\ watchdog' = IF ok /\ uplink # "none" THEN "online" ELSE "blind"
    /\ watchdog' # watchdog
    /\ UNCHANGED <<journals, kernel, uplink, child, failover, restarts, core, history>>

\* The watchdog of a live tunnel asked for a restart: no budget is charged.
HealStalled ==
    /\ pc = "idle" /\ entry.state = "applied" /\ Alive /\ watchdog = "online"
    /\ failover' = 0
    /\ pc' = "respawn"
    /\ job' = [Rest EXCEPT !.why = "restart", !.seen = {byp}]
    /\ UNCHANGED <<journals, kernel, uplink, child, restarts, watchdog, mig, history>>

\* Any other pass over a live tunnel re-arms the supervisors and the QUIC
\* reject, then restores routes and rules; `seen` is the dump taken before.
PassAlive(ok) ==
    /\ pc = "idle" /\ entry.state = "applied" /\ Alive
    /\ failover' = IF failover = 0 THEN entry.policy ELSE failover
    /\ watchdog' = Watched
    /\ IF ok THEN net' = net \cup {"quic"} /\ Restoring("pass", {byp} \cup (net \cap {"tun"}))
       ELSE /\ pc' = "teardown" /\ job' = [Rest EXCEPT !.why = "pass"]
            /\ UNCHANGED <<net, mig>>
    /\ UNCHANGED <<journals, link, byp, uplink, child, restarts, history>>

HealDone ==
    /\ AllDone /\ job.why \in {"respawn", "restart"}
    /\ failover' = entry.policy /\ watchdog' = Watched
    /\ torn' = torn \ {"wiring"}
    /\ Restoring(job.why, job.seen)
    /\ UNCHANGED <<journals, kernel, uplink, child, restarts, unsaved, orphaned>>

Visited(r) == job' = [job EXCEPT !.todo = @ \ {r}]
ToRestore(r) == pc = "restore" /\ r \in job.todo

RestoreTun(ok) ==
    /\ ToRestore("tun")
    /\ IF "tun" \in job.seen \cup net
         THEN ok /\ UNCHANGED net
         ELSE IF ok THEN link = entry.idx /\ net' = net \cup {"tun"} ELSE UNCHANGED net
    /\ IF ok THEN Visited("tun") /\ UNCHANGED pc ELSE pc' = "teardown" /\ UNCHANGED job
    /\ UNCHANGED <<journals, link, byp, uplink, child, sup, mig, history>>

\* A bypass route at the current uplink is added again if the dump lacks it;
\* an occupied key or an error defers that.  Without an uplink, or when an
\* earlier migration dropped the resource, nothing is done.
RestoreBypass(u, ok) ==
    /\ ToRestore(u)
    /\ u \notin entry.byp \/ uplink \in {"none", u}
    /\ byp' = IF /\ ok /\ u \in entry.byp /\ uplink = u
                 /\ u \notin job.seen /\ byp = "absent" THEN u ELSE byp
    /\ Visited(u)
    /\ UNCHANGED <<journals, link, net, uplink, child, sup, pc, mig, history>>

\* Routes come before rules; a rule that is not there is added.
RestoreRule(ok) ==
    /\ ToRestore("rule") /\ job.todo = {"rule"}
    /\ IF ok THEN net' = net \cup {"rule"} /\ Idle
       ELSE pc' = "teardown" /\ UNCHANGED <<net, job, mig>>
    /\ UNCHANGED <<journals, link, byp, uplink, child, sup, history>>

-----------------------------------------------------------------------------
(* migrate_owned_bypass: the bypass route follows the uplink.  An error    *)
(* defers the migration to a later pass.                                   *)

MigrationEnds == pc' = "restore" /\ mig' = NoMig /\ Visited(mig.old)

Moving(u) == ToRestore(u) /\ u \in entry.byp /\ uplink \notin {"none", u}
Was       == uplink \in entry.byp
KeyClear(u) == byp \in {"absent", u} \/ (Was /\ byp = uplink)

\* A foreign route on the key, or no inventory: nothing is changed.
MigrateDeferred(u, ok) ==
    /\ Moving(u)
    /\ ok => ~KeyClear(u)
    /\ Visited(u)
    /\ UNCHANGED <<journals, kernel, uplink, child, sup, pc, mig, history>>

\* The desired route joins the entry and is saved before the kernel is
\* touched; one that is in the entry already is taken to be durable.
Migrate(u, ok) ==
    /\ Moving(u) /\ KeyClear(u)
    /\ IF Was THEN ok /\ UNCHANGED journals
       ELSE /\ entry' = [entry EXCEPT !.byp = @ \cup {uplink}]
            /\ Save(entry', ok)
    /\ IF ok THEN /\ mig' = [old |-> u, new |-> uplink, was |-> Was,
                             here |-> byp = u, there |-> byp = uplink]
                  /\ pc' = "migrate"
                  /\ UNCHANGED <<job, unsaved>>
       ELSE /\ unsaved' = unsaved \cup {uplink}
            /\ Visited(u)
            /\ UNCHANGED <<pc, mig>>
    /\ UNCHANGED <<kernel, uplink, child, sup, torn, orphaned>>

\* The exclusive add; when the old route holds the key it is deleted first.
MigrateAdd ==
    /\ pc = "migrate"
    /\ \/ mig.there /\ pc' = "dropOld" /\ UNCHANGED byp
       \/ ~mig.there /\ byp = "absent" /\ byp' = mig.new /\ pc' = "dropOld"
       \/ /\ ~mig.there /\ byp # "absent" /\ mig.here
          /\ byp' = IF byp = mig.old THEN "absent" ELSE byp
          /\ pc' = "replace"
    /\ UNCHANGED <<journals, link, net, uplink, child, sup, job, mig, history>>

MigrateReplace ==
    /\ pc = "replace" /\ byp = "absent"
    /\ byp' = mig.new
    /\ pc' = "forget"
    /\ UNCHANGED <<journals, link, net, uplink, child, sup, job, mig, history>>

\* The key is taken: a claim made just now is withdrawn, an older one kept.
MigrateConflict(ok) ==
    /\ pc = "replace" \/ (pc = "migrate" /\ ~mig.there /\ ~mig.here)
    /\ byp # "absent"
    /\ IF mig.was THEN ok /\ UNCHANGED journals
       ELSE entry' = [entry EXCEPT !.byp = @ \ {mig.new}] /\ Save(entry', ok)
    /\ MigrationEnds
    /\ UNCHANGED <<kernel, uplink, child, sup, history>>

\* The add or a delete fails with its outcome unknown: both claims stay, and
\* an old route that was removed is put back if that works.
MigrateFails ==
    /\ pc \in {"migrate", "replace", "dropOld"}
    /\ byp' \in {byp} \cup (IF pc = "dropOld" \/ mig.there \/ byp # "absent" THEN {}
                            ELSE {mig.new} \cup (IF pc = "replace" THEN {mig.old} ELSE {}))
    /\ MigrationEnds
    /\ UNCHANGED <<journals, link, net, uplink, child, sup, history>>

\* The old route is deleted, by its exact next hop; NotFound is fine.
MigrateDropOld ==
    /\ pc = "dropOld"
    /\ byp' = IF byp = mig.old THEN "absent" ELSE byp
    /\ pc' = "forget"
    /\ UNCHANGED <<journals, link, net, uplink, child, sup, job, mig, history>>

MigrateForget(ok) ==
    /\ pc = "forget"
    /\ entry' = [entry EXCEPT !.byp = @ \ {mig.old}]
    /\ Save(entry', ok)
    /\ MigrationEnds
    /\ UNCHANGED <<kernel, uplink, child, sup, history>>

-----------------------------------------------------------------------------
(* teardown_xray_entry, under disconnect_xray, a failed connect or pass,   *)
(* and the startup recovery of open_with_all.                              *)

Disconnect ==
    /\ pc = "idle"
    /\ entry # NoEntry
    /\ pc' = "teardown"
    /\ job' = [Rest EXCEPT !.why = "request"]
    /\ UNCHANGED <<journals, kernel, uplink, child, sup, mig, history>>

\* The link carries the tunnel's name but not the journaled ifindex.
Unverified == link # 0 /\ (entry.idx = 0 \/ entry.idx # link)

TeardownBegin(ok) ==
    /\ pc = "teardown"
    /\ failover' = 0 /\ watchdog' = "absent"
    /\ net' = IF ok THEN net \ {"quic"} ELSE net
    /\ job' = [job EXCEPT !.todo = (entry.res \ {"process"}) \cup entry.byp,
                          !.held = IF ok THEN {} ELSE {"quic"}]
    /\ IF Unverified
         THEN pc' = "finish" /\ entry' = [entry EXCEPT !.state = "stale"]
         ELSE pc' = "removing" /\ UNCHANGED entry
    /\ torn' = {}
    /\ UNCHANGED <<disk, link, byp, uplink, child, restarts, mig, unsaved, orphaned>>

\* Resources go in the reverse of the order they were added in.
Rank(r) == CASE r = "dns" -> 1 [] r = "rule" -> 2 [] r = "address" -> 4 [] OTHER -> 3

RemoveItem(r, ok) ==
    /\ pc = "removing" /\ r \in job.todo
    /\ \A s \in job.todo : Rank(r) <= Rank(s)
    /\ IF ok THEN /\ net' = net \ {r}
                  /\ byp' = IF byp = r THEN "absent" ELSE byp
                  /\ Visited(r)
       ELSE /\ r \in {"address", "dns"} => link # 0
            /\ job' = [job EXCEPT !.todo = @ \ {r}, !.held = @ \cup {r}]
            /\ UNCHANGED <<net, byp>>
    /\ UNCHANGED <<journals, link, uplink, child, sup, pc, mig, history>>

Leftover(left) == [entry EXCEPT !.state = "stale", !.byp = left \cap Uplinks,
                                !.res = {"process"} \cup (left \cap Resources)]

\* Bug: a tunnel whose child was stopped is forgotten, whatever is left.
AfterStop_Forgets(left) == NoEntry

\* The process marker stays as long as anything else does.
AfterStop(left) == IF left = {} THEN NoEntry ELSE Leftover(left)

\* The child, tracked or only recorded, is stopped and its files removed.
StopProcess ==
    /\ pc = "removing" /\ job.todo = {}
    /\ link' = 0 /\ net' = LinkGone
    /\ tracked' = FALSE /\ running' = 0 /\ staged' = 0
    /\ entry' = AfterStop(job.held)
    /\ pc' = "finish"
    /\ UNCHANGED <<disk, byp, uplink, sup, job, mig, history>>

\* The child did not stop, or its files could not be removed.
StopProcessFails ==
    /\ pc = "removing" /\ job.todo = {}
    /\ \/ UNCHANGED <<link, net, tracked, running>>
       \/ link' = 0 /\ net' = LinkGone /\ tracked' = FALSE /\ running' = 0
    /\ entry' = Leftover(job.held)
    /\ pc' = "finish"
    /\ UNCHANGED <<disk, byp, uplink, staged, sup, job, mig, history>>

\* The caller saves; the entry in memory stands whether that works or not.
Finish(ok) ==
    /\ pc = "finish"
    /\ Save(entry, ok)
    /\ restarts' = IF job.why = "request" THEN 0 ELSE restarts
    /\ Idle
    /\ UNCHANGED <<entry, kernel, uplink, child, failover, watchdog, history>>

-----------------------------------------------------------------------------
\* reapply_dns: after systemd-resolved restarts; a failed apply reverts, or
\* not.  All is saved if the flag of any tunnel changed.
ReapplyDns(ok) ==
    /\ pc = "idle"
    /\ entry.state = "applied"
    /\ link # 0 /\ link = entry.idx
    /\ net' \in {net \cup {"dns"}} \cup (IF ok THEN {} ELSE {net, net \ {"dns"}})
    /\ disk' \in {disk, entry}
    /\ UNCHANGED <<entry, link, byp, uplink, child, sup, core, history>>

Crash ==
    /\ pc # "down"
    /\ pc' = "down" /\ job' = Rest /\ mig' = NoMig
    /\ entry' = NoEntry
    /\ tracked' = FALSE
    /\ failover' = 0 /\ restarts' = 0 /\ watchdog' = "absent"
    /\ torn' = {}
    /\ orphaned' = (orphaned \/ (link # 0 /\ disk.idx # link))
    /\ UNCHANGED <<disk, kernel, uplink, staged, running, unsaved>>

Restart ==
    /\ pc = "down"
    /\ entry' = disk
    /\ IF disk = NoEntry THEN pc' = "idle" /\ UNCHANGED job
       ELSE pc' = "teardown" /\ job' = [Rest EXCEPT !.why = "request"]
    /\ UNCHANGED <<disk, kernel, uplink, child, sup, mig, history>>

ChildDies ==
    /\ link # 0
    /\ link' = 0 /\ net' = LinkGone
    /\ running' = 0
    /\ orphaned' = FALSE
    /\ UNCHANGED <<journals, byp, uplink, tracked, staged, sup, core, torn, unsaved>>

UplinkChanges ==
    /\ uplink' \in (Uplinks \cup {"none"}) \ {uplink}
    /\ UNCHANGED <<journals, kernel, child, sup, core, history>>

\* Other tools, link flaps and restarts of systemd-resolved.
Outsider ==
    /\ \/ byp' = (IF byp = "absent" THEN "foreign" ELSE "absent") /\ UNCHANGED net
       \/ \E r \in net \cap {"tun", "rule", "dns"} : net' = net \ {r} /\ UNCHANGED byp
    /\ UNCHANGED <<journals, link, uplink, child, sup, core, history>>

-----------------------------------------------------------------------------
Apply(ok) ==
    \/ Spawn(ok) \/ TakeIndex(ok) \/ JournalStep(ok) \/ KernelStep(ok) \/ Commit(ok)
    \/ Respawn(ok) \/ ReloadDone(ok)

Restore(ok) ==
    \/ RestoreTun(ok) \/ RestoreRule(ok)
    \/ \E u \in Uplinks : RestoreBypass(u, ok) \/ MigrateDeferred(u, ok) \/ Migrate(u, ok)
    \/ MigrateConflict(ok) \/ MigrateForget(ok)

Teardown(ok) ==
    \/ TeardownBegin(ok) \/ Finish(ok)
    \/ \E r \in Resources \cup Uplinks : RemoveItem(r, ok)

\* Steps of the thread that is in the core.
CoreStep ==
    \/ \E ok \in BOOLEAN : (Apply(ok) \/ Restore(ok) \/ Teardown(ok)) /\ Outcome(ok)
    \/ /\ \/ NoIndex \/ SkipBypass \/ NoResolved \/ HealDone
          \/ MigrateAdd \/ MigrateReplace \/ MigrateDropOld \/ StopProcess
          \/ (KernelConflict /\ Taken)
       /\ UNCHANGED troubles
    \/ (KernelConflict \/ MigrateFails \/ StopProcessFails) /\ Trouble

Resolve == (HealDead \/ WatchDead) /\ UNCHANGED troubles
Look    == Sample(TRUE) /\ UNCHANGED troubles

\* Requests and passes that find the core unlocked.
Entering ==
    \/ \E ok \in BOOLEAN :
         /\ (\E c \in Configs : Connect(c, ok) \/ Reload(c, ok)) \/ PassAlive(ok)
              \/ ReapplyDns(ok)
         /\ Outcome(ok)
    \/ (HealStalled \/ Disconnect \/ Restart) /\ UNCHANGED troubles

World == (Crash \/ ChildDies \/ UplinkChanges \/ Outsider \/ Sample(FALSE)) /\ Trouble

Next == CoreStep \/ Resolve \/ Look \/ Entering \/ World

Spec == Init /\ [][Next]_vars

\* The thread in the core finishes what it began, passes come every ten
\* seconds, and a watchdog keeps looking; no uplink has to come back.
FairSpec == Spec /\ WF_vars(CoreStep) /\ SF_vars(Resolve) /\ WF_vars(Look)

-----------------------------------------------------------------------------
(* Properties.                                                             *)

AtRest == pc = "idle"

\* Whatever the tunnel has in the kernel, its child included, is listed in
\* the file, whichever saves failed.  The one exception is a bypass route
\* whose save failed in an earlier pass: migrate_owned_bypass finds it in
\* memory and installs it without saving again.
DiskCovers ==
    /\ net \ {"quic"} \subseteq disk.res
    /\ link # 0 \/ "quic" \in net => "process" \in disk.res
    /\ byp \in Uplinks => byp \in disk.byp \cup unsaved

\* When the daemon has forgotten the tunnel, nothing of it is left: no child,
\* no link, no rule, no reject table, no route (but for the exception above).
ForgottenIsClean ==
    AtRest /\ entry = NoEntry =>
        link = 0 /\ net = {} /\ byp \notin Uplinks \ unsaved /\ ~tracked

\* Only a crash between the appearance of a link and the save of its ifindex
\* makes teardown_xray_entry refuse the tunnel's own link: no failed save,
\* respawn, reload or teardown does.
KnowsItsLink ==
    AtRest /\ link # 0 /\ ~orphaned => entry.idx = link

\* Between requests the three records of a tunnel cover one another: what is
\* in the network is on disk, memory knows its own link, and an entry that was
\* forgotten has left nothing behind.
RecordsCover == TypeOK /\ ForgottenIsClean /\ DiskCovers /\ KnowsItsLink

\* A tunnel reported running has its address, unless a reload failed after it
\* had replaced the child: the pass restores routes and rules only.
RunningIsWired ==
    AtRest /\ Running /\ "wiring" \notin torn => link = entry.idx /\ "address" \in net

\* The child runs the staged configuration, which is the one whose probe
\* policy is journaled and supervised, unless a reload failed half way.
ConfigAgrees ==
    AtRest /\ Running /\ torn = {} =>
        /\ running = staged /\ running = entry.policy
        /\ failover \in {0, running}

\* A tunnel reported running is the one the journal describes.
RunningAgrees == RunningIsWired /\ ConfigAgrees

\* An `applied` tunnel that is dead does not stay so while the uplink is up:
\* it is respawned, or torn down once the budget is spent, although reloads,
\* failed looks and outages take away what its watchdog saw.
DeadIsResolved ==
    (AtRest /\ entry.state = "applied" /\ ~Alive)
        ~> (Alive \/ entry.state # "applied" \/ uplink = "none")

=============================================================================
