# Network Orchestrator: verification project

TLA+ models of the Linux daemon of Network Orchestrator
(`src/crates/daemon`, with the parts of `src/crates/core` it rests on), the TLC
runs that check them on small instances, and TLAPS proofs of the properties
that matter most. Paths below are relative to the repository root `src/`;
`core.rs` is `crates/daemon/src/core.rs`, `server.rs` and `main.rs` are its
neighbours.

## 1. The system

The daemon runs as root and changes the network on behalf of unprivileged
clients (a desktop window, a command line): it adds routes, brings VPN tunnels
up, owns DNS settings, and must take all of it back when it is asked to, when
the client dies, when it is stopped, and after a crash. Its parts are

| component | state | operations | interacts through |
|---|---|---|---|
| ownership journal (`core.rs`, `core/src/journal.rs`, `policy.rs`) | entries `(uid, owner)` with a state and resources, in memory and in `state.json`; the kernel's routing table | apply, remove, cleanup of a user or a session, shutdown, recovery at start | called under the core mutex by everything else |
| attach reconcile (`core.rs`) | none of its own: applied attach entries and a dump of the kernel | a pass every 10 s and after an uplink change | rewrites entries and routes under the core mutex |
| routing intents (`core.rs`, `intents.rs`) | one document per user, and an attach entry for each enabled intent | set, delete, replay at start | one closure under the core mutex |
| always-on enrolment (`always_on.rs`, `server.rs`) | one document per user: definitions, enabled or not, and a pause flag | set, remove, resume, "Disconnect all", replay | store mutex, then core mutex, in separate closures |
| client sessions (`server.rs`) | pidfds and a deadline per user | track a connection, look every 5 s, clean up | tells the core to drop a user's owners |
| process lifecycle (`main.rs`) | running, stopping, gone | start, loops, SIGTERM | aborts tasks, waits for closures |
| Xray tunnels (`core.rs`, `xray_process.rs`) | a child process, its TUN link, routes, rules, a bypass route, DNS; staged and running configuration | connect, reload, respawn, rebind, restore, migrate the bypass, disconnect, recover | core mutex, the child |
| WireGuard tunnels (`core.rs`, `wireguard.rs`, `netlink.rs`) | a kernel link with one of two names, routes, rules, DNS | connect, restore, disconnect, recover | core mutex, netlink |
| OpenVPN tunnels (`core.rs`, `openvpn_process.rs`, `core/src/openvpn_management.rs`) | a child process that makes sessions of its own, the management snapshot, the network of the last push | connect, poll, apply, clear, restore, disconnect, recover | core mutex, a management socket |
| multinode failover (`failover.rs`) | verdict and streak per node, the tag last applied | probe round, pick a tag, send a command, stop | a subprocess to Xray; dropped by the core |
| tunnel watchdog (`watchdog.rs`, `egress.rs`) | egress tracker, streaks, cooldowns, a slot with one request | sample, probe, publish, acknowledge | the core takes the request and posts `recovered` |
| manual edits (`core.rs`) | an ordered list of what was added for the user and what was taken from others | add and delete routes and rules, pass, undo | core mutex |
| conditional rules (`cond_rules.rs`, `server.rs`, `core.rs`) | one document per user, `cond:` entries | put, remove, evaluate on network changes | no lock on the document; the core mutex after its readings |
| DNS (`core.rs`, `dns.rs`) | per-link settings in systemd-resolved, flags in the entries | apply, re-apply, revert | steps of the tunnels |
| clients, engine, macOS helper, applications | outside the daemon | | IPC |

What is hard here: one mutex serialises the core, but each kernel call and each
write of the journal can fail or be the last thing the process does; a request
is a chain of closures with no lock held in between; a closure outlives the
timeout, the abort of its task and the shutdown sweep; children and worker
threads go on by themselves and are heard of late; time limits race with late
answers; and the kernel's tables change under the daemon's feet.

What makes each part correct:

* **journal**: nothing the daemon knows it installed is ever missing from the
  file (a crash at any instant leaks nothing), memory covers the kernel, foreign
  routes are left alone;
* **attach reconcile, intents**: a pass strands no route; an enabled intent is
  armed and an armed one recorded; the core is always freed again;
* **always-on**: a pause and a removal hold, an enrolled definition comes back,
  a stop ends and leaves nothing;
* **sessions**: no live client is overlooked but one that a recycled pid hides, a
  grace is a full grace, a dead session ends;
* **tunnels**: what is in the network is claimed on disk first, a forgotten
  tunnel has left nothing behind, links and rules of others stay, what is
  reported as running is what the journal describes, a dead tunnel is resolved;
* **failover**: commands of an old worker never reach a new Xray, verdicts are
  smoothed, the balancer settles on the right node, workers end;
* **watchdog**: restarts rest on evidence of the current child, keep their
  cooldown, and answer every change of the underlay;
* **manual edits**: what was taken from others is put back or still listed;
* **conditional rules**: an acknowledged rule is in the file unless overlapping
  requests changed it, and the routes converge to what rules and addresses say.

## 2. Modules

| module | models | state and actions in the code |
|---|---|---|
| `RouteLedger` | what a write-ahead journal promises, abstractly | claims per owner, which may grow at will and shrink only by what is not installed; used by the journal and by two tunnels |
| `OwnershipJournal` | the journal for generic owners | `journal`, `disk`, `kernel` are `DaemonCore::journal`, `state.json` and the routing table; `Apply`..`RollbackDone` are `apply_routes_inner` and `apply_routes_transactional`, `TeardownEntry`..`SweepDone` are `teardown` and `teardown_entry`; `Crash` and `Open` bracket a recovery |
| `AttachReconcile` | `reconcile_network` for attach entries, extending the journal | one pass: `PassBegin`, then per entry `ReconcileEntry`, `Withdraw`, `Install`, `EntryReconciled` |
| `RoutingIntents` | intents and their store, extending `AttachReconcile` | `job` is the request that holds the core: `IntentSet`..`IntentSaveFails` are `net_intent_set`, `IntentDel` is `net_intent_del`, `ReplayLoad`..`ReplayDone` are `replay_intents`; in between run the journal's own steps |
| `AlwaysOn` | enrolment, replay, session cleanup, stop and restart | a request is a chain of closures (`Spawn`, `StoreStep`, `ApplyStep`, `RemoveStep`, `CleanupStep`), `Timeout` leaves one behind in `late`; `ReplayLockStore` and `ReplayRun` are the two locks of the replay loop |
| `ClientSessions` | `ClientTracker` and `watch_client_sessions` for one user | `Track`, `Expired` and `Cleanup`, with time in watcher intervals; `PidOf` gives processes their numbers, which may be shared |
| `XrayTunnel` | one Xray tunnel | `entry` and `disk` are its journal entry in memory and on disk, `link`, `net`, `byp` what the kernel has; the steps of `apply_xray_plan` and `rebind_xray_link` are one list walked by `JournalStep` and `KernelStep`; `HealDead`, `Migrate*`, `Reload*`, `Stop*` are the functions of those names; `watchdog` is what `watchdog.online()` would say, `Sample` its worker looking at the uplink, `WatchDead` the pass that gives a dead tunnel without a watchdog a new one |
| `WireGuardTunnel` | one full WireGuard tunnel | `links` are the two names it may use; `CreateLink`, `TakeIndex`, `JournalStep`, `KernelStep` are the staged connect, `TeardownBegin`, `RemoveItem`, `RemoveLink` and `Finish` its teardown |
| `OpenVpnTunnel` | one OpenVPN tunnel | `queue` is the management socket, `run` the snapshot it is folded into; `Poll` is `reconcile_openvpn`, which may read any part of it; `Establish`, `Progress` (the states on the way to a session) and `Drop` are the child's own doing |
| `ManualEdits` | the `manual` owner | `entry.list` is the ordered resource list, `Net(s)` and `Sup(s)` its two kinds of element; `Undo` walks it backwards, `Without` is the `retain` that drops an element |
| `ConditionalRules` | the rule store, its handlers and evaluations | a request loads the document and runs `Unlink`, `Create`, `Write`, `Rename` without a lock, then reads rules, addresses and routes (`ReadRules`, `ReadAddrs`, `ReadRoutes`), then works in the core (`Enter`, `Item`) |
| `Failover` | one balancer over generations of its worker | `Round`, `SpawnCommand`, `Finish` of the worker thread; `StopSupervisor`, `ReplaceXray`, `StartSupervisor` of the core |
| `Watchdog` | the worker, its netlink listener and the core's recoveries | `Sample`, `Observe`, `CancelCleared`, `Publish`; `TakeRequest`, `HealDead`, `Respawn`, `Recovered` |
| `OwnershipProofs` | the theorems about the journal, attach reconcile and intents, which extend one another | |
| `PerUserProofs` | the theorems about `AlwaysOn`, `ClientSessions` and `ConditionalRules`, the state kept per user; the three share no variable | |
| `FailoverProofs`, `WatchdogProofs`, `WireGuardTunnelProofs`, `OpenVpnTunnelProofs`, `XrayTunnelProofs`, `ManualEditsProofs` | the theorems about the module of that name, and the inductive invariants they need | |
| `MC*` | model values and instance definitions for TLC | |

Conventions. A definition whose comment starts with `Bug:` is a plausible
mistake in the definition after it; no specification uses one, they show that
the properties would notice. Variables marked *history* record something a
property needs and influence nothing. A set stands for a list where the code
walks a list without depending on its order. Where the code compares instants,
the models keep the answer to the comparison (is the cooldown over, has the
grace passed). In the tunnel modules and in those of manual edits and
conditional rules, every failing call, crash and outside event is a *trouble*,
and a behaviour has at most `MaxTroubles` of them; the journal, intents,
always-on, sessions and failover have no such bound.

Choices a reader should know of:

* `OwnershipJournal`: `kernel[r]` says who installed a route; the kernel itself
  only knows the protocol number, and deletion (`Deletes`) only looks at that.
  A failed save may have taken effect (the rename is before the directory sync);
  this holds for every store of the daemon and is modelled so in every module.
  So may a failed netlink call, whose reply is awaited for a limited time
  (`netlink.rs:1674`, `netlink.rs:1114`): adds, removals and rollbacks fail with
  their effect done or not. A route whose add failed so has the owner `"lost"`:
  it carries the daemon's protocol number, and what identical adds and deletions
  make of it is as in the code. The effect is there when the call fails; that
  it may come a little later makes no difference, since the next command waits
  for the same actor.
* `AttachReconcile`, `RoutingIntents`: what `attach_desired` derives is an
  arbitrary set of routes. With `Intents = {}` the second module is the first.
* `AlwaysOn`: definitions are of the static-routes kind. `StoreFails` covers
  errors before and after the rename. `late` holds one lingering closure per
  connection. The session watcher is reduced to "expires at any time".
* Tunnels: one tunnel each, full, with one object of each kind (address, route,
  rule, DNS setting, bypass), which is what the order of steps and the claims
  tell apart. Netlink commands may be cut off with their effect done. A
  failing re-apply of DNS leaves the setting or not (`dns.rs:220`, `dns.rs:261`).
  Link numbers are not reused by the kernel.
* `ConditionalRules`: applying the routes of a `cond:` owner is one step, since
  the journal takes it apart; a route lost there is a destination others hold.
  Every connection may edit at any time, as in the code.
* `Failover`: a round's probes are one step. A killed command may still have its
  request in flight until the core replaces Xray, not longer.
* `Watchdog`: a path never comes back unnoticed (the signature holds carrier
  counters), an interruption on the same path is `PathBreaks`. The 30 s age
  limit of a sample is left out, so a recovery may happen a little earlier than
  in the code. DNS streaks and anomalies drive no decision and are left out. A
  failed respawn or rebind tears the owner down and ends the model.

## 3. Runs

| run | instance | states | shows |
|---|---|---|---|
| `journal` | two users with one owner each, two contended routes | 1,017,048 | `NoOrphan`; `IndInv` (with `DiskCoversMemory`, `MemoryCoversKernel`, `InFlight`); `ForeignUntouched`; the refinement of `RouteLedger` |
| `routing_intents` | a client's attach owner and an intent that derive one route | 300,826 | `IntentsInv` (with `OnlyExitsOrphan`, `IntentsAgree`); `CoreFreed`; the refinement of `AttachReconcile` |
| `always_on` | one connection whose requests may time out and linger, one definition | 185,804 | `StaysDown` (with `PauseHolds`, `RemovedStaysDown`); `EnrolledComesBack`; `StopEnds` |
| `sessions` | three processes, two of them with one number, grace of two looks | 8,280 | `SessionInv` (with `LiveTracked`, `Armed`); `FullGrace`; `DeadSessionEnds` |
| `xray_tunnel` | two uplinks, two configurations, one respawn, three troubles | 667,012 | `RecordsCover` (with `DiskCovers`, `ForgottenIsClean`, `KnowsItsLink`); `RunningAgrees`; `DeadIsResolved` |
| `wireguard_tunnel` | two names, four troubles | 215,137 | `RecordsAgree` (with `LinksOnDisk`, `ForgottenIsClean`, `DnsApplies`); `LeavesOthers`; `LinkGoesLast`; `DeadIsResolved`; the refinement of `RouteLedger` |
| `openvpn_tunnel` | a split and a full push, a queue of five, three troubles | 290,409 | `RecordsAgree`; `FollowsSession`; `OneFull`; `DeadIsResolved`; `FlushedComesBack`; the refinement of `RouteLedger` |
| `manual_edits` | two kernel keys, a list of three, three troubles | 351,854 | `PutBack`; `RecordsAgree` (with `OnDisk`); `OverrideReturns` |
| `conditional_rules` | two connections, two rules over one destination, two requests, one trouble | 1,147,982 | `StoreSound` (with `SavedWhole`); `Converges` |
| `failover` | a primary and a backup, two generations | 225,424 | `StaleNeverLands`, `FlipsNeedTwo`, `Settles`, `StoppedEnds` |
| `watchdog` | stall limit 2, one crash respawn, leaks | 2,692,208 | `EvidenceSound` (with `EvidenceFresh`); `RestartsSpaced` |
| `watchdog_live` | no probes | 256,206 | `ChangeAnswered` |

The bounds: two owners and two routes are what it takes for one entry to get in
another's way in the middle of a list; a request that times out and the next one
of the same connection for one closure to cross another (the inductive invariant
of section 4 was also checked with two connections, one of them slow); three
processes for one to die, one to stay and one to come late, with the number of
the dead one; two connections and two rules for saves to overlap, on the same
rule and on different ones (one link and one trouble is what this leaves room
for; with one connection `Converges` was checked with two links and two
troubles, in 758,890 states); two generations for an old worker to meet a new Xray; a stall
limit of two for a streak to span a recovery. Three troubles let a step fail,
its cleanup fail too, and the daemon die before it tries again; four, for
WireGuard, add an outside edit in between. A queue of five holds a session, its
loss and its successor unread, with a state on the way to it. The `watchdog` run ignores two history variables
by a `VIEW` (no guard and none of its properties reads them), and leaves out the
network coming to rest, which only matters to liveness. `CHECK_DEADLOCK FALSE`
stands only in the watchdog configurations: a tunnel that is torn down stops for
good.

### Known cases

The properties say what holds in every state. Where the code has a case that is
otherwise, the property sets exactly that case aside with a history variable or
a condition, and the model still contains it: without the exception TLC reports
a violation. These are the cases.

* **Lost reply.** An add that is reported as failed after the kernel took it is
  not rolled back, since the rollback goes over the routes before it
  (`policy.rs:79`), and the entry keeps what could not be rolled back or is
  dropped (`core.rs:5184`): a route with the daemon's protocol number and no
  owner (`"lost"` in `kernel`). `policy.rs:69` says that the error comes with
  the routes "that may still be installed"; for the bypass route the code does
  keep both claims after an ambiguous failure (`core.rs:4694`).
* **Attach pass.** A pass adds routes before the entry names them
  (`core.rs:5077`); a crash in between leaves a route no recovery finds, and a
  pass whose save fails leaves the file behind the kernel until the next one
  (`orphans` in `OnlyExitsOrphan`).
* **Failed attach.** An attach or a replayed intent whose apply fails keeps its
  spec "so reconcile retries it" (`core.rs:5189`), but passes visit applied
  entries only (`core.rs:4268`): it stays stale until it is set again or the
  daemon restarts (`amiss` in `IntentsAgree`).
* **Intents.** "Disconnect all" and `routes.remove` take intents down and leave
  their records enabled, so they return with the next start. A set whose save
  fails after the rename is undone and reported as failed, and comes into effect
  at the next start; a deletion that fails so leaves the intent running until
  then.
* **Identical routes.** Removing an owner withdraws the identical route another
  owner has installed since the first copy was flushed from outside: the kernel
  tells only protocol numbers apart (`core.rs:6414`).
* **Pause.** An apply in flight when "Disconnect all" comes runs after its sweep
  and stays up under the pause (`server.rs:559`; `crossed` in `PauseHolds`).
* **Late closure.** A closure that waits for the core gets it after the shutdown
  sweep and leaves its owner up and journaled; the next start removes it
  (`main.rs:263`).
* **Recycled pid.** A process that gets the number of a dead one, before the dead
  handle is reaped, is not tracked, and its session may expire while it lives
  (`server.rs:86`; `missed` in `LiveTracked` and `FullGrace`), where
  `server.rs:58` speaks of "the exact peer (not a recycled pid)". `LiveTracked`
  says that nobody else is overlooked.
* **Late tunnel.** A client that reconnects between the expiry of its session and
  the cleanup loses its tunnel (`server.rs:138`); a connect request that
  outlives its client and the session brings up a tunnel nobody looks after
  (`server.rs:1195`).
* **Forgotten tag.** A command cut off at its time limit after Xray executed it is
  not known to the worker: if the verdict then returns to the tag it believes
  applied, the balancer stays on the other node until the next change
  (`failover.rs:364`; `torn` in `Settles`).
* **Change in a recovery.** A change of the underlay between the start of the new
  child and `recovered` is taken as satisfied (`core.rs:4457`; `slipped` in
  `ChangeAnswered`).
* **Xray reload.** A reload that fails after `config.json` was rewritten leaves
  the old child running while the next respawn starts the new configuration
  (`core.rs:2378`); one that fails after the child was replaced can leave a
  running tunnel without its address, which no pass restores (`core.rs:4455`;
  `torn` in `ConfigAgrees` and `RunningIsWired`).
* **Xray index.** A crash between the appearance of the link and the save of its
  ifindex makes the recovery refuse to stop the child it cannot verify
  (`core.rs:2588`; `orphaned` in `KnowsItsLink`).
* **Xray bypass.** "No kernel mutation before both old and desired intent are
  durable" (`core.rs:4634`) does not hold for a pass that finds in memory the
  claim an earlier pass could not save (`unsaved` in `ForgottenIsClean` and
  `DiskCovers`).
* **WireGuard fallback.** The second link name is created under the record of the
  first one; a crash, or a reply that got lost, before the name is saved leaves
  the link behind (`core.rs:3813`; `lost` in `LinksOnDisk`).
* **OpenVPN reconnect.** A poll that reads the loss of a session together with
  what came after it acts on the last state only. With a state on the way to the
  next session it returns without clearing (`core.rs:3487`); when that session is
  there, the pushes are compared and not the links, so with the same push the
  routes stay journaled on the link that is gone and no pass restores them
  (`core.rs:3537`, `core.rs:4399`; `"session"` in `amiss`, for `FollowsSession`
  and `FlushedComesBack`), where
  `docs/plans/2026-09-22-07-s4-openvpn-linux.md` line 23 asks for the
  owned set to be replaced with every push of a reconnect.
* **OpenVPN DNS.** A failing re-apply of DNS records the setting as off, also when
  it is still on the link (`core.rs:4152`); the clear of the next push then
  passes over it and drops its claim (`core.rs:3675`; `"dns"` in `amiss`, for
  `ImplementsLedger`). It stays until the link goes.
* **Manual edits.** `AlreadyExists` counts as put back although the slot may hold
  the user's own route, whose removal failed or which lies below in the list
  (`core.rs:6430`); a suppression that could not be saved stays in memory and a
  later pass carries it out unrecorded (`core.rs:5377`); an edit that fails half
  way leaves the entry `applying`, and passes stop visiting it (`doubt` in
  `PutBack` and `OnDisk`).
* **Conditional store.** Nothing orders two requests of a user, and the temporary
  file has a fixed name (`cond_rules.rs:385`): one request can rename the file
  the other has just created and not yet written (TLC finds it in eight steps
  without any failure). Until it is written the document cannot be read, an
  evaluation then withdraws the routes of every rule, and a crash makes it
  unreadable for good. Two loads followed by two saves lose an update in the same
  way. The comment at `cond_rules.rs:254` promises "the same ACL/atomicity rules
  as the always-on store", which is behind a mutex (`server.rs:185`). `SavedWhole`
  says how far this goes: the document is whole outside a chain of overlapping
  saves (`mixed`), and rules that no save of the chain changes keep what was
  acknowledged.

### Fairness

* `RoutingIntents`: the thread that holds the core goes on, systemd restarts the
  daemon. Nothing is assumed of kernel calls or saves.
* `AlwaysOn`: spawned closures run (tokio's blocking pool and a mutex that is
  always released), timers tick; strong fairness of a replay that works, which
  is the claim "if the interface is there often enough, it comes up". Weak
  fairness of a step that takes a mutex is enough because no closure holds one
  for ever.
* `ClientSessions`: the timer ticks, closures run.
* Tunnels and `ManualEdits`: the thread in the core finishes what it began
  (weak); the 10 s pass, and the one-second poll of OpenVPN, get the core again
  and again although requests keep taking it (strong: std mutexes are not fair,
  but requests are finitely many in any interval and the loops never stop).
  Troubles are bounded, so "in the end it is resolved" means: once things stop
  failing. A child that said it is leaving leaves. The watchdog's worker keeps
  looking at the uplink (weak); the uplink itself may stay away for ever, and a
  dead Xray tunnel is resolved only while there is one, as in the code.
* `ConditionalRules`: the loop keeps waking and its turn in the core comes,
  evaluations go on. A save may stop half way for ever.
* `Failover`: workers go on; the core replaces a dead Xray (10 s passes).
  Liveness is stated from the moment the network is calm.
* `Watchdog`: the worker loops, samples succeed again and again once the network
  is calm, passes come, time passes.

No process is assumed to die, no client to act, no network to recover.

## 4. Proofs

Each theorem holds for every value of the constants that the named assumption of
its module admits. Where a run bounds the number of failures, crashes and
outside events (`MaxTroubles`), generations (`MaxSups`), respawns or queue
entries, the theorem is for any bound, and so for any finite behaviour. An
inductive invariant that no run needs is defined in the proof module; each was
checked with TLC on the instance of its run before it was proved.

The proofs are laid out alike. The invariant is a conjunction of named parts;
there is one lemma per action (or per group of actions that differ in nothing
the proof sees) which first states what the action does as plain equations, then
what the invariant says of the phase it starts in, and then shows each part; the
theorem combines them, and each property follows from the invariant.

### Ownership (`OwnershipProofs`)

For any owners, routes and users (`OwnersAssumption`: owners are not the four
marker strings, each has a user, those that passes visit are owners), any
intents among the latter (`IntentsAssumption`), and any sets that the specs
derive.

* `JournalInv` (`IndInv`), and from it `TypeCorrect`, `CrashLeaksNothing`
  (`NoOrphan`), `FileNeverBehind` (`DiskCoversMemory`), `MemoryNeverBehind`
  (`MemoryCoversKernel`). None of them is inductive alone: that the file
  covers the kernel after a route is added needs that it covered memory before;
  that memory covers the kernel at the end of an apply or a teardown needs
  `InFlight`, which says what of the current entry has been visited, held back
  or is still to come. Adds, removals and rollbacks may fail with their effect
  done; only an add that does so loses its route. One lemma per group of actions: `ApplyInv`,
  `ApplyWorkInv`, `TeardownInv`, `OtherInv`.
* `ForeignSafe`: the action property, from the guards on kernel steps.
* `JournalImplementsLedger`: under the mapping "claimed is the file, installed
  is what the kernel holds per owner", each step is a step of `RouteLedger` or a
  stutter; the invariant supplies the ledger's guards. The ledger lets objects
  vanish and claims change in groups, so that the same specification serves the
  tunnels.
* `PassesStrandNothing` (`OnlyExitsOrphan` of `AttachSpec`), from
  `AttachInvariant`. `IndInv` does not survive the passes, which add routes
  before the entry names them; `Accounted` replaces it: every route in the
  kernel is listed by the file while the daemon is down, by its entry while it
  runs, or by what the apply, the teardown or the pass under way has added or has
  still to withdraw; or an ended process left it, or its add was lost.
* `RecordsMatchEntries` (`IntentsInv`) from `IntentsInductive`. Between requests
  records and entries agree; during one they do not, so the invariant says which
  intent the request is about, that all others agree (`OthersAgree`), and what
  each step knows of that one (`JobKnows`).
* `IntentsAddNothing` (`ImplementsAttach`): each step of an intent's request is
  one of the journal's, a pass's, or a stutter, so that `PassesStrandNothing`
  holds of intents too.

### Always-on (`PerUserProofs`)

For any connections, any of them slow, and any definitions
(`DefsAssumption`: there is one); the run has one of each.

* `PutDownStaysDown` (`StaysDown`) from `AlwaysOnInvariant`. `PauseHolds` and
  `RemovedStaysDown` speak of states with nothing in flight and say nothing of
  those in between. The invariant does: while paused, an apply in flight has been
  crossed, and something is up only if it was crossed, or the cleanup is still to
  come or cut off; a definition that is being removed is neither enrolled nor
  applied, unless crossed; and once the owner is torn down it is not up. The
  argument is in two lemmas: `DocumentKept` for the steps that leave the document
  alone (they bring up only what was in flight or is replayable, and put nothing
  new in flight) and `StoreKeeps` for the closures that change it.

### Sessions (`PerUserProofs`)

For any processes, any numbers they get, shared or not, and any grace:

* `SessionInvariant` (`SessionInv`), `NoClientOverlooked` (`LiveTracked`),
  `GraceIsFull` (`FullGrace`). The strengthening `Armed` says that an armed
  grace means an empty list of handles and a silence at least as long as the
  deadline is old, and that nobody connects before birth; `LiveTracked` says of
  each overlooked client that a dead one had its number.

### Conditional rules (`PerUserProofs`)

For any rules, links, requests and number of troubles (`CondAssumption`: links
have positive numbers, and the loop and "nobody" are not editors):

* `CondTypes` (`CondTypeOK`), for any number of editing connections: whatever
  the order in which they load, unlink, create, write and rename, documents,
  entries and routes keep their shape, and the core is held by the evaluation
  that is inside. That the link an evaluation picks is a link needs the least of
  a set to exist (`LowestLink`).
* `RulesAreStored` (`StoreSound`), for any number of editing connections too.
  `SavedWhole` speaks of the file alone. The invariant `SaveInv` adds what each
  step of a save knows. One that overlaps no other carries a document that
  differs from the file only in the rule it is about, and how far the temporary
  file has come tells whether a rename would be safe (`Alone`). In a chain of
  overlapping saves every document in play, the temporary file's included,
  agrees with the stored one on the rules that the chain does not change
  (`Overlapping`).

### Manual edits (`ManualEditsProofs`)

For any finite set of kernel keys, any bound on the list, and any number of
troubles (`ManualAssumption`):

* `EditsArePutBack` (`PutBack`) and `ManualRecordsAgree` (`RecordsAgree`), from
  `ManualInvariant`. That an undo which walks the list backwards ends with the
  original objects in place depends on the order of the list: a suppression must
  not be listed after the object that was put in its slot, or the walk meets an
  occupied slot. `Orders` says this of every list outside the cases in `doubt`;
  `Written` says that memory lists nothing the file does not, and `Coverage` which
  list names what is in the kernel: the file always, memory between edits, the
  list without its new claim before the kernel is asked, and during an undo what
  is still to be done and what could not be.
* The facts about lists (`AppendList`, `FrontList`, `TailList`, `ConsList`,
  `UndoList`, `WithoutList`) are for lists of any length. `Without` is a recursive
  function, and what it keeps is proved by an induction over the naturals put as
  a statement about a set of numbers, as in the proofs of OpenVPN.

### Failover (`FailoverProofs`) and watchdog (`WatchdogProofs`)

For any list of candidates and any number of generations
(`FailoverAssumption`), and for any stall limit and restart budget
(`WatchdogAssumption`).

* `FailoverTypes` (`TypeOK`), `StaleCommandsDie` (`StaleNeverLands`) and
  `FlipsAreEarned` (`FlipsNeedTwo`), from `FailoverInvariant`. That the picked tag
  is a candidate needs the least position of a set to exist (`FirstPosition`).
  `SentIsLive` is the point of the slot's lock: a stopped supervisor has no
  command under way. `StreakIsLast` says what a streak remembers.
* `EvidenceIsSound` (`EvidenceSound`) and `RestartsAreSpaced` (`RestartsSpaced`),
  from `WatchdogInvariant`. Between the report of a recovery and its
  acknowledgement the worker does hold evidence of the old child; `Acknowledged`
  says it cannot use it, and `CooldownKept` that a request in the slot is younger
  than the cooldown, whoever started it.

### Tunnels

For any number of failing calls, failing saves, crashes and outside edits.

* `WireGuardTunnelProofs`: `TunnelRecordsAgree` (`RecordsAgree`), `OthersAreLeft`
  (`LeavesOthers`), `LinkIsLast` (`LinkGoesLast`), `TunnelImplementsLedger`
  (`ImplementsLedger`), from `TunnelInvariant`: how far the connect has come
  (`Progress`), whose the links are and under which name file and journal know
  them (`LinkNames`), and that what is on the link is in the file, in the
  journal, and during a teardown among what is left to remove (`Coverage`).
* `OpenVpnTunnelProofs`: `OpenVpnRecordsAgree` (`RecordsAgree`),
  `NetworkFollowsSession` (`FollowsSession`), `OnlyOneFull` (`OneFull`),
  `OpenVpnImplementsLedger` (`ImplementsLedger`), from `OpenVpnInvariant`, for any
  length of the management queue. That the network is that of the session needs
  the events nobody has read yet: a link that is not the journaled one was left
  by a `reconnecting` still in the queue (`OnLink`, `Heard`), or by one that was
  read together with the states after it. What a teardown leaves is kept in an
  invariant of its own (`Forgotten`), since it holds with a stray DNS setting as
  well. What a poll makes of
  a whole queue is a recursive function of it; its facts (`ReadFacts`) are
  proved by an induction over the naturals put as a statement about the least
  element of a set (`SetInduction`), which needs no operator as a parameter.
* `XrayTunnelProofs`: `XrayRecordsCover` (`RecordsCover`) and `XrayRunningAgrees`
  (`RunningAgrees`) from `XrayInvariant`, for any uplinks, configurations and
  respawns (`XrayAssumption`: there is an uplink, none has the name of a marker,
  configurations are not 0). Its parts: what each phase of connect, reload and
  respawn has claimed and what is not there yet (`Progress`); what a teardown has
  left (`Left`); who may hold the bypass route's key in each step of a migration
  (`Moves`); which of the staged, running and journaled configurations agree
  (`Agreement`). What the watchdog has seen bears on no safety property and has
  a small invariant of its own (`Seen`).

### Only model-checked

* All liveness: `CoreFreed`, `EnrolledComesBack`, `StopEnds`, `DeadSessionEnds`,
  the three `DeadIsResolved`, `FlushedComesBack`, `OverrideReturns`, `Converges`,
  `Settles`, `StoppedEnds`, `ChangeAnswered`. It rests on fairness and `ENABLED`,
  which the prover does not handle.

Every invariant and every action property of the runs, and each refinement, is
stated by a theorem above.

## 5. Plan

Done: models and runs of the journal with its abstract specification, attach
reconcile and intents, always-on and lifecycle, sessions, the Xray, WireGuard and
OpenVPN tunnels, manual edits, conditional rules, failover and watchdog; proofs of
every safety property and of every refinement that a run checks.
Left: composition, that is `AlwaysOn` over the journal's real entries, sessions
feeding its `SessionExpires`, and the watchdog's requests feeding `XrayTunnel`.

## 6. Not modelled

* Authorization: one answer before a handler. Framing: I/O.
* Events and connections: a subscriber that lags behind the broadcast of 256
  events loses owner changes (`server.rs:43`) and asks again; connections take
  permits of a semaphore (`server.rs:285`) that handlers waiting for the core may
  use up. Neither holds state the models keep.
* Netlink, NetworkManager, Tailscale and command execution: they enter as steps
  that work, fail, or fail with their effect done.
* Validation, parsing and planning (`route_plan.rs`, `connect_plan.rs`,
  `xray.rs`, `subscription.rs`, `vpn.rs`): large pure functions over text and
  addresses, whose interest is in the data and not in an order of steps; the
  models take their results as arbitrary. They are most of the code by lines.
* The in-process engine, the command line, the macOS helper and bridge, the
  desktop applications, packaging and end-to-end scripts: clients of the daemon
  or implementations for other platforms.

`PROJECT.json` gives the reason per component, and lists the hazards of the code
with the properties that watch them.
